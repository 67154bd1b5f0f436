SPECIFICATION Spec
CONSTANTS
  Root = Root
  a = a
  b = b
  Spaces = {Root, a, b}
  Above <- MCAbove
  Tails = {1, 2}
  Names <- MCNames
  Patterns = {0, 1}
  Exportable <- MCExportable
  MaxMade = 2
  Departures = {}
  None = None
INVARIANTS TablesAgree
PROPERTIES ImplementsCommands
