SPECIFICATION Spec
CONSTANTS
  Names = {p, q}
  Numbers <- MCNumbers
  Requirements <- MCRequirements
  MaxAvail = 2
  Limit = 3
  Departures = {}
  None = None
INVARIANTS
  MarkedWhileLoading
PROPERTIES
  VersionsStand
  LoadsTheBest
SYMMETRY MCSymmetry
