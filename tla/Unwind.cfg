CONSTANTS
  MaxLevel = 2
  MaxEntries = 3
  Departures = {}
  Nothing = Nothing
SPECIFICATION Spec
INVARIANTS
  RegionsMatchText
PROPERTIES
  ImplementsTravel
