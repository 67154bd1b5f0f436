CONSTANTS
  MaxLevel = 1
  MaxEntries = 3
  Departures = {"return"}
  Nothing = Nothing
SPECIFICATION Spec
INVARIANT
  SpentReturnsEndTheCall
