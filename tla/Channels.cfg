SPECIFICATION Spec
CONSTANTS
  Kinds = {"file", "stream", "console"}
  Files <- MCFiles
  Texts <- MCTexts
  Sizes = {1, 2}
  Offsets <- MCOffsets
  Counts <- MCCounts
  MaxBytes = 4
  MaxTurns = 2
  Departures = {}
  All = All
CHECK_DEADLOCK FALSE
INVARIANTS ReadsWhatIsThere WritesLandWhereMeant LeavesInTime
