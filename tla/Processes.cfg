SPECIFICATION Spec
CONSTANTS
  MaxStages = 2
  MaxWrites = 2
  Text = 2
  Capacity = 1
  Stdouts = {"capture", "file", "channel"}
  Stderrs = {"capture", "inherit", "channel", "stdout"}
  Departures = {}
CHECK_DEADLOCK FALSE
INVARIANTS Told NobodyLeft
PROPERTIES ExecAnswers
