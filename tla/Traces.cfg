SPECIFICATION Spec
CONSTANTS
  Variables = {x, y}
  Commands = {f, g}
  Limit = 2
  OpLists = {{"write"}, {"read", "unset"}, {"rename", "delete"}, {"enter", "leave"}}
  MaxTraces = 2
  Departures = {}
INVARIANTS
  NotInsideItself
  NothingLeftQueued
  TracesOfCommands
SYMMETRY MCSymmetry
CHECK_DEADLOCK FALSE
