\* Two loops at a time, three registrations, one descriptor.
CONSTANTS
  Events = {e1, e2, e3}
  Fds = {d}
  Dirs = {read}
  Nil = Nil
  MaxLoops = 2
  MaxTime = 1
  Uses <- Subjects
  Departures = {}
SPECIFICATION Spec
INVARIANTS ListAgrees NotInsideItself
PROPERTIES ServedInTurn ImplementsQueue HandlersRun
CHECK_DEADLOCK FALSE
