SPECIFICATION Spec
CONSTANTS
  MaxObjects = 4
  MaxScripts = 3
  MaxList = 1
  Mixable = {2}
  Homes = {2}
  Callbacks = {"create", "destroy"}
  Departures = {}
  Gone = Gone
  Nowhere = Nowhere
INVARIANTS
  TablesAgree
  NothingDangles
  DeletedOnce
PROPERTIES
  DestroyedGoes
CHECK_DEADLOCK FALSE
