CONSTANTS
  Scripts = {s, 0}
  Vars = {x}
  Values = {0, 1}
  Delays = {0, 1, 2}
  MaxIds = 3
  MaxTime = 2
  Limit = 2
  Idle = Idle
  Nobody = Nobody
SPECIFICATION Spec
INVARIANTS
  TypeOK
  InOnePlace
PROPERTIES
  ServiceOrder
  LoopsEnd
