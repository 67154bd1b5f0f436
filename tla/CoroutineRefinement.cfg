CONSTANTS
  Names = {a, b, c}
  MaxContexts = 4
  MaxCatches = 1
  MaxArgs = 2
  None = None
SPECIFICATION Spec
PROPERTIES
  ImplementsStack
  ErrorSettles
INVARIANTS
  TypeOK
  ChainReachesMain
  OneAnswerPerRequest
  TableMatchesContexts
PROPERTIES
  DeletionIsFinal
