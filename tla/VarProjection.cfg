CONSTANTS
  g1 = g1
  g2 = g2
  Names = {g1, g2}
  Links = {l}
  Values = {v}
  Undef = Undef
  Mixes <- MCMixes
SPECIFICATION Spec
INVARIANTS LinksStayBound GlobalNamesAnswerGlobals
PROPERTIES ExchangesKeepVariables ImplementsScopes
