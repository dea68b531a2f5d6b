SPECIFICATION FairSpec
CONSTANTS
  d1 = d1
  d2 = d2
  d3 = d3
  Declarations = {d1, d2, d3}
  Requests = {s1, s2}
  Route <- Duplicates
  Node <- MCNode
INVARIANTS
  TypeOK
  NoRouteLost
  DocumentIsASnapshot
  ServedIsDocumented
  SameRoutesSameDocument
PROPERTY
  EveryCallReturns
CHECK_DEADLOCK FALSE
