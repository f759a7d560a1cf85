SPECIFICATION FairSpec
CONSTANTS
  n1 = n1
  n2 = n2
  n3 = n3
  n4 = n4
  NULL = NULL
  Nodes <- FourNodes
  Elements <- OneToThree
INVARIANTS
  IInv
  ListShape
  QueriesAgree
PROPERTIES
  ImplementsList
  CallsActAtIndex
  ReferencesStayGood
  SortSorts
  SortReturns
CHECK_DEADLOCK FALSE
