SPECIFICATION ListsSpec
CONSTANTS
  n1 = n1  n2 = n2  n3 = n3  n4 = n4  null = null
  Node = {n1, n2, n3, n4}
  Null = null
  Codes <- MCCodes
INVARIANT WellLinked
PROPERTY ImplementsNodeQueues
