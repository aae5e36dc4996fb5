SPECIFICATION FairSpec
CONSTANTS
  p1 = p1  p2 = p2  p3 = p3  idle = idle  null = null
  Proc = {p1, p2, p3}
  Idle = idle
  Terminal = {0}
  Line = 2
  MaxLen = 3
  NoOne = null
INVARIANTS OnePlace WritersAreServed ReadersWaitForInput
PROPERTIES WritersProceed ReadReturns
