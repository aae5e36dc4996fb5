SPECIFICATION FairSpec
CONSTANTS
  p1 = p1  p2 = p2  p3 = p3  idle = idle  null = null
  Proc = {p1, p2, p3}
  Idle = idle
  NoOne = null
  MaxId = 3
  Mortal = {p3}
INVARIANTS OnePlace CountersAreExact NoUseAfterDestroy NoLostWakeup
PROPERTIES ImplementsMonitor FreeLockIsTaken
