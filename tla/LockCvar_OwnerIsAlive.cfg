SPECIFICATION Spec
CONSTANTS
  p1 = p1  p2 = p2  p3 = p3  idle = idle  null = null
  Proc = {p1, p2, p3}
  Idle = idle
  NoOne = null
  Mortal = {p3}
  MaxId = 3
INVARIANTS OwnerIsAlive
