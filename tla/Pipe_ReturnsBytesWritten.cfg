SPECIFICATION Spec
CONSTANTS
  p1 = p1  p2 = p2  p3 = p3  idle = idle
  Proc = {p1, p2, p3}
  Idle = idle
  Size = 2
  MaxId = 1
  MaxLen = 2
  Unset = {0}
PROPERTIES ReturnsBytesWritten
