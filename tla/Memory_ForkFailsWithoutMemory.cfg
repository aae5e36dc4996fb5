SPECIFICATION Spec
CONSTANTS
  init = init  p1 = p1  p2 = p2  null = null
  Proc = {init, p1, p2}
  InitProc = init
  Frame <- MCFrame
  Pages = 4
  PageSize = 2
  KStack = 2
  MaxHeap = 2
  Image <- MCImage
  Boot <- MCBoot
  NoFrame = null
CHECK_DEADLOCK FALSE
PROPERTIES ForkFailsWithoutMemory
