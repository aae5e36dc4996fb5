SPECIFICATION HeapSpec
CONSTANTS
  null = null
  TableSize = 10
  CellSize = 3
  NoFrame = null
  Pages = 8
  PageSize = 2
  TextPages = 1
  DataEnd = 3
  OrigBrk = 5
  KStackPage = 7
INVARIANTS FrameTableAgrees AtMostOneFrameIsLost HeapIsMapped
PROPERTIES ImplementsFramePool
