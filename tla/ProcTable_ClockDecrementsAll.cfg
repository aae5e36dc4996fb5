SPECIFICATION Spec
CONSTANTS
  init = init  p1 = p1  p2 = p2  p3 = p3  idle = idle  null = null
  Proc = {init, p1, p2, p3}
  InitProc = init
  Idle = idle
  NoProc = null
  MaxDelay = 2
  Status <- MCStatus
CHECK_DEADLOCK FALSE
SYMMETRY MCSymmetry
PROPERTIES ClockDecrementsAll
