SPECIFICATION Spec
CONSTANTS
  init = init  p1 = p1  p2 = p2  idle = idle  error = error
  Proc = {init, p1, p2}
  InitProc = init
  Idle = idle
  Value = {0}
  ERROR = error
CHECK_DEADLOCK FALSE
SYMMETRY MCSymmetry
INVARIANT KernelContextsFit
PROPERTY ImplementsUserMachines
