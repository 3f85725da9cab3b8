CONSTANTS
  None = None
  Pool = Pool
  N = 3
  Externals = {e1, e2}
  MaxInjects = 1
  MaxForks = 1
  JecSize = 2
SYMMETRY Symmetry
SPECIFICATION Spec
INVARIANT InjectedJobHasThread
CHECK_DEADLOCK FALSE
