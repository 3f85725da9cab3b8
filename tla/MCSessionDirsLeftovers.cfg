CONSTANTS
  None = None
  Procs = {p1, p2}
  Published = 1
  MaxSessions = 4
SPECIFICATION SessionSpec
SYMMETRY SessionSymmetry
INVARIANT NoStrayLockFiles
CHECK_DEADLOCK FALSE
