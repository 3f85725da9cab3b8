CONSTANTS
  None = None
  Procs = {p1, p2}
  Published = 1
  MaxSessions = 4
SPECIFICATION SessionSpec
SYMMETRY SessionSymmetry
INVARIANTS InUseKept NewestComplete OnlyNewestLeft
PROPERTIES NewestSuperseded
CHECK_DEADLOCK FALSE
