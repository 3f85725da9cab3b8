CONSTANTS
  Configs <- ImportConfig
SPECIFICATION Spec
INVARIANT ImportWhileOngoing
CHECK_DEADLOCK FALSE
