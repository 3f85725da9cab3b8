CONSTANTS
  Configs <- SomeConfigs
SPECIFICATION FairSpec
INVARIANTS WorkHasToken TokensInUse EndsRight
PROPERTIES AbortIsFinal AllEnd
CHECK_DEADLOCK FALSE
