SPECIFICATION LiveSpec
CONSTANTS
  NPROC = 2
  CPU = {c1, c2}
  Policies = {0, 2}
  PsPriority <- NoPriority
  CfsPriority <- SomeCfsPriority
  Forkers = {1}
  MaxAcc = 0
PROPERTIES SomebodyRuns DefaultIsFair
CHECK_DEADLOCK FALSE
