SPECIFICATION LiveSpec
CONSTANTS
  NPROC = 3
  CPU = {c1, c2}
  Policies = {1}
  PsPriority <- SomePsPriority
  CfsPriority <- NoPriority
  Forkers = {1}
  MaxAcc = 5
PROPERTIES NeverOvertaken SomebodyRuns
CHECK_DEADLOCK FALSE
