SPECIFICATION LiveSpec
CONSTANTS
  Proc = {init, q1, q2}
  initproc = init
  NoProc = NoProc
  NoThread = NoThread
  NKT = 1
  Calls <- ProcCalls
INVARIANTS ParentAlive WaitersWaitForLiving
PROPERTY InitKeepsReaping
CHECK_DEADLOCK FALSE
