SPECIFICATION LiveSpec
CONSTANTS
  Proc = {init, q1}
  initproc = init
  NoProc = NoProc
  NoThread = NoThread
  NKT = 2
  Calls <- ThreadCalls
INVARIANTS SomeThreadAlive JoinersWaitForLiving
PROPERTY JoinReturns
CHECK_DEADLOCK FALSE
