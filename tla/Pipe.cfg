SPECIFICATION LiveSpec
CONSTANTS
  Proc = {p1, p2}
  Byte = {b1, b2}
  NoProc = NoProc
  NoByte = NoByte
  PIPESIZE = 2
  UINTS = 4
  MaxN = 1
INVARIANTS SleepersHaveReason NotUsedFreed
PROPERTIES ImplementsFifo CallsReturn SleepersServed
CHECK_DEADLOCK FALSE
