SPECIFICATION LiveSpec
CONSTANTS
  CPU = {c1, c2}
  Proc = {p1, p2}
  NoCPU = NoCPU
  NoProc = NoProc
INVARIANTS OneStack Mutex NoLostWakeup Assertions
PROPERTIES ImplementsAtomicSleep SleepersWake
