SPECIFICATION RandomSpec
CONSTANTS
  Proc = {p1, p2}
  Seeds = {}
  MaxRead = 1
  MaxDraws = 2
INVARIANT EveryDrawCounts
CHECK_DEADLOCK FALSE
