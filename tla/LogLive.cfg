SPECIFICATION LiveSpec
CONSTANTS
  Proc = {p1, p2}
  Block = {b1, b2, b3, b4}
  Val = {v0}
  NoBlock = NoBlock
  NoData = NoData
  LOGSIZE = 4
  MAXOPBLOCKS = 2
  OpBlocks = 1
  NLOG = 5
INVARIANT NeverPanics
PROPERTY Woken
