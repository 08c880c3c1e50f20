SPECIFICATION Spec
CONSTANTS
  Proc = {p1, p2}
  Block = {b1, b2}
  Val = {v0, v1}
  NoBlock = NoBlock
  NoData = NoData
  LOGSIZE = 4
  MAXOPBLOCKS = 2
  OpBlocks = 1
  NLOG = 5
SYMMETRY Symmetry
INVARIANTS CommitAlone PinnedExactly DurableOnReturn
PROPERTY ImplementsStore
