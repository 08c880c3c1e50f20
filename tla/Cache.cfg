SPECIFICATION Spec
CONSTANTS
  Proc = {p1, p2}
  Block = {k1, k2, l1}
  LogBlock = {l1}
  NoBlock = NoBlock
  Nobody = Nobody
  Val = {v0, v1}
  NBUF = 2
  NUM = 4
  NPIN = 1
SYMMETRY Symmetry
INVARIANTS Requests NoLostCompletion BuffersExact
PROPERTY ImplementsStore
CHECK_DEADLOCK FALSE
