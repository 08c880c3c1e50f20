SPECIFICATION Spec
CONSTANTS
  Proc = {p1, p2}
  NoProc = NoProc
  NFILE = 1
  NOFILE = 2
  MAXSIZE = 4
  Chunk = 1
  Counts = {1, 3}
  Offsets <- SomeOffsets
  Seeds = {56}
  MaxRead = 1
  MaxDraws = 3
SYMMETRY Symmetry
INVARIANTS RefsExact OffsetExact FullPeriod
