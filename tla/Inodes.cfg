SPECIFICATION Spec
CONSTANTS
  p1 = p1
  p2 = p2
  Proc = {p1, p2}
  NoProc = NoProc
  a = a
  b = b
  Name = {a, b}
  NoName = NoName
  Calls <- SomeCalls
  NINODES = 3
  NINODE = 2
  NFILE = 1
INVARIANTS TableExact LinksExact NeverStuck WaitsForLocksOnly NothingLeaks
PROPERTY ImplementsLife
