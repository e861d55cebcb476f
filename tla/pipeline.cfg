CONSTANTS
  f1 = f1
  f2 = f2
  f3 = f3
  p1 = p1
  p2 = p2
  p3 = p3
  p4 = p4
  Files = {f1, f2, f3}
  Parts = {p1, p2, p3, p4}
  PartsOf <- MCPartsOf
  Blank = {p3}
  Vanishing = {p4}
  QueueSize = 1
  SuperBatch = 2
  MaxAttempts = 2
SPECIFICATION FairSpec
INVARIANTS NothingDropped WorkIsKept
PROPERTY EveryRunEnds
CHECK_DEADLOCK FALSE
