SPECIFICATION Spec
CONSTANTS
  t1 = t1  t2 = t2
  Things = {t1, t2}
  Snapshots <- Quotes
  MaxPrice = 8
  Ratio = 2
  MaxRows = 3
  Environments <- Surroundings
SYMMETRY Swaps
INVARIANTS
  CacheIsLatest
  NeverJumpsUnlessLost
PROPERTY ServedNeverJumps
CHECK_DEADLOCK FALSE
