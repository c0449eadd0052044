SPECIFICATION ServerSpec
CONSTANTS
  r1 = r1  r2 = r2  r3 = r3
  k1 = k1  h1 = h1  h2 = h2  p1 = p1  p2 = p2
  Requests = {r1, r2, r3}
  Keys = {k1}
  Hashes = {h1, h2}
  Key <- KeyOf
  Hash <- HashOf
  Processes = {p1, p2}
  Home <- HomeOf
  Environments <- Surroundings
  Null = Null
INVARIANTS
  AtMostOnce
  DoubleEffectExplained
  ReplayFaithful
  AckedStaysClaimed
  OrphanExplained
PROPERTIES
  NeverWaits
CHECK_DEADLOCK FALSE
