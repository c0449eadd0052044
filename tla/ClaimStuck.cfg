SPECIFICATION Spec
CONSTANTS
  r1 = r1  r2 = r2  r3 = r3
  k1 = k1  h1 = h1  h2 = h2
  Requests = {r1, r2}
  Keys = {k1}
  Hashes = {h1, h2}
  Key <- KeyOf
  Hash <- HashOf
  Environments <- Disconnects
  Null = Null
INVARIANT ReleasedAfterError
CHECK_DEADLOCK FALSE
