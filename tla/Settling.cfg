SPECIFICATION FairTxSpec
CONSTANTS
  g1 = g1  g2 = g2  g3 = g3  i1 = i1  i2 = i2
  s1 = s1  s2 = s2  s3 = s3  s4 = s4
  Null = Null
  Half = 32768
  Guilds = {g2, g3}
  InitTotal <- TxTotal
  Items = {i1, i2}
  Tier <- TxTier
  InitOwner <- TxOwner
  Auctions = {a1, a2}
  Bids = {b1, b2}
  Amounts = {2}
  Window = 1
  Extension = 1
  MaxTime = 1
  Clients = {s1}
  Workers = {s3, s4}
  MayFail = FALSE
PROPERTY DueSettled
CHECK_DEADLOCK FALSE
