SPECIFICATION TxSpec
CONSTANTS
  g1 = g1  g2 = g2  g3 = g3  i1 = i1  i2 = i2
  s1 = s1  s2 = s2  s3 = s3  s4 = s4
  Null = Null
  Half = 32768
  Guilds = {g1, g2, g3}
  InitTotal <- TxTotal
  Items = {i1}
  Tier <- TxTier
  InitOwner <- TxOwner
  Auctions = {a1}
  Bids = {b1, b2, b3}
  Amounts = {2, 3}
  Window = 1
  Extension = 2
  MaxTime = 2
  Clients = {s1, s2}
  Workers = {s3}
  MayFail = TRUE
SYMMETRY BidderIds
INVARIANTS
  NothingStale
PROPERTY ImplementsAuctionHouse
CHECK_DEADLOCK FALSE
