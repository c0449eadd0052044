SPECIFICATION Spec
CONSTANTS
  g1 = g1  g2 = g2  g3 = g3  i1 = i1  i2 = i2
  Null = Null
  Half = 32768
  Guilds = {g1, g2, g3}
  InitTotal <- TwoTotal
  Items = {i1, i2}
  Tier <- TwoTier
  InitOwner <- TwoOwner
  Auctions = {a1, a2}
  Bids = {b1, b2, b3, b4}
  Amounts = {0, 30, 31, 32, 34}
  Window = 2
  Extension = 2
  MaxTime = 4
SYMMETRY Ids
INVARIANTS
  ActiveBidLeads
  HighestIsMax
  ReservedBacked
  ItemInOneAuction
  MoneyConserved
PROPERTIES
  RaisedByFivePercent
  AntiSnipe
  TransferWithPayment
  PaidOnce
CHECK_DEADLOCK FALSE
