SPECIFICATION ApiSpec
CONSTANTS
  g1 = g1  g2 = g2  g3 = g3  i1 = i1  p1 = p1
  Null = Null
  Half = 1024
  Guilds = {g1, g2, g3}
  InitTotal <- ApiTotal
  Items = {i1}
  Tier <- ApiTier
  InitOwner <- ApiOwner
  Auctions = {a1, a2}
  Bids = {b1, b2}
  Amounts = {2, 3}
  Window = 1
  Extension = 1
  MaxTime = 1
  MaxItems = 2
  SeedGoods <- OneSeed
  Products = {p1}
  NewTiers = {"rare"}
  Stocks = {1}
  ListingIds = {1}
  Prices = {3}
  Cap <- ApiCap
  Day <- OneDay
  Days = {0}
  Clients = {c1}
  Strangers = {g9}
  TooBig = TooBig
  Blank = Blank
  BadName = BadName
  IntMax = 1
SYMMETRY Ids
INVARIANTS
  WalletSound
  LeaderFunded
  MarketReconciles
  LeaderNotOlder
PROPERTIES
  StatusesExplained
  MoneyMovesByTrade
CHECK_DEADLOCK FALSE
