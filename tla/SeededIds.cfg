SPECIFICATION ListingsSpec
CONSTANTS
  g1 = g1  g2 = g2  p1 = p1
  Null = Null
  Half = 8
  Guilds = {g1, g2}
  InitTotal <- TradeTotal
  MaxItems = 2
  SeedGoods <- OneSeed
  Products = {p1}
  NewTiers = {"rare", "legendary"}
  Stocks = {1}
  ListingIds = {l1}
  Prices = {3}
  Cap <- TradeCap
  Day <- Midnight
  Days = {0, 1}
  MaxTime = 1
SYMMETRY Ids
INVARIANT RegistrationSucceeds
CHECK_DEADLOCK FALSE
