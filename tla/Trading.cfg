SPECIFICATION ListingsSpec
CONSTANTS
  g1 = g1  g2 = g2  p1 = p1
  Null = Null
  Half = 8
  Guilds = {g1, g2}
  InitTotal <- TradeTotal
  MaxItems = 4
  SeedGoods <- OneSeed
  Products = {p1}
  NewTiers = {"rare", "legendary"}
  Stocks = {0, 2}
  ListingIds = {l1, l2, l3}
  Prices = {0, 2, 6}
  Cap <- TradeCap
  Day <- Midnight
  Days = {0, 1}
  MaxTime = 1
SYMMETRY Ids
INVARIANTS
  DailyCapRespected
  SalesReconcile
  SoldOutAtZero
  ListedByOwner
PROPERTIES
  UnitForMoney
  SeedKeepsTrades
CHECK_DEADLOCK FALSE
