SPECIFICATION BuySpec
CONSTANTS
  g1 = g1  g2 = g2  p1 = p1
  Null = Null
  Half = 16
  Guilds = {g1, g2}
  InitTotal <- ShopTotal
  MaxItems = 5
  SeedGoods <- ThreeSeeds
  Products = {p1}
  NewTiers = {"rare"}
  Stocks = {0}
  ListingIds = {1, 2}
  Prices = {2}
  Cap <- ShopCap
  Day <- Midnight
  Days = {0, 1}
  MaxTime = 1
  Sessions = {s1, s2}
  MayFail = TRUE
PROPERTIES
  ImplementsListings
  RequestsEnd
CHECK_DEADLOCK FALSE
