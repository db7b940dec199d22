CONSTANTS
  VenueCount = 2
  PriceLevels = 1
  OrdersPerLevel = 1
  MakerCount = 1
  BasePrice = 40
  Tick = 2
  PriceNoise <- SmallNoise
  Qty <- SmallQty
  Sample <- FirstLevels
  Venues <- VenueIds
  Levels <- LevelIds
  Orders <- OrderIds
  Makers <- MakerIds
  Edges <- BookEdges
  Side <- BookSide
  Price <- LevelPrice
  TotalQty <- LevelTotal
  OrderCount <- Counts
  Limit <- OrderLimit
  Quantity <- OrderQty
  InitialQuote <- VenueQuote
  TickSize = 2
  Noise <- Walk
  DefaultMid = 1000
  IdleLimit = 2
  InventoryLimit = 100
  MaxSupersteps = 6
SPECIFICATION Spec
INVARIANT ArbitrageSignalled
