CONSTANTS
  MaxPrice = 2
  MaxSize = 1
  TickSizes = {"0.01", "0.001"}
  MarketTick = "0.01"
  MaxFeed = 3
SPECIFICATION FeedSpec
VIEW View
INVARIANTS TypeOK HeapsCoherent NeverCrossed NoPhantomLevels Mirror TickMirror
PROPERTY PlainSpec
