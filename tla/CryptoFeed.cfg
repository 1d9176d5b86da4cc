CONSTANTS
  MaxPrice = 3
  MaxSize = 1
  EnoughParts = 1
  OfParts = 2
  VwapSizes = {0, 1, 2, 3}
  MaxChanges = 2
  MaxFeed = 3
  Unreadable = TRUE
SPECIFICATION FeedSpec
INVARIANTS PriceIsCurrent VwapTakesBest Mirror NoOldLevels
CHECK_DEADLOCK FALSE
