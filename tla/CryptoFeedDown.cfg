CONSTANTS
  MaxPrice = 3
  MaxSize = 1
  EnoughParts = 1
  OfParts = 2
  VwapSizes = {0, 1}
  MaxChanges = 1
  MaxFeed = 2
  Unreadable = FALSE
SPECIFICATION FeedSpec
INVARIANT NoPriceWhileDown
CHECK_DEADLOCK FALSE
