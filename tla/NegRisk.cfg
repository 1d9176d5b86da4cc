CONSTANTS
  n1 = n1
  n2 = n2
  n3 = n3
  y2 = y2
  asset = n1
  Others = {n2, n3, y2}
  Markets = {1, 2, 3}
  MarketOf <- OneTwoThree
  NoShares = {n1, n2, n3}
  Share = 6
  Cent = 2
  MaxSize = 2
  AskPrices <- FewPrices
  ALPHA = 1
  MARKET_LIMIT = 2
  MAX_VOLUME = 4
  MIN_AUTO_BUY_VOLUME = 1
  SizeTolerance = 1
  IGNORING_VOLUME = 2
  SEARCH_DEPTH = 2
SPECIFICATION Spec
VIEW View
INVARIANTS TypeOK KeptIsHedged
PROPERTIES PlacedIsHedged NoChurn NeverAboveBestAsk
