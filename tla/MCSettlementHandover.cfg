SPECIFICATION HandoverSpec
CONSTANTS
  b1 = b1
  b2 = b2
  Books = {b1, b2}
  NumProducts = 0
  Sources <- AllSources
  Prices <- GapPrices
  Quotes <- OwnQuotes
  PolicyList <- GapPolicies
  GapLane = TRUE
  Cadence = 1
  MaxGap = 2
  MaxLead = 3
  MaxFreeBooks = 2
  PublicAfter = 2
  Retention = 0
  MaxWindows = 2
  MaxReads = 0
  MaxTime = 6
SYMMETRY EqualBooks
INVARIANTS
  PrintsOfTheirBoundary
PROPERTIES
  PrintOrVoid
CHECK_DEADLOCK FALSE
