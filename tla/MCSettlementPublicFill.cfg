SPECIFICATION Spec
CONSTANTS
  b1 = b1
  b2 = b2
  Books = {b1, b2}
  NumProducts = 0
  Sources <- AllSources
  Prices = {1}
  Quotes <- AnyQuote
  PolicyList <- TokenPolicies
  GapLane = FALSE
  Cadence = 2
  MaxGap = 0
  MaxLead = 2
  MaxFreeBooks = 2
  PublicAfter = 2
  Retention = 1
  MaxWindows = 2
  MaxReads = 0
  MaxTime = 8
INVARIANTS
  PublicCanFillOpen
CHECK_DEADLOCK FALSE
