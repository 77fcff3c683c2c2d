SPECIFICATION Spec
CONSTANTS
  b1 = b1
  b2 = b2
  Books = {b1, b2}
  NumProducts = 0
  Sources <- AllSources
  Prices = {1, 2}
  Quotes <- AnyQuote
  PolicyList <- TokenPolicy
  GapLane = FALSE
  Cadence = 2
  MaxGap = 0
  MaxLead = 2
  MaxFreeBooks = 2
  PublicAfter = 2
  Retention = 1
  MaxWindows = 2
  MaxReads = 0
  MaxTime = 8
INVARIANTS
  BoundaryPrintShared
CHECK_DEADLOCK FALSE
