SPECIFICATION MCSpec
CONSTANTS
  b1 = b1
  b2 = b2
  Books = {b1}
  NumProducts = 2
  Sources <- AllSources
  Prices = {400, 401, 404}
  Quotes <- AnyQuote
  PolicyList <- CheckedThenPlain
  GapLane = FALSE
  Cadence = 1
  MaxGap = 0
  MaxLead = 2
  MaxFreeBooks = 1
  PublicAfter = 1
  Retention = 1
  MaxWindows = 2
  MaxReads = 2
  MaxTime = 5
INVARIANTS
  BooksAccounted
  ResultMatchesPrints
  ReadersKeepTheWindow
PROPERTIES
  KeepsPromise
  KeepsTenancy
  DecidedWindowCloses
  OutcomeIsFixed
  NoEarlySingleSource
  EveryWindowIsDecided
CHECK_DEADLOCK FALSE
