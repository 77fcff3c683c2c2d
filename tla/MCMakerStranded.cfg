SPECIFICATION TradingSpec
CONSTANTS
  NumWindows = 1
  NumProviders = 1
  PairTicks = 4
  Bps = 10
  ParamSets <- OnlyWide
  Amounts = {4}
  MaxSupplied = 4
  MaxQuotes = 2
INVARIANT NothingDeployedOnceSettled
CHECK_DEADLOCK FALSE
