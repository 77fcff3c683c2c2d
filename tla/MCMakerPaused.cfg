SPECIFICATION ClosingSpec
CONSTANTS
  NumWindows = 1
  NumProviders = 1
  PairTicks = 4
  Bps = 10
  ParamSets <- OnlyWide
  Amounts = {4}
  MaxSupplied = 4
  MaxQuotes = 1
PROPERTIES PausedCapitalComesHome
CHECK_DEADLOCK FALSE
