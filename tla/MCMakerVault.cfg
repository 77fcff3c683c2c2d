SPECIFICATION MCSpec
CONSTANTS
  NumWindows = 2
  NumProviders = 2
  PairTicks = 4
  Bps = 10
  ParamSets <- AllParams
  Amounts = {3, 4}
  MaxSupplied = 7
  MaxQuotes = 2
INVARIANTS EveryTokenIsAccounted OpenWindowsAreCounted
PROPERTIES QuoteNeverMovesTheClaim SharesKeepTheirWorth CapitalComesHome
CHECK_DEADLOCK FALSE
