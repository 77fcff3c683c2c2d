SPECIFICATION TradingSpec
SYMMETRY Wallets
CONSTANTS
  ann = ann
  bob = bob
  prog = prog
  nobody = nobody
  Owners <- MCOwners
  NoOwner = nobody
  Authorities <- MCNoAuthorities
  NSeats = 2
  InitialSeats = 2
  GrowMax = 1
  NNodes = 2
  PairTicks = 4
  SeatBond = 0
  MinLots = 1
  FillsCap = 2
  EvictionsCap = 1
  MaxSkips = 1
  MaxOpenOrders = 2
  MaxHandles = 1
  MaxRemoved = 1
  TradingStart = 0
  OpenDeadline = 2
  LockAt = 3
  Expiry = 3
  OrderArgs <- TradingOrders
  HandleSets <- Handles
  MintLots = {1}
  MaxTime = 2
  MaxOrders = 3
  MaxCash = 8
  MaxDonations = 0
INVARIANTS
  Solvency
  PairsBacked
  EscrowMatchesBook
  TakerWithinLimit
  PriceTimePriority
  NoLiveCross
PROPERTIES
  HandleNamesOneOrder
CHECK_DEADLOCK FALSE
