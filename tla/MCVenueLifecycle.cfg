SPECIFICATION ClosingSpec
CONSTANTS
  ann = ann
  bob = bob
  prog = prog
  nobody = nobody
  Owners <- LifecycleOwners
  NoOwner = nobody
  Authorities <- ProductSeat
  NSeats = 3
  InitialSeats = 2
  GrowMax = 1
  NNodes = 1
  PairTicks = 4
  SeatBond = 1
  MinLots = 1
  FillsCap = 2
  EvictionsCap = 1
  MaxSkips = 1
  MaxOpenOrders = 2
  MaxHandles = 1
  MaxRemoved = 1
  TradingStart = 1
  OpenDeadline = 1
  LockAt = 3
  Expiry = 3
  OrderArgs <- LifecycleOrders
  HandleSets <- Handles
  MintLots = {1}
  MaxTime = 3
  MaxOrders = 2
  MaxCash = 6
  MaxDonations = 1
INVARIANTS
  OneSeatPerOwner
  ResidueIsDonated
PROPERTIES
  LedgerCloses
  HaltNeverMints
  PositionsMoveOnlyWhileTrading
  KeepsTenancy
CHECK_DEADLOCK FALSE
