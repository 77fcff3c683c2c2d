SPECIFICATION MCSpec
CONSTANTS
  MaxTxs = 3
  MaxReorgs = 1
  MaxFaults = 1
INVARIANTS
  CursorMeansIndexed
  ProjectionIsReplay
PROPERTIES
  FinalIsForGood
  FinalizedIsIndexed
CHECK_DEADLOCK FALSE
