SPECIFICATION RelaySpec
CONSTANTS
  Workers = {w1}
  Host = w1
  MaxMentions = 2
  MaxAttempts = 1
  MaxFaults = 1
INVARIANTS
  RefusedWasNeverSent
CHECK_DEADLOCK FALSE
