SPECIFICATION MCSpec
CONSTANTS
  w1 = w1
  w2 = w2
  Workers = {w1, w2}
  Host = w1
  MaxMentions = 2
  MaxAttempts = 2
  MaxFaults = 2
INVARIANTS
  OneOrderPerCommand
  BroadcastIsRecorded
  OneReplyPerMention
  OnlyTrueResults
PROPERTIES
  KeepsErrand
  EveryCommandIsTaken
  LandedOrderIsReported
CHECK_DEADLOCK FALSE
