SPECIFICATION Spec
CONSTANTS
  Cases <- MCCases
  SegmentDuration = 1
  HoldOn = 1
  ExpireAfter = 1
  MaxTime = 3
  MaxCalls = 2
  MaxTapes = 3
  MaxUpdates = 1
INVARIANTS
  SegmentsClosed
  MissedOnlyBehind
  OwnStory
CHECK_DEADLOCK FALSE
