SPECIFICATION FairSpec
CONSTANTS
  Client = {c1, c2}
  Reporter = {r1, r2}
  MaxSessions = 1
  QueueLimit = 1
  MaxMessages = 4
INVARIANTS
  ServedWithinLimit
  SameStory
PROPERTIES
  QueuedIsSent
CHECK_DEADLOCK FALSE
