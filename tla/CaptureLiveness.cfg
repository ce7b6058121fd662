SPECIFICATION FairSpec
CONSTANTS
  Port = {p1, p2}
  MaxTapes = 2
  MaxChunks = 2
  MaxNotes = 0
  QueueLimit = 1
  SizeLimit = 0
  TapeDurationMinimum = FALSE
  HoldResumeReportEvents = FALSE
  SendsEndMetadata = FALSE
  MayRestart = FALSE
  MayExpire = TRUE
  DiskMayFail = FALSE
  MayShutDown = FALSE
PROPERTIES
  AudioWritten
  StopCompletes
CHECK_DEADLOCK FALSE
