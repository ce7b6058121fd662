SPECIFICATION Spec
CONSTANTS
  Port = {p1}
  MaxTapes = 2
  MaxChunks = 2
  MaxNotes = 1
  QueueLimit = 1
  SizeLimit = 0
  TapeDurationMinimum = TRUE
  HoldResumeReportEvents = TRUE
  SendsEndMetadata = TRUE
  MayRestart = TRUE
  MayExpire = TRUE
  DiskMayFail = TRUE
  MayShutDown = TRUE
INVARIANTS
  HandledOnce
  OnlyWantedHandled
  WorkScheduled
  NoOrphanRecording
  PortConsistent
  MessageOrder
PROPERTIES
  ClosedStaysClosed
CHECK_DEADLOCK FALSE
