SPECIFICATION Spec
CONSTANTS
  Tracker = {k1, k2}
  Server = {h1}
  Host <- OneHost
  Sender = {s1, s2}
  Stage = {"start", "ready"}
  NoTracker = NoTracker
  NoSender = NoSender
  NoServer = NoServer
  QueueSize = 1
  EnableReporting = TRUE
  PauseRecordingOnRejectedStart = TRUE
  LookBackRecording = FALSE
  AllowAutomaticRecording = TRUE
  MayShutDown = FALSE
  MaxMessages = 2
  MaxSkips = 1
  MaxLost = 1
SYMMETRY Symmetry
INVARIANTS
  CallerOrder
CHECK_DEADLOCK FALSE
