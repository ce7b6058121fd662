SPECIFICATION FairSpec
CONSTANTS
  Tracker = {k1}
  Server = {h1}
  Host <- OneHost
  Sender = {s1}
  Stage = {"start", "ready", "none"}
  NoTracker = NoTracker
  NoSender = NoSender
  NoServer = NoServer
  QueueSize = 2
  EnableReporting = TRUE
  PauseRecordingOnRejectedStart = TRUE
  LookBackRecording = FALSE
  AllowAutomaticRecording = TRUE
  MayShutDown = TRUE
  MaxMessages = 3
  MaxSkips = 1
  MaxLost = 1
INVARIANTS
  InOrder
  OneAnswerActedOn
  SkipsAccounted
PROPERTIES
  ImplementsFifo
  EveryMessageSettled
CHECK_DEADLOCK FALSE
