SPECIFICATION Spec
CONSTANTS
  Tape = {t1, t2}
  NoTape = NoTape
  Base = {b1, b2}
  FinalBase = {n1}
  Chain <- CommandChain
  NumBatchThreads = 1
  QueueSize = 2
  SamePath = TRUE
  DistinctNames = TRUE
  DeleteNativeFile = TRUE
  DeleteFailedCaptureFile = FALSE
  NamingScheme = FALSE
  Command = "plain"
INVARIANTS
  AudioKept
CHECK_DEADLOCK FALSE
