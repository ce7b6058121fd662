SPECIFICATION Spec
CONSTANTS
  Tape = {t1, t2, t3}
  NoTape = NoTape
  Base = {b1, b2, b3}
  FinalBase = {n1}
  Chain <- NamingChain
  NumBatchThreads = 2
  QueueSize = 1
  SamePath = TRUE
  DistinctNames = TRUE
  DeleteNativeFile = TRUE
  DeleteFailedCaptureFile = FALSE
  NamingScheme = TRUE
  Command = "none"
SYMMETRY Symmetry
INVARIANTS
  AudioKept
  AsReported
CHECK_DEADLOCK FALSE
