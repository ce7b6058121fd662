SPECIFICATION FairSpec
CONSTANTS
  Tape = {t1, t2}
  NoTape = NoTape
  Base = {b1, b2}
  FinalBase = {n1}
  Chain <- FullChain
  NumBatchThreads = 2
  QueueSize = 1
  SamePath = FALSE
  DistinctNames = FALSE
  DeleteNativeFile = TRUE
  DeleteFailedCaptureFile = TRUE
  NamingScheme = FALSE
  Command = "in"
INVARIANTS
  OnePlace
PROPERTIES
  ImplementsFate
  ChainCompletes
CHECK_DEADLOCK FALSE
