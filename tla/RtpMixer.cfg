SPECIFICATION Spec
CONSTANTS
  Cap = 6
  Trigger = 4
  Holdoff = 3
  Wrap = 32
  RogueStep = 3
  PacketSamples = 5
  MaxSamples = 7
  Channel = {1, 2, 3}
  Timestamp = {0, 4, 7, 10, 30}
  Size = {2, 3, 8}
  MaxChunks = 4
INVARIANTS
  SpanAccounted
  AudioHeld
  OutputAligned
  FlushedAtEnd
CHECK_DEADLOCK FALSE
