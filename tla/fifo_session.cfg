SPECIFICATION FairSessionSpec
CONSTANTS
  Size = 4
  Chunk = 2
  LowMark = 20
  Mark = 1
  MaxSpace = 2
  Byte <- MCByte
  Buffers <- MCBuffers
  Lengths <- MCLengths
INVARIANTS
  DecoderNeverSleeps
  ResetIsServed
  DecisionIsCurrent
PROPERTIES
  FlushablePipe
  EveryWriteReturns
  StopIsObeyed
CHECK_DEADLOCK FALSE
