SPECIFICATION FairSpec
CONSTANTS
  Size = 5
  Chunk = 3
  LowMark = 20
  Byte <- MCByte
  Buffers <- MCBuffers
  Lengths <- MCLengths
INVARIANTS
  ChunkFits
  PositionsAgree
  NeverBothAsleep
  SleepIsJustified
PROPERTIES
  PipeSpec
  WriteReturns
  ReadReturns
