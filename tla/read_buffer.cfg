SPECIFICATION FairBufferSpec
CONSTANTS
  Size = 3
  Lengths <- MCLengths
  MaxTries = 2
  FifoSize = 4
  MaxStream = 6
INVARIANTS
  UnreadIsNext
  ExcessIsWhatCame
PROPERTIES
  CursorSpec
  CallsReturn
CHECK_DEADLOCK FALSE
