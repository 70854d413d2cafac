SPECIFICATION FairLedSpec
CONSTANTS
  HalfBytes = 4
  Lengths = {1, 2, 3, 4, 8}
  MaxFrames = 3
INVARIANTS SentAsAsked CallsAreSeparate
PROPERTY SetColorsReturns
CHECK_DEADLOCK FALSE
