SPECIFICATION FairMp4Spec
CONSTANTS
  Size = 3
  Lengths = {}
  MaxTries = 1
  FifoSize = 2
  MaxStream = 60
  Files <- MCFiles
  startsAt <- MCStartsAt
  Playable <- MCPlayable
  Huge = 1000
INVARIANTS
  InPlace
  LosesPlaceOnlyBy
PROPERTIES
  PlayableIsPlayed
CHECK_DEADLOCK FALSE
