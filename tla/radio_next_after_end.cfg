SPECIFICATION FairSpec
CONSTANTS
  Tracks = 2
  Formats <- OnlyMpeg
  Readers = {r1, r2}
  Decoders = {d1, d2}
  Cap = 2
  EnoughBlocks = 2
  EndingTracks = {0}
  ConnectsFail = FALSE
  ReadsFail = FALSE
  ServersHangUp = TRUE
  AnswersTakeTime = TRUE
  MaxHasty = 0
PROPERTIES
  NextTrackPlays
CHECK_DEADLOCK FALSE
