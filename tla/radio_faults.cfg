SPECIFICATION Spec
CONSTANTS
  Tracks = 2
  Formats <- AnyFormat
  Readers = {r1, r2}
  Decoders = {d1, d2}
  Cap = 2
  EnoughBlocks = 2
  EndingTracks = {0, 1}
  ConnectsFail = TRUE
  ReadsFail = TRUE
  ServersHangUp = TRUE
  AnswersTakeTime = TRUE
  MaxHasty = 1
SYMMETRY TaskSymmetry
INVARIANTS
  OneWriter
  OneDecoder
PROPERTIES
  OnlySelectedTrack
CHECK_DEADLOCK FALSE
