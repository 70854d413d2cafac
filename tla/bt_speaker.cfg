SPECIFICATION FairBtSpec
CONSTANTS
  DmaSize = 1
  MaxSamples = 2
  Rates = {44100, 48000}
  ConfigRate = 44100
  QueueLength = 2
  Attributes = 1
  MaxReports = 5
INVARIANTS
  HeapAccounted
  RendererFollowsPhone
  TracksReported
PROPERTY CallbackReturns
CHECK_DEADLOCK FALSE
