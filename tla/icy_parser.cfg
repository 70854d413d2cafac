SPECIFICATION Spec
CONSTANTS
  Intervals <- MCIntervals
  MaxBuf = 4
  Unit = 2
  MaxUnits = 3
  TextLen = 4
  Word = 64
INVARIANTS InStep OnlyAudioStored
