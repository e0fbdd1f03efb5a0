CONSTANTS
  BufSize = 2
  AuxSize = 1
  MaxChunks = 3
  MaxSaved = 1
  Kinds = {"list", "head"}
  LockPaused = FALSE
  SlowGpu = FALSE
  Breaks = FALSE
SPECIFICATION Spec
INVARIANTS TypeOK DecodesInOrder SyncMeansDecoded OneOwner
CHECK_DEADLOCK FALSE
PROPERTIES StreamDrains
