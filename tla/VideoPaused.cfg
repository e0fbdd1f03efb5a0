CONSTANTS
  BufSize = 2
  AuxSize = 1
  MaxChunks = 3
  MaxSaved = 2
  Kinds = {"plain", "list", "head"}
  LockPaused = TRUE
  SlowGpu = FALSE
  Breaks = FALSE
SPECIFICATION Spec
INVARIANT AuxSynced
CHECK_DEADLOCK FALSE
