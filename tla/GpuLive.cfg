CONSTANTS
  Requests = {"peek", "swap"}
  MaxQueue = 1
  Size = 1
  HiWatermark = 0
  LoWatermark = 0
  Ctrls <- HighInt
  SyncGPU = TRUE
  MinDistance <- Ahead
  MaxDistance = 1
  Slot = 1
  Cycles = 1
  MaxTicks = 1
  FrameStep = TRUE
  HostCalls = {}
SPECIFICATION Spec
PROPERTIES CpuGoesOn FifoDrains
CHECK_DEADLOCK FALSE
