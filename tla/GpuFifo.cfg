CONSTANTS
  Requests = {"poke", "peek"}
  MaxQueue = 1
  Size = 2
  HiWatermark = 1
  LoWatermark = 1
  Ctrls <- AllInts
  SyncGPU = TRUE
  MinDistance = 0
  MaxDistance = 1
  Slot = 1
  Cycles = 0
  MaxTicks = 1
  FrameStep = FALSE
  HostCalls = {"pause", "stop"}
SPECIFICATION Spec
INVARIANTS BlockingMeansHandled InterruptMatchesFifo DisabledMeansStopped OneCallback
CHECK_DEADLOCK FALSE
