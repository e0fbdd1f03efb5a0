CONSTANTS
  Types = {t1}
  Delays <- PastAndFuture
  OffThreadDelays <- AtOnce
  MaxSliceLength = 2
  MaxBlock = 2
  Factors <- RoundingFactors
  ClockRatios <- ToGameCube
  MaxSaveTicks = 0
  MaxTicks = 2
  MaxEvents = 3
SPECIFICATION Spec
INVARIANTS SliceEndsInTime FirstComesFirst
PROPERTY TicksNeverGoBack
