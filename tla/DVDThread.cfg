CONSTANTS
  Discs = {d1, d2}
  NoDisc = NoDisc
  MaxReads = 2
  MaxSessions = 1
  CanLoad = TRUE
SPECIFICATION Spec
INVARIANTS RightResult DiscIsPrivate EachReadOnce
PROPERTY CallsReturn
CHECK_DEADLOCK FALSE
