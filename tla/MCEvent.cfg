CONSTANTS
  Users = {t1, t2, t3}
  NoThread = NoThread
SPECIFICATION EventSpec
INVARIANTS NoLostSignal
PROPERTY ImplementsAutoReset
