CONSTANTS
  User = user
  Owner = owner
  Clients = {user, owner}
  Worker = w
  None = None
  Calls <- UserAndOwner
  SelfPrepare = FALSE
  TimedSleep = TRUE
SPECIFICATION Spec
INVARIANTS TypeOK DoneMeansServed NoLostWakeup
PROPERTIES WakeupServed WaitReturns StopQuits ImplementsWorkLoop
CHECK_DEADLOCK FALSE
