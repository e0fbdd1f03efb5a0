CONSTANTS
  Hosts = {h1, h2}
  CpuThread = CpuThread
  NoThread = NoThread
  Calls <- AllCalls
  Breakpoints = TRUE
  MaxSteps = 2
SPECIFICATION Spec
INVARIANTS TypeOK LockIsExclusive StepIsRemembered
