CONSTANTS
  Hosts = {h1, h2}
  CpuThread = CpuThread
  NoThread = NoThread
  Calls <- CoreCalls
  Breakpoints = FALSE
  MaxSteps = 1
SPECIFICATION Spec
INVARIANTS StateIsWanted 
  
