SPECIFICATION FairSpec
CHECK_DEADLOCK FALSE
CONSTANTS
  p1 = p1
  p2 = p2
  p3 = p3
  Procs = {p1, p2, p3}
  Initial = p1
  CPUs = {c1}
  None = None
  Size <- Mixed
  MemorySize = 3
  Ingress = "PMCP"
  MaxCalls = 1
  Dumps = FALSE
  MissingDevices = FALSE
  DispatchFaults = FALSE
  ShortGaps = TRUE
 
INVARIANT NoThreadSleepsOverWork
PROPERTY AllFinish
