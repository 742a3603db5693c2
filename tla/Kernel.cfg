SPECIFICATION Spec
CHECK_DEADLOCK FALSE
CONSTANTS
  p1 = p1
  p2 = p2
  p3 = p3
  Procs = {p1, p2}
  Initial = p1
  CPUs = {c1, c2}
  None = None
  Size <- Exclusive
  MemorySize = 2
  Ingress = "FIFO"
  MaxCalls = 2
  Dumps = FALSE
  MissingDevices = FALSE
  DispatchFaults = FALSE
  ShortGaps = FALSE
INVARIANT OneCPUEach
INVARIANT Residency
INVARIANT MemoryAccounted
INVARIANT WaitsHaveEntries
PROPERTY FollowsLifecycle
