SPECIFICATION Spec
CHECK_DEADLOCK FALSE
CONSTANTS
  p1 = p1
  p2 = p2
  p3 = p3
  Procs = {p1, p2}
  Initial = p1
  CPUs = {c1}
  None = None
  Size <- Exclusive
  MemorySize = 3
  Ingress = "FIFO"
  MaxCalls = 2
  Dumps = TRUE
  MissingDevices = TRUE
  DispatchFaults = TRUE
  ShortGaps = TRUE
INVARIANT TypeOK
INVARIANT OnePlace
INVARIANT HaltsWhenDone
 
