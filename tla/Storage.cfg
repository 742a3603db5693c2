SPECIFICATION Spec
CHECK_DEADLOCK FALSE
CONSTANTS
  p1 = p1
  p2 = p2
  p3 = p3
  p4 = p4
  Procs = {p1, p2, p3}
  MemorySize = 6
  PageSize = 2
  Requirement <- TightRequirement
  Byte = {0, 1}
  DeviceLoss = FALSE
  DiskFaults = FALSE
INVARIANT TypeOK
INVARIANT CounterAgrees
INVARIANT NoFrameLeaks
INVARIANT AllocationNeverRunsShort
PROPERTY PrivatePages
