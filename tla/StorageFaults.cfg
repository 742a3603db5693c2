SPECIFICATION Spec
CHECK_DEADLOCK FALSE
CONSTANTS
  p1 = p1
  p2 = p2
  p3 = p3
  p4 = p4
  Procs = {p1, p2, p3, p4}
  MemorySize = 5
  PageSize = 2
  Requirement <- SmallRequirement
  Byte = {0, 1}
  DeviceLoss = FALSE
  DiskFaults = TRUE
INVARIANT FramesExclusive
 
INVARIANT EntryComplete
 
