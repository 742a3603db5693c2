SPECIFICATION Spec
CHECK_DEADLOCK FALSE
CONSTANTS
  d1 = d1
  d2 = d2
  n1 = n1
  Procs = {p1, p2}
  First = p1
  Devices = {d1, d2}
  Name <- OneName
  MaxCalls = 2
  MaxStarts = 2
  Losses = TRUE
  Races = FALSE
INVARIANT EntriesAreWaits
INVARIANT OneDevicePerWait
PROPERTY EndsItsOwnWait
