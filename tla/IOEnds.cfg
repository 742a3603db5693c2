SPECIFICATION FairSpec
CHECK_DEADLOCK FALSE
CONSTANTS
  d1 = d1
  d2 = d2
  n1 = n1
  Procs = {p1, p2}
  First = p1
  Devices = {d1}
  Name <- OneName
  MaxCalls = 3
  MaxStarts = 1
  Losses = FALSE
  Races = TRUE
INVARIANT TypeOK
 
