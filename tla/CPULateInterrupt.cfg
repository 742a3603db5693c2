SPECIFICATION LiveSpec
CHECK_DEADLOCK FALSE
CONSTANTS
  p1 = p1
  p2 = p2
  p3 = p3
  Procs = {p1, p2, p3}
  Initially = {p1, p3}
  Program <- Scripts
  Devices = {"DISK"}
  Cycles = {1}
  None = None
  SRT = TRUE
  Hazards = {"lateInterrupt"}
PROPERTY InterruptsAreAnswered
