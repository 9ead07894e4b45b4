SPECIFICATION Spec
CONSTANTS
  NumPCBs = 4
  LastPid = 4
  SleepTimes = {}
  Orphans = TRUE
CHECK_DEADLOCK FALSE
INVARIANT NoMissedChild
