SPECIFICATION FairSpec
CONSTANTS
  NumPCBs = 3
  LastPid = 5
  SleepTimes = {0, 2}
  Orphans = FALSE
CHECK_DEADLOCK FALSE
INVARIANTS
  ProcessTypeOK
  OnePlace
  TreeConsistent
  NoMissedChild
  TimersServed
  DiesOnlyWhen
PROPERTY
  SleepersWake
