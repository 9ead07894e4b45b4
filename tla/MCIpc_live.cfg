SPECIFICATION FairSpec
CONSTANTS
  p1 = p1
  p2 = p2
  p3 = p3
  p4 = p4
  s1 = s1
  Workers <- ThreeWorkers
  Sleepers <- OneSleeper
  SizeMax = 2
  Counts = {1, 2, 3}
  NonBlock = {FALSE}
CHECK_DEADLOCK FALSE
INVARIANT NoPanic
PROPERTIES
  WakeupsServed
  ReadersNotStarved
  WritersNotStarved
