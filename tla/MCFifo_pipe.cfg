SPECIFICATION PipeFairSpec
CONSTANTS
  p1 = p1
  p2 = p2
  p3 = p3
  s1 = s1
  Workers <- ThreeWorkers
  Sleepers <- OneSleeper
  SizeMax = 1
  Counts = {2}
  NonBlock = {FALSE}
  OpenModes = {}
  MaxFds = 2
  MaxDescriptors = 6
  UnlinkDuringOpen = FALSE
  MaxCount = 0
CHECK_DEADLOCK FALSE
INVARIANT CountsExact
PROPERTY PeerGoneEndsCall
