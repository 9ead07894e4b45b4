SPECIFICATION FifoSpec
CONSTANTS
  p1 = p1
  p2 = p2
  p3 = p3
  s1 = s1
  Workers <- TwoWorkers
  Sleepers <- OneSleeper
  SizeMax = 2
  Counts = {1}
  NonBlock = {FALSE}
  OpenModes = {"RDONLY", "WRONLY"}
  MaxFds = 1
  MaxDescriptors = 2
  UnlinkDuringOpen = FALSE
  MaxCount = 2
CHECK_DEADLOCK FALSE
INVARIANT CountsSettle
