SPECIFICATION FifoSpec
CONSTANTS
  p1 = p1
  p2 = p2
  p3 = p3
  s1 = s1
  Workers <- ThreeWorkers
  Sleepers <- None
  SizeMax = 3
  Counts = {2}
  NonBlock = {FALSE, TRUE}
  OpenModes = {"RDONLY", "WRONLY", "RDWR"}
  MaxFds = 1
  MaxDescriptors = 3
  UnlinkDuringOpen = FALSE
  MaxCount = 1
CHECK_DEADLOCK FALSE
SYMMETRY Symmetry
INVARIANTS
  FifoTypeOK
  FifoPlaced
  OpenersMeet
  OpenersReleased
  FreedUnused
  AssertionsHold
  PositionsAgree
  NeverUndercounts
  HangupWakesAll
  IntermediateReset
