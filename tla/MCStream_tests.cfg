SPECIFICATION StreamSpec
CONSTANTS
  init = init
  w1 = w1
  w2 = w2
  r1 = r1
  r2 = r2
  s1 = s1
  Workers <- Five
  Sleepers <- OneSleeper
  SizeMax = 3
  Counts <- None
  NonBlock = {FALSE}
  OpenModes <- None
  MaxFds = 2
  MaxDescriptors = 10
  UnlinkDuringOpen = FALSE
  MaxCount = 10
  Init_pcb = init
  Writers <- TwoWriters
  Readers <- TwoReaders
  Tests <- AllTests
  PacketSize = 2
  TextLen = 7
  ToSend = 1
  SleepRate = 2
CHECK_DEADLOCK FALSE
INVARIANTS
  PacketsWhole
  AllDelivered
PROPERTIES
  IsChannel
  TestsEnd
