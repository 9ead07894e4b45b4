SPECIFICATION Spec
CONSTANTS
  init = init
  c1 = c1
  Init_pcb = init
  Others <- OneOther
  MaxPerProcess = 2
  NumDescriptors = 4
  NumOf <- OneOfEach
  Ids = {1}
  Modes = {"RDONLY", "WRONLY"}
  LastFd = 2
INVARIANTS
  DescriptorsTypeOK
  ListsAgree
  FreedWhenUnused
  CountersFollow
  FdsUnique
  DiesOnlyFull
CHECK_DEADLOCK FALSE
