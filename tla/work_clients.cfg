SPECIFICATION FairSpec
CONSTANTS
  c1 = c1
  c2 = c2
  b1 = b1
  NoSolution = NoSolution
  Clients = {c1, c2}
  ShareSolutions = {}
  BlockSolutions = {b1}
  StartTip = 1
  MaxTip = 2
  AcceptLimit = 1
INVARIANTS
  RegistryIsExact
  NoUseAfterFree
  OneBlockPerParent
PROPERTIES
  ClosedClientsLeave
CHECK_DEADLOCK FALSE
