SPECIFICATION Spec
CONSTANTS
  c1 = c1
  s1 = s1
  NoSolution = NoSolution
  Clients = {c1}
  ShareSolutions = {s1}
  BlockSolutions = {}
  StartTip = 1
  MaxTip = 3
  AcceptLimit = 1
INVARIANTS
  TypeOK
  PaidAtMostTwice
CHECK_DEADLOCK FALSE
