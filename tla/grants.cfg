SPECIFICATION Spec
CONSTANTS
  t1 = t1
  t2 = t2
  Net = Net
  Nobody = Nobody
  NoFile = NoFile
  NoTemplate = NoTemplate
  Threads = {t1, t2}
  GRANTBLOCKINTERVAL = 2
  MaxHeight = 6
  MaxBranches = 1
  MaxRestarts = 1
CONSTRAINT Followed
INVARIANTS
  TypeOK
  DatabaseOfChain
  NoNullBlock
  ValidIsAccepted
  AwardsArePaid
  TemplatesPay
CHECK_DEADLOCK FALSE
