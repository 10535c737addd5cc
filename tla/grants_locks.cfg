SPECIFICATION Spec
CONSTANTS
  t1 = t1
  Net = Net
  Nobody = Nobody
  NoFile = NoFile
  NoTemplate = NoTemplate
  Threads = {t1}
  GRANTBLOCKINTERVAL = 2
  MaxHeight = 6
  MaxBranches = 1
  MaxRestarts = 1
CONSTRAINT Followed
INVARIANTS
  LocksNeverCross
CHECK_DEADLOCK FALSE
