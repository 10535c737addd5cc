SPECIFICATION FairSpec
CONSTANTS
  w1 = w1
  w2 = w2
  m = m
  k1 = k1
  k2 = k2
  k3 = k3
  k4 = k4
  NoOne = NoOne
  Workers = {w1, w2}
  Master = m
  Checks = {k1, k2, k3, k4}
  Failing = {k4}
  nBatchSize = 2
INVARIANTS
  TypeOK
  TodoIsOutstanding
  VerdictIsRight
PROPERTIES
  WaitReturns
CHECK_DEADLOCK FALSE
