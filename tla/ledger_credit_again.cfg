SPECIFICATION Spec
CONSTANTS
  t1 = t1
  Users = {1, 2}
  KnownUsers = {1}
  IOThreads = {t1}
  NoFile = NoFile
  Torn = Torn
  FeePercent = 2
  SaveGrain = 5
  StartTip = 8
  MaxTip = 12
  PAYOUT_DELAY = 1
  PayoutEvery = 2
  MIN_PAYOUT = 30
  Reward = 103
  UIntRange = 4096
  MaxShares = 1
  MaxCrashes = 1
INVARIANTS
  NeverCreditedAgain
CHECK_DEADLOCK FALSE
