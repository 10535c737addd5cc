SPECIFICATION Spec
CONSTANTS
  v1 = v1
  v2 = v2
  v3 = v3
  Voters = {v1, v2, v3}
  Candidates = {1, 2, 3}
  Amounts = {1, 2}
  Balances = {0, 1, 2, 3}
INVARIANTS
  TypeOK
  BallotsOfStanding
  MajorityPrevails
  LoserIsNotElected
PROPERTIES
  CountAdvances
SYMMETRY Symmetry
