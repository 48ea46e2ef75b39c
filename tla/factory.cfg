\* A budget for one account and its proxy, two ticks at once, one death.
CONSTANTS
  Runs = {r1, r2}
  NumAccounts = 3
  NoAccount = NoAccount
  Price = 1
  ProxyPrice = 1
  Budget = 2
  Probation = 1
  PoolMax = 1
  MaxTime = 1
  MaxFaults = 1
SPECIFICATION Spec
INVARIANTS
  OverspendBounded
  RecordsFollowRows
PROPERTIES
  ProbationEnds
