CONSTANTS
  w1 = w1
  w2 = w2
  q1 = q1
  q2 = q2
  h1 = h1
  r1 = r1
  None = None
  Nothing = Nothing
  Accounts <- TwoAccounts
  FirstRow <- NoneStored
  Workers <- TwoWorkers
  Requests <- TwoRequests
  MaxMint = 2
  MaxLogins = 2
  PoolMax = 1
  MaxFaults = 1
  Children <- TwoWorkers
  Handles <- OneHandle
  Interval = 1
  StampTTL = 3
  PauseCap = 1
  Credits = 2
  Lookback = 1
  MaxResults = 1
  Budget = 1
  MaxTime = 3
  MaxTweets = 1
  Refs <- OneRef
  Named <- OneSubreddit
  Newest = 1
  TokenTTL = 2
  Leeway = 1
  Back = 1
  MaxHour = 3
  MaxSubmitted = 2
  MaxStarts = 2
  MaxPolls = 2
  AtOnce = 1
  Lifetime = 1
  LastHour = 1
SPECIFICATION Spec
CHECK_DEADLOCK FALSE
INVARIANTS
  NothingSkippedSilently
  BudgetNearlyHeld
  ClientsAccounted
PROPERTIES
  StoredServes
  CadenceKept
  RefusedForCause
