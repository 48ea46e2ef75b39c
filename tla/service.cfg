\* The collect tick: soft limit = TTL, hard limit = TTL + grace.
CONSTANTS
  Workers = {w1, w2}
  Tokens = {t1, t2, t3}
  NoToken = NoToken
  TTL = 2
  SoftLimit = 2
  HardLimit = 4
  Histories = {0, 1, 2}
  PageMax = 2
  Sizes = {0, 1, 2}
  MaxAlerts = 3
  LastDay = 2
  Tales = {c1, c2}
  Streams = {ch1, ch2}
  Values = {1, 2}
  Desked = 1
  PerHour = 2
  LastInstant = 2
  MaxChanges = 3
  Unset = Unset
  Notices = {a1, a2}
  Taps = {q1, q2}
  LinkTTL = 0
  Rated = 0
  Skew = 1
  Longest = 2
  LastTurn = 1
  MaxTaps = 3
  Blank = Blank
  ApiKeys = {api}
  Callers = {q1, q2}
  Throttle = 1
  PlanTerm = 1
  LastHourOf = 3
  Newcomers = {new}
  MaxCodes = 2
  Never = Never
  Payers = {u1, u2}
  Jobs = {1, 2}
  Term = 1
  FunnelDays = 1
  Maturity = 2
  LastDate = 3
  MaxPaid = 2
  NoFigure = NoFigure
  Attempts = {n1, n2}
  NumProxies = 1
  MaxWaits = 1
SPECIFICATION ServiceSpec
INVARIANTS
  PagesHold
  RatingsHold
  AccessHolds
  FiguresHold
  SupplyHolds
PROPERTIES
  LockFreedAgain
  HeldLikeALease
CHECK_DEADLOCK FALSE
