CONSTANTS
  None = None
  Coroutines = {r1, r2}
  Hints = {1, 2}
  Size = 2
  LastRef = 2
  InlineCap = 1
  Failing = 1
  Threshold = 2
  SkipTTL = 1
  MaxTrouble = 2
  MaxCuts = 1
SPECIFICATION PoolSpec
INVARIANTS
  BooksKept
PROPERTIES
  EveryRefTried
