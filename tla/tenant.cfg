CONSTANTS
  k1 = k1
  k2 = k2
  p1 = p1
  p2 = p2
  q1 = q1
  q2 = q2
  o1 = o1
  o2 = o2
  s1 = s1
  s2 = s2
  None = None
  Keys <- TwoKeys
  Packs <- TwoPacks
  PackKeys <- OneEach
  Requests <- TwoRequests
  Settings <- TwoSettings
  PackSetting = 1
  Step = 1
  Drift = 1
  Limit = 1
  Points <- ThreePoints
  Tight = 1
  Loose = 2
  Window = 1
  Span = 2
  MaxPosts = 4
  MaxTime = 3
  Engaged <- Logarithms
  Outlets <- TwoOutlets
  Subjects <- TwoSubjects
  Covers <- OneOrBoth
  Observed <- TwoWindows
  Fresh = 15
  Rolling = 15
  Scorers <- TwoScorers
  Unit = 15
  Late = 1
  Skewed = 1
  Weights <- OneWeight
  MaxArrivals = 3
  LastMoment = 2
  Grades <- TwoGrades
  Yields <- TwoYields
  Share <- FifthEach
  Band = 1
  MaxStories = 5
SPECIFICATION Spec
INVARIANTS
  WatchlistsHold
  StoriesHold
  VerdictsFollowGrowth
  ReportIsHonest
CONSTRAINT Counted
SYMMETRY Alike
CHECK_DEADLOCK FALSE
