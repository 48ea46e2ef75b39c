CONSTANTS
  NoCluster = NoCluster
  Workers = {w1, w2}
  Clusters = {c1, c2}
  RenewalDays = {1, 2, 3}
  Period = 1
  Inactive = 2
  Cooldown = 2
  PostsPerDay = 1
  MaxFaults = 2
  Silence = 1
  VerdictTTL = 1
  HealthTTL = 2
  FreshFor = 0
  Throttle = 1
SPECIFICATION Spec
INVARIANTS
  WarnedNotPestered
  ContradictionFounded
PROPERTIES
  SentAgainOnlyByRace
  DueMailIsSent
  TroubleIsTold
