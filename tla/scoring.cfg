CONSTANTS
  c1 = c1
  c2 = c2
  t1 = t1
  t2 = t2
  None = None
  LastUser = 2
  Clusters <- TwoClusters
  Owner <- AllOfTheFirst
  Topics <- OneTopicOrTwo
  Ticks <- TwoTicks
  GroupAge = 2
  RateAge = 1
  Limit = 1
  MaxFaults = 1
SPECIFICATION Spec
INVARIANTS
  GuardsPassedOnlyByRace
  HandedOverOnce
PROPERTIES
  EveryUserScored
