CONSTANTS
  NumAlerts = 2
  telegram = telegram
  webhook = webhook
  Channels <- BothChannels
  Configured <- ConfiguredChannels
  Delayed <- FirstDelayed
  Tasks = {m1, m2}
  NoAlert = NoAlert
  MaxRetries = 1
  SweepBatch = 1
  MaxFaults = 1
SPECIFICATION Spec
INVARIANTS
  ShownInTimeAndOnce
  RowTellsOutcome
PROPERTIES
  EveryAlertSettles
