SPECIFICATION ProgressSpec

CONSTANTS
  w1 = w1
  console = console
  Workers = {w1}
  Console = console
  Alerts = {1}
  Hooks = {1}
  MaxAttempts = 2
  MaxDeliveries = 2
  GroupCap = 1
  CandidateLimit = 1
  RecoverLimit = 1
  QueueOrder <- MCQueueOrder
  MaxStamp = 2
  MaxFaults = 1
  NodeOf <- MCNodeOf
  Methods <- MCMethods
  MaxTaskAttempts = 2
  Budget = 7
  MaxConcurrency = 1
  PerNode = 1
  JobsPerTick = 2

INVARIANTS
  AttemptsCovered

PROPERTIES
  PartialNotReplayed
  JobEnds
  QueuedDeliveriesSettle
