SPECIFICATION LeasesSpec

CONSTANTS
  w1 = w1
  w2 = w2
  console = console
  Workers = {w1, w2}
  Console = console
  Alerts = {1}
  Hooks = {1}
  MaxAttempts = 2
  MaxDeliveries = 1
  GroupCap = 1
  CandidateLimit = 1
  RecoverLimit = 1
  QueueOrder <- MCQueueOrder
  MaxStamp = 2
  MaxFaults = 2
  ClaimSessions = {s1, s2}
  SchedJobs = {j1}
  SchedOwners = {w1, w2}
  SchedRuns = {r1, r2}
  NoSched = NoSched
  SchedLease = 1
  SchedInterval = 1
  MaxSchedClock = 1
  MaxClaims = 2
  DeliverySessions = {s1, s2}
  AlertKeys = {k1}
  Webhooks = {h1}
  NoRow = NoRow
  SendTimes = {1, 2}
  AttemptLimit = 2
  MaxAlertWrites = 2
  MaxDeliveryFence = 2
  MaxRenewals = 1

SYMMETRY LeaseSymmetry

INVARIANTS
  HistoryMatchesQueue
  NativeRunsOwned

PROPERTIES
  LiveClaimsAreKept
  DecisionsSurvive
  NativeDeliveriesKept
