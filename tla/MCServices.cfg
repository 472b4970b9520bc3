SPECIFICATION ServicesSpec
CONSTANTS
  NodeIds = {n1, n2}
  EndpointIds = {e1, e2}
  TokenIds = {}
  RequestIds = {}
  None = None
  MaxGeneration = 2
  MaxTokenUses = 1
  Callers = {w1}
  Bundle = 2
  RetryLimit = 2
  HealthNodes = {h1}
  Evaluators = {p1, p2}
  HealthActor <- MCHealthActor
  HealthPolicies <- MCHealthPolicies
  ObservationKinds <- MCObservationKinds
  FleetRows <- MCFleetRows
  EvaluationBucket = 2
  RecoveryAge = 1
  RecoveryBatch = 1
  ObservationLife = 2
  MaxHealthClock = 2
  MaxHealthObs = 1
  MaxEvaluations = 2
  MaxFleetChanges = 1
  RollupNodes = {h1}
  Rollers = {p1, p2}
  RecomputeIds = {"o"}
  SlotSeconds = 2
  RollupBuckets <- MCRollupBuckets
  SampleStatuses = {"healthy", "unreachable"}
  ProbeResults = {"failed"}
  SourceTimes = {1, 2}
  MaxSourceTime = 3
  MaxSources = 2
  MaxRollups = 2
  RetentionScopes <- MCRetentionScopes
  RetentionPolicies <- MCRetentionPolicies
  RetentionActors = {"root"}
  RetentionOps = {"o"}
  RetentionLimits <- MCRetentionLimits
  RetentionCutoffs <- MCRetentionCutoffs
  RetentionBatch = 1
  MaxRetentionRows = 2
  MaxRetentionClock = 2
  MaxApplies = 2
  ChangeCommands = {p1, p2}
  Principals = {"alice", "bob"}
  ChangeIds = {"r"}
  Nonces = {"n"}
  IntentKeys = {"k"}
  AllowedActors <- MCAllowedActors
  ApprovalIds = {"a"}
  ChangeLifetimes = {1, 2}
  MaxChangeClock = 2
  MaxIntentLife = 1
  MaxTrail = 4
  SystemExpiry = "system:expiry"
  PolicyDocs <- MCPolicyDocs
  PolicyRegistries <- MCPolicyRegistries
  Reviewers = {"rev"}
  ReviewKeys = {"k"}
  ReviewerKeyring <- MCReviewerKeyring
  Recorders = {p1, p2}
  MaxDiffItems = 1
  MaxHistoryEntries = 2
  MaxRecords = 2
  NoFile = NoFile
SYMMETRY ServicesSymmetry
INVARIANTS
  WithdrawalStopsCalls
  CapabilityOfBinding
  
  DeletedAsReported
  ApprovalsEarned
  HistoryVouches
  DiffExact
PROPERTY SamplesOfCompletedRuns
CHECK_DEADLOCK FALSE
