CONSTANTS
  NodeOf <- MCNodeOf
  Methods <- MCMethods
  MaxTaskAttempts = 3
  Budget = 3
  MaxConcurrency = 1
  PerNode = 1
  JobsPerTick = 2

SPECIFICATION TasksSpec

INVARIANT
  AttemptAuditsPersisted
