SPECIFICATION AgentSpec

CONSTANTS
  e1 = e1
  e2 = e2
  e3 = e3
  Events = {e1, e2, e3}
  QueueCapacity = 2
  SpoolMax = 2
  MaxFaults = 2
  MaxTears = 1

  ctl = ctl
  peer = peer
  stranger = stranger
  me = me
  n1 = n1
  n2 = n2
  c1 = c1
  c2 = c2
  s1 = s1
  s2 = s2
  Conns = {c1, c2}
  Streams = {s1, s2}
  Remotes = {ctl, stranger}
  Controllers = {ctl}
  EnabledPeers = {peer}
  PathProbes <- MCPathProbes
  SelfEndpoint = me
  Requests <- MCRequests
  MaxHandshakes = 1
  MaxConnections = 2
  MaxConnectionsPer = 1
  MaxStreams = 2
  MaxStreamsPer = 1
  Skew = 1
  MaxClock = 2
  MaxRejections = 1
  MaxLiveGlobal = 2
  MaxLivePerPeer = 1

  Burst = 2
  RefillPerSec = 1
  MaxBuckets = 1
  BucketTtl = 2
  AggregateInterval = 3
  UnitsPerSec = 2
  MaxLimited = 6

INVARIANTS
  LoggedOnce
  PermitsConserved
  AcceptedOnce
  ResponseAudited
  NonceBookkeeping
  RejectionsAccounted

PROPERTIES
  SpoolReplayed
