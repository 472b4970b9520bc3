SPECIFICATION BackendsSpec
CONSTANTS
  Appliers = {c1, c2}
  ManagedBackups = {b1}
  LiveContent = live
  NoEntry = NoEntry
  Openers = {c1, c2}
  OldDatabases = {3, 8, 17, 24, 27, 28, 29}
  MaxOpens = 2
  Owners = {c1, c2}
  Sessions = {s1, s2}
  Sources = {"f"}
  LeaseTtl = 1
  MaxLeaseClock = 3
  MaxWrites = 2
  MaxRevision = 4
  NoOwner = NoOwner
  NodeIds = {n1}
  EndpointIds = {e1, e2}
  TokenIds = {t1}
  RequestIds = {r1, r2}
  None = None
  MaxGeneration = 3
  MaxTokenUses = 2
  DbSessions = {s1, s2}
  NativeOps <- MCNativeOps
  ApiClients = {k1}
  ApiRowIds = {1, 2, 3}
  ApiStatuses = {"up", "down"}
  ApiQueries <- MCQueries
  ApiStartRows <- MCStartRows
  ApiLimits = {1}
  ApiMaxLimit = 2
  ApiKeyFiles <- MCKeyFiles
  CursorTtl = 2
  NoCursor = NoCursor
  NoKey = NoKey
  MaxApiClock = 4
  MaxApiWrites = 2
  MaxApiStarts = 1
SYMMETRY MCSymmetry
INVARIANTS
  RestoreLosesNothing
  UpgradedOnce
  NoWriteLost
  NativeRegistrySound
  WalkExact
CHECK_DEADLOCK FALSE
