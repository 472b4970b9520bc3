SPECIFICATION Spec
CONSTANTS
  NodeIds = {n1, n2}
  EndpointIds = {e1, e2, e3}
  TokenIds = {t1}
  RequestIds = {r1, r2}
  None = None
  MaxGeneration = 4
  MaxTokenUses = 2
SYMMETRY Symmetry
INVARIANTS
  UniqueActiveEndpoint
  EnabledDispatchable
  LineageSound
  TokenAccounting
  FingerprintOrigin
  BindingAudited
PROPERTY LifecycleSpec
CHECK_DEADLOCK FALSE
