CONSTANTS
  Jobs = {j1}
  Workers = {w1, w2}
  Runs = {r1, r2}
  None = None
  Lease = 2
  Interval = 2
  MaxJitter = 1
  MaxTime = 3
  MaxFence = 4

SPECIFICATION Spec
CHECK_DEADLOCK FALSE
SYMMETRY MCSymmetry

INVARIANTS
  ActiveRunBound
  RunsSerial

PROPERTIES
  StaleOwnerHarmless
  DueSpacing
