SPECIFICATION Spec

CONSTANTS
  e1 = e1
  e2 = e2
  Events = {e1, e2}
  QueueCapacity = 2
  SpoolMax = 2
  MaxFaults = 1
  MaxTears = 1

SYMMETRY EventSymmetry

INVARIANTS
  NoUnauditedSuccess
