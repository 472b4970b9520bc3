SPECIFICATION RestoreSpec

CONSTANTS
  Appliers = {c1}
  ManagedBackups = {b1}
  LiveContent = live
  NoEntry = NoEntry

CHECK_DEADLOCK FALSE

INVARIANT
  UndoneIsRestored
