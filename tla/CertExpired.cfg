SPECIFICATION Spec
CONSTANTS
  Persistent = TRUE
  LoopStarted = FALSE
  RenewEvery = 1
  Lifetime = 2
  MaxDays = 3
  MaxFaults = 0
  MaxCrashes = 1
INVARIANTS InstallsUnexpired
CHECK_DEADLOCK FALSE
