SPECIFICATION FairSpec
CONSTANTS
  Persistent = TRUE
  LoopStarted = TRUE
  RenewEvery = 1
  Lifetime = 2
  MaxDays = 3
  MaxFaults = 2
  MaxCrashes = 2
INVARIANTS TypeOK ServedIsStored BootKeepsAGoodBundle ServesUnexpired
PROPERTIES ImplementsCertOffer ComesBack
CHECK_DEADLOCK FALSE
