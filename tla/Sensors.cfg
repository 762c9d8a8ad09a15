SPECIFICATION FairSpec
CONSTANTS
  Requests = {r1, r2}
  Keys = {temp, fan}
  Numbers = {high}
  Oddities = {nan}
  None = None
  MaxPoints = 1
  StatePath = TRUE
  MaxClock = 1
  MaxFaults = 1
  MaxKills = 1
INVARIANTS TypeOK RestartKeepsMemory
PROPERTY RequestsEnd
