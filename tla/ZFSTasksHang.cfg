SPECIFICATION FairSpec
CONSTANTS
  Workers = {w1}
  Listers = {l1}
  Pools = {p1}
  Offered <- Actions
  MaxTasks = 2
  Limit = 2
  ClockSteps <- Ticking
  MaxClock = 2
  NoHolder = NoHolder
PROPERTIES ListingsReturn
CHECK_DEADLOCK FALSE
