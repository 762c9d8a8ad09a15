SPECIFICATION StreamFairSpec
CONSTANTS
  Workers = {w1, w2}
  Listers = {l1, s1}
  Streams = {s1}
  Pools = {p1}
  Offered <- OneAndTwoCommands
  MaxTasks = 1
  Limit = 2
  ClockSteps <- Ticking
  MaxClock = 2
  NoHolder = NoHolder
INVARIANTS StreamsListToRender
PROPERTIES OperationsReturn ListingsReturn StreamsEnd
