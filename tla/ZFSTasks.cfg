SPECIFICATION Spec
CONSTANTS
  Workers = {w1, w2}
  Listers = {l1, l2}
  Pools = {p1}
  Offered <- Actions
  MaxTasks = 2
  Limit = 2
  ClockSteps <- Ticking
  MaxClock = 3
  NoHolder = NoHolder
SYMMETRY Symmetry
INVARIANTS TypeOK RunningIsAccountedFor OperationsFindTheirRow RowsTellTheOutcome ListingsMatchTheList
PROPERTIES ImplementsTaskLog
CHECK_DEADLOCK FALSE
