SPECIFICATION Spec
CONSTANTS
  Paths = {p1}
  Watchers = {w1, w2}
  MaxPuts = 2
  MaxGets = 0
INVARIANTS PutsReturn
CHECK_DEADLOCK FALSE
