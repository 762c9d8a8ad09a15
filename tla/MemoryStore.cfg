SPECIFICATION Spec
CONSTANTS
  Paths = {p1, p2}
  Watchers = {w1, w2}
  MaxPuts = 2
  MaxGets = 1
SYMMETRY Symmetry
INVARIANTS TypeOK
PROPERTIES ImplementsSecretMap ReceivedInOrder
CHECK_DEADLOCK FALSE
