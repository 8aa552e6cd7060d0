\* Two handlers against init().  The process may end at any point.
CONSTANTS
  Workers = {w1, w2}
  Requests = {r1, r2, r3}
  None = None
  Capacity = 2
  StackWords = {0, 1, 3}
SPECIFICATION Spec
INVARIANTS TypeOK OnlyRacesHarm StartInv
CHECK_DEADLOCK FALSE
