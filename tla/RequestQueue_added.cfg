\* More workers than slots.
CONSTANTS
  Workers = {w1, w2}
  DeviceThread = dev
  Requests = {r1}
  None = None
  Capacity = 1
SPECIFICATION Spec
INVARIANT AnsweredMeansAdded
