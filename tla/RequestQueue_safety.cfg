\* Three workers against a ring of two: full, empty and wrapped in every order.
CONSTANTS
  Workers = {w1, w2, w3}
  DeviceThread = dev
  Requests = {r1, r2}
  None = None
  Capacity = 2
SPECIFICATION FairSpec
INVARIANTS TypeOK QueueInv
PROPERTIES ImplementsFifo QueueDrains
