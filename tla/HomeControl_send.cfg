\* One connection and as many requests as it takes.
CONSTANTS
  MaxConns = 1
  MaxRequests = 2
  Backlog = 1
  Room = 1
  Callers = {web}
  Capacity = 2
  NumberLimit = 2
  MaxFds = 1
  DeviceNumberLimit = 3
  MaxStarts = 1
SPECIFICATION Spec
INVARIANT TakenIsSent
