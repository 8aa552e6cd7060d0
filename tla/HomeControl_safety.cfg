\* Three requests through a queue of two over two connections: the queue fills,
\* streams fill, both message numbers wrap, the connection is lost while
\* messages are in flight, the second is served after the first, and the third
\* accept() fails.
CONSTANTS
  MaxConns = 2
  MaxRequests = 3
  Backlog = 1
  Room = 2
  Callers = {web}
  Capacity = 2
  NumberLimit = 2
  MaxFds = 2
  DeviceNumberLimit = 3
  MaxStarts = 1
SPECIFICATION Spec
INVARIANTS TypeOK StreamOrder Acknowledgements IntroducedFirst SystemInv
PROPERTY ImplementsLighting
