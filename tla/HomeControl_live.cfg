\* Two requests over two connections, while the server may crash, exit at the
\* third accept(), or lose its host, and be started again.  The numbers of
\* messages are of no interest here.
CONSTANTS
  MaxConns = 2
  MaxRequests = 2
  Backlog = 1
  Room = 2
  Callers = {web}
  Capacity = 2
  NumberLimit = 1
  MaxFds = 2
  DeviceNumberLimit = 1
  MaxStarts = 2
SPECIFICATION FairSpec
INVARIANTS StreamOrder Acknowledgements
PROPERTIES Settles Reunion ImplementsLighting
