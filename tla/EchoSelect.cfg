SPECIFICATION Spec
CONSTANTS
  a = a
  b = b
  Clients = {a, b}
  STREAMS <- MCStreams
  Sockets <- MCSockets
  SIZES <- MCSizes
  PACKETS = 1
  BUFFER = 2
  BACKLOG = 1
  SNDBUF = 2
  RCVBUF = 2
  SEGMENT = 2
  Stoppable = {b}
  NULL = NULL
CHECK_DEADLOCK FALSE
INVARIANTS NothingLost ServedOrNot
PROPERTIES EveryCallReturns ServerEnds
