SPECIFICATION Spec
CONSTANTS
  Sockets = {a, b, c}
  SIZES <- MCSizes
  PACKETS = 2
  BUFFER = 3
  BACKLOG = 1
  SNDBUF = 6
  RCVBUF = 6
  SEGMENT = 3
  NULL = NULL
CHECK_DEADLOCK FALSE
INVARIANTS NothingLost PacketsApart ServerEndsWell
PROPERTIES EveryPacketReturns NobodyLeftBehind
