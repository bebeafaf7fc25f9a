SPECIFICATION FairSpec
CONSTANTS
  Clients = {c1, c2, c3}
  Server = Server
  NULL = NULL
  BACKLOG = 2
  Faulty = {c1, c2, Server}
  PORT = 7
  SHORT_MAX = 7
CHECK_DEADLOCK FALSE
INVARIANTS
  OneClient
  PeerReady
PROPERTIES
  EveryClientSettles
  AcceptedIsHeard
