SPECIFICATION FairSpec
CONSTANTS
  s1 = s1 s2 = s2 m1 = m1 m2 = m2 k1 = k1 k2 = k2 k12 = k12
  Keys = {k1, k2, k12}
  Values = {s1, m1}
  Large = {m1}
  KeyBytes <- MCKeyBytes
  num_servers = 2
  Indexer = Indexer
  Blocks = {b1, b2}
  Offered <- MCOffered
  NULL = NULL
  Zero = Zero
  Garbage = Garbage
  Faulty = {1, Indexer}
  LONG = 1048576
  INT = 65536
CHECK_DEADLOCK FALSE
INVARIANTS KeyAtHome CacheAtHome
PROPERTIES ImplementsStore EveryCallReturns CloseEndsEverybody
