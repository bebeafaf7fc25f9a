SPECIFICATION FairSession
CONSTANTS
  s1 = s1 s2 = s2 m1 = m1 m2 = m2 x1 = x1 k1 = k1 k2 = k2
  Keys = {k1}
  Values = {s1, m1}
  ValLen <- MCValLen
  KeyLen <- MCKeyLen
  EmptyKey = EmptyKey
  Workload <- AnySize
  Asked = {k1}
  Blocks = {b1, b2, b3, b4, b5, b6, b7}
  NULL = NULL
  Zero = Zero
  Garbage = Garbage
  PACKET_SIZE = 2
  EAGER_PROTOCOL_LIMIT = 8
  MAX_TEST_SIZE = 10
  MIN_POOL_NODES = 2
  INT_MAX = 8
CHECK_DEADLOCK FALSE
PROPERTY EveryCallReturns
