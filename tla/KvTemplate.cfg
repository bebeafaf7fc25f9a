SPECIFICATION FairSpec
CONSTANTS
  x = x y = y z = z k1 = k1 k2 = k2
  Keys = {k1, k2}
  Values = {x, z}
  ValLen <- MCValLen
  Big = {z}
  KEY_LEN = 1
  MAX_TEST_SIZE = 4
  MIN_POOL_NODES = 2
  Mangled = Mangled NULL = NULL
CHECK_DEADLOCK FALSE
INVARIANTS AssertHolds RegionsApart ClosesClean
PROPERTY RndvCallsReturn
