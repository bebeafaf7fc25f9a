SPECIFICATION ServerSpec
CONSTANTS
  vSmall = vSmall
  vLarge = vLarge
  Keys = {k1, k2}
  Values = {vSmall, vLarge}
  ValLen <- MCValLen
  Blocks = {b1, b2, b3, b4, b5, b6}
  NULL = NULL
  Zero = Zero
  MIN_POOL_NODES = 2
  INT_MAX = 7
SYMMETRY BlockSymmetry
CHECK_DEADLOCK FALSE
INVARIANTS
  TypeOK
  PoolShape
  NoSharedBlock
  FreshBlockCleared
  AddressesRegistered
