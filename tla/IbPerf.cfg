SPECIFICATION Spec
CONSTANTS
  ITERS = 12
  DEPTH = 4
  SQ_SIZES = {4, 5, 6}
  WC_BATCH = 2
  REFILL = 1
CHECK_DEADLOCK FALSE
INVARIANTS QueuesFit ReceivesCounted
PROPERTY ClientEnds
