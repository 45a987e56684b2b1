SPECIFICATION FairSpec
CONSTANTS
  OrderLen = 3
  MaxOrders = 4
  Bound = 2
  Split = TRUE
INVARIANT PerfectOrders
CHECK_DEADLOCK FALSE
