SPECIFICATION Spec
CONSTANTS
  OrderLen = 2
  MaxOrders = 3
  Bound = 2
  PoolCapacity = 2
  MAX_PRICE = 20000
  FaultSets <- NoFaults
  AnyOrder <- FourOrders
  Garbled <- TwoGarbled
  Expected = 2
INVARIANT LastTradedPriceWasTraded
CHECK_DEADLOCK FALSE
