SPECIFICATION FairSpec
CONSTANTS
  OrderLen = 2
  MaxOrders = 3
  Bound = 2
  PoolCapacity = 2
  MAX_PRICE = 20000
  FaultSets <- SomeFaults
  AnyOrder <- FourOrders
  Garbled <- TwoGarbled
  Expected = 2
INVARIANTS TypeOK FramedStream UpdatePerOrder QuotesTrue EveryRoundTripCounted
PROPERTIES AcceptedIsPublished GatewayIsNotHeldUp BenchmarkEnds
CHECK_DEADLOCK FALSE
