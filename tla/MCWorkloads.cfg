SPECIFICATION Spec
CONSTANTS
  numOrders = 210
  numRandom = 6
  Levels = 5
  WarmUp = 60
  INITIAL_ORDERS = 2
  NUM_TRANSACTIONS = 3
  BidDist = {1, 49000}
  AskDist = {51000, 100000}
  PriceDist = {4900, 5100}
  QtyDist = {10, 500}
INVARIANTS CallsTakeEffect PassiveLoadsRest AggressorsTakeAll
CHECK_DEADLOCK FALSE
