SPECIFICATION FairSpec
CONSTANTS
  OrderLen = 3
  MaxOrders = 4
  Bound = 2
  Split = TRUE
INVARIANTS AllAccountedFor ReadsToTheEnd
PROPERTY EndsAfterClient
CHECK_DEADLOCK FALSE
