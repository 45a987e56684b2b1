SPECIFICATION FairSpec
CONSTANTS
  Capacity = 4
  MaxItems = 9
INVARIANTS TypeOK NoDataRace NeverWrapsAround
PROPERTIES ImplementsBoundedFIFO Delivery
CHECK_DEADLOCK FALSE
