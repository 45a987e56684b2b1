SPECIFICATION Spec
CONSTANTS
  i1 = i1
  i2 = i2
  i3 = i3
  i4 = i4
  Capacity = 2
  MAX_PRICE = 2
  Id <- ThreeIds
  Price = {0, 1, 2}
  Quantity = {0, 1, 2}
  NoLimit = NoLimit
PROPERTY ModifyLosesPlaceOnlyByTheRules
CHECK_DEADLOCK FALSE
