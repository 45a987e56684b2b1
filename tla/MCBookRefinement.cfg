SPECIFICATION SpecR
CONSTANTS
  i1 = i1
  i2 = i2
  i3 = i3
  i4 = i4
  Capacity = 3
  MAX_PRICE = 3
  Id <- FourIds
  Price = {0, 1, 2, 3}
  Quantity = {0, 1, 2}
  NoLimit = NoLimit
SYMMETRY IdSymmetry
INVARIANT MidCallInv
PROPERTY ImplementsPriceTimeBook
CHECK_DEADLOCK FALSE
