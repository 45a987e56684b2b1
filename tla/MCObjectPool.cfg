SPECIFICATION Spec
CONSTANTS
  Capacity = 4
  o1 = o1
  o2 = o2
  Object = {o1, o2}
INVARIANTS TypeOK FreeListInv
