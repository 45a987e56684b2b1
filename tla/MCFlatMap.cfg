SPECIFICATION Spec
CONSTANTS
  MAX_PRICE = 6
  WordBits = 2
  v1 = v1
  v2 = v2
  Value = {v1, v2}
  Default = v1
  NoLimit = NoLimit
  Probe <- ProbeUpToLimit
INVARIANTS TypeOK Coherent ScansExact
PROPERTY ImplementsPriceMap
