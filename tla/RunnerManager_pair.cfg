CONSTANTS
  a = a
  b = b
  c = c
  Instance <- TwoInstances
  Capacity = 1
  Strays = 0
  MaxExits = 2
  Faults = {"disk", "start", "inspect", "crash"}
SPECIFICATION Spec
SYMMETRY SymTwo
INVARIANTS
  NoOrphan
  CapacityRespected
  IInv
PROPERTIES
  PoolSpec
  RejectedForRecovered
