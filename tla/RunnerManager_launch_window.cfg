CONSTANTS
  a = a
  b = b
  c = c
  Instance <- TwoInstances
  Capacity = 1
  Strays = 0
  MaxExits = 1
  Faults = {"crash", "launch_window"}
SPECIFICATION Spec
SYMMETRY SymTwo
INVARIANT
  CapacityRespected
