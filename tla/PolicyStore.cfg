CONSTANTS
  t1 = t1
  t2 = t2
  Repository <- Repositories
  Owner <- Owners
  Tool <- Tools
  Faults = {"write", "crash"}
SPECIFICATION Spec
SYMMETRY Symmetry
INVARIANTS
  TypeOK
  FileValid
PROPERTIES
  AppliedAtomically
