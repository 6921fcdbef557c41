CONSTANTS
  Faults = {"identity", "restart"}
SPECIFICATION Spec
CHECK_DEADLOCK FALSE
INVARIANTS
  TypeOK
  OnlyOwnSignalled
  TerminatedIsDead
  GroupStopped
