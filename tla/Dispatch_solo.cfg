CONSTANTS
  p1 = p1
  p2 = p2
  Participant <- OneParticipant
  Job = {1, 2}
  Runner = {1, 2, 3}
  Serves <- ServesAll
  Eager = {}
  Capacity = 2
  MaxExits = 0
  Faults = {"cancel", "read", "create", "launch", "readdir", "repeat"}
SPECIFICATION Spec
INVARIANTS
  TypeOK
  LedgersAgree
  InsertFits
  RegistrationsHeld
