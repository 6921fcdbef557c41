CONSTANTS
  p1 = p1
  p2 = p2
  Participant <- OneParticipant
  Job = {1, 2}
  Runner = {1, 2}
  Serves <- ServesAll
  Eager = {}
  Capacity = 1
  MaxExits = 1
  Faults = {"cancel", "read", "create", "lost_reply", "delete", "outage", "overflow", "launch", "stop", "crash"}
SPECIFICATION Spec
INVARIANTS
  WithinCapacity
  LedgersAgree
