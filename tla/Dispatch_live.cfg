CONSTANTS
  p1 = p1
  p2 = p2
  Participant <- OneParticipant
  Job = {1, 2}
  Runner = {1, 2}
  Serves <- ServesAll
  Eager = {}
  Capacity = 1
  MaxExits = 0
  Faults = {"cancel", "read", "launch", "outage"}
SPECIFICATION FairSpec
PROPERTIES
  QueuedServed
  LifecyclesEnd
