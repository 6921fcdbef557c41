CONSTANTS
  p1 = p1
  p2 = p2
  Participant <- TwoParticipants
  Job = {1, 2}
  Runner = {1, 2}
  Serves <- ServesSome
  Eager = {p1, p2}
  Capacity = 1
  MaxExits = 0
  Faults = {}
SPECIFICATION Spec
INVARIANTS
  RegistrationsBounded
