CONSTANTS
  Workflow = {1, 2}
  Path = {"build", "test"}
  Event = {"push", "issues"}
  Actor = {"ann", "bob"}
  Label = {"gpu", "arm"}
  ParticipantLabels = {"gpu"}
  Configured <- Repositories
  MaxChanges = 2
SPECIFICATION Spec
CHECK_DEADLOCK FALSE
INVARIANTS
  OfferAllowed
  IgnoredRightly
PROPERTIES
  OfferUnchanged
