CONSTANTS
  Runs = 3
  PageSize = 1
  MaxPages = 2
  Faults = {"transient", "final", "lost_reply"}
SPECIFICATION FairSpec
INVARIANTS
  TypeOK
  ListingComplete
PROPERTIES
  RegistrationSpec
  CallsEnd
  RequestsBounded
