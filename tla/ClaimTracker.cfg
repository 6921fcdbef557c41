CONSTANTS
  j1 = j1
  j2 = j2
  j3 = j3
  Job <- Jobs
  MaxEntries = 2
  StaleAfter = 2
  ClaimDelay = 3
  MaxGap = 3
  Horizon = 8
SPECIFICATION Spec
SYMMETRY Symmetry
INVARIANTS
  Bounded
  DelayServed
  SteadyEligible
  TrackerInv
PROPERTIES
  EligibleStays
