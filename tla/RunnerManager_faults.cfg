CONSTANTS
  a = a
  b = b
  c = c
  Instance <- OneInstance
  Capacity = 2
  Strays = 1
  MaxExits = 2
  Faults = {"disk", "start", "inspect", "terminate", "readdir", "unread",
            "crash", "launch_window"}
SPECIFICATION FairSpec
INVARIANTS
  FailClosed
PROPERTIES
  SupervisedUntouched
  RecordedJobSurvives
  
  LifecyclesEnd
  
