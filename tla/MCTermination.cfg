SPECIFICATION FairSpec
CONSTANTS
  InitialConditions <- SomeConditions
  MaxFaults = 3
INVARIANTS
  KeyedByType
PROPERTIES
  OnlyTerminatingChanges
  MarkedOnce
  NoticeReachesNode
