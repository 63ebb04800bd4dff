SPECIFICATION Spec
CONSTANTS
  MaxFaults = 2
  Configs <- AllConfigs
INVARIANTS
  TypeOK
  NoOrphan
  TeardownOrder
  TerminationAllowed
  ProviderIDFirst
  OnlyFaultsFail
PROPERTIES
  ImplementsResourceOwner
  NoSecondVM
  FailedIsFinal
CHECK_DEADLOCK FALSE
