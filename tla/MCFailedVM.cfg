SPECIFICATION FairSpec
CONSTANTS
  MaxFaults = 1
  Configs <- CurrentConfigs
PROPERTIES
  FailedVMIsReplaced
CHECK_DEADLOCK FALSE
