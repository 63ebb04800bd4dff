SPECIFICATION FairSpec
CONSTANTS
  MaxFaults = 1
  Configs <- GoodConfigs
PROPERTIES
  DeletionCompletes
  CreationSettles
CHECK_DEADLOCK FALSE
