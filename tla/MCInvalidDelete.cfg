SPECIFICATION FairSpec
CONSTANTS
  MaxFaults = 0
  Configs <- CurrentBadConfigs
PROPERTIES
  InvalidMachineDeletable
CHECK_DEADLOCK FALSE
