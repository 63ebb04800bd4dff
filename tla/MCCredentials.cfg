SPECIFICATION Spec
CONSTANTS
  MaxFaults = 1
  Configs <- CurrentConfigs
INVARIANTS
  CredentialErrorsRetried
CHECK_DEADLOCK FALSE
