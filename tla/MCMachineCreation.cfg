SPECIFICATION Spec
CONSTANTS
  Nil = Nil
  Inputs <- AllInputs
  NameLimit = 6
  PublicIPLimit = 6
INVARIANTS
  TypeOK
  Reachable
  SettingsHonoured
  DisksDistinct
  PoolsJoined
  SetsApart
  TagsSafe
PROPERTIES
  OutcomeHasCause
  InternalLBRecorded
CHECK_DEADLOCK FALSE
