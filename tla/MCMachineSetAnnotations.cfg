SPECIFICATION Spec
CONSTANTS
  Nil = Nil
  Sizes <- ThreeSizes
  LabelLists <- Lists
  MaxEdits = 2
  MaxFaults = 1
INVARIANTS
  TypeOK
PROPERTIES
  CapacityConverges
  ControllerRests
  LabelsPreserved
CHECK_DEADLOCK FALSE
