SPECIFICATION Spec
CONSTANTS
  m1 = m1
  m2 = m2
  m3 = m3
  Machines <- ThreeMachines
  WorkerCounts <- OneOrThree
  MaxFaults = 2
INVARIANTS
  NoLeftoverSet
PROPERTIES
  NoCasualty
SYMMETRY Symmetry
CHECK_DEADLOCK FALSE
