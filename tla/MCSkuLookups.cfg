SPECIFICATION FairSpec
CONSTANTS
  machine = machine
  machineset = machineset
  c1 = c1
  c2 = c2
  c3 = c3
  None = None
  Users <- Controllers
  Caches <- ThreeCaches
  TTL = 1
  Rotations = 1
  MaxFaults = 1
INVARIANTS
  NoFalseAbsence
PROPERTIES
  RecoversUnlessRotated
