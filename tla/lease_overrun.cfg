SPECIFICATION Spec
CONSTANTS
  w1 = w1
  w2 = w2
  w3 = w3
  Workers = {w1, w2, w3}
  TTL = 2
  WorkLimits = {1, 4}
  MaxTime = 6
  MaxGrants = 4
  MaxCrashes = 1
SYMMETRY WorkerSymmetry
INVARIANTS
  LeaseHonoured
  FittingCyclesExclude
CHECK_DEADLOCK FALSE
PROPERTIES
  ImplementsLocker
