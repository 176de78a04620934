SPECIFICATION Spec
CONSTANTS
  c1 = c1
  c2 = c2
  Calls = {c1, c2}
  NoCall = NoCall
  Orphan = Orphan
  MaxRetries = 1
  MaxStarts = 3
  MaxCrashes = 1
  MaxRefusals = 0
  Feasibles = {TRUE, FALSE}
  DryRuns = {TRUE, FALSE}
SYMMETRY CallSymmetry
INVARIANTS
  ExclusiveMutation
  SnapshotBeforeMutation
  AuthorizedMutation
  ActiveIsOwned
  RollbackRestores
  ExecutedMeansLanded
CHECK_DEADLOCK FALSE
PROPERTIES
  ImplementsSafeChange
  ImplementsLocker
