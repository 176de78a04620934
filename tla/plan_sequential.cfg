SPECIFICATION Spec
CONSTANTS
  c1 = c1
  Calls = {c1}
  NoCall = NoCall
  Orphan = Orphan
  MaxRetries = 1
  MaxStarts = 4
  MaxCrashes = 1
  MaxRefusals = 1
  Feasibles = {TRUE, FALSE}
  DryRuns = {TRUE, FALSE}
INVARIANTS
  StateMatchesResource
  LedgerAgrees
PROPERTIES
  PlanNeverReopens
CHECK_DEADLOCK FALSE
