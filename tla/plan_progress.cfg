SPECIFICATION FairSpec
CONSTANTS
  c1 = c1
  c2 = c2
  Calls = {c1, c2}
  NoCall = NoCall
  Orphan = Orphan
  MaxRetries = 1
  MaxStarts = 2
  MaxCrashes = 1
  MaxRefusals = 1
  Feasibles = {TRUE}
  DryRuns = {FALSE}
PROPERTIES
  LockEventuallyFreed
  ExecutionSettles
CHECK_DEADLOCK FALSE
