SPECIFICATION Spec
CONSTANTS
  c1 = c1
  c2 = c2
  Calls = {c1, c2}
  NoCall = NoCall
  Orphan = Orphan
  MaxRetries = 1
  MaxStarts = 3
  MaxCrashes = 0
  MaxRefusals = 0
  Feasibles = {TRUE}
  DryRuns = {FALSE}
PROPERTIES
  ExecutesOnce
CHECK_DEADLOCK FALSE
