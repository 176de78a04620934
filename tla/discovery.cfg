SPECIFICATION Spec
CONSTANTS
  a1 = a1
  a2 = a2
  b1 = b1
  ja = ja
  jb = jb
  r1 = r1
  r2 = r1
  Keys <- MCKeys
  Accounts <- MCAccounts
  Links <- MCLinks
  Jobs <- MCJobs
  JobOf <- MCJobOf
  RegionOf <- MCRegionOf
  MaxScans = 2
  MaxChanges = 1
  MaxOverruns = 1
  MaxSkips = 1
INVARIANTS
  TypeOK
  EdgesResolve
PROPERTIES
  TombstonesAreJustified
  CompletedIsCurrent
CHECK_DEADLOCK FALSE
