SPECIFICATION Spec
CONSTANTS
  c1 = c1
  c2 = c2
  w1 = w1
  f1 = f1
  f2 = f2
  r1 = r1
  r2 = r1
  Callers = {c1, c2}
  Worker = w1
  Findings <- MCFindings
  ResourceOf <- MCResourceOf
  Priority <- MCPriority
  Saving <- MCSaving
  Answers = {TRUE, FALSE}
  SparedBySupersede <- MemstoreSpares
  MaxRecs = 4
  MaxPlans = 2
  MaxStarts = 3
  MaxLosses = 1
SYMMETRY CallerSymmetry
INVARIANTS
  TypeOK
  OfferedOnce
  
  
PROPERTIES
  StaysClosed
CHECK_DEADLOCK FALSE
