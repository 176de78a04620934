SPECIFICATION LSpec
CONSTANTS
  c1 = c1
  w1 = w1
  f1 = f1
  f2 = f2
  r1 = r1
  r2 = r2
  Callers = {c1}
  Worker = w1
  Findings <- MCFindings
  ResourceOf <- MCResourceOf
  Priority <- MCPriority
  Saving <- MCSaving
  Answers = {TRUE}
  SparedBySupersede <- MemstoreSpares
  MaxRecs = 2
  MaxPlans = 2
  MaxStarts = 1
  MaxLosses = 0
  Budget = 2
  MaxConcurrent = 1
  MaxPerCycle = 2
  MaxCycles = 2
VIEW LoopView
INVARIANTS
  
  PlansOnce
CHECK_DEADLOCK FALSE
