SPECIFICATION Spec
CONSTANTS
  c1 = c1
  c2 = c2
  Calls = {c1, c2}
  alice = alice
  bob = bob
  carol = carol
  Principals = {alice, bob, carol}
  Requester = alice
  MinApprovals = 2
  Distinct = TRUE
  Deadline = 1
  MaxTime = 2
  MaxVotes = 4
SYMMETRY CallSymmetry
INVARIANTS
  ApprovalIsEarned
  ObjectionIsFinal
PROPERTIES
  DecisionStands
CHECK_DEADLOCK FALSE
