------------------------------ MODULE Approval ------------------------------
(***************************************************************************)
(* One approval request: the votes of several approvers through             *)
(* governance.Service.Decide (internal/application/governance/approval.go), *)
(* judged by govern.Request.Decide, and the sweep that expires overdue      *)
(* requests.  Service.Decide reads the request, votes on the copy and       *)
(* writes the whole copy back, without a lock or a version.  The store is   *)
(* the reference one (internal/adapters/memstore/approval.go): what is      *)
(* written replaces the record, responses included.                         *)
(***************************************************************************)
EXTENDS Integers, Sequences, FiniteSets

CONSTANTS
  Calls,         \* concurrent calls of Service.Decide
  Principals,    \* the names votes and requests carry
  Requester,     \* RequestedBy
  MinApprovals,  \* approvals the policy demands
  Distinct,      \* RequireDistinctApprover
  Deadline,      \* ExpiresAt
  MaxTime,       \* bound: the clock stops here
  MaxVotes       \* bound: calls of Decide over a behaviour

ASSUME ApprovalAssumption ==
  /\ Requester \in Principals
  /\ MinApprovals \in Nat \ {0} /\ Distinct \in BOOLEAN
  /\ Deadline \in Nat /\ MaxTime \in Nat /\ MaxVotes \in Nat

VARIABLES
  request,  \* the stored request
  now,      \* the clock
  pc,       \* where each call is
  ballot,   \* the vote each call brings
  view,     \* each call's copy of the request
  votes,    \* calls made so far
  stale,    \* history: a copy has been written over a request changed meanwhile
  objected  \* history: a rejection has been accepted

history == << stale, objected >>
vars == << request, now, pc, ballot, view, votes, history >>

State  == { "pending", "approved", "rejected", "expired" }
Ballot == [principal : Principals, approved : BOOLEAN, at : 0 .. MaxTime]

New == [state |-> "pending", responses |-> << >>]

Blank == [principal |-> Requester, approved |-> FALSE, at |-> 0]

Init ==
  /\ request = New
  /\ now = 0
  /\ pc = [c \in Calls |-> "idle"]
  /\ ballot = [c \in Calls |-> Blank]
  /\ view = [c \in Calls |-> New]
  /\ votes = 0
  /\ stale = FALSE
  /\ objected = FALSE

-------------------------------------------------------------------------------
\* (mutant) a principal may vote again.
NeverVoted(r, b) == FALSE

\* Request.Decide: the conditions it tests, in its order, and what it leaves behind.

Late(b)     == b.at > Deadline
Voted(r, b) == \E i \in DOMAIN r.responses : r.responses[i].principal = b.principal

SelfApproval(b) == Distinct /\ b.principal = Requester /\ b.approved

Approvals(responses) == { i \in DOMAIN responses : responses[i].approved }

\* (mutant) a rejection is one vote among others.
ResultByMajority(responses) ==
  IF Cardinality(Approvals(responses)) >= MinApprovals THEN "approved" ELSE "pending"

\* The state after a response has been added.
Result(responses) ==
  IF ~responses[Len(responses)].approved THEN "rejected"
  ELSE IF Cardinality(Approvals(responses)) >= MinApprovals THEN "approved"
  ELSE "pending"

Counted(r, b) ==
  r.state = "pending" /\ ~Late(b) /\ ~Voted(r, b) /\ ~SelfApproval(b)

WithVote(r, b) ==
  LET responses == Append(r.responses, b)
  IN  [state |-> Result(responses), responses |-> responses]

Decided(r, b) ==
  IF Counted(r, b) THEN WithVote(r, b)
  ELSE IF r.state = "pending" /\ Late(b) THEN [r EXCEPT !.state = "expired"]
  ELSE r

-------------------------------------------------------------------------------
\* The request handler stamps the vote with its own clock before it calls the service.
Vote(c) ==
  /\ pc[c] = "idle"
  /\ votes < MaxVotes
  /\ votes' = votes + 1
  /\ \E p \in Principals, approved \in BOOLEAN :
       ballot' = [ballot EXCEPT ![c] = [principal |-> p, approved |-> approved, at |-> now]]
  /\ pc' = [pc EXCEPT ![c] = "get"]
  /\ UNCHANGED << request, now, view, history >>

Get(c) ==
  /\ pc[c] = "get"
  /\ view' = [view EXCEPT ![c] = request]
  /\ pc' = [pc EXCEPT ![c] = "update"]
  /\ UNCHANGED << request, now, ballot, votes, history >>

Return(c) ==
  /\ pc' = [pc EXCEPT ![c] = "idle"]
  /\ ballot' = [ballot EXCEPT ![c] = Blank]
  /\ view' = [view EXCEPT ![c] = New]
  /\ UNCHANGED << now, votes >>

\* The copy is written back whatever Request.Decide answered.
Update(c) ==
  /\ pc[c] = "update"
  /\ request' = Decided(view[c], ballot[c])
  /\ stale' = (stale \/ view[c] # request)
  /\ objected' = (objected \/ (Counted(view[c], ballot[c]) /\ ~ballot[c].approved))
  /\ Return(c)

\* Get or Update answers with an error, or the process dies.
Fail(c) ==
  /\ pc[c] # "idle"
  /\ Return(c)
  /\ UNCHANGED << request, history >>

\* (mutant) the sweep does not look at the state.
ExpireAny ==
  /\ now >= Deadline
  /\ request' = [request EXCEPT !.state = "expired"]
  /\ UNCHANGED << now, pc, ballot, view, votes, history >>

\* ExpireOverdue holds the store's lock from the test to the write.
ExpireOverdue ==
  /\ request.state = "pending"
  /\ now >= Deadline
  /\ request' = [request EXCEPT !.state = "expired"]
  /\ UNCHANGED << now, pc, ballot, view, votes, history >>

Tick ==
  /\ now < MaxTime
  /\ now' = now + 1
  /\ UNCHANGED << request, pc, ballot, view, votes, history >>

Next ==
  \/ \E c \in Calls : Vote(c) \/ Get(c) \/ Update(c) \/ Fail(c)
  \/ ExpireOverdue
  \/ Tick

Spec == Init /\ [][Next]_vars

-------------------------------------------------------------------------------
\* Every variable has its type.
Request == [state : State, responses : Seq(Ballot)]

TypeOK ==
  /\ request \in Request
  /\ now \in 0 .. MaxTime /\ votes \in 0 .. MaxVotes
  /\ stale \in BOOLEAN /\ objected \in BOOLEAN
  /\ pc \in [Calls -> { "idle", "get", "update" }]
  /\ ballot \in [Calls -> Ballot]
  /\ view \in [Calls -> Request]

\* Who has approved.
Approvers(r) == { r.responses[i].principal : i \in Approvals(r.responses) }

\* An approved request carries the approvals of as many different principals as the
\* policy demands, none of them the requester's own where that is ruled out, no
\* objection and no vote from after the deadline, whatever was overwritten on the way
\* (domain/govern/approval.go:106-112, "the segregation-of-duties controls").
Cleared(r) ==
  /\ Cardinality(Approvers(r)) >= MinApprovals
  /\ Distinct => Requester \notin Approvers(r)
  /\ \A i \in DOMAIN r.responses : r.responses[i].approved /\ ~Late(r.responses[i])
ApprovalIsEarned == request.state = "approved" => Cleared(request)

\* A decided request is changed only by a call whose copy was taken before the
\* decision: neither the sweep nor a call that read the decision reopens it
\* (domain/govern/approval.go:118-120).
DecisionStands ==
  [][request.state # "pending" /\ request' # request => stale']_vars

\* As long as no call wrote over a change it had not seen, an accepted rejection decides
\* the request for good ("a rejection is immediately final", governance/approval.go:96-97).
ObjectionIsFinal == objected /\ ~stale => request.state = "rejected"
===============================================================================
