--------------------------- MODULE ApprovalProofs ---------------------------
(***************************************************************************)
(* Proofs about Approval, for any calls, principals, deadline and number of *)
(* approvals demanded.                                                      *)
(***************************************************************************)
EXTENDS Approval, FiniteSetTheorems, TLAPS

\* What Request.Decide leaves behind is a request.
LEMMA DecidedType ==
  ASSUME NEW r \in Request, NEW b \in Ballot
  PROVE  Decided(r, b) \in Request
<1>1. WithVote(r, b) \in Request
  <2>1. Append(r.responses, b) \in Seq(Ballot)
    BY DEF Request
  <2>2. Result(Append(r.responses, b)) \in State
    BY DEF Result, State
  <2> QED
    BY <2>1, <2>2 DEF WithVote, Request
<1>2. [r EXCEPT !.state = "expired"] \in Request
  BY DEF Request, State
<1> QED
  BY <1>1, <1>2 DEF Decided

\* TypeOK is inductive: copies written back late are still requests (Service.Decide).
THEOREM TypeCorrect == Spec => []TypeOK
<1>0. New \in Request /\ Blank \in Ballot
  <2>1. << >> \in Seq(Ballot)
    OBVIOUS
  <2> QED
    BY <2>1, ApprovalAssumption DEF New, Request, State, Blank, Ballot
<1>1. Init => TypeOK
  <2> SUFFICES ASSUME Init PROVE TypeOK
    OBVIOUS
  <2>1. request \in Request /\ view \in [Calls -> Request] /\ ballot \in [Calls -> Ballot]
    BY <1>0 DEF Init
  <2>2. now \in 0 .. MaxTime /\ votes \in 0 .. MaxVotes
    BY ApprovalAssumption DEF Init
  <2>3. stale \in BOOLEAN /\ objected \in BOOLEAN
        /\ pc \in [Calls -> { "idle", "get", "update" }]
    BY DEF Init
  <2> QED
    BY <2>1, <2>2, <2>3 DEF TypeOK
<1>2. TypeOK /\ [Next]_vars => TypeOK'
  <2> SUFFICES ASSUME TypeOK, [Next]_vars PROVE TypeOK'
    OBVIOUS
  <2> USE ApprovalAssumption DEF TypeOK
  <2>2. ASSUME NEW c \in Calls, Vote(c) PROVE TypeOK'
    BY <2>2 DEF Vote, Ballot, history
  <2>3. ASSUME NEW c \in Calls, Get(c) PROVE TypeOK'
    BY <2>3 DEF Get, history
  <2>4. ASSUME NEW c \in Calls, Update(c) PROVE TypeOK'
    <3>1. Decided(view[c], ballot[c]) \in Request
      BY DecidedType
    <3> QED
      BY <1>0, <2>4, <3>1 DEF Update, Return
  <2>5. ASSUME NEW c \in Calls, Fail(c) PROVE TypeOK'
    BY <1>0, <2>5 DEF Fail, Return, history
  <2>6. CASE ExpireOverdue
    BY <2>6 DEF ExpireOverdue, Request, State, history
  <2>7. CASE Tick
    BY <2>7 DEF Tick, history
  <2>8. CASE UNCHANGED vars
    BY <2>8 DEF vars, history
  <2> QED
    BY <2>2, <2>3, <2>4, <2>5, <2>6, <2>7, <2>8 DEF Next
<1> QED
  BY <1>1, <1>2, PTL DEF Spec

-------------------------------------------------------------------------------
\* ApprovalIsEarned is not inductive: any copy may be written back later, so what it says
\* has to hold of every copy, and of the responses that have not decided anything yet.

OneVoteEach(r) ==
  \A i, j \in DOMAIN r.responses :
    r.responses[i].principal = r.responses[j].principal => i = j
VotesCount(r) ==
  \A i \in DOMAIN r.responses : ~Late(r.responses[i]) /\ ~SelfApproval(r.responses[i])
NoObjection(r) ==
  r.state \in { "pending", "approved" } =>
    \A i \in DOMAIN r.responses : r.responses[i].approved
EnoughVotes(r) == r.state = "approved" => Len(r.responses) >= MinApprovals

Sound(r) == OneVoteEach(r) /\ VotesCount(r) /\ NoObjection(r) /\ EnoughVotes(r)

EarnedInv == Sound(request) /\ \A c \in Calls : Sound(view[c])

\* When every response approves, the approvals are as many as the responses.
LEMMA AllApprove ==
  ASSUME NEW responses \in Seq(Ballot),
         \A i \in DOMAIN responses : responses[i].approved
  PROVE  Cardinality(Approvals(responses)) = Len(responses)
<1>1. Approvals(responses) = 1 .. Len(responses)
  BY DEF Approvals
<1>2. Cardinality(1 .. Len(responses)) = Len(responses)
  <2>1. Len(responses) \in Nat
    OBVIOUS
  <2>2. Cardinality(1 .. Len(responses))
          = IF 1 > Len(responses) THEN 0 ELSE Len(responses) - 1 + 1
    BY <2>1, FS_Interval
  <2> QED
    BY <2>1, <2>2
<1> QED
  BY <1>1, <1>2

\* A vote that counts keeps a request sound.
LEMMA VoteSound ==
  ASSUME NEW r \in Request, NEW b \in Ballot, Sound(r), Counted(r, b)
  PROVE  Sound(WithVote(r, b))
<1> DEFINE old == r.responses
           new == Append(old, b)
           s   == WithVote(r, b)
<1>1. old \in Seq(Ballot) /\ r.state = "pending"
  BY DEF Request, Counted
<1>2. /\ new \in Seq(Ballot) /\ Len(new) = Len(old) + 1
      /\ DOMAIN new = 1 .. Len(old) + 1 /\ DOMAIN old = 1 .. Len(old)
      /\ new[Len(old) + 1] = b
      /\ \A i \in 1 .. Len(old) : new[i] = old[i]
  BY <1>1
<1>3. s.responses = new /\ s.state = Result(new)
  BY DEF WithVote
<1> HIDE DEF old, new, s
<1>4. Len(old) \in Nat
  BY <1>1
<1>5. \A i \in 1 .. Len(old) : old[i].principal # b.principal
  BY <1>2 DEF Counted, Voted, old
<1>6. OneVoteEach(s)
  <2>1. SUFFICES ASSUME NEW i \in DOMAIN new, NEW j \in DOMAIN new,
                        new[i].principal = new[j].principal
                 PROVE  i = j
    BY <1>3 DEF OneVoteEach
  <2>2. \A k, l \in 1 .. Len(old) : old[k].principal = old[l].principal => k = l
    BY <1>2 DEF Sound, OneVoteEach, old
  <2>3. i \in 1 .. Len(old) \/ i = Len(old) + 1
    BY <1>2, <1>4
  <2>4. j \in 1 .. Len(old) \/ j = Len(old) + 1
    BY <1>2, <1>4
  <2> QED
    BY <1>2, <1>5, <2>1, <2>2, <2>3, <2>4
<1>7. VotesCount(s)
  <2>1. ~Late(b) /\ ~SelfApproval(b)
    BY DEF Counted
  <2>2. \A i \in 1 .. Len(old) : ~Late(old[i]) /\ ~SelfApproval(old[i])
    BY <1>2 DEF Sound, VotesCount, old
  <2>3. \A i \in DOMAIN new : ~Late(new[i]) /\ ~SelfApproval(new[i])
    BY <1>2, <1>4, <2>1, <2>2
  <2> QED
    BY <1>3, <2>3 DEF VotesCount
<1>8. b.approved => \A i \in DOMAIN new : new[i].approved
  <2>1. \A i \in 1 .. Len(old) : old[i].approved
    BY <1>1, <1>2 DEF Sound, NoObjection, old
  <2> QED
    BY <1>2, <1>4, <2>1
<1>9. ~b.approved => s.state = "rejected"
  BY <1>2, <1>3 DEF Result
<1>10. NoObjection(s)
  BY <1>3, <1>8, <1>9 DEF NoObjection
<1>11. EnoughVotes(s)
  <2>1. SUFFICES ASSUME s.state = "approved" PROVE Len(new) >= MinApprovals
    BY <1>3 DEF EnoughVotes
  <2>2. b.approved
    BY <1>9, <2>1
  <2>3. Cardinality(Approvals(new)) = Len(new)
    BY <1>2, <1>8, <2>2, AllApprove
  <2>4. Cardinality(Approvals(new)) >= MinApprovals
    BY <1>3, <2>1 DEF Result
  <2> QED
    BY <2>3, <2>4
<1> QED
  BY <1>6, <1>7, <1>10, <1>11 DEF Sound, s

\* So does everything Request.Decide may answer.
LEMMA DecidedSound ==
  ASSUME NEW r \in Request, NEW b \in Ballot, Sound(r)
  PROVE  Sound(Decided(r, b))
<1>1. Sound([r EXCEPT !.state = "expired"])
  BY DEF Sound, OneVoteEach, VotesCount, NoObjection, EnoughVotes, Request
<1> QED
  BY <1>1, VoteSound DEF Decided

\* Every copy of the request, stored or in a call's hands, is sound at all times.
LEMMA EarnedAlways == Spec => []EarnedInv
<1>0. Sound(New)
  BY ApprovalAssumption
  DEF New, Sound, OneVoteEach, VotesCount, NoObjection, EnoughVotes
<1>1. Init => EarnedInv
  BY <1>0 DEF Init, EarnedInv
<1>2. TypeOK /\ EarnedInv /\ [Next]_vars => EarnedInv'
  <2> SUFFICES ASSUME TypeOK, EarnedInv, [Next]_vars PROVE EarnedInv'
    OBVIOUS
  <2> USE DEF EarnedInv
  <2>1. ASSUME NEW c \in Calls, Vote(c) PROVE EarnedInv'
    BY <2>1 DEF Vote
  <2>2. ASSUME NEW c \in Calls, Get(c) PROVE EarnedInv'
    BY <2>2 DEF Get, TypeOK
  <2>3. ASSUME NEW c \in Calls, Update(c) PROVE EarnedInv'
    <3>1. Sound(Decided(view[c], ballot[c]))
      BY DecidedSound DEF TypeOK
    <3> QED
      BY <1>0, <2>3, <3>1 DEF Update, Return, TypeOK
  <2>4. ASSUME NEW c \in Calls, Fail(c) PROVE EarnedInv'
    BY <1>0, <2>4 DEF Fail, Return, TypeOK
  <2>5. CASE ExpireOverdue
    <3>1. Sound([request EXCEPT !.state = "expired"])
      BY DEF TypeOK, Request, Sound, OneVoteEach, VotesCount, NoObjection, EnoughVotes
    <3> QED
      BY <2>5, <3>1 DEF ExpireOverdue
  <2>6. CASE Tick
    BY <2>6 DEF Tick
  <2>7. CASE UNCHANGED vars
    BY <2>7 DEF vars
  <2> QED
    BY <2>1, <2>2, <2>3, <2>4, <2>5, <2>6, <2>7 DEF Next
<1> QED
  BY <1>1, <1>2, TypeCorrect, PTL DEF Spec

\* A sound request that is approved is cleared: as many principals as responses.
LEMMA SoundCleared ==
  ASSUME NEW r \in Request, Sound(r), r.state = "approved"
  PROVE  Cleared(r)
<1> DEFINE D == 1 .. Len(r.responses)
           f == [i \in D |-> r.responses[i].principal]
<1>1. r.responses \in Seq(Ballot) /\ DOMAIN r.responses = D /\ Len(r.responses) \in Nat
  BY DEF Request
<1>2. \A i \in D : r.responses[i].approved /\ ~Late(r.responses[i])
  BY <1>1 DEF Sound, NoObjection, VotesCount
<1>3. Approvals(r.responses) = D
  BY <1>1, <1>2 DEF Approvals
<1>4. f \in Bijection(D, Approvers(r))
  <2>1. \A i, j \in D : f[i] = f[j] => i = j
    BY <1>1 DEF Sound, OneVoteEach
  <2>2. Approvers(r) = { f[i] : i \in D }
    BY <1>3 DEF Approvers
  <2> QED
    BY <2>1, <2>2 DEF Bijection, Injection, Surjection, IsInjective
<1>5. IsFiniteSet(D) /\ Cardinality(D) = Len(r.responses)
  BY <1>1, <1>2, <1>3, FS_Interval, AllApprove
<1>6. Cardinality(Approvers(r)) = Len(r.responses)
  BY <1>4, <1>5, FS_Bijection DEF ExistsBijection
<1>7. Distinct => Requester \notin Approvers(r)
  BY <1>1, <1>2, <1>3 DEF Approvers, Sound, VotesCount, SelfApproval
<1> QED
  BY <1>1, <1>2, <1>6, <1>7 DEF Cleared, Sound, EnoughVotes

\* Whatever copies overwrite one another, an approved request carries enough approvals of
\* different principals, none barred, none late, and no objection (Request.Decide).
THEOREM ApprovalsAreEarned == Spec => []ApprovalIsEarned
<1>1. TypeOK /\ EarnedInv => ApprovalIsEarned
  BY SoundCleared DEF TypeOK, EarnedInv, ApprovalIsEarned
<1> QED
  BY <1>1, TypeCorrect, EarnedAlways, PTL

-------------------------------------------------------------------------------
\* A decision is changed only by a call that had not seen it (Service.Decide, ExpireOverdue).
THEOREM DecisionsStand == Spec => DecisionStands
<1>1. [Next]_vars => [request.state # "pending" /\ request' # request => stale']_vars
  <2> SUFFICES ASSUME [Next]_vars, request.state # "pending", request' # request
               PROVE  stale'
    OBVIOUS
  <2>1. PICK c \in Calls : Update(c)
    BY DEF Next, Vote, Get, Fail, ExpireOverdue, Tick, vars
  <2>2. view[c] # request
    BY <2>1 DEF Update, Decided, Counted
  <2> QED
    BY <2>1, <2>2 DEF Update
<1> QED
  BY <1>1, PTL DEF Spec, DecisionStands

\* A counted objection decides the request it is added to.
LEMMA ObjectionRejects ==
  ASSUME NEW r \in Request, NEW b \in Ballot, Counted(r, b), ~b.approved
  PROVE  Decided(r, b).state = "rejected"
<1>1. r.responses \in Seq(Ballot)
  BY DEF Request
<1>2. LET new == Append(r.responses, b) IN new[Len(new)] = b
  BY <1>1
<1> QED
  BY <1>2 DEF Decided, WithVote, Result

\* An accepted rejection is final as long as every call saw the changes before its own.
THEOREM ObjectionsAreFinal == Spec => []ObjectionIsFinal
<1>1. Init => ObjectionIsFinal
  BY DEF Init, ObjectionIsFinal
<1>2. TypeOK /\ ObjectionIsFinal /\ [Next]_vars => ObjectionIsFinal'
  <2> SUFFICES ASSUME TypeOK, ObjectionIsFinal, [Next]_vars, objected', ~stale'
               PROVE  request'.state = "rejected"
    BY DEF ObjectionIsFinal
  <2>1. CASE UNCHANGED << request, history >>
    BY <2>1 DEF ObjectionIsFinal, history
  <2>2. ASSUME NEW c \in Calls, Update(c) PROVE request'.state = "rejected"
    <3>1. ~stale /\ view[c] = request /\ request' = Decided(request, ballot[c])
      BY <2>2 DEF Update
    <3>2. CASE objected
      BY <3>1, <3>2 DEF ObjectionIsFinal, Decided, Counted
    <3>3. CASE Counted(request, ballot[c]) /\ ~ballot[c].approved
      BY <3>1, <3>3, ObjectionRejects DEF TypeOK
    <3> QED
      BY <2>2, <3>1, <3>2, <3>3 DEF Update
  <2>3. CASE ExpireOverdue
    BY <2>3 DEF ExpireOverdue, ObjectionIsFinal, history
  <2> QED
    BY <2>1, <2>2, <2>3 DEF Next, Vote, Get, Fail, Tick, vars
<1> QED
  BY <1>1, <1>2, TypeCorrect, PTL DEF Spec
===============================================================================
