------------------------- MODULE AutonomousLoopProofs -------------------------
(***************************************************************************)
(* Proofs about AutonomousLoop, for any callers, findings, caps and bounds. *)
(*                                                                         *)
(* The loop's own steps rewrite no status, no savings and no resource, and  *)
(* the plans only where it begins to execute one (CycleFacts): what         *)
(* RecommendationsProofs shows of the tenant's other steps therefore holds  *)
(* with the loop running among them (LoopKeeps).  Two invariants are the    *)
(* loop's own: what it may still plan has no plan of its own yet (OnceInv), *)
(* and what it has spent covers everything it changed (SpendInv).           *)
(***************************************************************************)
EXTENDS AutonomousLoop, RecommendationsProofs

-------------------------------------------------------------------------------
\* Sums of savings.

LEMMA DollarsOf ==
  ASSUME TypeInv, NEW i \in 1 .. Len(recs)
  PROVE  /\ Saving[recs[i].finding] \in Nat
         /\ IsFiniteSet(Dollars(i)) /\ Cardinality(Dollars(i)) = Saving[recs[i].finding]
<1>1. PICK n \in Nat : n = Saving[recs[i].finding]
  <2>1. recs[i].finding \in Findings  BY TypeFacts DEF Rec
  <2> QED  BY <2>1, FindingData
<1> DEFINE f == [u \in 1 .. n |-> << i, u >>]  D == {i} \X (1 .. n)
<1>2. f \in Bijection(1 .. n, D)
  <2>1. f \in [1 .. n -> D]  OBVIOUS
  <2>2. \A u, v \in 1 .. n : f[u] = f[v] => u = v  OBVIOUS
  <2>3. \A d \in D : \E u \in 1 .. n : f[u] = d  OBVIOUS
  <2> HIDE DEF f, D
  <2> QED  BY <2>1, <2>2, <2>3 DEF Bijection, Injection, Surjection, IsInjective
<1>3. IsFiniteSet(1 .. n) /\ Cardinality(1 .. n) = n  BY FS_Interval
<1>4. IsFiniteSet(D) /\ Cardinality(D) = n
  <2> HIDE DEF f, D
  <2> QED  BY <1>2, <1>3, FS_Bijection DEF ExistsBijection
<1> QED  BY <1>1, <1>4 DEF Dollars

LEMMA DollarsFinite ==
  ASSUME TypeInv, NEW S \in SUBSET (1 .. Len(recs))
  PROVE  IsFiniteSet(UNION { Dollars(i) : i \in S })
<1> DEFINE d == [i \in S |-> Dollars(i)]  T == { Dollars(i) : i \in S }
<1>1. IsFiniteSet(S)
  <2>1. IsFiniteSet(1 .. Len(recs))  BY FS_Interval, TypeFacts
  <2> QED  BY <2>1, FS_Subset
<1>2. d \in Surjection(S, T)
  <2>1. d \in [S -> T]  OBVIOUS
  <2>2. \A t \in T : \E i \in S : d[i] = t  OBVIOUS
  <2> HIDE DEF d, T
  <2> QED  BY <2>1, <2>2 DEF Surjection
<1>3. IsFiniteSet(T)
  <2> HIDE DEF d, T
  <2> QED  BY <1>1, <1>2, FS_Surjection
<1>4. \A t \in T : IsFiniteSet(t)  BY DollarsOf
<1> HIDE DEF T
<1>5. IsFiniteSet(UNION T)  BY <1>3, <1>4, FS_UNION
<1> QED  BY <1>5 DEF T

\* A sum counts, and more savings sum to more.
LEMMA SumType ==
  ASSUME TypeInv, NEW S \in SUBSET (1 .. Len(recs))
  PROVE  SumOf(S) \in Nat /\ \A T \in SUBSET S : SumOf(T) \in Nat /\ SumOf(T) <= SumOf(S)
<1>1. ASSUME NEW T \in SUBSET (1 .. Len(recs))  PROVE SumOf(T) \in Nat
  BY DollarsFinite, FS_CardinalityType DEF SumOf
<1>2. ASSUME NEW T \in SUBSET S  PROVE SumOf(T) <= SumOf(S)
  <2> DEFINE big == UNION { Dollars(i) : i \in S }  small == UNION { Dollars(i) : i \in T }
  <2>1. IsFiniteSet(big)  BY DollarsFinite
  <2>2. small \in SUBSET big  OBVIOUS
  <2>3. Cardinality(small) <= Cardinality(big)
    <3> HIDE DEF small, big
    <3> QED  BY <2>1, <2>2, FS_Subset
  <2> QED  BY <2>3 DEF SumOf
<1> QED  BY <1>1, <1>2

LEMMA SumAdds ==
  ASSUME TypeInv, NEW S \in SUBSET (1 .. Len(recs)), NEW i \in 1 .. Len(recs)
  PROVE  SumOf(S \cup {i}) <= SumOf(S) + Saving[recs[i].finding]
<1> DEFINE old == UNION { Dollars(j) : j \in S }  new == Dollars(i)
           all == UNION { Dollars(j) : j \in S \cup {i} }
<1>1. all = old \cup new  OBVIOUS
<1>2. /\ IsFiniteSet(old) /\ IsFiniteSet(new) /\ Cardinality(new) = Saving[recs[i].finding]
      /\ Saving[recs[i].finding] \in Nat
  BY DollarsFinite, DollarsOf
<1>3. SumOf(S) = Cardinality(old) /\ SumOf(S \cup {i}) = Cardinality(all)  BY DEF SumOf
<1> HIDE DEF old, new, all
<1>4. Cardinality(all) = Cardinality(old) + Cardinality(new) - Cardinality(old \cap new)
  BY <1>1, <1>2, FS_Union
<1>5. Cardinality(old) \in Nat /\ Cardinality(old \cap new) \in Nat
  BY <1>2, FS_Intersection, FS_CardinalityType
<1> QED  BY <1>2, <1>3, <1>4, <1>5

\* No step changes what a recommendation saves.
LEMMA SumKept ==
  ASSUME TypeInv, Grows, NEW S \in SUBSET (1 .. Len(recs))
  PROVE  SumOf(S)' = SumOf(S)
<1>1. \A i \in S : Dollars(i)' = Dollars(i)
  <2> SUFFICES ASSUME NEW i \in S PROVE Dollars(i)' = Dollars(i)  OBVIOUS
  <2>1. recs'[i].finding = recs[i].finding  BY DEF Grows, Same
  <2> QED  BY <2>1 DEF Dollars
<1>2. { Dollars(i)' : i \in S } = { Dollars(i) : i \in S }  BY <1>1
<1> QED  BY <1>2 DEF SumOf

-------------------------------------------------------------------------------
\* What the worker is at.  A recommendation it is about to plan is one there is, and the
\* plan it has made is about it.

WorkerInv ==
  /\ own.pc = "plan_read" => own.id \in 1 .. Len(recs)
  /\ own.pc \in { "plan_mark", "exec_begin" } => plans[own.plan].rec = own.id

\* Back to the next candidate.
Back == [own EXCEPT !.pc = "loop", !.id = 0, !.copy = << >>, !.plan = 0, !.granted = FALSE]

LEMMA CountedRecs ==
  ASSUME TypeInv
  PROVE  /\ { i \in DOMAIN recs : Counted(i) } \in SUBSET (1 .. Len(recs))
         /\ Candidates \in SUBSET (1 .. Len(recs)) /\ Spent \in Nat
<1>1. DOMAIN recs = 1 .. Len(recs)  BY TypeFacts
<1>2. { i \in DOMAIN recs : Counted(i) } \in SUBSET (1 .. Len(recs))  BY <1>1
<1>3. Spent \in Nat  BY <1>2, SumType DEF Spent
<1> QED  BY <1>1, <1>2, <1>3 DEF Candidates

LEMMA OwnFits ==
  ASSUME TypeInv
  PROVE  /\ Worker \in Procs /\ own \in ProcState /\ Fits(own, recs, Len(plans))
         /\ own.queue \subseteq 1 .. Len(recs)
         /\ own.pc \in WithCopy => own.id \in 1 .. Len(recs)
         /\ own.pc \in WithPlan => own.plan \in 1 .. Len(plans)
<1>1. Worker \in Procs  BY DEF Procs
<1>2. own \in ProcState /\ Fits(own, recs, Len(plans))  BY <1>1 DEF TypeInv, ProcOK, own
<1>3. own.id \in Nat /\ own.plan \in Nat  BY <1>2 DEF ProcState
<1>4. Len(recs) \in Nat /\ Len(plans) \in Nat  BY TypeFacts
<1> QED  BY <1>1, <1>2, <1>3, <1>4 DEF Fits

LEMMA WorkerDone ==
  ASSUME Done(Worker)
  PROVE  Become(Worker, Back)
BY Apart DEF Done, Back, own

\* Where each step of the cycle leaves the worker.
Starts(r) == own.pc = "idle" /\ r = [Idle EXCEPT !.pc = "spend", !.queue = Candidates]
Reads(r) ==
  /\ own.pc = "spend"
  /\ \E seen \in { Spent, 0 } : /\ r = [own EXCEPT !.pc = "loop", !.spent = seen]
                                /\ "misread" \notin past' => seen = Spent
Takes(r) ==
  /\ own.pc = "loop"
  /\ \E i \in own.queue : /\ r = [own EXCEPT !.pc = "plan_read", !.id = i, !.queue = @ \ {i}]
                          /\ Affordable(i)
Passes(r) == own.pc = "loop" /\ \E i \in own.queue : r = [own EXCEPT !.queue = @ \ {i}]
Plans(r) ==
  /\ own.pc = "plan_read"
  /\ r = [own EXCEPT !.pc = "plan_decide", !.id = own.id, !.copy = recs[own.id]]
Executing(r) ==
  /\ own.pc = "exec_begin" /\ ExecBegin(Worker, own.plan)
  /\ \E a \in BOOLEAN :
       r = [own EXCEPT !.pc = "exec", !.plan = own.plan, !.id = plans[own.plan].rec,
                       !.copy = [recs[plans[own.plan].rec] EXCEPT !.auto = a]]
Returns(r) == own.pc \in { "loop", "plan_read", "exec_begin" } /\ (r = Idle \/ r = Back)

LEMMA OwnTurns ==
  ASSUME TypeInv, Cycle
  PROVE  \E r : /\ Become(Worker, r)
                /\ Starts(r) \/ Reads(r) \/ Takes(r) \/ Passes(r) \/ Plans(r)
                   \/ Executing(r) \/ Returns(r)
<1>1. CASE CycleStart  BY <1>1 DEF CycleStart, Starts, At, own
<1>2. CASE CycleSpend
  <2>1. PICK seen \in { Spent, 0 } :
          /\ Become(Worker, [own EXCEPT !.pc = "loop", !.spent = seen])
          /\ Excuse(If(seen # Spent, "misread"))
    BY <1>2 DEF CycleSpend
  <2>2. "misread" \notin past' => seen = Spent  BY <2>1 DEF Excuse, If
  <2>3. own.pc = "spend"  BY <1>2 DEF CycleSpend, At, own
  <2> QED  BY <2>1, <2>2, <2>3 DEF Reads
<1>3. CASE CycleEnds  BY <1>3 DEF CycleEnds, Returns, At, own
<1>4. CASE \E i \in own.queue : Consider(i)
  <2>1. PICK i \in own.queue : Consider(i)  BY <1>4
  <2>2. Become(Worker, [own EXCEPT !.pc = "plan_read", !.id = i, !.queue = @ \ {i}])
    BY <2>1 DEF Consider
  <2>3. own.pc = "loop" /\ Affordable(i)  BY <2>1 DEF Consider, At, own
  <2> QED  BY <2>2, <2>3 DEF Takes
<1>5. CASE \E i \in own.queue : Skip(i)
  <2>1. PICK i \in own.queue : Skip(i)  BY <1>5
  <2>2. Become(Worker, [own EXCEPT !.queue = @ \ {i}]) /\ own.pc = "loop"
    BY <2>1 DEF Skip, At, own
  <2> QED  BY <2>2 DEF Passes
<1>6. CASE LoopPlan
  <2>1. own.pc = "plan_read"  BY <1>6 DEF LoopPlan, At, own
  <2>2. CASE PlanRead(Worker, own.id)
    <3>1. Become(Worker, [own EXCEPT !.pc = "plan_decide", !.id = own.id, !.copy = recs[own.id]])
      BY <2>2 DEF PlanRead, own
    <3> QED  BY <3>1, <2>1 DEF Plans
  <2>3. CASE Done(Worker)  BY <2>3, <2>1, WorkerDone DEF Returns
  <2> QED  BY <1>6, <2>2, <2>3 DEF LoopPlan
<1>7. CASE LoopExecute
  <2>1. own.pc = "exec_begin"  BY <1>7 DEF LoopExecute, At, own
  <2>2. CASE ExecBegin(Worker, own.plan)
    <3> DEFINE i == plans[own.plan].rec
    <3>1. PICK answer \in Answers :
            Become(Worker, [own EXCEPT !.pc = "exec", !.plan = own.plan, !.id = i,
                                       !.copy = [recs[i] EXCEPT !.auto = answer]])
      BY <2>2 DEF ExecBegin, own
    <3>2. answer \in BOOLEAN  BY AnswersAreBoolean
    <3> QED  BY <2>1, <2>2, <3>1, <3>2 DEF Executing
  <2>3. CASE Done(Worker)  BY <2>3, <2>1, WorkerDone DEF Returns
  <2> QED  BY <1>7, <2>2, <2>3 DEF LoopExecute, ExecRefused
<1> QED  BY <1>1, <1>2, <1>3, <1>4, <1>5, <1>6, <1>7 DEF Cycle

\* They rewrite no status, no savings and no resource, and the plans only where the worker
\* begins to execute one.
LEMMA CycleFacts ==
  ASSUME TypeInv, Cycle
  PROVE  /\ Rewritten /\ UNCHANGED << ledger, cloud, limits, losses >>
         /\ \A i \in 1 .. Len(recs) : recs'[i].status = recs[i].status
         /\ past \subseteq past' /\ past' \subseteq Excuses
         /\ \/ UNCHANGED plans
            \/ /\ own.pc = "exec_begin" /\ own.plan \in 1 .. Len(plans)
               /\ ExecBegin(Worker, own.plan) \/ ExecRefused(Worker, own.plan)
<1> DEFINE Kept == UNCHANGED << ledger, cloud, limits, losses >>
           Stays == \A i \in 1 .. Len(recs) : recs'[i].status = recs[i].status
           Past == past \subseteq past' /\ past' \subseteq Excuses
<1>1. ASSUME UNCHANGED recs  PROVE Rewritten /\ Stays
  BY <1>1, NothingWritten
<1>2. ASSUME NEW i \in 1 .. Len(recs), NEW a \in BOOLEAN, Judge(i, a)  PROVE Rewritten /\ Stays
  <2>1. Rewritten  BY <1>2, JudgedOnly
  <2>2. recs' = [recs EXCEPT ![i].auto = a] /\ recs \in Seq(Rec)  BY <1>2 DEF Judge, TypeInv, RecsOK
  <2>3. \A j \in 1 .. Len(recs) : recs[j] \in Rec  BY TypeFacts
  <2>4. Stays  BY <2>2, <2>3 DEF Rec
  <2> QED  BY <2>1, <2>4
<1>3. past \subseteq Excuses  BY DEF TypeInv, LimitsOK
<1>4. ASSUME UNCHANGED past \/ \E c : Excuse(If(c, "misread"))  PROVE Past
  BY <1>3, <1>4 DEF Excuse, If, Excuses
<1>5. own.queue \subseteq 1 .. Len(recs)  BY OwnFits
<1>6. CASE CycleStart  BY <1>6, <1>1, <1>4 DEF CycleStart
<1>7. CASE CycleSpend  BY <1>7, <1>1, <1>4 DEF CycleSpend
<1>8. CASE CycleEnds  BY <1>8, <1>1, <1>4 DEF CycleEnds
<1>9. CASE \E i \in own.queue : Consider(i)
  <2>1. PICK i \in own.queue : Consider(i)  BY <1>9
  <2>2. i \in 1 .. Len(recs)  BY <1>5
  <2>3. Judge(i, TRUE)  BY <2>1 DEF Consider
  <2>4. Rewritten /\ Stays  BY <2>2, <2>3, <1>2
  <2>5. Past  BY <2>1, <1>4 DEF Consider
  <2> QED  BY <2>1, <2>4, <2>5 DEF Consider
<1>10. CASE \E i \in own.queue : Skip(i)
  <2>1. PICK i \in own.queue : Skip(i)  BY <1>10
  <2>2. i \in 1 .. Len(recs)  BY <1>5
  <2>3. UNCHANGED recs \/ \E answer \in Answers : Judge(i, answer)  BY <2>1 DEF Skip
  <2>4. Rewritten /\ Stays  BY <2>2, <2>3, <1>1, <1>2, AnswersAreBoolean
  <2>5. Past  BY <2>1, <1>4 DEF Skip
  <2> QED  BY <2>1, <2>4, <2>5 DEF Skip
<1>11. CASE LoopPlan  BY <1>11, <1>1, <1>4 DEF LoopPlan
<1>12. CASE LoopExecute
  <2>1. own.pc = "exec_begin"  BY <1>12 DEF LoopExecute, At, own
  <2>2. own.plan \in 1 .. Len(plans)  BY <2>1, OwnFits DEF WithPlan
  <2>3. plans[own.plan].rec \in 1 .. Len(recs)  BY <2>2, TypeFacts
  <2>4. CASE ExecBegin(Worker, own.plan)
    <3>1. \E answer \in BOOLEAN : Judge(plans[own.plan].rec, answer)
      BY <2>4, AnswersAreBoolean DEF ExecBegin
    <3>2. Rewritten /\ Stays  BY <3>1, <2>3, <1>2
    <3>3. Past /\ Kept  BY <2>4, <1>4 DEF ExecBegin
    <3> QED  BY <3>2, <3>3, <2>1, <2>2, <2>4
  <2>5. CASE ExecRefused(Worker, own.plan)
    <3>1. Judge(plans[own.plan].rec, FALSE)  BY <2>5 DEF ExecRefused
    <3>2. Rewritten /\ Stays  BY <3>1, <2>3, <1>2
    <3>3. Past /\ Kept  BY <2>5, <1>4 DEF ExecRefused
    <3> QED  BY <3>2, <3>3, <2>1, <2>2, <2>5
  <2>6. CASE UNCHANGED << recs, plans, ledger, cloud, limits, losses, past >>
    BY <2>6, <1>1, <1>4
  <2> QED  BY <1>12, <2>4, <2>5, <2>6 DEF LoopExecute
<1> QED  BY <1>6, <1>7, <1>8, <1>9, <1>10, <1>11, <1>12 DEF Cycle

LEMMA CycleReplans ==
  ASSUME TypeInv, Cycle
  PROVE  Replanned /\ Grows /\ RecsOK' /\ PlansOK'
<1>1. Rewritten  BY CycleFacts
<1>2. Replanned
  <2>1. CASE UNCHANGED plans  BY <2>1, NothingReplanned
  <2>2. CASE /\ own.plan \in 1 .. Len(plans)
             /\ ExecBegin(Worker, own.plan) \/ ExecRefused(Worker, own.plan)
    <3>1. PICK k \in 1 .. Len(plans) : k = own.plan  BY <2>2
    <3>2. SetPlan(k, "executing") \/ SetPlan(k, "failed")
      BY <2>2, <3>1 DEF ExecBegin, ExecRefused
    <3>3. "executing" \in PlanState /\ "failed" \in PlanState /\ TRUE \in BOOLEAN  BY DEF PlanState
    <3> QED  BY <3>2, <3>3, OneReplanned
  <2> QED  BY <2>1, <2>2, CycleFacts
<1>3. Len(recs') = Len(recs) /\ Len(recs) \in Nat  BY <1>1, TypeFacts DEF Rewritten
<1>4. \A k \in 1 .. Len(plans') : plans'[k].rec \in 1 .. Len(recs')
  BY <1>2, <1>3, TypeFacts DEF Replanned
<1>5. Len(recs') >= Len(recs) /\ Len(plans') = Len(plans) /\ Len(plans) \in Nat
  BY <1>2, <1>3, TypeFacts DEF Replanned
<1>6. Grows  BY <1>1, <1>2, <1>5 DEF Rewritten, Replanned, Grows
<1>7. RecsOK'  BY <1>1 DEF Rewritten, RecsOK
<1>8. PlansOK'  BY <1>2, <1>4, <1>5 DEF Replanned, PlansOK, TypeInv
<1> QED  BY <1>2, <1>6, <1>7, <1>8

\* Whoever holds neither a copy nor a plan has little to keep to.
LEMMA FreeMoves ==
  ASSUME TypeInv, Grows, NEW t \in ProcState, Become(Worker, t),
         t.pc \in { "spend", "loop", "plan_read" }, t.id <= Len(recs), t.plan <= Len(plans),
         t.queue \subseteq 1 .. Len(recs)
  PROVE  OneMoves
<1>1. t.pc \notin WithCopy /\ t.pc \notin WithPlan  BY DEF WithCopy, WithPlan
<1>2. Fits(t, recs, Len(plans))  BY <1>1 DEF Fits
<1>3. Fits(t, recs', Len(plans'))  BY <1>2, FitsKept
<1> QED  BY <1>3, OwnFits DEF OneMoves

LEMMA OwnMoves ==
  ASSUME TypeInv, WorkerInv, Cycle
  PROVE  OneMoves
<1>1. Grows  BY CycleReplans
<1>2. PICK r : /\ Become(Worker, r)
               /\ Starts(r) \/ Reads(r) \/ Takes(r) \/ Passes(r) \/ Plans(r)
                  \/ Executing(r) \/ Returns(r)
  BY OwnTurns
<1>3. PICK w : w = own  OBVIOUS
<1>4. /\ w \in ProcState /\ w.queue \subseteq 1 .. Len(recs)
      /\ w.id <= Len(recs) /\ w.plan <= Len(plans)
  BY <1>3, OwnFits DEF Fits
<1>5. Len(recs) \in Nat /\ Len(plans) \in Nat  BY TypeFacts
<1>6. CASE Starts(r)
  <2>1. /\ r \in ProcState /\ r.pc = "spend" /\ r.id = 0 /\ r.plan = 0 /\ r.queue = Candidates
    <3>1. PICK q : q = Candidates  OBVIOUS
    <3>2. q \in SUBSET Ids /\ q \in SUBSET (1 .. Len(recs))  BY <3>1, CountedRecs, TypeFacts
    <3>3. Idle \in ProcState  BY <1>5, IdleFits DEF Fits
    <3>4. r = [Idle EXCEPT !.pc = "spend", !.queue = q]  BY <1>6, <3>1 DEF Starts
    <3> QED  BY <3>1, <3>2, <3>3, <3>4 DEF ProcState, Labels, Idle
  <2> QED  BY <1>1, <1>2, <1>5, <2>1, CountedRecs, FreeMoves
<1>7. CASE Reads(r)
  <2>1. PICK seen \in Nat : r = [w EXCEPT !.pc = "loop", !.spent = seen]
    BY <1>3, <1>7, CountedRecs DEF Reads
  <2>2. r \in ProcState /\ r.pc = "loop" /\ r.id = w.id /\ r.plan = w.plan /\ r.queue = w.queue
    BY <1>4, <2>1 DEF ProcState, Labels
  <2> QED  BY <1>1, <1>2, <1>4, <2>2, FreeMoves
<1>8. CASE Takes(r)
  <2>1. PICK i \in w.queue : r = [w EXCEPT !.pc = "plan_read", !.id = i, !.queue = @ \ {i}]
    BY <1>3, <1>8 DEF Takes
  <2>2. i \in 1 .. Len(recs) /\ i \in Nat  BY <1>4, <1>5
  <2>3. /\ r \in ProcState /\ r.pc = "plan_read" /\ r.id = i /\ r.plan = w.plan
        /\ r.queue = w.queue \ {i}
    BY <1>4, <2>1, <2>2 DEF ProcState, Labels
  <2>4. r.queue \subseteq 1 .. Len(recs) /\ r.id <= Len(recs)  BY <1>4, <1>5, <2>2, <2>3
  <2> QED  BY <1>1, <1>2, <1>4, <2>3, <2>4, FreeMoves
<1>9. CASE Passes(r)
  <2>1. w.pc = "loop"  BY <1>3, <1>9 DEF Passes
  <2>2. PICK i \in w.queue : r = [w EXCEPT !.queue = @ \ {i}]  BY <1>3, <1>9 DEF Passes
  <2>3. /\ r \in ProcState /\ r.pc = "loop" /\ r.id = w.id /\ r.plan = w.plan
        /\ r.queue = w.queue \ {i}
    BY <1>4, <2>1, <2>2 DEF ProcState
  <2>4. r.queue \subseteq 1 .. Len(recs)  BY <1>4, <2>3
  <2> QED  BY <1>1, <1>2, <1>4, <2>3, <2>4, FreeMoves
<1>10. CASE Plans(r)
  <2>1. w.pc = "plan_read" /\ r = [w EXCEPT !.pc = "plan_decide", !.id = w.id, !.copy = recs[w.id]]
    BY <1>3, <1>10 DEF Plans
  <2>2. w.id \in 1 .. Len(recs)  BY <2>1, <1>3 DEF WorkerInv
  <2>3. recs[w.id] \in Rec /\ Same(recs[w.id], recs[w.id])  BY <2>2, TypeFacts DEF Same
  <2>4. /\ r \in ProcState /\ r.pc = "plan_decide" /\ r.id = w.id /\ r.copy = recs[w.id]
        /\ r.plan = w.plan /\ r.queue = w.queue
    BY <1>4, <2>1, <2>3 DEF ProcState, Labels
  <2>5. "plan_decide" \notin WithPlan  BY DEF WithPlan
  <2> QED  BY <1>1, <1>2, <1>4, <2>2, <2>3, <2>4, <2>5, OwnFits, TakesUp
<1>11. CASE Executing(r)
  <2>1. PICK k \in 1 .. Len(plans) : k = w.plan
    BY <1>3, <1>11, OwnFits DEF Executing, WithPlan
  <2>2. PICK i \in 1 .. Len(recs) : i = plans[k].rec  BY TypeFacts
  <2>3. PICK a \in BOOLEAN : r = [w EXCEPT !.pc = "exec", !.plan = k, !.id = i,
                                           !.copy = [recs[i] EXCEPT !.auto = a]]
    BY <1>3, <1>11, <2>1, <2>2 DEF Executing
  <2>4. PICK copy : copy = [recs[i] EXCEPT !.auto = a]  OBVIOUS
  <2>5. copy \in Rec /\ Same(copy, recs[i])
    <3>1. recs[i] \in Rec /\ "open" \in Status  BY TypeFacts DEF Status
    <3> QED  BY <2>4, <3>1, RecordFacts
  <2>6. /\ r \in ProcState /\ r.pc = "exec" /\ r.id = i /\ r.copy = copy /\ r.plan = k
        /\ r.queue = w.queue
    <3>1. k \in Nat /\ i \in Nat  BY <1>5
    <3> QED  BY <1>4, <2>3, <2>4, <2>5, <3>1 DEF ProcState, Labels
  <2>7. k <= Len(plans) /\ k >= 1  BY <1>5
  <2> QED  BY <1>1, <1>2, <1>4, <2>5, <2>6, <2>7, OwnFits, TakesUp
<1>12. CASE Returns(r)
  <2>1. CASE r = Back
    <3>1. r = [w EXCEPT !.pc = "loop", !.id = 0, !.copy = << >>, !.plan = 0, !.granted = FALSE]
      BY <1>3, <2>1 DEF Back
    <3>2. r \in ProcState /\ r.pc = "loop" /\ r.id = 0 /\ r.plan = 0 /\ r.queue = w.queue
      BY <1>4, <3>1 DEF ProcState, Labels
    <3> QED  BY <1>1, <1>2, <1>4, <1>5, <3>2, FreeMoves
  <2>2. CASE r = Idle
    <3>1. Fits(Idle, recs, Len(plans))  BY <1>5, IdleFits
    <3>2. Fits(r, recs', Len(plans'))  BY <2>2, <3>1, <1>1, FitsKept
    <3>3. r \in ProcState  BY <3>2 DEF Fits
    <3> QED  BY <1>2, <3>2, <3>3, OwnFits DEF OneMoves
  <2> QED  BY <1>12, <2>1, <2>2 DEF Returns
<1> QED  BY <1>2, <1>6, <1>7, <1>8, <1>9, <1>10, <1>11, <1>12

LEMMA CycleCalm ==
  ASSUME TypeInv, Cycle
  PROVE  /\ Analyzing' = Analyzing /\ Calm
         /\ \A q \in Procs : q # Worker => proc'[q] = proc[q]
         /\ own'.pc \notin { "plan_create", "plan_mark", "exec_begin", "supersede", "save" }
<1>1. PICK r : /\ Become(Worker, r)
               /\ Starts(r) \/ Reads(r) \/ Takes(r) \/ Passes(r) \/ Plans(r)
                  \/ Executing(r) \/ Returns(r)
  BY OwnTurns
<1>2. PICK w : w = own  OBVIOUS
<1>3. w \in ProcState  BY <1>2, OwnFits
<1>4. proc'[Worker] = r /\ \A q \in Procs : q # Worker => proc'[q] = proc[q]
  BY <1>1, Moved, OwnFits
<1>5. w.pc \in { "idle", "spend", "loop", "plan_read", "exec_begin" }
  BY <1>1, <1>2 DEF Starts, Reads, Takes, Passes, Plans, Executing, Returns
<1>6. r.pc \in { "spend", "loop", "plan_read", "plan_decide", "exec", "idle" }
  <2>1. CASE Starts(r)  BY <2>1 DEF Starts, Idle
  <2>2. CASE Reads(r)  BY <2>2, <1>2, <1>3 DEF Reads, ProcState
  <2>3. CASE Takes(r)  BY <2>3, <1>2, <1>3 DEF Takes, ProcState
  <2>4. CASE Passes(r)  BY <2>4, <1>2, <1>3 DEF Passes, ProcState
  <2>5. CASE Plans(r)  BY <2>5, <1>2, <1>3 DEF Plans, ProcState
  <2>6. CASE Executing(r)  BY <2>6, <1>2, <1>3 DEF Executing, ProcState
  <2>7. CASE Returns(r)
    <3>1. Back = [w EXCEPT !.pc = "loop", !.id = 0, !.copy = << >>, !.plan = 0, !.granted = FALSE]
      BY <1>2 DEF Back
    <3>2. Back.pc = "loop"  BY <3>1, <1>3 DEF ProcState
    <3>3. Idle.pc = "idle"  BY DEF Idle
    <3> QED  BY <2>7, <3>2, <3>3 DEF Returns
  <2> QED  BY <1>1, <2>1, <2>2, <2>3, <2>4, <2>5, <2>6, <2>7
<1>7. \A p \in Procs : proc'[p].pc \in { "supersede", "save" } <=> proc[p].pc \in { "supersede", "save" }
  <2> SUFFICES ASSUME NEW p \in Procs
               PROVE proc'[p].pc \in { "supersede", "save" } <=> proc[p].pc \in { "supersede", "save" }
    OBVIOUS
  <2>1. CASE p = Worker  BY <2>1, <1>2, <1>4, <1>5, <1>6 DEF own
  <2>2. CASE p # Worker  BY <2>2, <1>4
  <2> QED  BY <2>1, <2>2
<1>8. Analyzing' = Analyzing  BY <1>7 DEF Analyzing
<1>9. Worker \notin Analyzing  BY <1>2, <1>5 DEF Analyzing, own
<1>10. Analyzing \subseteq Procs  BY DEF Analyzing
<1> QED  BY <1>4, <1>6, <1>8, <1>9, <1>10 DEF Calm, own

LEMMA CycleTypes ==
  ASSUME TypeInv, WorkerInv, Cycle
  PROVE  TypeInv'
<1>1. Grows /\ RecsOK' /\ PlansOK'  BY CycleReplans
<1>2. LedgerOK'  BY CycleFacts, LedgerTypes DEF LedgerMoves
<1>3. CloudOK'  BY CycleFacts DEF TypeInv, CloudOK, cloud
<1>4. LimitsOK'  BY CycleFacts DEF TypeInv, LimitsOK, limits
<1>5. ProcOK'  BY <1>1, OwnMoves, ProcKept
<1>6. SpaceOK'
  <2>1. Len(recs') = Len(recs)  BY CycleFacts DEF Rewritten
  <2> QED  BY <2>1, CycleCalm DEF TypeInv, SpaceOK
<1> QED  BY <1>1, <1>2, <1>3, <1>4, <1>5, <1>6 DEF TypeInv

-------------------------------------------------------------------------------
\* The worker among the others.

\* Only its own progress moves it.
LEMMA OthersStep ==
  ASSUME TypeInv, World \/ \E c \in Callers : Call(c) \/ Progress(c)
  PROVE  own' = own
<1>1. Worker \in Procs /\ Callers \subseteq Procs /\ \A c \in Callers : c # Worker
  BY Apart DEF Procs
<1>2. CASE World
  <2>1. UNCHANGED proc
    BY <1>2 DEF World, Discover, Claim, ValidateHolds, ValidateFails, Rollback, RollbackFails, Cancel
  <2> QED  BY <2>1 DEF own
<1>3. ASSUME NEW c \in Callers, NEW r, Become(c, r)  PROVE own' = own
  BY <1>1, <1>3, Moved DEF own
<1>4. ASSUME NEW c \in Callers, Done(c)  PROVE own' = own
  BY <1>1, <1>4, Returned DEF own
<1>5. ASSUME NEW c \in Callers, Call(c)  PROVE own' = own
  <2>1. CASE AnalyzeLoad(c)  BY <2>1, <1>3 DEF AnalyzeLoad
  <2>2. CASE AnalyzeSupersede(c)  BY <2>2, <1>3 DEF AnalyzeSupersede
  <2>3. CASE AnalyzeSave(c)  BY <2>3, <1>3 DEF AnalyzeSave
  <2>4. CASE AnalyzeFails(c)  BY <2>4, <1>3 DEF AnalyzeFails
  <2>5. CASE EvaluateRead(c) \/ SnoozeRead(c)
    BY <2>5, <1>3 DEF EvaluateRead, SnoozeRead, ReadFor
  <2>6. CASE EvaluateWrite(c)  BY <2>6, <1>3 DEF EvaluateWrite
  <2>7. CASE SnoozeWrite(c)  BY <2>7, <1>3 DEF SnoozeWrite
  <2>8. CASE Dismiss(c)  BY <2>8 DEF Dismiss, own
  <2>9. CASE PlanAsk(c)  BY <2>9, <1>3 DEF PlanAsk, PlanRead
  <2>10. CASE ExecuteAsk(c)
    <3>1. PICK k \in DOMAIN plans : ExecBegin(c, k) \/ ExecRefused(c, k)  BY <2>10 DEF ExecuteAsk
    <3>2. CASE ExecBegin(c, k)  BY <3>2, <1>3 DEF ExecBegin
    <3>3. CASE ExecRefused(c, k)  BY <3>3, <1>4 DEF ExecRefused
    <3> QED  BY <3>1, <3>2, <3>3
  <2> QED  BY <1>5, <2>1, <2>2, <2>3, <2>4, <2>5, <2>6, <2>7, <2>8, <2>9, <2>10 DEF Call
<1>6. ASSUME NEW c \in Callers, Progress(c)  PROVE own' = own
  <2>1. CASE PlanDecide(c)  BY <2>1, <1>3 DEF PlanDecide
  <2>2. CASE PlanRefused(c)  BY <2>2, <1>4 DEF PlanRefused
  <2>3. CASE PlanCreate(c)
    <3>1. \E r : Become(c, r)  BY <2>3 DEF PlanCreate
    <3> QED  BY <3>1, <1>3
  <2>4. CASE PlanMark(c)  BY <2>4, <1>1, <1>4 DEF PlanMark
  <2>5. CASE Ends(c)  BY <1>1, <2>5, EndsLeaves DEF own
  <2> QED  BY <1>6, <2>1, <2>2, <2>3, <2>4, <2>5 DEF Progress, Ends
<1> QED  BY <1>2, <1>5, <1>6

\* Where its progress leaves it.
Asks == /\ own.pc = "plan_decide" /\ own'.pc = "plan_create" /\ own'.id = own.id
        /\ UNCHANGED plans
Creates == /\ PlanCreate(Worker) /\ own.pc = "plan_create" /\ own'.pc = "plan_mark"
           /\ own'.id = own.id /\ own'.plan = Len(plans) + 1
Marks == /\ PlanMark(Worker) /\ own.pc = "plan_mark" /\ own'.pc = "exec_begin"
         /\ own'.id = own.id /\ own'.plan = own.plan
Leaves == /\ own'.pc = "loop"
          /\ \/ PlanRefused(Worker) \/ PlanMark(Worker)
             \/ ExecFails(Worker) \/ ExecRollsBack(Worker) \/ ExecRollbackFails(Worker)
Saves == /\ ExecSucceeds(Worker) /\ own.pc = "exec" /\ own'.pc = "loop"

LEMMA WorkerSaves ==
  ASSUME TypeInv, ExecSucceeds(Worker)
  PROVE  /\ Saves /\ own'.queue = own.queue
         /\ own'.spent = own.spent + Saving[recs[own.id].finding]
<1>1. PICK w, more : w = own /\ more = Saving[recs[w.id].finding]  OBVIOUS
<1>2. w \in ProcState  BY <1>1, OwnFits
<1>3. w.pc = "exec" /\ Worker \notin Callers  BY <1>1, Apart DEF ExecSucceeds, At, own
<1>4. Become(Worker, [w EXCEPT !.pc = "loop", !.id = 0, !.copy = << >>, !.plan = 0,
                               !.granted = FALSE, !.spent = @ + more])
  BY <1>1, <1>3 DEF ExecSucceeds, own
<1>5. own' = [w EXCEPT !.pc = "loop", !.id = 0, !.copy = << >>, !.plan = 0,
                       !.granted = FALSE, !.spent = @ + more]
  BY <1>4, OwnFits, Moved DEF own
<1>6. own'.pc = "loop" /\ own'.queue = w.queue /\ own'.spent = w.spent + more
  BY <1>2, <1>5 DEF ProcState
<1> QED  BY <1>1, <1>3, <1>6 DEF Saves

LEMMA OwnProgress ==
  ASSUME TypeInv, Progress(Worker)
  PROVE  /\ own'.queue = own.queue
         /\ \/ (Asks \/ Creates \/ Marks \/ Leaves) /\ own'.spent = own.spent
            \/ Saves /\ own'.spent = own.spent + Saving[recs[own.id].finding]
<1>1. PICK w : w = own  OBVIOUS
<1>2. w \in ProcState  BY <1>1, OwnFits
<1>3. ASSUME NEW r, Become(Worker, r)  PROVE own' = r
  BY <1>3, OwnFits, Moved DEF own
<1>4. ASSUME Done(Worker)
      PROVE  own'.pc = "loop" /\ own'.queue = own.queue /\ own'.spent = own.spent
  <2>1. Back = [w EXCEPT !.pc = "loop", !.id = 0, !.copy = << >>, !.plan = 0, !.granted = FALSE]
    BY <1>1 DEF Back
  <2>2. own' = Back  BY <1>3, <1>4, WorkerDone
  <2> QED  BY <1>1, <1>2, <2>1, <2>2 DEF ProcState
<1>5. CASE PlanDecide(Worker)
  <2>1. PICK answer : Become(Worker, [w EXCEPT !.pc = "plan_create", !.granted = answer])
    BY <1>1, <1>5 DEF PlanDecide, own
  <2>2. own' = [w EXCEPT !.pc = "plan_create", !.granted = answer]  BY <1>3, <2>1
  <2>3. w.pc = "plan_decide" /\ UNCHANGED plans  BY <1>1, <1>5 DEF PlanDecide, At, own
  <2>4. /\ own'.pc = "plan_create" /\ own'.id = w.id /\ own'.queue = w.queue
        /\ own'.spent = w.spent
    BY <1>2, <2>2 DEF ProcState
  <2> QED  BY <1>1, <2>3, <2>4 DEF Asks
<1>6. CASE PlanRefused(Worker)  BY <1>4, <1>6 DEF PlanRefused, Leaves
<1>7. CASE PlanCreate(Worker)
  <2>1. /\ Become(Worker, [w EXCEPT !.pc = "plan_mark", !.plan = Len(plans) + 1, !.made = @ + 1])
        /\ w.pc = "plan_create"
    BY <1>1, <1>7 DEF PlanCreate, At, own
  <2>2. own' = [w EXCEPT !.pc = "plan_mark", !.plan = Len(plans) + 1, !.made = @ + 1]
    BY <1>3, <2>1
  <2>3. /\ own'.pc = "plan_mark" /\ own'.id = w.id /\ own'.plan = Len(plans) + 1
        /\ own'.queue = w.queue /\ own'.spent = w.spent
    BY <1>2, <2>2 DEF ProcState
  <2> QED  BY <1>1, <1>7, <2>1, <2>3 DEF Creates
<1>8. CASE PlanMark(Worker)
  <2>1. w.pc = "plan_mark"  BY <1>1, <1>8 DEF PlanMark, At, own
  <2>2. CASE Done(Worker)  BY <1>4, <1>8, <2>2 DEF Leaves
  <2>3. CASE Become(Worker, [w EXCEPT !.pc = "exec_begin"])
    <3>1. own' = [w EXCEPT !.pc = "exec_begin"]  BY <1>3, <2>3
    <3>2. /\ own'.pc = "exec_begin" /\ own'.id = w.id /\ own'.plan = w.plan
          /\ own'.queue = w.queue /\ own'.spent = w.spent
      BY <1>2, <3>1 DEF ProcState
    <3> QED  BY <1>1, <1>8, <2>1, <3>2 DEF Marks
  <2> QED  BY <1>1, <1>8, <2>2, <2>3 DEF PlanMark, own
<1>9. CASE ExecSucceeds(Worker)  BY <1>9, WorkerSaves
<1>10. CASE ExecFails(Worker)  BY <1>4, <1>10 DEF ExecFails, Leaves
<1>11. CASE ExecRollsBack(Worker)  BY <1>4, <1>11 DEF ExecRollsBack, Leaves
<1>12. CASE ExecRollbackFails(Worker)  BY <1>4, <1>12 DEF ExecRollbackFails, Leaves
<1> QED  BY <1>5, <1>6, <1>7, <1>8, <1>9, <1>10, <1>11, <1>12 DEF Progress

\* A step of the tenant is one of the others' or the worker's progress.
LEMMA StepIsOthers ==
  ASSUME RecStep
  PROVE  Progress(Worker) \/ World \/ \E c \in Callers : Call(c) \/ Progress(c)
BY DEF RecStep, Procs

LEMMA WorkerStep ==
  ASSUME TypeInv, WorkerInv, RecStep \/ Cycle
  PROVE  WorkerInv'
<1>1. CASE Cycle
  <2>1. own'.pc \notin { "plan_mark", "exec_begin" }  BY <1>1, CycleCalm
  <2>2. ASSUME own'.pc = "plan_read"  PROVE own'.id \in 1 .. Len(recs)
    <3>1. PICK w : w = own  OBVIOUS
    <3>2. w \in ProcState /\ w.queue \subseteq 1 .. Len(recs)  BY <3>1, OwnFits
    <3>3. PICK r : /\ Become(Worker, r)
                   /\ Starts(r) \/ Reads(r) \/ Takes(r) \/ Passes(r) \/ Plans(r)
                      \/ Executing(r) \/ Returns(r)
      BY <1>1, OwnTurns
    <3>4. own' = r  BY <3>3, OwnFits, Moved DEF own
    <3>5. CASE Takes(r)
      <4>1. PICK i \in w.queue : r = [w EXCEPT !.pc = "plan_read", !.id = i, !.queue = @ \ {i}]
        BY <3>1, <3>5 DEF Takes
      <4>2. r.id = i  BY <3>2, <4>1 DEF ProcState
      <4> QED  BY <3>2, <3>4, <4>2
    <3>6. ~ Starts(r)  BY <2>2, <3>4 DEF Starts, Idle
    <3>7. ~ Reads(r)  BY <2>2, <3>1, <3>2, <3>4 DEF Reads, ProcState
    <3>8. ~ Passes(r)  BY <2>2, <3>1, <3>2, <3>4 DEF Passes, ProcState
    <3>9. ~ Plans(r)  BY <2>2, <3>1, <3>2, <3>4 DEF Plans, ProcState
    <3>10. ~ Executing(r)  BY <2>2, <3>1, <3>2, <3>4 DEF Executing, ProcState
    <3>11. ~ Returns(r)
      <4>1. Back = [w EXCEPT !.pc = "loop", !.id = 0, !.copy = << >>, !.plan = 0, !.granted = FALSE]
        BY <3>1 DEF Back
      <4>2. Back.pc = "loop"  BY <4>1, <3>2 DEF ProcState
      <4>3. Idle.pc = "idle"  BY DEF Idle
      <4> QED  BY <2>2, <3>4, <4>2, <4>3 DEF Returns
    <3> QED  BY <3>3, <3>5, <3>6, <3>7, <3>8, <3>9, <3>10, <3>11
  <2>3. Len(recs') = Len(recs)  BY <1>1, CycleFacts DEF Rewritten
  <2> QED  BY <2>1, <2>2, <2>3 DEF WorkerInv
<1>2. CASE RecStep
  <2>1. Grows  BY <1>2, StoreGrows
  <2>2. Len(recs) \in Nat /\ Len(recs') \in Nat /\ Len(recs') >= Len(recs)
    BY <2>1, TypeFacts DEF Grows
  <2>3. ASSUME own' = own  PROVE WorkerInv'
    <3>1. own.pc = "plan_read" => own.id \in 1 .. Len(recs')  BY <2>2 DEF WorkerInv
    <3>2. own.pc \in { "plan_mark", "exec_begin" } => plans'[own.plan].rec = own.id
      <4> SUFFICES ASSUME own.pc \in { "plan_mark", "exec_begin" } PROVE plans'[own.plan].rec = own.id
        OBVIOUS
      <4>1. own.plan \in 1 .. Len(plans)  BY OwnFits DEF WithPlan
      <4> QED  BY <4>1, <2>1 DEF Grows, WorkerInv
    <3> QED  BY <2>3, <3>1, <3>2 DEF WorkerInv
  <2>4. CASE Progress(Worker)
    <3>1. CASE Asks \/ Leaves \/ Saves  BY <3>1 DEF Asks, Leaves, Saves, WorkerInv
    <3>2. CASE Creates
      <4>1. plans'[Len(plans) + 1].rec = own.id
        BY <3>2, PlanMade, OwnFits DEF Creates, own
      <4> QED  BY <3>2, <4>1 DEF Creates, WorkerInv
    <3>3. CASE Marks
      <4>1. own.plan \in 1 .. Len(plans)  BY <3>3, OwnFits DEF Marks, WithPlan
      <4>2. plans'[own.plan].rec = own.id  BY <4>1, <3>3, <2>1 DEF Grows, Marks, WorkerInv
      <4> QED  BY <3>3, <4>2 DEF Marks, WorkerInv
    <3> QED  BY <2>4, <3>1, <3>2, <3>3, OwnProgress
  <2> QED  BY <1>2, <2>3, <2>4, StepIsOthers, OthersStep
<1> QED  BY <1>1, <1>2

-------------------------------------------------------------------------------
\* Where the tenant starts: analysed once, nothing planned yet.

\* The recommendations of the first analysis, judged.
JudgedRecs(m) ==
  /\ recs \in Seq(Rec) /\ Len(recs) = m /\ m <= MaxRecs
  /\ \A i \in 1 .. m :
       /\ recs[i].born = 1
       /\ \A j : j \in recs[i].rivals <=>
                   \E l \in 1 .. m : j = l /\ l # i /\ ResourceOf[recs[l].finding] = ResourceOf[recs[i].finding]
  /\ \A i, j \in 1 .. m : recs[i].finding = recs[j].finding => i = j

LEMMA JudgedFacts ==
  ASSUME LInit
  PROVE  JudgedRecs(Cardinality(Findings))
<1> DEFINE m == Cardinality(Findings)  b == Batch(0, Findings, 1)
<1>1. m \in Nat  BY FindingData, FS_CardinalityType
<1>2. Numbered(b, 0, m, Findings, 1)
  <2>1. 1 \in Time  BY RecBounds DEF Time
  <2>2. 0 \in Nat /\ 0 + m <= MaxRecs  BY <1>1, LoopBounds
  <2> HIDE DEF m, b
  <2>3. Numbered(Batch(0, Findings, 1), 0, Cardinality(Findings), Findings, 1)
    BY <2>1, <2>2, BatchFacts DEF m
  <2> QED  BY <2>3 DEF m, b
<1>3. PICK a \in [1 .. m -> Answers] : recs = [k \in 1 .. m |-> [b[k] EXCEPT !.auto = a[k]]]
  BY DEF LInit, Judged
<1> HIDE DEF m, b
<1>4. ASSUME NEW k \in 1 .. m
      PROVE  /\ recs[k] \in Rec /\ recs[k].finding = b[k].finding
             /\ recs[k].rivals = b[k].rivals /\ recs[k].born = b[k].born
  <2>1. b[k] \in Rec  BY <1>2 DEF Numbered
  <2>2. a[k] \in BOOLEAN  BY <1>3, AnswersAreBoolean
  <2>3. recs[k] = [b[k] EXCEPT !.auto = a[k]]  BY <1>3
  <2> QED  BY <2>1, <2>2, <2>3 DEF Rec
<1>5. recs \in Seq(Rec) /\ Len(recs) = m
  <2>1. recs \in [1 .. m -> Rec]  BY <1>3, <1>4
  <2> QED  BY <1>1, <2>1
<1>6. m <= MaxRecs  BY LoopBounds DEF m
<1>7. ASSUME NEW i \in 1 .. m, NEW j
      PROVE  j \in recs[i].rivals <=>
               \E l \in 1 .. m : j = l /\ l # i /\ ResourceOf[recs[l].finding] = ResourceOf[recs[i].finding]
  <2>1. j \in b[i].rivals <=>
          \E l \in 1 .. m : j = 0 + l /\ l # i /\ ResourceOf[b[l].finding] = ResourceOf[b[i].finding]
    BY <1>2 DEF Numbered
  <2>2. \A l \in 1 .. m : 0 + l = l  BY <1>1
  <2> QED  BY <2>1, <2>2, <1>4
<1>8. \A i \in 1 .. m : recs[i].born = 1  BY <1>2, <1>4 DEF Numbered
<1>9. \A i, j \in 1 .. m : recs[i].finding = recs[j].finding => i = j
  BY <1>2, <1>4 DEF Numbered
<1> QED  BY <1>5, <1>6, <1>7, <1>8, <1>9 DEF JudgedRecs, m

LEMMA LoopInit == LInit => TypeInv /\ WorkerInv
<1> SUFFICES ASSUME LInit PROVE TypeInv /\ WorkerInv  OBVIOUS
<1> USE DEF LInit
<1>1. JudgedRecs(Cardinality(Findings)) /\ Cardinality(Findings) \in Nat
  BY JudgedFacts, FindingData, FS_CardinalityType
<1>2. recs \in Seq(Rec) /\ Len(recs) \in Nat /\ Len(recs) <= MaxRecs  BY <1>1 DEF JudgedRecs
<1>3. RecsOK /\ PlansOK  BY <1>2, RecBounds DEF RecsOK, PlansOK
<1>4. LedgerOK
  <2>1. NewRecord \in SavingsRecord  BY Stage DEF NewRecord, SavingsRecord, Stages
  <2> QED  BY <2>1 DEF LedgerOK
<1>5. CloudOK  BY DEF CloudOK, Condition
<1>6. LimitsOK  BY RecBounds DEF LimitsOK
<1>7. ProcOK
  <2>1. Len(plans) = 0  OBVIOUS
  <2>2. Fits(Idle, recs, Len(plans))  BY <1>2, <2>1, IdleFits
  <2>3. \A p \in Procs : proc[p] = Idle  OBVIOUS
  <2>4. proc \in [Procs -> ProcState]  BY <2>2 DEF Fits
  <2> QED  BY <2>2, <2>3, <2>4 DEF ProcOK
<1>8. SpaceOK
  <2>1. Analyzing = {}  BY DEF Analyzing, Idle
  <2>2. Cardinality(Findings) * 0 = 0  BY <1>1
  <2> QED  BY <1>2, <2>1, <2>2, FS_EmptySet DEF SpaceOK
<1>9. WorkerInv
  <2>1. own = Idle  BY DEF own, Procs
  <2> QED  BY <2>1 DEF WorkerInv, Idle
<1> QED  BY <1>3, <1>4, <1>5, <1>6, <1>7, <1>8, <1>9 DEF TypeInv

LEMMA LoopNext == LNext => RecStep \/ Cycle
BY DEF LNext, RecStep

LEMMA LoopTypesStep ==
  ASSUME TypeInv, WorkerInv, [LNext]_lvars
  PROVE  TypeInv' /\ WorkerInv'
<1>1. CASE RecStep \/ Cycle  BY <1>1, TypeStep, CycleTypes, WorkerStep
<1>2. CASE UNCHANGED lvars
  <2>1. UNCHANGED vars  BY <1>2 DEF lvars
  <2> QED  BY <2>1, TypeStutter DEF WorkerInv, own, vars
<1> QED  BY <1>1, <1>2, LoopNext

LEMMA LoopTypes == LSpec => [](TypeInv /\ WorkerInv)
<1>1. LInit => TypeInv /\ WorkerInv  BY LoopInit
<1>2. TypeInv /\ WorkerInv /\ [LNext]_lvars => TypeInv' /\ WorkerInv'  BY LoopTypesStep
<1> QED  BY <1>1, <1>2, PTL DEF LSpec

\* With the loop running among the callers every variable keeps its type, and every candidate,
\* copy and plan the worker holds is one there is (autonomous.go:62-178).
THEOREM LoopTypesHold == LSpec => []TypeOK
BY LoopTypes, TypesImply, PTL

-------------------------------------------------------------------------------
\* What the tenant's other steps keep, the loop's keep as well.

LEMMA LoopMoneyStep ==
  ASSUME TypeInv, MoneyInv, Cycle
  PROVE  MoneyInv'
<1>1. Rewritten /\ LedgerMoves /\ losses' = losses  BY CycleFacts DEF LedgerMoves
<1>2. Len(recs') = Len(recs) /\ Len(recs) \in Nat  BY <1>1, TypeFacts DEF Rewritten
<1>3. losses <= losses' /\ losses' \in Nat  BY <1>1 DEF TypeInv, LimitsOK
<1>4. SymInv'  BY <1>1, SymStep DEF MoneyInv
<1>5. BookInv'  BY <1>1, <1>2, BookStep DEF MoneyInv
<1>6. RivalInv'  BY <1>1, <1>3, RivalStep
<1> QED  BY <1>4, <1>5, <1>6 DEF MoneyInv

LEMMA LoopMoneyInit == LInit => MoneyInv
<1> SUFFICES ASSUME LInit PROVE MoneyInv  OBVIOUS
<1>1. SymInv  BY JudgedFacts DEF JudgedRecs, SymInv
<1>2. \A i \in Ids : ~ booked[i] /\ savings[i] = NewRecord  BY DEF LInit
<1>3. BookInv  BY <1>2 DEF BookInv
<1>4. RivalInv
  <2>1. Len(recs) \in Nat /\ Len(recs) <= MaxRecs
    BY JudgedFacts, FindingData, FS_CardinalityType DEF JudgedRecs
  <2>2. \A i \in 1 .. Len(recs) : i \in Ids  BY <2>1, RecBounds DEF Ids
  <2> QED  BY <1>2, <2>2 DEF RivalInv
<1> QED  BY <1>1, <1>3, <1>4 DEF MoneyInv

LEMMA LoopOfferStep ==
  ASSUME TypeInv, OfferInv, Cycle
  PROVE  OfferInv'
<1>1. /\ Len(recs') = Len(recs) /\ Len(recs) \in Nat /\ recs' \in Seq(Rec)
      /\ \A i \in 1 .. Len(recs) : /\ recs'[i].born = recs[i].born
                                   /\ recs'[i].finding = recs[i].finding
                                   /\ recs'[i].status = recs[i].status
  BY CycleFacts, TypeFacts DEF Rewritten, Same
<1>2. clock' = clock /\ past \subseteq past'  BY CycleFacts DEF limits
<1>3. Analyzing' = Analyzing /\ \A p \in Analyzing : proc'[p] = proc[p]  BY CycleCalm DEF Calm
<1>4. BornInv'  BY <1>1, <1>2, <1>3 DEF OfferInv, BornInv
<1>5. ASSUME "mixed" \notin past'  PROVE TurnsInv' /\ StaleInv' /\ ClearInv'
  <2>1. TurnsInv /\ StaleInv /\ ClearInv  BY <1>2, <1>5 DEF OfferInv
  <2>2. TurnsInv'  BY <2>1, <1>3 DEF TurnsInv
  <2>3. StaleInv'  BY <2>1, <1>1, <1>3 DEF StaleInv, At
  <2>4. ClearInv'  BY <2>1, <1>1, <1>2, <1>3 DEF ClearInv, At
  <2> QED  BY <2>2, <2>3, <2>4
<1>6. OfferedOnce'
  <2>1. DOMAIN recs' = 1 .. Len(recs) /\ DOMAIN recs = 1 .. Len(recs)  BY <1>1, TypeFacts
  <2> QED  BY <1>1, <1>2, <2>1 DEF OfferInv, OfferedOnce
<1> QED  BY <1>4, <1>5, <1>6 DEF OfferInv

LEMMA LoopOfferInit == LInit => OfferInv
<1> SUFFICES ASSUME LInit PROVE OfferInv  OBVIOUS
<1>1. Analyzing = {} /\ clock = 1  BY DEF LInit, Analyzing, Idle
<1>2. JudgedRecs(Cardinality(Findings)) /\ Cardinality(Findings) \in Nat
  BY JudgedFacts, FindingData, FS_CardinalityType
<1>3. BornInv  BY <1>1, <1>2 DEF JudgedRecs, BornInv
<1>4. TurnsInv /\ StaleInv /\ ClearInv  BY <1>1 DEF TurnsInv, StaleInv, ClearInv
<1>5. OfferedOnce
  <2>1. DOMAIN recs = 1 .. Len(recs)  BY <1>2 DEF JudgedRecs
  <2> QED  BY <2>1, <1>2 DEF JudgedRecs, OfferedOnce
<1> QED  BY <1>3, <1>4, <1>5 DEF OfferInv

\* The cycle begins to execute a plan of the worker's, or refuses it, or leaves the plans be.
LEMMA LoopExecMoves ==
  ASSUME TypeInv, Cycle
  PROVE  ExecMoved /\ PlansMove
<1>1. PICK w : w = own  OBVIOUS
<1>2. w \in ProcState /\ Worker \in Procs  BY <1>1, OwnFits
<1>3. UNCHANGED ledger /\ UNCHANGED estate  BY CycleFacts DEF cloud
<1>4. CASE ExecBegin(Worker, own.plan) /\ own.plan \in 1 .. Len(plans)
  <2>1. PICK k \in 1 .. Len(plans) : k = own.plan  BY <1>4
  <2>2. ExecMoved  BY <1>2, <1>4, <2>1 DEF ExecMoved
  <2>3. \E s \in PlanState : Turns(k, s)  BY <1>2, <1>4, <2>1, BeginTurns
  <2> QED  BY <2>2, <2>3 DEF PlansMove
<1>5. CASE ~ (ExecBegin(Worker, own.plan) /\ own.plan \in 1 .. Len(plans))
  <2>1. NoneExecutes
    <3>1. own'.pc # "exec"
      <4>1. PICK r : /\ Become(Worker, r)
                     /\ Starts(r) \/ Reads(r) \/ Takes(r) \/ Passes(r) \/ Plans(r)
                        \/ Executing(r) \/ Returns(r)
        BY OwnTurns
      <4>2. own' = r  BY <4>1, OwnFits, Moved DEF own
      <4>3. CASE Starts(r)  BY <4>2, <4>3 DEF Starts, Idle
      <4>4. CASE Reads(r)  BY <1>1, <1>2, <4>2, <4>4 DEF Reads, ProcState
      <4>5. CASE Takes(r)  BY <1>1, <1>2, <4>2, <4>5 DEF Takes, ProcState
      <4>6. CASE Passes(r)  BY <1>1, <1>2, <4>2, <4>6 DEF Passes, ProcState
      <4>7. CASE Plans(r)  BY <1>1, <1>2, <4>2, <4>7 DEF Plans, ProcState
      <4>8. CASE Executing(r)
        <5>1. own.plan \in 1 .. Len(plans)  BY <4>8, OwnFits DEF Executing, WithPlan
        <5> QED  BY <1>5, <4>8, <5>1 DEF Executing
      <4>9. CASE Returns(r)
        <5>1. Back = [w EXCEPT !.pc = "loop", !.id = 0, !.copy = << >>, !.plan = 0, !.granted = FALSE]
          BY <1>1 DEF Back
        <5>2. Back.pc = "loop"  BY <5>1, <1>2 DEF ProcState
        <5>3. Idle.pc = "idle"  BY DEF Idle
        <5> QED  BY <4>2, <4>9, <5>2, <5>3 DEF Returns
      <4> QED  BY <4>1, <4>3, <4>4, <4>5, <4>6, <4>7, <4>8, <4>9
    <3> QED  BY <3>1, CycleCalm DEF NoneExecutes, own
  <2>2. CASE UNCHANGED plans
    <3>1. ExecMoved  BY <2>1, <2>2 DEF ExecMoved
    <3>2. Quiet  BY <1>3, <2>2 DEF Quiet
    <3> QED  BY <3>1, <3>2 DEF PlansMove
  <2>3. CASE own.plan \in 1 .. Len(plans) /\ ExecRefused(Worker, own.plan)
    <3>1. PICK k \in 1 .. Len(plans) : k = own.plan  BY <2>3
    <3>2. SetPlan(k, "failed") /\ plans[k].state # "executing"  BY <2>3, <3>1 DEF ExecRefused
    <3>3. "failed" \in PlanState /\ TRUE \in BOOLEAN  BY DEF PlanState
    <3>4. \A l \in 1 .. Len(plans) : l # k => plans'[l] = plans[l]  BY <3>2, <3>3, PlanSet
    <3>5. ExecMoved  BY <2>1, <3>2, <3>4 DEF ExecMoved
    <3>6. \E s \in PlanState : Turns(k, s)  BY <1>2, <2>3, <3>1, BeginTurns
    <3> QED  BY <3>5, <3>6 DEF PlansMove
  <2> QED  BY <1>5, <2>2, <2>3, CycleFacts
<1> QED  BY <1>4, <1>5

LEMMA LoopBackedStep ==
  ASSUME TypeInv, TypeOK', MoneyInv, BackedInv, Cycle
  PROVE  BackedInv'
<1>1. Grows /\ ExecMoved /\ PlansMove  BY CycleReplans, LoopExecMoves
<1>2. losses <= losses' /\ losses' \in Nat /\ past \subseteq past'
  BY CycleFacts DEF TypeInv, LimitsOK
<1> QED  BY <1>1, <1>2, BackedStep

LEMMA LoopBackedInit == LInit => BackedInv
<1> SUFFICES ASSUME LInit PROVE BackedInv  OBVIOUS
<1>1. Len(plans) = 0  BY DEF LInit
<1>2. ExecInv  BY DEF LInit, ExecInv, At, Idle
<1>3. OneStanding /\ LeanInv  BY <1>1 DEF OneStanding, LeanInv
<1>4. ClaimInv
  <2>1. Len(recs) \in Nat /\ Len(recs) <= MaxRecs
    BY JudgedFacts, FindingData, FS_CardinalityType DEF JudgedRecs
  <2>2. \A i \in 1 .. Len(recs) : i \in Ids  BY <2>1, RecBounds DEF Ids
  <2>3. \A i \in Ids : Order(savings[i].stage) = 1  BY OrderValues DEF LInit, NewRecord
  <2> QED  BY <2>2, <2>3 DEF ClaimInv
<1> QED  BY <1>2, <1>3, <1>4 DEF BackedInv

LEMMA LoopKeeps == LSpec => [](MoneyInv /\ OfferInv /\ BackedInv)
<1>1. LInit => MoneyInv /\ OfferInv /\ BackedInv
  BY LoopMoneyInit, LoopOfferInit, LoopBackedInit
<1>2. ASSUME TypeInv, TypeOK', MoneyInv, OfferInv, BackedInv, [LNext]_lvars
      PROVE  MoneyInv' /\ OfferInv' /\ BackedInv'
  <2>1. CASE RecStep  BY <1>2, <2>1, MoneyStep, OfferStep, BackedKept
  <2>2. CASE Cycle  BY <1>2, <2>2, LoopMoneyStep, LoopOfferStep, LoopBackedStep
  <2>3. CASE UNCHANGED lvars
    <3>1. UNCHANGED vars  BY <2>3 DEF lvars
    <3> QED  BY <1>2, <3>1, MoneyStutter, OfferStutter, BackedStutter
  <2> QED  BY <1>2, <2>1, <2>2, <2>3, LoopNext
<1> QED  BY <1>1, <1>2, LoopTypes, LoopTypesHold, PTL DEF LSpec

\* Everything Recommendations promises it keeps with the unattended loop among the callers:
\* the loop takes up what is open, plans and executes through the same methods as people do,
\* and writes nothing else (autonomous.go:62-178, plan.go:146-153, execute.go:270-330).
THEOREM LoopKeepsPromises == LSpec => [](OfferedOnce /\ RivalsClaimOnce /\ ClaimsAreBacked)
<1>1. TypeInv /\ MoneyInv /\ OfferInv /\ BackedInv
        => OfferedOnce /\ RivalsClaimOnce /\ ClaimsAreBacked
  BY RivalsClaim, BackedClaims DEF OfferInv
<1> QED  BY <1>1, LoopTypes, LoopKeeps, PTL

\* A recommendation that left "open" stays closed with the loop running, as it does without
\* (autonomous.go:139, evaluate.go:65): the cycle judges, and writes no status of its own.
THEOREM LoopReopensNothing == LSpec => StaysClosed
<1>1. ASSUME TypeInv, RecStep \/ Cycle,
             NEW i \in DOMAIN recs, recs[i].status # "open", recs'[i].status = "open"
      PROVE  "overwritten" \in past'
  <2>1. i \in 1 .. Len(recs)  BY <1>1, TypeFacts
  <2>2. CASE Rewritten  BY <1>1, <2>1, <2>2 DEF Rewritten
  <2>3. ASSUME NEW c \in Callers, AnalyzeSave(c)  PROVE FALSE
    <3>1. PICK m \in Nat : Appended(Len(recs), m, proc[c].found, proc[c].born)
      BY <1>1, <2>3, SaveFacts
    <3>2. recs'[i] = recs[i]  BY <2>1, <3>1 DEF Appended
    <3> QED  BY <1>1, <3>2
  <2> QED  BY <1>1, <2>2, <2>3, RecsStep, CycleFacts
<1>2. ASSUME TypeInv, [LNext]_lvars
      PROVE  [\A i \in DOMAIN recs :
                recs[i].status # "open" /\ recs'[i].status = "open" => "overwritten" \in past']_vars
  <2>1. CASE UNCHANGED lvars  BY <2>1 DEF lvars
  <2>2. CASE LNext
    <3>1. \A i \in DOMAIN recs :
            recs[i].status # "open" /\ recs'[i].status = "open" => "overwritten" \in past'
      BY <1>1, <1>2, <2>2, LoopNext
    <3> QED  BY <3>1
  <2> QED  BY <1>2, <2>1, <2>2
<1>3. LSpec => [][LNext]_lvars  BY DEF LSpec
<1> QED  BY <1>2, <1>3, LoopTypes, PTL DEF StaysClosed

-------------------------------------------------------------------------------
\* The loop's own promises.  First, what any step does to the worker.

\* Between a recommendation taken up and its plan; and to the end of the plan.
Early == { "plan_read", "plan_decide", "plan_create" }
Held  == Early \cup { "plan_mark", "exec_begin", "exec" }

Took ==
  /\ own.pc = "loop" /\ own'.id \in own.queue /\ own'.id \notin own'.queue
  /\ own'.spent = own.spent /\ Affordable(own'.id)

OwnMoved ==
  /\ own'.queue \subseteq own.queue \/ (own.pc = "idle" /\ own'.queue = Candidates)
  /\ own'.pc \in Early => (own.pc \in Early /\ own'.id = own.id) \/ Took
  /\ own'.pc \in Held => (own.pc \in Held /\ own'.id = own.id /\ own'.spent = own.spent) \/ Took
  /\ own.pc = "plan_mark" => own' = own \/ PlanMark(Worker)
  /\ own'.pc \notin { "idle", "spend" } =>
       \/ own.pc \notin { "idle", "spend" } /\ own'.spent = own.spent
       \/ Saves /\ own'.spent = own.spent + Saving[recs[own.id].finding]
       \/ own.pc = "spend" /\ ("misread" \notin past' => own'.spent = Spent)

LEMMA OwnSteps ==
  ASSUME TypeInv, WorkerInv, RecStep \/ Cycle
  PROVE  OwnMoved
<1> USE DEF Early, Held
<1>1. CASE own' = own  BY <1>1 DEF OwnMoved
<1>2. CASE Progress(Worker)
  <2>1. own'.queue = own.queue  BY <1>2, OwnProgress
  <2>2. CASE Asks /\ own'.spent = own.spent  BY <2>1, <2>2 DEF Asks, OwnMoved
  <2>3. CASE Creates /\ own'.spent = own.spent  BY <2>1, <2>3 DEF Creates, OwnMoved
  <2>4. CASE Marks /\ own'.spent = own.spent  BY <2>1, <2>4 DEF Marks, OwnMoved
  <2>5. CASE Leaves /\ own'.spent = own.spent
    <3>1. /\ own'.pc = "loop" /\ own.pc \notin { "idle", "spend" }
          /\ own.pc = "plan_mark" => PlanMark(Worker)
      BY <2>5
      DEF Leaves, PlanRefused, PlanMark, ExecFails, ExecRollsBack, ExecRollbackFails, At, own
    <3> QED  BY <2>1, <2>5, <3>1 DEF OwnMoved
  <2>6. CASE Saves /\ own'.spent = own.spent + Saving[recs[own.id].finding]
    <3>1. own'.pc = "loop" /\ own.pc = "exec"  BY <2>6 DEF Saves
    <3> QED  BY <2>1, <2>6, <3>1 DEF OwnMoved
  <2> QED  BY <1>2, <2>2, <2>3, <2>4, <2>5, <2>6, OwnProgress
<1>3. CASE Cycle
  <2>1. PICK w : w = own  OBVIOUS
  <2>2. w \in ProcState  BY <2>1, OwnFits
  <2>3. PICK r : /\ Become(Worker, r)
                 /\ Starts(r) \/ Reads(r) \/ Takes(r) \/ Passes(r) \/ Plans(r)
                    \/ Executing(r) \/ Returns(r)
    BY <1>3, OwnTurns
  <2>4. own' = r  BY <2>3, OwnFits, Moved DEF own
  <2>5. CASE Starts(r)
    <3>1. own.pc = "idle" /\ r.pc = "spend" /\ r.queue = Candidates  BY <2>5 DEF Starts, Idle
    <3> QED  BY <2>4, <3>1 DEF OwnMoved
  <2>6. CASE Reads(r)
    <3>1. PICK seen \in { Spent, 0 } : /\ r = [w EXCEPT !.pc = "loop", !.spent = seen]
                                       /\ "misread" \notin past' => seen = Spent
      BY <2>1, <2>6 DEF Reads
    <3>2. r.pc = "loop" /\ r.queue = w.queue /\ r.spent = seen  BY <2>2, <3>1 DEF ProcState
    <3>3. own.pc = "spend"  BY <2>6 DEF Reads
    <3> QED  BY <2>1, <2>4, <3>1, <3>2, <3>3 DEF OwnMoved
  <2>7. CASE Takes(r)
    <3>1. PICK i \in w.queue : /\ r = [w EXCEPT !.pc = "plan_read", !.id = i, !.queue = @ \ {i}]
                               /\ Affordable(i)
      BY <2>1, <2>7 DEF Takes
    <3>2. r.pc = "plan_read" /\ r.id = i /\ r.queue = w.queue \ {i} /\ r.spent = w.spent
      BY <2>2, <3>1 DEF ProcState
    <3>3. own.pc = "loop"  BY <2>7 DEF Takes
    <3>4. Took
      <4>1. own'.id = i /\ own'.queue = own.queue \ {i} /\ own'.spent = own.spent /\ i \in own.queue
        BY <2>1, <2>4, <3>2
      <4>2. Affordable(own'.id)
        <5>1. PICK j : j = own'.id  OBVIOUS
        <5>2. Affordable(j)  BY <3>1, <4>1, <5>1
        <5> QED  BY <5>1, <5>2
      <4> QED  BY <3>3, <4>1, <4>2 DEF Took
    <3> QED  BY <2>1, <2>4, <3>2, <3>3, <3>4 DEF OwnMoved
  <2>8. CASE Passes(r)
    <3>1. PICK i \in w.queue : r = [w EXCEPT !.queue = @ \ {i}]  BY <2>1, <2>8 DEF Passes
    <3>2. r.pc = w.pc /\ r.queue = w.queue \ {i} /\ r.spent = w.spent /\ r.id = w.id
      BY <2>2, <3>1 DEF ProcState
    <3>3. own.pc = "loop"  BY <2>8 DEF Passes
    <3> QED  BY <2>1, <2>4, <3>2, <3>3 DEF OwnMoved
  <2>9. CASE Plans(r)
    <3>1. r = [w EXCEPT !.pc = "plan_decide", !.id = w.id, !.copy = recs[w.id]] /\ w.pc = "plan_read"
      BY <2>1, <2>9 DEF Plans
    <3>2. r.pc = "plan_decide" /\ r.queue = w.queue /\ r.spent = w.spent /\ r.id = w.id
      BY <2>2, <3>1 DEF ProcState
    <3> QED  BY <2>1, <2>4, <3>1, <3>2 DEF OwnMoved
  <2>10. CASE Executing(r)
    <3>1. PICK i : i = plans[w.plan].rec  OBVIOUS
    <3>2. w.pc = "exec_begin" /\ w.id = i  BY <2>1, <2>10, <3>1 DEF Executing, WorkerInv
    <3>3. PICK a : r = [w EXCEPT !.pc = "exec", !.plan = w.plan, !.id = i,
                                 !.copy = [recs[i] EXCEPT !.auto = a]]
      BY <2>1, <2>10, <3>1 DEF Executing
    <3>4. r.pc = "exec" /\ r.queue = w.queue /\ r.spent = w.spent /\ r.id = i
      BY <2>2, <3>3 DEF ProcState
    <3> QED  BY <2>1, <2>4, <3>2, <3>4 DEF OwnMoved
  <2>11. CASE Returns(r)
    <3>1. own.pc \in { "loop", "plan_read", "exec_begin" }  BY <2>11 DEF Returns
    <3>2. Back = [w EXCEPT !.pc = "loop", !.id = 0, !.copy = << >>, !.plan = 0, !.granted = FALSE]
      BY <2>1 DEF Back
    <3>3. Back.pc = "loop" /\ Back.queue = w.queue /\ Back.spent = w.spent
      BY <3>2, <2>2 DEF ProcState
    <3>4. Idle.pc = "idle" /\ Idle.queue = {}  BY DEF Idle
    <3>5. r = Idle \/ r = Back  BY <2>11 DEF Returns
    <3> QED  BY <2>1, <2>4, <3>1, <3>3, <3>4, <3>5 DEF OwnMoved
  <2> QED  BY <2>3, <2>5, <2>6, <2>7, <2>8, <2>9, <2>10, <2>11
<1> QED  BY <1>1, <1>2, <1>3, StepIsOthers, OthersStep

-------------------------------------------------------------------------------
\* One plan of the loop's for a recommendation.  What the loop lists is open; what it takes
\* up it strikes off its list; and what it has planned is closed, but for the moment between
\* its plan's creation and its own marking of it.

FreshInv ==
  \A k \in 1 .. Len(plans) : plans[k].unattended =>
    /\ plans[k].rec \notin own.queue
    /\ own.pc \in Early => own.id # plans[k].rec
    /\ recs[plans[k].rec].status = "open" => own.pc = "plan_mark" /\ own.id = plans[k].rec

OnceInv ==
  /\ own.pc \in Early => own.id \notin own.queue
  /\ losses = 0 /\ "overwritten" \notin past => FreshInv /\ PlansOnce

\* Past stays past, and lost lost.
LEMMA PastKept ==
  ASSUME TypeInv, RecStep \/ Cycle
  PROVE  /\ past \subseteq past' /\ losses \in Nat /\ losses <= losses' /\ losses' \in Nat
         /\ Grows
<1>1. losses \in Nat  BY DEF TypeInv, LimitsOK
<1>2. CASE RecStep  BY <1>1, <1>2, LimitsStep, StoreGrows DEF LimitsOK
<1>3. CASE Cycle  BY <1>1, <1>3, CycleFacts, CycleReplans
<1> QED  BY <1>2, <1>3

LEMMA StaysShut ==
  ASSUME TypeInv, RecStep \/ Cycle, "overwritten" \notin past',
         NEW i \in 1 .. Len(recs), recs[i].status # "open"
  PROVE  recs'[i].status # "open"
<1>1. CASE Rewritten  BY <1>1 DEF Rewritten
<1>2. ASSUME NEW c \in Callers, AnalyzeSave(c)  PROVE recs'[i].status # "open"
  <2>1. PICK m \in Nat : Appended(Len(recs), m, proc[c].found, proc[c].born)
    BY <1>2, SaveFacts
  <2> QED  BY <2>1 DEF Appended
<1> QED  BY <1>1, <1>2, RecsStep, CycleFacts

\* Marking a plan closes its recommendation, unless the write is lost.
LEMMA MarkShuts ==
  ASSUME TypeInv, PlanMark(Worker), losses' = 0
  PROVE  own.id \in 1 .. Len(recs) /\ recs'[own.id].status # "open"
<1>1. own.pc = "plan_mark"  BY DEF PlanMark, At, own
<1>2. PICK i \in 1 .. Len(recs) : i = own.id  BY <1>1, OwnFits DEF WithCopy
<1>3. ~ Lost  BY DEF Lost, TypeInv, LimitsOK
<1>4. PICK s \in { "scheduled", "under_review" } : WriteBack(Worker, [own.copy EXCEPT !.status = s])
  BY <1>3 DEF PlanMark, Account, own
<1>5. PICK c \in Rec : c = own.copy  BY <1>1, OwnFits DEF Fits, WithCopy
<1>6. recs' = [recs EXCEPT ![i] = [c EXCEPT !.status = s]]  BY <1>2, <1>4, <1>5 DEF WriteBack, own
<1>7. recs'[i] = [c EXCEPT !.status = s]  BY <1>6, TypeFacts
<1>8. recs'[i].status = s  BY <1>5, <1>7 DEF Rec
<1> QED  BY <1>2, <1>8

\* What a step makes of the plans the loop has made.
LEMMA OldPlansFresh ==
  ASSUME TypeInv, WorkerInv, OnceInv, RecStep \/ Cycle, losses' = 0, "overwritten" \notin past',
         NEW k \in 1 .. Len(plans), plans[k].unattended
  PROVE  /\ plans'[k].rec \notin own'.queue
         /\ own'.pc \in Early => own'.id # plans'[k].rec
         /\ recs'[plans'[k].rec].status = "open" => own'.pc = "plan_mark" /\ own'.id = plans'[k].rec
<1>1. losses = 0 /\ "overwritten" \notin past /\ Grows  BY PastKept
<1>2. PICK i \in 1 .. Len(recs) : i = plans[k].rec  BY TypeFacts
<1>3. plans'[k].rec = i  BY <1>1, <1>2 DEF Grows
<1>4. /\ i \notin own.queue
      /\ own.pc \in Early => own.id # i
      /\ recs[i].status = "open" => own.pc = "plan_mark" /\ own.id = i
  BY <1>1, <1>2 DEF OnceInv, FreshInv
<1>5. OwnMoved  BY OwnSteps
<1>6. i \notin own'.queue
  <2>1. CASE own'.queue \subseteq own.queue  BY <1>4, <2>1
  <2>2. CASE own.pc = "idle" /\ own'.queue = Candidates
    <3>1. recs[i].status # "open"  BY <1>4, <2>2
    <3> QED  BY <2>2, <3>1 DEF Candidates
  <2> QED  BY <1>5, <2>1, <2>2 DEF OwnMoved
<1>7. own'.pc \in Early => own'.id # i  BY <1>4, <1>5 DEF OwnMoved, Took
<1>8. ASSUME recs'[i].status = "open"  PROVE own'.pc = "plan_mark" /\ own'.id = i
  <2>1. recs[i].status = "open"  BY <1>8, StaysShut
  <2>2. own.pc = "plan_mark" /\ own.id = i  BY <1>4, <2>1
  <2>3. ~ PlanMark(Worker)  BY <1>8, <2>2, MarkShuts
  <2> QED  BY <1>5, <2>2, <2>3 DEF OwnMoved
<1> QED  BY <1>3, <1>6, <1>7, <1>8

\* A plan is added by PlanCreate alone, and is the loop's where the worker adds it.
LEMMA OncePlanned ==
  ASSUME TypeInv, WorkerInv, OnceInv, RecStep \/ Cycle, losses' = 0, "overwritten" \notin past'
  PROVE  FreshInv' /\ PlansOnce'
<1>1. losses = 0 /\ "overwritten" \notin past /\ Grows  BY PastKept
<1>2. FreshInv /\ PlansOnce /\ DOMAIN plans = 1 .. Len(plans)  BY <1>1, TypeFacts DEF OnceInv
<1>3. \A k \in 1 .. Len(plans) : /\ plans'[k].unattended = plans[k].unattended
                                 /\ plans'[k].rec = plans[k].rec
  BY <1>1 DEF Grows
<1>4. \A k, l \in 1 .. Len(plans) :
        plans[k].unattended /\ plans[l].unattended /\ plans[k].rec = plans[l].rec => k = l
  BY <1>1, <1>2 DEF PlansOnce
<1>5. \A k \in 1 .. Len(plans) : plans[k].unattended =>
        /\ plans'[k].rec \notin own'.queue
        /\ own'.pc \in Early => own'.id # plans'[k].rec
        /\ recs'[plans'[k].rec].status = "open" => own'.pc = "plan_mark" /\ own'.id = plans'[k].rec
  BY OldPlansFresh
<1>6. plans' \in Seq(Plan) /\ DOMAIN plans' = 1 .. Len(plans')
  <2>1. plans' \in Seq(Plan)  BY <1>1 DEF Grows
  <2> QED  BY <2>1
<1>7. CASE Replanned
  <2>1. Len(plans') = Len(plans)  BY <1>7 DEF Replanned
  <2>2. FreshInv'
    <3> SUFFICES ASSUME NEW k \in 1 .. Len(plans'), plans'[k].unattended
                 PROVE  /\ plans'[k].rec \notin own'.queue
                        /\ own'.pc \in Early => own'.id # plans'[k].rec
                        /\ recs'[plans'[k].rec].status = "open"
                             => own'.pc = "plan_mark" /\ own'.id = plans'[k].rec
      BY DEF FreshInv
    <3>1. k \in 1 .. Len(plans) /\ plans[k].unattended  BY <1>3, <2>1
    <3> QED  BY <3>1, <1>5
  <2>3. PlansOnce'
    <3> SUFFICES ASSUME NEW k \in 1 .. Len(plans), NEW l \in 1 .. Len(plans),
                        plans'[k].unattended, plans'[l].unattended, plans'[k].rec = plans'[l].rec
                 PROVE  k = l
      BY <1>6, <2>1 DEF PlansOnce
    <3> QED  BY <1>3, <1>4
  <2> QED  BY <2>2, <2>3
<1>8. ASSUME NEW p \in Procs, PlanCreate(p), RecStep  PROVE FreshInv' /\ PlansOnce'
  <2>1. PICK n \in Nat : n = Len(plans)  BY TypeFacts
  <2>2. PICK new \in Plan : /\ plans' = Append(plans, new) /\ new.rec = proc[p].id
                            /\ new.unattended <=> p = Worker
    BY <1>8, PlanMade
  <2>3. /\ Len(plans') = n + 1 /\ plans'[n + 1] = new
        /\ \A k \in 1 .. n + 1 : k \in 1 .. n \/ k = n + 1
    <3>1. plans \in Seq(Plan)  BY DEF TypeInv, PlansOK
    <3> QED  BY <2>1, <2>2, <3>1
  <2>4. ASSUME new.unattended
        PROVE  /\ new.rec = own.id /\ own.pc = "plan_create"
               /\ own'.pc = "plan_mark" /\ own'.id = own.id /\ own'.queue = own.queue
    <3>1. p = Worker /\ PlanCreate(Worker)  BY <1>8, <2>2, <2>4
    <3>2. new.rec = own.id /\ own.pc = "plan_create"  BY <2>2, <3>1 DEF own, PlanCreate, At
    <3>3. PICK w : w = own  OBVIOUS
    <3>4. w \in ProcState  BY <3>3, OwnFits
    <3>5. Become(Worker, [w EXCEPT !.pc = "plan_mark", !.plan = Len(plans) + 1, !.made = @ + 1])
      BY <3>1, <3>3 DEF PlanCreate, own
    <3>6. own' = [w EXCEPT !.pc = "plan_mark", !.plan = Len(plans) + 1, !.made = @ + 1]
      BY <3>5, OwnFits, Moved DEF own
    <3>7. own'.pc = "plan_mark" /\ own'.id = w.id /\ own'.queue = w.queue
      BY <3>4, <3>6 DEF ProcState
    <3> QED  BY <3>2, <3>3, <3>7
  <2>5. FreshInv'
    <3> SUFFICES ASSUME NEW k \in 1 .. Len(plans'), plans'[k].unattended
                 PROVE  /\ plans'[k].rec \notin own'.queue
                        /\ own'.pc \in Early => own'.id # plans'[k].rec
                        /\ recs'[plans'[k].rec].status = "open"
                             => own'.pc = "plan_mark" /\ own'.id = plans'[k].rec
      BY DEF FreshInv
    <3>1. CASE k \in 1 .. n
      <4>1. plans[k].unattended  BY <1>3, <2>1, <3>1
      <4> QED  BY <4>1, <1>5, <2>1, <3>1
    <3>2. CASE k = n + 1
      <4>1. plans'[k].rec = own.id /\ own.pc = "plan_create"
            /\ own'.pc = "plan_mark" /\ own'.id = own.id /\ own'.queue = own.queue
        BY <2>3, <2>4, <3>2
      <4>2. own.id \notin own.queue  BY <4>1 DEF OnceInv, Early
      <4> QED  BY <4>1, <4>2 DEF Early
    <3> QED  BY <2>3, <3>1, <3>2
  <2>6. ASSUME NEW l \in 1 .. n, plans[l].unattended, new.unattended  PROVE plans[l].rec # new.rec
    <3>1. own.pc = "plan_create" /\ new.rec = own.id  BY <2>4, <2>6
    <3> QED  BY <1>2, <2>1, <2>6, <3>1 DEF FreshInv, Early
  <2>7. PlansOnce'
    <3> SUFFICES ASSUME NEW k \in 1 .. n + 1, NEW l \in 1 .. n + 1,
                        plans'[k].unattended, plans'[l].unattended, plans'[k].rec = plans'[l].rec
                 PROVE  k = l
      BY <1>6, <2>3 DEF PlansOnce
    <3>1. CASE k \in 1 .. n /\ l \in 1 .. n  BY <1>3, <1>4, <2>1, <3>1
    <3>2. CASE k \in 1 .. n /\ l = n + 1  BY <1>3, <2>1, <2>3, <2>6, <3>2
    <3>3. CASE k = n + 1 /\ l \in 1 .. n  BY <1>3, <2>1, <2>3, <2>6, <3>3
    <3> QED  BY <2>3, <3>1, <3>2, <3>3
  <2> QED  BY <2>5, <2>7
<1>9. CASE RecStep  BY <1>7, <1>8, <1>9, PlansStep
<1>10. CASE Cycle  BY <1>7, <1>10, CycleReplans
<1> QED  BY <1>9, <1>10

LEMMA OnceStep ==
  ASSUME TypeInv, WorkerInv, OnceInv, RecStep \/ Cycle
  PROVE  OnceInv'
<1>1. own'.pc \in Early => own'.id \notin own'.queue
  <2> SUFFICES ASSUME own'.pc \in Early PROVE own'.id \notin own'.queue  OBVIOUS
  <2>1. OwnMoved  BY OwnSteps
  <2>2. CASE Took  BY <2>2 DEF Took
  <2>3. CASE own.pc \in Early /\ own'.id = own.id
    <3>1. own.id \notin own.queue  BY <2>3 DEF OnceInv
    <3>2. own.pc # "idle"  BY <2>3 DEF Early
    <3> QED  BY <2>1, <2>3, <3>1, <3>2 DEF OwnMoved
  <2> QED  BY <2>1, <2>2, <2>3 DEF OwnMoved
<1> QED  BY <1>1, OncePlanned DEF OnceInv

LEMMA OnceInit == LInit => OnceInv
<1> SUFFICES ASSUME LInit PROVE OnceInv  OBVIOUS
<1>1. own = Idle /\ plans = << >>  BY DEF LInit, own, Procs
<1> QED  BY <1>1 DEF OnceInv, FreshInv, PlansOnce, Early, Idle

\* However many cycles run and whatever people do in between, the loop makes one plan at
\* most for a recommendation: it lists what is open (autonomous.go:73), strikes off what it
\* takes up, and planning closes it before the next list (plan.go:146-153).  A lost write of
\* the status or a stale copy stored over it are what the statement excepts.
THEOREM UnattendedPlansOnce == LSpec => []PlansOnce
<1>1. ASSUME TypeInv, WorkerInv, OnceInv, [LNext]_lvars  PROVE OnceInv'
  <2>1. CASE RecStep \/ Cycle  BY <1>1, <2>1, OnceStep
  <2>2. CASE UNCHANGED lvars
    <3>1. own' = own /\ recs' = recs /\ plans' = plans /\ losses' = losses /\ past' = past
      BY <2>2 DEF lvars, vars, own
    <3> QED  BY <1>1, <3>1 DEF OnceInv, FreshInv, PlansOnce
  <2> QED  BY <1>1, <2>1, <2>2, LoopNext
<1>2. TypeInv /\ OnceInv => PlansOnce
  <2>1. OnceInv => PlansOnce  BY DEF OnceInv, PlansOnce
  <2> QED  BY <2>1
<1> QED  BY <1>1, <1>2, OnceInit, LoopTypes, PTL DEF LSpec

-------------------------------------------------------------------------------
\* The budget.  What the worker has spent, as its cycle counts it, covers everything the
\* loop has changed and still claims: a claim once made is dropped by others but never made
\* by them, for a plan the worker carried out is in the books from the moment it did.

AloneInv ==
  losses = 0 =>
    \A k \in 1 .. Len(plans) : plans[k].alone /\ plans[k].state \in LeanStates =>
      booked[plans[k].rec] /\ Order(savings[plans[k].rec].stage) >= 4

\* What the worker holds fits into what the budget leaves.
RoomInv ==
  Budget > 0 /\ own.pc \in Held => own.spent + Saving[recs[own.id].finding] <= Budget

CoverInv ==
  losses = 0 /\ "misread" \notin past =>
    /\ own.pc \notin { "idle", "spend" } => SumOf(Unattended) <= own.spent
    /\ Budget > 0 => SumOf(Unattended) <= Budget

SpendInv == AloneInv /\ RoomInv /\ CoverInv

\* An entry never takes a record down the ladder.
LEMMA Climbs ==
  ASSUME NEW s \in SavingsRecord, NEW e \in Entries
  PROVE  /\ Order(Post(s, e).stage) >= Order(s.stage) /\ Order(Post(s, e).stage) >= Order(e)
         /\ Order(s.stage) \in 1 .. 6
<1>1. Post(s, e) = IF Order(e) > Order(s.stage) THEN [s EXCEPT !.stage = e] ELSE s
  BY DEF Post, Advance, Entries
<1>2. s.stage \in Stages  BY Stage DEF SavingsRecord
<1>3. Order(s.stage) \in 1 .. 6  BY <1>2, OrderValues DEF Stages
<1>4. Order(e) \in 1 .. 6  BY OrderValues DEF Entries
<1>5. CASE Order(e) > Order(s.stage)
  <2>1. Post(s, e).stage = e  BY <1>1, <1>5 DEF SavingsRecord
  <2> QED  BY <1>3, <1>4, <1>5, <2>1
<1>6. CASE ~ (Order(e) > Order(s.stage))
  <2>1. Post(s, e).stage = s.stage  BY <1>1, <1>6
  <2> QED  BY <1>3, <1>4, <1>6, <2>1
<1> QED  BY <1>5, <1>6

LEMMA LedgerClimbs ==
  ASSUME TypeInv, LedgerMoves, NEW j \in Ids
  PROVE  /\ booked[j] => booked'[j]
         /\ savings[j].lost => savings'[j].lost
         /\ Order(savings[j].stage) \in 1 .. 6
         /\ Order(savings'[j].stage) >= Order(savings[j].stage)
<1>1. savings[j] \in SavingsRecord  BY DEF TypeInv, LedgerOK
<1>2. "planned" \in Entries  BY DEF Entries
<1>3. Order(savings[j].stage) \in 1 .. 6  BY <1>1, <1>2, Climbs
<1>4. CASE UNCHANGED ledger
  <2>1. savings' = savings /\ booked' = booked  BY <1>4 DEF ledger
  <2> QED  BY <1>3, <2>1
<1>5. ASSUME NEW i \in 1 .. Len(recs), Lose(i)
      PROVE  /\ booked[j] => booked'[j]
             /\ savings[j].lost => savings'[j].lost
             /\ Order(savings'[j].stage) >= Order(savings[j].stage)
  BY <1>3, <1>5, LossEffect
<1>6. ASSUME NEW i \in 1 .. Len(recs), NEW e \in Entries, NEW unsaved \in SUBSET Ids,
             TouchBut(i, e, unsaved)
      PROVE  /\ booked[j] => booked'[j]
             /\ savings[j].lost => savings'[j].lost
             /\ Order(savings'[j].stage) >= Order(savings[j].stage)
  <2>1. (booked[j] => booked'[j]) /\ (savings[j].lost => savings'[j].lost)  BY <1>6, EntryEffect
  <2>2. savings'[j] \in { savings[j], Post(savings[j], e), MarkLost(savings[j]) }
    BY <1>6 DEF TouchBut, Touched
  <2>3. MarkLost(savings[j]).stage = savings[j].stage  BY <1>1, Posting
  <2>4. Order(Post(savings[j], e).stage) >= Order(savings[j].stage)  BY <1>1, Climbs
  <2>5. Order(savings'[j].stage) >= Order(savings[j].stage)
    <3>1. CASE savings'[j] = Post(savings[j], e)  BY <2>4, <3>1
    <3>2. CASE savings'[j].stage = savings[j].stage  BY <1>3, <3>2
    <3> QED  BY <2>2, <2>3, <3>1, <3>2
  <2> QED  BY <2>1, <2>5
<1>7. LedgerMoves
        => \/ UNCHANGED ledger
           \/ \E i \in 1 .. Len(recs) : Lose(i)
           \/ \E i \in 1 .. Len(recs), e \in Entries, unsaved \in SUBSET Ids : TouchBut(i, e, unsaved)
  BY DEF LedgerMoves, Posted, PostedAs
<1> QED  BY <1>3, <1>4, <1>5, <1>6, <1>7

\* A plan the worker carried out was so before, or is the one it now succeeds with.
LEMMA AloneStep ==
  ASSUME TypeInv, RecStep \/ Cycle, NEW k \in 1 .. Len(plans'),
         plans'[k].alone, plans'[k].state \in LeanStates
  PROVE  /\ k \in 1 .. Len(plans)
         /\ \/ plans[k].alone /\ plans[k].state \in LeanStates
            \/ ExecSucceeds(Worker) /\ k = own.plan
<1> DEFINE Was == /\ k \in 1 .. Len(plans)
                  /\ plans[k].alone /\ plans[k].state \in LeanStates
<1>1. Len(plans) \in Nat /\ DOMAIN plans = 1 .. Len(plans) /\ plans \in Seq(Plan)
  BY TypeFacts DEF TypeInv, PlansOK
<1>2. ASSUME UNCHANGED plans  PROVE Was
  BY <1>2
<1>3. ASSUME NEW l \in 1 .. Len(plans), NEW s \in PlanState, SetPlan(l, s),
             s \in LeanStates => plans[l].state \in LeanStates
      PROVE  Was
  <2>1. /\ Len(plans') = Len(plans) /\ plans'[l].state = s
        /\ \A h \in 1 .. Len(plans) : h # l => plans'[h] = plans[h]
    BY <1>3, Turning
  <2>2. plans'[l].alone = plans[l].alone
    <3>1. plans' = [plans EXCEPT ![l].state = s] /\ plans[l] \in Plan  BY <1>3, TypeFacts DEF SetPlan
    <3>2. plans'[l] = [plans[l] EXCEPT !.state = s]  BY <1>1, <3>1
    <3> QED  BY <3>1, <3>2 DEF Plan
  <2>3. CASE k = l  BY <1>3, <2>1, <2>2, <2>3
  <2>4. CASE k # l  BY <2>1, <2>4
  <2> QED  BY <2>3, <2>4
<1>4. ASSUME NEW p \in Procs, PlanCreate(p)  PROVE Was
  <2>1. PICK new \in Plan : plans' = Append(plans, new) /\ new.state \in { "approved", "awaiting_approval" }
    BY <1>4, PlanMade
  <2>2. k \in 1 .. Len(plans) \/ k = Len(plans) + 1  BY <1>1, <2>1
  <2>3. CASE k = Len(plans) + 1
    <3>1. plans'[k] = new  BY <1>1, <2>1, <2>3
    <3> QED  BY <2>1, <3>1 DEF LeanStates
  <2>4. CASE k \in 1 .. Len(plans)
    <3>1. plans'[k] = plans[k]  BY <1>1, <2>1, <2>4
    <3> QED  BY <2>4, <3>1
  <2> QED  BY <2>2, <2>3, <2>4
<1>5. ASSUME NEW p \in Procs, NEW l \in 1 .. Len(plans), ExecBegin(p, l) \/ ExecRefused(p, l)
      PROVE  Was
  <2>1. PICK s \in { "executing", "failed" } : SetPlan(l, s)  BY <1>5 DEF ExecBegin, ExecRefused
  <2>2. s \in PlanState /\ s \notin LeanStates  BY DEF PlanState, LeanStates
  <2> QED  BY <1>3, <2>1, <2>2
<1>6. CASE World
  <2>1. CASE Discover  BY <1>2, <2>1 DEF Discover
  <2>2. ASSUME NEW l \in 1 .. Len(plans),
               \/ Claim(l) \/ ValidateHolds(l) \/ ValidateFails(l)
               \/ Rollback(l) \/ RollbackFails(l) \/ Cancel(l)
        PROVE  Was
    <3>1. \E s \in PlanState : SetPlan(l, s) /\ (s \in LeanStates => plans[l].state \in LeanStates)
      <4>1. CASE Claim(l)
        <5>1. SetPlan(l, "validating") /\ plans[l].state = "executed"  BY <4>1 DEF Claim
        <5> QED  BY <5>1 DEF PlanState, LeanStates
      <4>2. CASE ValidateHolds(l)
        <5>1. SetPlan(l, "validated") /\ plans[l].state \in { "executed", "validating" }
          BY <4>2 DEF ValidateHolds, Validatable
        <5> QED  BY <5>1 DEF PlanState, LeanStates
      <4>3. CASE ValidateFails(l) \/ Rollback(l) \/ RollbackFails(l) \/ Cancel(l)
        <5>1. \E s \in { "failed", "rolled_back", "rollback_failed", "cancelled" } : SetPlan(l, s)
          BY <4>3 DEF ValidateFails, Rollback, RollbackFails, Cancel
        <5> QED  BY <5>1 DEF PlanState, LeanStates
      <4> QED  BY <2>2, <4>1, <4>2, <4>3
    <3> QED  BY <1>3, <3>1
  <2> QED  BY <1>1, <1>6, <2>1, <2>2 DEF World
<1>7. ASSUME NEW c \in Callers, Call(c)  PROVE Was
  <2>1. c \in Procs  BY DEF Procs
  <2>2. CASE ExecuteAsk(c)
    <3>1. PICK l \in 1 .. Len(plans) : ExecBegin(c, l) \/ ExecRefused(c, l)
      BY <1>1, <2>2 DEF ExecuteAsk
    <3> QED  BY <1>5, <2>1, <3>1
  <2>3. CASE ~ ExecuteAsk(c)
    <3>1. UNCHANGED plans
      BY <1>7, <2>3
      DEF Call, AnalyzeLoad, AnalyzeSupersede, AnalyzeSave, AnalyzeFails, EvaluateRead, SnoozeRead,
          ReadFor, EvaluateWrite, SnoozeWrite, Dismiss, PlanAsk
    <3> QED  BY <1>2, <3>1
  <2> QED  BY <2>2, <2>3
<1>8. ASSUME NEW p \in Procs, Ends(p), ~ ExecSucceeds(p)  PROVE Was
  <2>1. PICK l \in 1 .. Len(plans) : l = proc[p].plan  BY <1>8, EndsAtExec, Executes
  <2>2. \E s \in { "failed", "rolled_back", "rollback_failed" } : SetPlan(l, s)
    BY <1>8, <2>1 DEF Ends, ExecFails, ExecRollsBack, ExecRollbackFails
  <2>3. \E s \in PlanState : SetPlan(l, s) /\ s \notin LeanStates
    BY <2>2 DEF PlanState, LeanStates
  <2> QED  BY <1>3, <2>3
<1>9. ASSUME NEW p \in Procs, ExecSucceeds(p)
      PROVE  Was \/ (p = Worker /\ k = own.plan /\ k \in 1 .. Len(plans))
  <2>1. PICK l \in 1 .. Len(plans) : l = proc[p].plan  BY <1>9, EndsAtExec, Executes DEF Ends
  <2>2. plans' = [plans EXCEPT ![l].state = "executed", ![l].alone = (p = Worker)]
    BY <1>9, <2>1 DEF ExecSucceeds
  <2>3. Len(plans') = Len(plans) /\ \A h \in 1 .. Len(plans) : h # l => plans'[h] = plans[h]
    BY <1>1, <2>2
  <2>4. plans[l] \in Plan  BY TypeFacts
  <2>5. plans'[l].alone <=> p = Worker
    <3>1. PICK b \in BOOLEAN : b <=> p = Worker  OBVIOUS
    <3>2. plans'[l] = [plans[l] EXCEPT !.state = "executed", !.alone = (p = Worker)]
      BY <1>1, <2>2
    <3> QED  BY <2>4, <3>2 DEF Plan
  <2>6. CASE k = l
    <3>1. p = Worker  BY <2>5, <2>6
    <3> QED  BY <2>1, <2>6, <3>1 DEF own
  <2>7. CASE k # l  BY <2>3, <2>7
  <2> QED  BY <2>6, <2>7
<1>10. ASSUME NEW p \in Procs, Progress(p)
       PROVE  Was \/ (ExecSucceeds(Worker) /\ k = own.plan /\ k \in 1 .. Len(plans))
  <2>1. CASE PlanDecide(p) \/ PlanRefused(p) \/ PlanMark(p)
    <3>1. UNCHANGED plans  BY <2>1 DEF PlanDecide, PlanRefused, PlanMark
    <3> QED  BY <1>2, <3>1
  <2>2. CASE ExecSucceeds(p)  BY <1>9, <2>2
  <2> QED  BY <1>4, <1>8, <1>10, <2>1, <2>2 DEF Progress, Ends
<1>11. CASE Cycle
  <2>1. CASE UNCHANGED plans  BY <1>2, <2>1
  <2>2. CASE /\ own.plan \in 1 .. Len(plans)
             /\ ExecBegin(Worker, own.plan) \/ ExecRefused(Worker, own.plan)
    <3>1. PICK l \in 1 .. Len(plans) : l = own.plan  BY <2>2
    <3> QED  BY <1>5, <2>2, <3>1, OwnFits
  <2> QED  BY <1>11, <2>1, <2>2, CycleFacts
<1> QED  BY <1>6, <1>7, <1>10, <1>11 DEF RecStep

\* Succeeding books the saving of the plan's recommendation as executed.
LEMMA SucceedsBooked ==
  ASSUME TypeInv, ExecInv, ExecSucceeds(Worker), losses' = 0
  PROVE  /\ own.id \in 1 .. Len(recs) /\ own.plan \in 1 .. Len(plans)
         /\ plans[own.plan].rec = own.id
         /\ booked'[own.id] /\ Order(savings'[own.id].stage) >= 4
<1>1. At(Worker, "exec") /\ Worker \in Procs  BY OwnFits DEF ExecSucceeds
<1>2. own.plan \in 1 .. Len(plans) /\ own.id \in 1 .. Len(recs)  BY <1>1, Executes DEF own
<1>3. plans[own.plan].rec = own.id  BY <1>1 DEF ExecInv, own
<1>4. PICK i \in 1 .. Len(recs) : i = own.id  BY <1>2
<1>5. i \in Ids  BY TypeFacts
<1>6. ~ Lost  BY DEF Lost, TypeInv, LimitsOK
<1>7. TouchBut(i, "executed", {})  BY <1>4, <1>6 DEF ExecSucceeds, Account, Touch, own
<1>8. booked'[i]  BY <1>5, <1>7 DEF TouchBut, TypeInv, LedgerOK
<1>9. savings'[i] = Post(savings[i], "executed")  BY <1>5, <1>7 DEF TouchBut, Touched
<1>10. Order(savings'[i].stage) >= 4
  <2>1. savings[i] \in SavingsRecord /\ "executed" \in Entries  BY <1>5 DEF TypeInv, LedgerOK, Entries
  <2> QED  BY <1>9, <2>1, Climbs, OrderValues
<1> QED  BY <1>2, <1>3, <1>4, <1>8, <1>10

LEMMA LoopLedger ==
  ASSUME TypeInv, RecStep \/ Cycle
  PROVE  LedgerMoves
BY LedgerStep, CycleFacts DEF LedgerMoves

LEMMA AloneKept ==
  ASSUME TypeInv, ExecInv, AloneInv, RecStep \/ Cycle
  PROVE  AloneInv'
<1> SUFFICES ASSUME losses' = 0, NEW k \in 1 .. Len(plans'),
                    plans'[k].alone, plans'[k].state \in LeanStates
             PROVE  booked'[plans'[k].rec] /\ Order(savings'[plans'[k].rec].stage) >= 4
  BY DEF AloneInv
<1>1. losses = 0 /\ Grows  BY PastKept
<1>2. k \in 1 .. Len(plans)  BY AloneStep
<1>3. PICK i \in 1 .. Len(recs) : i = plans[k].rec  BY <1>2, TypeFacts
<1>4. plans'[k].rec = i /\ i \in Ids  BY <1>1, <1>2, <1>3, TypeFacts DEF Grows
<1>5. CASE plans[k].alone /\ plans[k].state \in LeanStates
  <2>1. booked[i] /\ Order(savings[i].stage) >= 4  BY <1>1, <1>2, <1>3, <1>5 DEF AloneInv
  <2>2. /\ booked'[i] /\ Order(savings[i].stage) \in 1 .. 6
        /\ Order(savings'[i].stage) >= Order(savings[i].stage)
    BY <1>4, <2>1, LoopLedger, LedgerClimbs
  <2>3. LedgerOK'  BY LoopLedger, LedgerTypes
  <2>4. Order(savings'[i].stage) \in 1 .. 6
    <3>1. savings'[i] \in SavingsRecord  BY <1>4, <2>3 DEF LedgerOK
    <3>2. savings'[i].stage \in Stages  BY <3>1, Stage DEF SavingsRecord
    <3> QED  BY <3>2, OrderValues DEF Stages
  <2> QED  BY <1>4, <2>1, <2>2, <2>4
<1>6. CASE ExecSucceeds(Worker) /\ k = own.plan  BY <1>3, <1>4, <1>6, SucceedsBooked
<1> QED  BY <1>5, <1>6, AloneStep

\* What the loop has changed and claims is some recommendations, and grows by the one whose
\* plan the worker succeeds with, if it grows.
LEMMA UnattendedRecs ==
  ASSUME TypeInv
  PROVE  Unattended \in SUBSET (1 .. Len(recs))
BY TypeFacts DEF Unattended

LEMMA UnattendedStep ==
  ASSUME TypeInv, ExecInv, AloneInv, RecStep \/ Cycle, losses' = 0, NEW i \in Unattended'
  PROVE  i \in Unattended \/ (ExecSucceeds(Worker) /\ i = own.id)
<1>1. losses = 0 /\ Grows  BY PastKept
<1>2. recs' \in Seq(Rec) /\ plans' \in Seq(Plan)  BY <1>1 DEF Grows
<1>3. DOMAIN plans' = 1 .. Len(plans') /\ DOMAIN plans = 1 .. Len(plans) /\ DOMAIN recs = 1 .. Len(recs)
  BY <1>2, TypeFacts
<1>4. PICK k \in 1 .. Len(plans') :
        plans'[k].rec = i /\ plans'[k].alone /\ plans'[k].state \in LeanStates
  BY <1>3 DEF Unattended, LeanStates
<1>5. ~ savings'[i].lost  BY DEF Unattended, Counted
<1>6. k \in 1 .. Len(plans)  BY <1>4, AloneStep
<1>7. plans[k].rec = i /\ i \in 1 .. Len(recs)  BY <1>1, <1>4, <1>6, TypeFacts DEF Grows
<1>8. CASE plans[k].alone /\ plans[k].state \in LeanStates
  <2>1. booked[i] /\ Order(savings[i].stage) >= 4  BY <1>1, <1>6, <1>7, <1>8 DEF AloneInv
  <2>2. ~ savings[i].lost
    <3>1. i \in Ids  BY <1>7, TypeFacts
    <3> QED  BY <1>5, <3>1, LoopLedger, LedgerClimbs
  <2>3. Counted(i)  BY <2>1, <2>2, OrderValues DEF Counted
  <2> QED  BY <1>3, <1>6, <1>7, <1>8, <2>3 DEF Unattended, LeanStates
<1>9. CASE ExecSucceeds(Worker) /\ k = own.plan  BY <1>7, <1>9, SucceedsBooked
<1> QED  BY <1>4, <1>8, <1>9, AloneStep

LEMMA RoomKept ==
  ASSUME TypeInv, WorkerInv, RoomInv, RecStep \/ Cycle
  PROVE  RoomInv'
<1> SUFFICES ASSUME Budget > 0, own'.pc \in Held
             PROVE  own'.spent + Saving[recs'[own'.id].finding] <= Budget
  BY DEF RoomInv
<1>1. Grows  BY PastKept
<1>2. ASSUME NEW i \in 1 .. Len(recs)  PROVE recs'[i].finding = recs[i].finding
  BY <1>1 DEF Grows, Same
<1>3. OwnMoved  BY OwnSteps
<1>4. CASE Took
  <2>1. PICK i : i = own'.id  OBVIOUS
  <2>2. i \in 1 .. Len(recs)  BY <1>4, <2>1, OwnFits DEF Took
  <2>3. Affordable(i)
    <3>1. Affordable(own'.id)  BY <1>4 DEF Took
    <3> QED  BY <2>1, <3>1
  <2>4. own.spent + Saving[recs[i].finding] <= Budget  BY <2>3 DEF Affordable
  <2>5. own'.spent = own.spent  BY <1>4 DEF Took
  <2> QED  BY <1>2, <2>1, <2>2, <2>4, <2>5
<1>5. CASE own.pc \in Held /\ own'.id = own.id /\ own'.spent = own.spent
  <2>1. own.id \in 1 .. Len(recs)
    <3>1. own.pc = "plan_read" \/ own.pc \in WithCopy  BY <1>5 DEF Held, Early, WithCopy
    <3> QED  BY <3>1, OwnFits DEF WorkerInv
  <2>2. own.spent + Saving[recs[own.id].finding] <= Budget  BY <1>5 DEF RoomInv
  <2> QED  BY <1>2, <1>5, <2>1, <2>2
<1> QED  BY <1>3, <1>4, <1>5 DEF OwnMoved

LEMMA CoverKept ==
  ASSUME TypeInv, WorkerInv, ExecInv, SpendInv, RecStep \/ Cycle
  PROVE  CoverInv'
<1> SUFFICES ASSUME losses' = 0, "misread" \notin past'
             PROVE  /\ own'.pc \notin { "idle", "spend" } => SumOf(Unattended)' <= own'.spent
                    /\ Budget > 0 => SumOf(Unattended)' <= Budget
  BY DEF CoverInv
<1>1. losses = 0 /\ "misread" \notin past /\ Grows  BY PastKept
<1>2. PICK U, V : U = Unattended /\ V = Unattended'  OBVIOUS
<1>3. U \in SUBSET (1 .. Len(recs))  BY <1>2, UnattendedRecs
<1>4. SumOf(U) \in Nat  BY <1>3, SumType
<1>5. /\ own.pc \notin { "idle", "spend" } => SumOf(U) <= own.spent
      /\ Budget > 0 => SumOf(U) <= Budget
  BY <1>1, <1>2 DEF SpendInv, CoverInv
<1>6. own.spent \in Nat /\ Budget \in Nat  BY OwnFits, LoopBounds DEF ProcState
<1>7. SumOf(Unattended)' = SumOf(V)'  BY <1>2 DEF SumOf
<1>8. CASE ~ ExecSucceeds(Worker)
  <2>1. V \in SUBSET U  BY <1>2, <1>8, UnattendedStep DEF SpendInv
  <2>2. SumOf(V) \in Nat /\ SumOf(V) <= SumOf(U)  BY <1>3, <2>1, SumType
  <2>3. SumOf(V)' = SumOf(V)
    <3>1. V \in SUBSET (1 .. Len(recs))  BY <1>3, <2>1
    <3> QED  BY <1>1, <3>1, SumKept
  <2>4. Budget > 0 => SumOf(Unattended)' <= Budget  BY <1>4, <1>5, <1>6, <1>7, <2>2, <2>3
  <2>5. ASSUME own'.pc \notin { "idle", "spend" }  PROVE SumOf(Unattended)' <= own'.spent
    <3>1. OwnMoved  BY OwnSteps
    <3>2. CASE own.pc \notin { "idle", "spend" } /\ own'.spent = own.spent
      BY <1>4, <1>5, <1>6, <1>7, <2>2, <2>3, <3>2
    <3>3. ~ Saves  BY <1>8 DEF Saves
    <3>4. CASE own'.spent = Spent
      <4>1. PICK C : C = { i \in DOMAIN recs : Counted(i) }  OBVIOUS
      <4>2. C \in SUBSET (1 .. Len(recs))  BY <4>1, CountedRecs
      <4>3. V \in SUBSET C  BY <1>2, <2>1, <4>1 DEF Unattended
      <4>4. SumOf(V) <= SumOf(C)  BY <4>2, <4>3, SumType
      <4>5. Spent = SumOf(C)  BY <4>1 DEF Spent
      <4> QED  BY <1>7, <2>3, <3>4, <4>4, <4>5
    <3> QED  BY <2>5, <3>1, <3>2, <3>3, <3>4 DEF OwnMoved
  <2> QED  BY <2>4, <2>5
<1>9. CASE ExecSucceeds(Worker)
  <2>0. PICK i \in 1 .. Len(recs) : i = own.id  BY <1>9, SucceedsBooked
  <2>1. PICK more : i = own.id /\ more = Saving[recs[i].finding]  BY <2>0
  <2>2. V \in SUBSET (U \cup {i})  BY <1>2, <2>1, UnattendedStep DEF SpendInv
  <2>3. U \cup {i} \in SUBSET (1 .. Len(recs))  BY <1>3
  <2>4. /\ SumOf(V) \in Nat /\ SumOf(V) <= SumOf(U \cup {i}) /\ SumOf(U \cup {i}) \in Nat
    BY <2>2, <2>3, SumType
  <2>5. SumOf(U \cup {i}) <= SumOf(U) + more /\ more \in Nat
    BY <1>3, <2>1, SumAdds, DollarsOf
  <2>6. SumOf(V)' = SumOf(V)
    <3>1. V \in SUBSET (1 .. Len(recs))  BY <2>2, <2>3
    <3> QED  BY <1>1, <3>1, SumKept
  <2>7. own.pc = "exec" /\ own'.spent = own.spent + more  BY <1>9, <2>1, WorkerSaves DEF Saves
  <2>8. SumOf(U) <= own.spent  BY <1>5, <2>7
  <2>9. SumOf(V) <= own.spent + more  BY <1>4, <1>6, <2>4, <2>5, <2>8
  <2>10. Budget > 0 => own.spent + more <= Budget
    BY <2>1, <2>7 DEF SpendInv, RoomInv, Held
  <2>11. Budget > 0 => SumOf(V) <= Budget  BY <1>6, <2>4, <2>5, <2>9, <2>10
  <2> QED  BY <1>7, <2>6, <2>7, <2>9, <2>11
<1> QED  BY <1>8, <1>9

LEMMA SpendInit == LInit => SpendInv
<1> SUFFICES ASSUME LInit PROVE SpendInv  OBVIOUS
<1>1. own = Idle /\ plans = << >>  BY DEF LInit, own, Procs
<1>2. Unattended = {}  BY <1>1 DEF Unattended
<1>3. SumOf({}) = 0
  <2>1. UNION { Dollars(i) : i \in {} } = {}  OBVIOUS
  <2> QED  BY <2>1, FS_EmptySet DEF SumOf
<1>4. AloneInv  BY <1>1 DEF AloneInv
<1>5. RoomInv  BY <1>1 DEF RoomInv, Held, Early, Idle
<1>6. CoverInv  BY <1>1, <1>2, <1>3, LoopBounds DEF CoverInv, Idle
<1> QED  BY <1>4, <1>5, <1>6 DEF SpendInv

LEMMA SpendStutter ==
  ASSUME SpendInv, UNCHANGED lvars
  PROVE  SpendInv'
<1>1. /\ own' = own /\ recs' = recs /\ plans' = plans /\ losses' = losses /\ past' = past
      /\ savings' = savings /\ booked' = booked
  BY DEF lvars, vars, ledger, own
<1>2. AloneInv'  BY <1>1 DEF SpendInv, AloneInv
<1>3. RoomInv'  BY <1>1 DEF SpendInv, RoomInv
<1>4. SumOf(Unattended)' = SumOf(Unattended)
  <2>1. PICK U : U = Unattended  OBVIOUS
  <2>2. Unattended' = U  BY <1>1, <2>1 DEF Unattended, Counted
  <2>3. SumOf(U)' = SumOf(U)  BY <1>1 DEF SumOf, Dollars
  <2>4. SumOf(Unattended)' = SumOf(U)'  BY <2>2 DEF SumOf
  <2> QED  BY <2>1, <2>3, <2>4
<1>5. CoverInv'  BY <1>1, <1>4 DEF SpendInv, CoverInv
<1> QED  BY <1>2, <1>3, <1>5 DEF SpendInv

\* The loop stays within the month's budget, for any callers, findings and budget, although
\* it reads the spending once per cycle and adds only its own changes to it
\* (autonomous.go:83-99, 169-178): what others do between that reading and its next change
\* may drop a claim of the loop's, and never makes one.
THEOREM UnattendedSpendingIsCapped == LSpec => []ImpactCapHolds
<1>1. ASSUME TypeInv, WorkerInv, BackedInv, SpendInv, [LNext]_lvars  PROVE SpendInv'
  <2>1. CASE RecStep \/ Cycle
    <3>1. ExecInv  BY <1>1 DEF BackedInv
    <3>2. AloneInv' /\ RoomInv' /\ CoverInv'
      BY <1>1, <2>1, <3>1, AloneKept, RoomKept, CoverKept DEF SpendInv
    <3> QED  BY <3>2 DEF SpendInv
  <2>2. CASE UNCHANGED lvars  BY <1>1, <2>2, SpendStutter
  <2> QED  BY <1>1, <2>1, <2>2, LoopNext
<1>2. SpendInv => ImpactCapHolds  BY DEF SpendInv, CoverInv, ImpactCapHolds
<1> QED  BY <1>1, <1>2, SpendInit, LoopTypes, LoopKeeps, PTL DEF LSpec
==============================================================================
