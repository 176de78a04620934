------------------------ MODULE RecommendationsProofs ------------------------
(***************************************************************************)
(* Proofs about Recommendations, for any callers, findings and bounds.      *)
(*                                                                         *)
(* The types come first, with the copies the calls hold and the room the   *)
(* store has (TypeInv).  Every step but one then rewrites recommendations  *)
(* in place (Rewritten) and the other appends a batch (AnalyzeSave): that  *)
(* is all the arguments about status and identity need (OfferInv).  The    *)
(* arguments about money take a step of the ledger as an entry posted or a *)
(* record lost (LedgerMoves, MoneyInv), and a step of the plans as one     *)
(* plan turned with its resource and its record (Turns, BackedInv).        *)
(*                                                                         *)
(* The lemmas on actions hold for any process, callers or the worker, and  *)
(* so serve AutonomousLoop as well.                                        *)
(***************************************************************************)
EXTENDS Recommendations, FiniteSetTheorems, TLAPS

\* Everything a caller, the worker's plans and the world may do.
RecStep ==
  \/ World
  \/ \E c \in Callers : Call(c)
  \/ \E p \in Procs : Progress(p)

-------------------------------------------------------------------------------
\* The savings ladder.

LEMMA OrderValues ==
  /\ Order("potential") = 1 /\ Order("approved") = 2 /\ Order("planned") = 3
  /\ Order("executed") = 4 /\ Order("validated") = 5 /\ Order("realized") = 6
<1>1. DOMAIN Ladder = 1 .. 6  BY DEF Ladder
<1>2. /\ Ladder[1] = "potential" /\ Ladder[2] = "approved" /\ Ladder[3] = "planned"
      /\ Ladder[4] = "executed" /\ Ladder[5] = "validated" /\ Ladder[6] = "realized"
  BY DEF Ladder
<1>3. \A i \in 1 .. 6 : i = 1 \/ i = 2 \/ i = 3 \/ i = 4 \/ i = 5 \/ i = 6  OBVIOUS
<1>4. ASSUME NEW i \in 1 .. 6, NEW j \in 1 .. 6, Ladder[i] = Ladder[j]  PROVE i = j
  BY <1>2, <1>3, <1>4
<1>5. ASSUME NEW i \in 1 .. 6  PROVE Order(Ladder[i]) = i
  <2>1. \A k : k \in DOMAIN Ladder /\ Ladder[i] = Ladder[k] <=> k = i  BY <1>1, <1>4, <1>5
  <2> QED  BY <2>1, <1>1 DEF Order
<1> QED  BY <1>2, <1>5

Stages == { "potential", "approved", "planned", "executed", "validated", "realized" }

LEMMA Stage == SavingsStage = Stages
<1>1. DOMAIN Ladder = 1 .. 6  BY DEF Ladder
<1>2. \A i \in 1 .. 6 : i = 1 \/ i = 2 \/ i = 3 \/ i = 4 \/ i = 5 \/ i = 6  OBVIOUS
<1>3. /\ Ladder[1] = "potential" /\ Ladder[2] = "approved" /\ Ladder[3] = "planned"
      /\ Ladder[4] = "executed" /\ Ladder[5] = "validated" /\ Ladder[6] = "realized"
  BY DEF Ladder
<1> QED  BY <1>1, <1>2, <1>3 DEF SavingsStage, Stages

\* What a ledger entry does to a record: it never climbs down, and a loss stays.
LEMMA Posting ==
  ASSUME NEW s \in SavingsRecord, NEW e \in { "planned", "executed", "validated" }
  PROVE  /\ Post(s, e) \in SavingsRecord /\ Post(s, e).lost = s.lost
         /\ Post(s, e).stage = s.stage \/ Post(s, e).stage = e
         /\ MarkLost(s) \in SavingsRecord /\ MarkLost(s).lost /\ MarkLost(s).stage = s.stage
<1>1. Post(s, e) = Advance(s, e)  BY DEF Post
<1>2. e \in SavingsStage  BY Stage DEF Stages
<1>3. [s EXCEPT !.stage = e] \in SavingsRecord  BY <1>2 DEF SavingsRecord
<1> QED  BY <1>1, <1>2, <1>3 DEF Advance, MarkLost, SavingsRecord

-------------------------------------------------------------------------------
\* Types.

Labels ==
  { "idle", "supersede", "save", "evaluate", "snooze", "plan_read", "plan_decide",
    "plan_create", "plan_mark", "exec_begin", "exec", "loop", "spend" }

\* Where a process holds the copy of a recommendation, and where a plan.
WithCopy == { "evaluate", "snooze", "plan_decide", "plan_create", "plan_mark", "exec_begin", "exec" }
WithPlan == { "plan_mark", "exec_begin", "exec" }

Time == 0 .. MaxStarts + 1

ProcState ==
  [ pc : Labels, id : Nat, copy : Rec \cup { << >> }, plan : Nat, granted : BOOLEAN,
    found : SUBSET Findings, now : Time, born : Time, queue : SUBSET Ids, spent : Nat, made : Nat ]

\* What no write of a recommendation changes.
Same(r, s) ==
  r.finding = s.finding /\ r.primary = s.primary /\ r.rivals = s.rivals /\ r.born = s.born

\* What a process holds is about recommendations and plans there are.
Fits(r, rs, n) ==
  /\ r \in ProcState /\ r.id <= Len(rs) /\ r.plan <= n /\ r.queue \subseteq 1 .. Len(rs)
  /\ r.pc \in WithCopy => r.id >= 1 /\ r.copy \in Rec /\ Same(r.copy, rs[r.id])
  /\ r.pc \in WithPlan => r.plan >= 1

ProcOK == proc \in [Procs -> ProcState] /\ \A p \in Procs : Fits(proc[p], recs, Len(plans))
RecsOK == recs \in Seq(Rec)
PlansOK ==
  plans \in Seq(Plan) /\ Len(plans) <= MaxPlans /\ \A k \in 1 .. Len(plans) : plans[k].rec \in 1 .. Len(recs)
LedgerOK == savings \in [Ids -> SavingsRecord] /\ booked \in [Ids -> BOOLEAN]
CloudOK == estate \in [Resources -> Condition] /\ inventory \in [Resources -> Condition]
LimitsOK ==
  /\ clock \in Nat /\ starts \in Nat /\ starts <= MaxStarts /\ clock <= starts + 1
  /\ losses \in Nat /\ past \subseteq Excuses

\* Each analysis under way has the room it may need.
SpaceOK ==
  /\ IsFiniteSet(Analyzing)
  /\ Len(recs) + Cardinality(Findings) * Cardinality(Analyzing) <= MaxRecs

TypeInv == RecsOK /\ PlansOK /\ LedgerOK /\ CloudOK /\ LimitsOK /\ ProcOK /\ SpaceOK

LEMMA TypeFacts ==
  ASSUME TypeInv
  PROVE  /\ Len(recs) \in Nat /\ DOMAIN recs = 1 .. Len(recs)
         /\ \A i \in 1 .. Len(recs) : recs[i] \in Rec
         /\ Len(plans) \in Nat /\ DOMAIN plans = 1 .. Len(plans)
         /\ \A k \in 1 .. Len(plans) : plans[k] \in Plan /\ plans[k].rec \in 1 .. Len(recs)
         /\ Cardinality(Findings) \in Nat /\ Cardinality(Analyzing) \in Nat
         /\ Len(recs) <= MaxRecs /\ 1 .. Len(recs) \subseteq Ids
<1>1. /\ Len(recs) \in Nat /\ DOMAIN recs = 1 .. Len(recs)
      /\ \A i \in 1 .. Len(recs) : recs[i] \in Rec
  BY DEF TypeInv, RecsOK
<1>2. /\ Len(plans) \in Nat /\ DOMAIN plans = 1 .. Len(plans)
      /\ \A k \in 1 .. Len(plans) : plans[k] \in Plan /\ plans[k].rec \in 1 .. Len(recs)
  BY DEF TypeInv, PlansOK
<1>3. Cardinality(Findings) \in Nat /\ Cardinality(Analyzing) \in Nat
  BY FS_CardinalityType, FindingData DEF TypeInv, SpaceOK
<1>4. Cardinality(Findings) * Cardinality(Analyzing) \in Nat  BY <1>3
<1>5. Len(recs) <= MaxRecs
  <2> DEFINE room == Cardinality(Findings) * Cardinality(Analyzing)
  <2>1. room \in Nat /\ Len(recs) + room <= MaxRecs  BY <1>4 DEF TypeInv, SpaceOK
  <2> HIDE DEF room
  <2> QED  BY <2>1, <1>1, RecBounds
<1> QED  BY <1>1, <1>2, <1>3, <1>5, RecBounds DEF Ids

-------------------------------------------------------------------------------
\* Every step but a batch's rewrites recommendations in place, and reopens none unless it
\* says so.

Rewritten ==
  /\ recs' \in Seq(Rec) /\ Len(recs') = Len(recs)
  /\ \A i \in 1 .. Len(recs) : Same(recs'[i], recs[i])
  /\ \A i \in 1 .. Len(recs) :
       recs[i].status # "open" /\ recs'[i].status = "open" => "overwritten" \in past'

LEMMA RecordFacts ==
  ASSUME NEW r \in Rec, NEW s \in Status, NEW a \in BOOLEAN
  PROVE  /\ [r EXCEPT !.status = s] \in Rec /\ [r EXCEPT !.auto = a] \in Rec
         /\ Same([r EXCEPT !.status = s], r) /\ Same([r EXCEPT !.auto = a], r)
         /\ [r EXCEPT !.status = s].status = s /\ [r EXCEPT !.auto = a].status = r.status
BY DEF Rec, Same

LEMMA NothingWritten ==
  ASSUME TypeInv, UNCHANGED recs
  PROVE  Rewritten
BY TypeFacts DEF Rewritten, Same, TypeInv, RecsOK

LEMMA OneWritten ==
  ASSUME TypeInv, NEW i \in 1 .. Len(recs), NEW r \in Rec, Same(r, recs[i]),
         recs' = [recs EXCEPT ![i] = r],
         recs[i].status # "open" /\ r.status = "open" => "overwritten" \in past'
  PROVE  Rewritten
<1>1. recs \in Seq(Rec) /\ DOMAIN recs = 1 .. Len(recs) /\ Len(recs) \in Nat
  BY TypeFacts DEF TypeInv, RecsOK
<1>2. recs' \in Seq(Rec) /\ Len(recs') = Len(recs)  BY <1>1
<1>3. \A j \in 1 .. Len(recs) : recs'[j] = IF j = i THEN r ELSE recs[j]  BY <1>1
<1>4. \A j \in 1 .. Len(recs) : Same(recs'[j], recs[j])  BY <1>3 DEF Same
<1>5. \A j \in 1 .. Len(recs) :
        recs[j].status # "open" /\ recs'[j].status = "open" => "overwritten" \in past'
  BY <1>3
<1> QED  BY <1>2, <1>4, <1>5 DEF Rewritten

LEMMA StatusWritten ==
  ASSUME TypeInv, NEW i \in 1 .. Len(recs), NEW s \in Status \ { "open" },
         recs' = [recs EXCEPT ![i].status = s]
  PROVE  Rewritten
<1> DEFINE r == [recs[i] EXCEPT !.status = s]
<1>1. recs[i] \in Rec  BY TypeFacts
<1>2. r \in Rec /\ Same(r, recs[i]) /\ r.status # "open"  BY <1>1, RecordFacts DEF Status
<1>3. recs' = [recs EXCEPT ![i] = r]  OBVIOUS
<1> HIDE DEF r
<1>4. PICK r1 : r1 = r  OBVIOUS
<1> QED  BY <1>2, <1>3, <1>4, OneWritten

LEMMA JudgedOnly ==
  ASSUME TypeInv, NEW i \in 1 .. Len(recs), NEW a \in BOOLEAN, Judge(i, a)
  PROVE  Rewritten
<1> DEFINE r == [recs[i] EXCEPT !.auto = a]
<1>1. recs[i] \in Rec  BY TypeFacts
<1>2. r \in Rec /\ Same(r, recs[i]) /\ r.status = recs[i].status
  <2> PICK s \in Status : s = "open"  BY DEF Status
  <2> QED  BY <1>1, RecordFacts
<1>3. recs' = [recs EXCEPT ![i] = r]  BY DEF Judge
<1> HIDE DEF r
<1>4. PICK r1 : r1 = r  OBVIOUS
<1> QED  BY <1>2, <1>3, <1>4, OneWritten

\* A copy stored over the record it was read from.
LEMMA CopyWritten ==
  ASSUME TypeInv, NEW p \in Procs, proc[p].pc \in WithCopy, NEW s \in Status \ { "open" },
         WriteBack(p, [proc[p].copy EXCEPT !.status = s])
  PROVE  Rewritten
<1> DEFINE r == [proc[p].copy EXCEPT !.status = s]
<1>1. /\ proc[p].id \in 1 .. Len(recs) /\ proc[p].copy \in Rec
      /\ Same(proc[p].copy, recs[proc[p].id])
  BY TypeFacts DEF TypeInv, ProcOK, Fits, ProcState
<1>2. r \in Rec /\ Same(r, proc[p].copy) /\ r.status = s  BY <1>1, RecordFacts
<1>3. Same(r, recs[proc[p].id])  BY <1>1, <1>2 DEF Same
<1>4. recs' = [recs EXCEPT ![proc[p].id] = r]  BY DEF WriteBack
<1> HIDE DEF r
<1>5. PICK r1, i : r1 = r /\ i = proc[p].id  OBVIOUS
<1> QED  BY <1>1, <1>2, <1>3, <1>4, <1>5, OneWritten

LEMMA SupersededOnly ==
  ASSUME TypeInv, NEW before, recs' = Superseded(before)
  PROVE  Rewritten
<1>1. DOMAIN recs = 1 .. Len(recs) /\ Len(recs) \in Nat /\ \A i \in 1 .. Len(recs) : recs[i] \in Rec
  BY TypeFacts
<1> DEFINE n == Len(recs)
           new(i) == IF recs[i].status \notin SparedBySupersede /\ recs[i].born < before
                     THEN [recs[i] EXCEPT !.status = "superseded"] ELSE recs[i]
<1>2. recs' = [i \in 1 .. n |-> new(i)]  BY <1>1 DEF Superseded
<1>3. ASSUME NEW i \in 1 .. n
      PROVE  /\ new(i) \in Rec /\ Same(new(i), recs[i])
             /\ new(i).status = "open" => recs[i].status = "open"
  <2>1. "superseded" \in Status  BY DEF Status
  <2>2. recs[i] \in Rec  BY <1>1
  <2>3. /\ [recs[i] EXCEPT !.status = "superseded"] \in Rec
        /\ Same([recs[i] EXCEPT !.status = "superseded"], recs[i])
        /\ [recs[i] EXCEPT !.status = "superseded"].status = "superseded"
    BY <2>1, <2>2, RecordFacts
  <2> QED  BY <2>2, <2>3 DEF Same
<1> HIDE DEF new
<1>4. recs' \in [1 .. n -> Rec] /\ n \in Nat  BY <1>1, <1>2, <1>3
<1>5. recs' \in Seq(Rec) /\ Len(recs') = n
  <2> HIDE DEF n
  <2> QED  BY <1>4
<1>6. \A i \in 1 .. n : recs'[i] = new(i)  BY <1>2
<1>7. \A i \in 1 .. n : Same(recs'[i], recs[i]) /\ (recs'[i].status = "open" => recs[i].status = "open")
  BY <1>6, <1>3
<1> QED  BY <1>5, <1>7 DEF Rewritten

LEMMA RecsStep ==
  ASSUME TypeInv, RecStep
  PROVE  Rewritten \/ \E c \in Callers : AnalyzeSave(c)
<1>1. CASE World
  <2>1. CASE UNCHANGED recs  BY <2>1, NothingWritten
  <2>2. CASE Discover  BY <2>2, NothingWritten DEF Discover
  <2>3. ASSUME NEW k \in DOMAIN plans, ValidateHolds(k) \/ ValidateFails(k) \/ Rollback(k)
        PROVE  Rewritten
    <3>1. PICK i \in 1 .. Len(recs) : i = plans[k].rec  BY TypeFacts
    <3>2. \E s \in Status \ { "open" } : Settle(i, s)
      BY <2>3, <3>1 DEF ValidateHolds, ValidateFails, Rollback, Status
    <3> QED  BY <3>2, StatusWritten DEF Settle
  <2> QED  BY <1>1, <2>1, <2>2, <2>3 DEF World, Claim, RollbackFails, Cancel
<1>2. ASSUME NEW c \in Callers, Call(c)
      PROVE  Rewritten \/ AnalyzeSave(c)
  <2>1. CASE UNCHANGED recs  BY <2>1, NothingWritten
  <2>2. CASE AnalyzeSupersede(c)
    <3>1. PICK before : before = proc[c].now  OBVIOUS
    <3>2. recs' = Superseded(before) \/ UNCHANGED recs  BY <2>2, <3>1 DEF AnalyzeSupersede
    <3> QED  BY <3>2, SupersededOnly, NothingWritten
  <2>3. CASE EvaluateWrite(c)
    <3>1. PICK a \in Answers : WriteBack(c, [proc[c].copy EXCEPT !.auto = a])
      BY <2>3 DEF EvaluateWrite
    <3>2. c \in Procs /\ proc[c].pc \in WithCopy  BY <2>3 DEF EvaluateWrite, At, WithCopy, Procs
    <3>3. /\ proc[c].id \in 1 .. Len(recs) /\ proc[c].copy \in Rec
          /\ Same(proc[c].copy, recs[proc[c].id])
      BY <3>2, TypeFacts DEF TypeInv, ProcOK, Fits, ProcState
    <3> DEFINE r == [proc[c].copy EXCEPT !.auto = a]
    <3>4. r \in Rec /\ Same(r, proc[c].copy) /\ r.status = proc[c].copy.status
      <4>1. a \in BOOLEAN /\ "open" \in Status  BY AnswersAreBoolean DEF Status
      <4> QED  BY <3>3, <4>1, RecordFacts
    <3>5. Same(r, recs[proc[c].id])  BY <3>3, <3>4 DEF Same
    <3>6. recs' = [recs EXCEPT ![proc[c].id] = r]  BY <3>1 DEF WriteBack
    <3>7. recs[proc[c].id].status # r.status => "overwritten" \in past'
      BY <2>3, <3>4 DEF EvaluateWrite, Excuse, If, Overwrites
    <3> HIDE DEF r
    <3>8. PICK r1, i : r1 = r /\ i = proc[c].id  OBVIOUS
    <3> QED  BY <3>3, <3>4, <3>5, <3>6, <3>7, <3>8, OneWritten
  <2>4. CASE SnoozeWrite(c)
    <3>1. c \in Procs /\ proc[c].pc \in WithCopy  BY <2>4 DEF SnoozeWrite, At, WithCopy, Procs
    <3>2. "snoozed" \in Status \ { "open" }  BY DEF Status
    <3>3. WriteBack(c, [proc[c].copy EXCEPT !.status = "snoozed"])  BY <2>4 DEF SnoozeWrite
    <3> QED  BY <3>1, <3>2, <3>3, CopyWritten
  <2>5. CASE Dismiss(c)
    <3>1. PICK i \in 1 .. Len(recs) : recs' = [recs EXCEPT ![i].status = "dismissed"]
      BY <2>5, TypeFacts DEF Dismiss
    <3>2. "dismissed" \in Status \ { "open" }  BY DEF Status
    <3> QED  BY <3>1, <3>2, StatusWritten
  <2>6. CASE ExecuteAsk(c)
    <3>1. PICK k \in DOMAIN plans : ExecBegin(c, k) \/ ExecRefused(c, k)
      BY <2>6 DEF ExecuteAsk
    <3>2. PICK i \in 1 .. Len(recs) : i = plans[k].rec  BY TypeFacts
    <3>3. \E a \in BOOLEAN : Judge(i, a)
      BY <3>1, <3>2, AnswersAreBoolean DEF ExecBegin, ExecRefused
    <3> QED  BY <3>3, JudgedOnly
  <2> QED
    BY <1>2, <2>1, <2>2, <2>3, <2>4, <2>5, <2>6
    DEF Call, AnalyzeLoad, AnalyzeFails, EvaluateRead, SnoozeRead, ReadFor, PlanAsk
<1>3. ASSUME NEW p \in Procs, Progress(p)  PROVE Rewritten
  <2>1. CASE UNCHANGED recs  BY <2>1, NothingWritten
  <2>2. CASE PlanDecide(p)
    <3>1. PICK i \in 1 .. Len(recs) : i = proc[p].id
      BY <2>2, TypeFacts DEF PlanDecide, At, TypeInv, ProcOK, Fits, ProcState, WithCopy
    <3>2. \E a \in BOOLEAN : Judge(i, a)  BY <2>2, <3>1, AnswersAreBoolean DEF PlanDecide
    <3> QED  BY <3>2, JudgedOnly
  <2>3. ASSUME ~ UNCHANGED recs, PlanMark(p) \/ ExecSucceeds(p) \/ ExecRollsBack(p)
        PROVE  Rewritten
    <3>1. proc[p].pc \in WithCopy
      BY <2>3 DEF PlanMark, ExecSucceeds, ExecRollsBack, At, WithCopy
    <3>2. PICK s \in Status \ { "open" } : WriteBack(p, [proc[p].copy EXCEPT !.status = s])
      <4>1. CASE PlanMark(p)
        <5>1. PICK s : s = IF proc[p].granted THEN "scheduled" ELSE "under_review"  OBVIOUS
        <5>2. s \in Status \ { "open" }  BY <5>1 DEF Status
        <5>3. WriteBack(p, [proc[p].copy EXCEPT !.status = s])
          BY <2>3, <4>1, <5>1 DEF PlanMark, Account
        <5> QED  BY <5>2, <5>3
      <4>2. CASE ExecSucceeds(p)
        <5>1. "executed" \in Status \ { "open" }  BY DEF Status
        <5> QED  BY <2>3, <4>2, <5>1 DEF ExecSucceeds, Account
      <4>3. CASE ExecRollsBack(p)
        <5>1. "rolled_back" \in Status \ { "open" }  BY DEF Status
        <5> QED  BY <2>3, <4>3, <5>1 DEF ExecRollsBack, Account
      <4> QED  BY <2>3, <4>1, <4>2, <4>3
    <3> QED  BY <3>1, <3>2, CopyWritten
  <2> QED
    BY <1>3, <2>1, <2>2, <2>3
    DEF Progress, PlanRefused, PlanCreate, ExecFails, ExecRollbackFails
<1> QED  BY <1>1, <1>2, <1>3 DEF RecStep

-------------------------------------------------------------------------------
\* Every step but the making of one changes plans in place.

Replanned ==
  /\ plans' \in Seq(Plan) /\ Len(plans') = Len(plans)
  /\ \A k \in 1 .. Len(plans) :
       /\ plans'[k].rec = plans[k].rec /\ plans'[k].captured = plans[k].captured
       /\ plans'[k].unattended = plans[k].unattended

LEMMA NothingReplanned ==
  ASSUME TypeInv, UNCHANGED plans
  PROVE  Replanned
BY TypeFacts DEF Replanned, TypeInv, PlansOK

LEMMA OneReplanned ==
  ASSUME TypeInv, NEW k \in 1 .. Len(plans), NEW s \in PlanState, NEW a \in BOOLEAN,
         \/ SetPlan(k, s)
         \/ plans' = [plans EXCEPT ![k].state = s, ![k].alone = a]
  PROVE  Replanned
<1>1. plans \in Seq(Plan) /\ DOMAIN plans = 1 .. Len(plans) /\ Len(plans) \in Nat /\ plans[k] \in Plan
  BY TypeFacts DEF TypeInv, PlansOK
<1>2. ASSUME NEW r \in Plan, plans' = [plans EXCEPT ![k] = r], r.rec = plans[k].rec,
             r.captured = plans[k].captured, r.unattended = plans[k].unattended
      PROVE  Replanned
  <2>1. plans' \in Seq(Plan) /\ Len(plans') = Len(plans)  BY <1>1, <1>2
  <2>2. \A j \in 1 .. Len(plans) : plans'[j] = IF j = k THEN r ELSE plans[j]  BY <1>1, <1>2
  <2> QED  BY <1>2, <2>1, <2>2 DEF Replanned
<1> DEFINE r1 == [plans[k] EXCEPT !.state = s]
           r2 == [plans[k] EXCEPT !.state = s, !.alone = a]
<1>3. /\ r1 \in Plan /\ r1.rec = plans[k].rec
      /\ r1.captured = plans[k].captured /\ r1.unattended = plans[k].unattended
  BY <1>1 DEF Plan
<1>4. /\ r2 \in Plan /\ r2.rec = plans[k].rec
      /\ r2.captured = plans[k].captured /\ r2.unattended = plans[k].unattended
  BY <1>1 DEF Plan
<1>5. plans' = [plans EXCEPT ![k] = r1] \/ plans' = [plans EXCEPT ![k] = r2]
  BY DEF SetPlan
<1> HIDE DEF r1, r2
<1>6. PICK s1, s2 : s1 = r1 /\ s2 = r2  OBVIOUS
<1> QED  BY <1>2, <1>3, <1>4, <1>5, <1>6

LEMMA PlansStep ==
  ASSUME TypeInv, RecStep
  PROVE  Replanned \/ \E p \in Procs : PlanCreate(p)
<1>1. CASE UNCHANGED plans  BY <1>1, NothingReplanned
<1>2. ASSUME NEW k \in 1 .. Len(plans), NEW s \in PlanState, SetPlan(k, s)  PROVE Replanned
  <2>1. TRUE \in BOOLEAN  OBVIOUS
  <2> QED  BY <1>2, <2>1, OneReplanned
<1>3. DOMAIN plans = 1 .. Len(plans)  BY TypeFacts
<1>4. CASE World
  <2>1. ASSUME NEW k \in DOMAIN plans,
               \/ Claim(k) \/ ValidateHolds(k) \/ ValidateFails(k)
               \/ Rollback(k) \/ RollbackFails(k) \/ Cancel(k)
        PROVE  \E s \in PlanState : SetPlan(k, s)
    BY <2>1 DEF Claim, ValidateHolds, ValidateFails, Rollback, RollbackFails, Cancel, PlanState
  <2> QED  BY <1>1, <1>2, <1>3, <1>4, <2>1 DEF World, Discover
<1>5. ASSUME NEW c \in Callers, ExecuteAsk(c)  PROVE Replanned
  <2>1. PICK k \in 1 .. Len(plans) : ExecBegin(c, k) \/ ExecRefused(c, k)
    BY <1>3, <1>5 DEF ExecuteAsk
  <2>2. \E s \in PlanState : SetPlan(k, s)  BY <2>1 DEF ExecBegin, ExecRefused, PlanState
  <2> QED  BY <1>2, <2>2
<1>6. ASSUME NEW p \in Procs, ExecSucceeds(p) \/ ExecFails(p) \/ ExecRollsBack(p) \/ ExecRollbackFails(p)
      PROVE  Replanned
  <2>1. PICK k \in 1 .. Len(plans) : k = proc[p].plan
    BY <1>6, TypeFacts
    DEF ExecSucceeds, ExecFails, ExecRollsBack, ExecRollbackFails, At, TypeInv, ProcOK, Fits,
        ProcState, WithPlan
  <2>2. CASE ExecSucceeds(p)
    <3>1. plans' = [plans EXCEPT ![k].state = "executed", ![k].alone = (p = Worker)]
      BY <2>1, <2>2 DEF ExecSucceeds
    <3>2. "executed" \in PlanState /\ (p = Worker) \in BOOLEAN  BY DEF PlanState
    <3>3. PICK a \in BOOLEAN : a <=> p = Worker  OBVIOUS
    <3>4. plans' = [plans EXCEPT ![k].state = "executed", ![k].alone = a]  BY <3>1, <3>3
    <3> QED  BY <3>2, <3>4, OneReplanned
  <2>3. CASE ~ ExecSucceeds(p)
    <3>1. \E s \in PlanState : SetPlan(k, s)
      BY <1>6, <2>1, <2>3 DEF ExecFails, ExecRollsBack, ExecRollbackFails, PlanState
    <3> QED  BY <1>2, <3>1
  <2> QED  BY <2>2, <2>3
<1> QED
  BY <1>1, <1>4, <1>5, <1>6
  DEF RecStep, Call, AnalyzeLoad, AnalyzeSupersede, AnalyzeSave, AnalyzeFails, EvaluateRead,
      SnoozeRead, ReadFor, EvaluateWrite, SnoozeWrite, Dismiss, PlanAsk, Progress, PlanDecide,
      PlanRefused, PlanMark

\* The resource a recommendation is about.
LEMMA ResourceFacts ==
  ASSUME TypeInv, NEW i \in 1 .. Len(recs)
  PROVE  ResourceOfRec(i) \in Resources
BY TypeFacts DEF ResourceOfRec, Resources, Rec

LEMMA PlanMade ==
  ASSUME TypeInv, NEW p \in Procs, PlanCreate(p)
  PROVE  /\ proc[p].id \in 1 .. Len(recs)
         /\ \E new \in Plan : /\ plans' = Append(plans, new) /\ new.rec = proc[p].id
                              /\ new.state \in { "approved", "awaiting_approval" }
                              /\ new.captured = estate[ResourceOfRec(proc[p].id)]
                              /\ new.unattended <=> p = Worker
         /\ Len(plans') = Len(plans) + 1 /\ Len(plans') <= MaxPlans /\ plans' \in Seq(Plan)
         /\ \A k \in 1 .. Len(plans) : plans'[k] = plans[k]
         /\ plans'[Len(plans) + 1].rec = proc[p].id
<1>1. /\ proc[p].id \in 1 .. Len(recs) /\ proc[p].granted \in BOOLEAN
  BY TypeFacts DEF PlanCreate, At, TypeInv, ProcOK, Fits, ProcState, WithCopy
<1>2. estate[ResourceOfRec(proc[p].id)] \in Condition
  BY <1>1, ResourceFacts DEF TypeInv, CloudOK
<1> DEFINE r == [ rec |-> proc[p].id, captured |-> estate[ResourceOfRec(proc[p].id)],
                  state |-> IF proc[p].granted THEN "approved" ELSE "awaiting_approval",
                  unattended |-> p = Worker, alone |-> FALSE ]
<1>3. r \in Plan
  <2>1. (p = Worker) \in BOOLEAN /\ FALSE \in BOOLEAN  OBVIOUS
  <2>2. { "approved", "awaiting_approval" } \subseteq PlanState  BY DEF PlanState
  <2>3. proc[p].id \in Ids  BY <1>1, TypeFacts
  <2> QED  BY <1>2, <2>1, <2>2, <2>3 DEF Plan
<1>4. plans' = Append(plans, r)  BY DEF PlanCreate
<1>5. /\ r.rec = proc[p].id /\ r.state \in { "approved", "awaiting_approval" }
      /\ r.captured = estate[ResourceOfRec(proc[p].id)] /\ (r.unattended <=> p = Worker)
  OBVIOUS
<1> HIDE DEF r
<1>6. plans \in Seq(Plan) /\ Len(plans) \in Nat /\ Len(plans) < MaxPlans /\ MaxPlans \in Nat
  BY TypeFacts, RecBounds DEF TypeInv, PlansOK, PlanCreate
<1>7. /\ Len(plans') = Len(plans) + 1 /\ plans' \in Seq(Plan)
      /\ \A k \in 1 .. Len(plans) : plans'[k] = plans[k]
      /\ plans'[Len(plans) + 1] = r
  BY <1>3, <1>4, <1>6
<1> QED  BY <1>1, <1>3, <1>4, <1>5, <1>6, <1>7

-------------------------------------------------------------------------------
\* The ledger moves by entries and losses only; a write that goes missing is counted.

Entries == { "planned", "executed", "validated" }

PostedAs(i, e) ==
  \E unsaved \in SUBSET Ids : TouchBut(i, e, unsaved) /\ (unsaved = {} \/ losses' # 0)
Posted(i) == \E e \in Entries : PostedAs(i, e)

LedgerMoves ==
  \/ UNCHANGED ledger
  \/ \E i \in 1 .. Len(recs) : Posted(i) \/ Lose(i)

LEMMA TouchPosts ==
  ASSUME TypeInv, NEW i \in 1 .. Len(recs), NEW e \in Entries,
         Touch(i, e) \/ (TouchPartly(i, e) /\ Lost)
  PROVE  PostedAs(i, e)
<1>1. CASE Touch(i, e)
  <2>1. {} \in SUBSET Ids  OBVIOUS
  <2> QED  BY <1>1, <2>1 DEF Touch, PostedAs
<1>2. CASE TouchPartly(i, e) /\ Lost
  <2>1. losses' # 0  BY <1>2 DEF Lost, TypeInv, LimitsOK
  <2>2. recs[i].rivals \subseteq Ids /\ i \in Ids  BY TypeFacts DEF Rec
  <2>3. PICK j \in {i} \cup recs[i].rivals : TouchBut(i, e, {j})  BY <1>2 DEF TouchPartly
  <2>4. {j} \in SUBSET Ids  BY <2>2
  <2> QED  BY <2>1, <2>3, <2>4 DEF PostedAs
<1> QED  BY <1>1, <1>2

LEMMA LedgerStep ==
  ASSUME TypeInv, RecStep
  PROVE  LedgerMoves
<1>1. CASE UNCHANGED ledger  BY <1>1 DEF LedgerMoves
<1>2. ASSUME NEW i \in 1 .. Len(recs), Posted(i) \/ Lose(i)  PROVE LedgerMoves
  BY <1>2 DEF LedgerMoves
<1>3. CASE World
  <2>1. ASSUME NEW k \in DOMAIN plans, ValidateHolds(k) \/ ValidateFails(k) \/ Rollback(k) \/ Cancel(k)
        PROVE  LedgerMoves
    <3>1. PICK i \in 1 .. Len(recs) : i = plans[k].rec  BY TypeFacts
    <3>2. "validated" \in Entries  BY DEF Entries
    <3>3. Lose(i) \/ Touch(i, "validated")
      BY <2>1, <3>1 DEF ValidateHolds, ValidateFails, Rollback, Cancel
    <3> QED  BY <1>2, <3>2, <3>3, TouchPosts DEF Posted
  <2> QED  BY <1>1, <1>3, <2>1 DEF World, Discover, Claim, RollbackFails
<1>4. ASSUME NEW p \in Procs, PlanMark(p) \/ ExecSucceeds(p) \/ ExecFails(p) \/ ExecRollsBack(p)
      PROVE  LedgerMoves
  <2>1. PICK i \in 1 .. Len(recs) : i = proc[p].id
    BY <1>4, TypeFacts
    DEF PlanMark, ExecSucceeds, ExecFails, ExecRollsBack, At, TypeInv, ProcOK, Fits,
        ProcState, WithCopy
  <2>2. "planned" \in Entries /\ "executed" \in Entries  BY DEF Entries
  <2>3. CASE PlanMark(p)
    <3>1. Touch(i, "planned") \/ (TouchPartly(i, "planned") /\ Lost)
      BY <2>1, <2>3 DEF PlanMark, Account
    <3> QED  BY <1>2, <2>2, <3>1, TouchPosts DEF Posted
  <2>4. CASE ExecSucceeds(p)
    <3>1. Touch(i, "executed") \/ (TouchPartly(i, "executed") /\ Lost)
      BY <2>1, <2>4 DEF ExecSucceeds, Account
    <3> QED  BY <1>2, <2>2, <3>1, TouchPosts DEF Posted
  <2>5. CASE ExecFails(p)  BY <1>2, <2>1, <2>5 DEF ExecFails
  <2>6. CASE ExecRollsBack(p)
    <3>1. Lose(i) \/ UNCHANGED ledger  BY <2>1, <2>6 DEF ExecRollsBack, Account
    <3> QED  BY <1>1, <1>2, <3>1
  <2> QED  BY <1>4, <2>3, <2>4, <2>5, <2>6
<1>5. ASSUME NEW c \in Callers, ExecuteAsk(c)  PROVE UNCHANGED ledger
  BY <1>5 DEF ExecuteAsk, ExecBegin, ExecRefused
<1> QED
  BY <1>1, <1>3, <1>4, <1>5
  DEF RecStep, Call, AnalyzeLoad, AnalyzeSupersede, AnalyzeSave, AnalyzeFails, EvaluateRead,
      SnoozeRead, ReadFor, EvaluateWrite, SnoozeWrite, Dismiss, PlanAsk, Progress, PlanDecide,
      PlanRefused, PlanCreate, ExecRollbackFails

LEMMA LedgerTypes ==
  ASSUME TypeInv, LedgerMoves
  PROVE  LedgerOK'
<1>1. savings \in [Ids -> SavingsRecord] /\ booked \in [Ids -> BOOLEAN]
  BY DEF TypeInv, LedgerOK
<1>2. ASSUME NEW i \in 1 .. Len(recs), Posted(i)  PROVE LedgerOK'
  <2>1. PICK e \in Entries, u \in SUBSET Ids : TouchBut(i, e, u)  BY <1>2 DEF Posted, PostedAs
  <2>2. booked' \in [Ids -> BOOLEAN]  BY <1>1, <2>1 DEF TouchBut
  <2>3. ASSUME NEW j \in Ids  PROVE Touched(i, e, u)[j] \in SavingsRecord
    <3>1. savings[j] \in SavingsRecord  BY <1>1
    <3>2. Post(savings[j], e) \in SavingsRecord /\ MarkLost(savings[j]) \in SavingsRecord
      BY <3>1, Posting DEF Entries
    <3>3. Touched(i, e, u)[j] \in { savings[j], Post(savings[j], e), MarkLost(savings[j]) }
      BY DEF Touched
    <3> QED  BY <3>1, <3>2, <3>3
  <2>4. Touched(i, e, u) = [j \in Ids |-> Touched(i, e, u)[j]]  BY DEF Touched
  <2>5. Touched(i, e, u) \in [Ids -> SavingsRecord]  BY <2>3, <2>4
  <2> QED  BY <2>1, <2>2, <2>5 DEF TouchBut, LedgerOK
<1>3. ASSUME NEW i \in 1 .. Len(recs), Lose(i)  PROVE LedgerOK'
  <2>1. i \in Ids /\ savings[i] \in SavingsRecord  BY <1>1, TypeFacts
  <2>2. MarkLost(savings[i]) \in SavingsRecord  BY <2>1, Posting
  <2> QED  BY <1>1, <1>3, <2>1, <2>2 DEF Lose, LedgerOK
<1> QED  BY <1>1, <1>2, <1>3 DEF LedgerMoves, LedgerOK, ledger

LEMMA CloudTypes ==
  ASSUME TypeInv, RecStep
  PROVE  CloudOK'
<1>1. estate \in [Resources -> Condition] /\ inventory \in [Resources -> Condition]
  BY DEF TypeInv, CloudOK
<1>2. "lean" \in Condition  BY DEF Condition
<1>3. CASE UNCHANGED cloud  BY <1>1, <1>3 DEF cloud, CloudOK
<1>4. ASSUME NEW i \in 1 .. Len(recs), NEW c \in Condition, UNCHANGED inventory,
             estate' = [estate EXCEPT ![ResourceOfRec(i)] = c]
      PROVE  CloudOK'
  BY <1>1, <1>4 DEF CloudOK
<1>5. CASE World
  <2>1. ASSUME NEW k \in DOMAIN plans, Rollback(k) \/ RollbackFails(k)  PROVE CloudOK'
    <3>1. PICK i \in 1 .. Len(recs) : i = plans[k].rec  BY TypeFacts
    <3>2. plans[k].captured \in Condition  BY TypeFacts DEF Plan
    <3> QED  BY <1>4, <2>1, <3>1, <3>2 DEF Rollback, RollbackFails
  <2> QED
    BY <1>1, <1>3, <1>5, <2>1 DEF World, Discover, Claim, ValidateHolds, ValidateFails, Cancel, CloudOK
<1>6. ASSUME NEW p \in Procs, ExecSucceeds(p) \/ ExecFails(p) \/ ExecRollsBack(p) \/ ExecRollbackFails(p)
      PROVE  CloudOK'
  <2>1. PICK i \in 1 .. Len(recs) : i = proc[p].id
    BY <1>6, TypeFacts
    DEF ExecSucceeds, ExecFails, ExecRollsBack, ExecRollbackFails, At, TypeInv, ProcOK, Fits,
        ProcState, WithCopy
  <2>2. PICK k \in 1 .. Len(plans) : k = proc[p].plan
    BY <1>6, TypeFacts
    DEF ExecSucceeds, ExecFails, ExecRollsBack, ExecRollbackFails, At, TypeInv, ProcOK, Fits,
        ProcState, WithPlan
  <2>3. plans[k].captured \in Condition  BY TypeFacts DEF Plan
  <2>4. estate[ResourceOfRec(i)] \in Condition  BY <1>1, ResourceFacts
  <2>5. \E c \in Condition : estate' = [estate EXCEPT ![ResourceOfRec(i)] = c]
    BY <1>2, <1>6, <2>1, <2>2, <2>3, <2>4
    DEF ExecSucceeds, ExecFails, ExecRollsBack, ExecRollbackFails
  <2> QED
    BY <1>4, <1>6, <2>5 DEF ExecSucceeds, ExecFails, ExecRollsBack, ExecRollbackFails
<1>7. ASSUME NEW c \in Callers, ExecuteAsk(c)  PROVE UNCHANGED cloud
  BY <1>7 DEF ExecuteAsk, ExecBegin, ExecRefused
<1> QED
  BY <1>3, <1>5, <1>6, <1>7
  DEF RecStep, Call, AnalyzeLoad, AnalyzeSupersede, AnalyzeSave, AnalyzeFails, EvaluateRead,
      SnoozeRead, ReadFor, EvaluateWrite, SnoozeWrite, Dismiss, PlanAsk, Progress, PlanDecide,
      PlanRefused, PlanCreate, PlanMark

\* Time passes with analyses, and excuses and losses only accumulate.
LEMMA LimitsStep ==
  ASSUME TypeInv, RecStep
  PROVE  LimitsOK' /\ clock <= clock' /\ losses <= losses' /\ past \subseteq past'
<1> USE RecBounds DEF LimitsOK, TypeInv
<1>1. CASE UNCHANGED << limits, losses, past >>  BY <1>1 DEF limits
<1>2. ASSUME UNCHANGED << limits, losses >>, NEW S \in SUBSET Excuses, Excuse(S)
      PROVE  LimitsOK' /\ clock <= clock' /\ losses <= losses' /\ past \subseteq past'
  BY <1>2 DEF limits, Excuse
<1>3. ASSUME UNCHANGED limits, UNCHANGED losses \/ Lost, NEW S \in SUBSET Excuses, Excuse(S)
      PROVE  LimitsOK' /\ clock <= clock' /\ losses <= losses' /\ past \subseteq past'
  BY <1>3 DEF limits, Excuse, Lost
<1>4. \A b : /\ If(b, "overwritten") \in SUBSET Excuses /\ If(b, "contended") \in SUBSET Excuses
             /\ If(b, "mixed") \in SUBSET Excuses /\ { "mixed" } \in SUBSET Excuses
  BY DEF If, Excuses
<1>5. CASE World
  BY <1>1, <1>5 DEF World, Discover, Claim, ValidateHolds, ValidateFails, Rollback, RollbackFails, Cancel
<1>6. ASSUME NEW c \in Callers, Call(c)
      PROVE  LimitsOK' /\ clock <= clock' /\ losses <= losses' /\ past \subseteq past'
  <2>1. ASSUME Begins(c), UNCHANGED << clock, losses, past >>
        PROVE  LimitsOK' /\ clock <= clock' /\ losses <= losses' /\ past \subseteq past'
    BY <2>1 DEF Begins
  <2>2. CASE AnalyzeLoad(c)
    <3>1. PICK S \in SUBSET Excuses : Excuse(S)  BY <1>4, <2>2 DEF AnalyzeLoad
    <3> QED  BY <2>2, <3>1 DEF AnalyzeLoad, Begins, Excuse
  <2>3. CASE AnalyzeSupersede(c) \/ EvaluateWrite(c) \/ SnoozeWrite(c)
    <3>1. UNCHANGED past \/ \E S \in SUBSET Excuses : Excuse(S)
      BY <1>4, <2>3 DEF AnalyzeSupersede, EvaluateWrite, SnoozeWrite
    <3>2. UNCHANGED << limits, losses >>  BY <2>3 DEF AnalyzeSupersede, EvaluateWrite, SnoozeWrite
    <3> QED  BY <1>1, <1>2, <3>1, <3>2
  <2>4. CASE EvaluateRead(c) \/ SnoozeRead(c) \/ Dismiss(c) \/ PlanAsk(c)
    BY <2>1, <2>4 DEF EvaluateRead, SnoozeRead, ReadFor, Dismiss, PlanAsk
  <2>5. CASE AnalyzeSave(c) \/ AnalyzeFails(c) \/ ExecuteAsk(c)
    BY <1>1, <2>5 DEF AnalyzeSave, AnalyzeFails, ExecuteAsk, ExecBegin, ExecRefused
  <2> QED  BY <1>6, <2>2, <2>3, <2>4, <2>5 DEF Call
<1>7. ASSUME NEW p \in Procs, Progress(p)
      PROVE  LimitsOK' /\ clock <= clock' /\ losses <= losses' /\ past \subseteq past'
  <2>1. CASE PlanDecide(p) \/ PlanRefused(p) \/ ExecFails(p) \/ ExecRollbackFails(p)
    BY <1>1, <2>1 DEF PlanDecide, PlanRefused, ExecFails, ExecRollbackFails
  <2>2. CASE PlanCreate(p) \/ PlanMark(p) \/ ExecSucceeds(p) \/ ExecRollsBack(p)
    <3>1. PICK S \in SUBSET Excuses : Excuse(S)
      BY <1>4, <2>2 DEF PlanCreate, PlanMark, ExecSucceeds, ExecRollsBack
    <3>2. UNCHANGED limits /\ (UNCHANGED losses \/ Lost)
      BY <2>2 DEF PlanCreate, PlanMark, ExecSucceeds, ExecRollsBack, Account
    <3> QED  BY <1>3, <3>1, <3>2
  <2> QED  BY <1>7, <2>1, <2>2 DEF Progress
<1> QED  BY <1>5, <1>6, <1>7 DEF RecStep

-------------------------------------------------------------------------------
\* A batch: the ranking numbers what was found, one number each.

LEMMA RankType ==
  ASSUME NEW found \in SUBSET Findings, NEW f \in found
  PROVE  Rank(f, found) \in 1 .. Cardinality(found)
<1> DEFINE up == { g \in found : Priority[g] >= Priority[f] }
<1>1. IsFiniteSet(found)  BY FindingData, FS_Subset
<1>2. IsFiniteSet(up) /\ Cardinality(up) <= Cardinality(found)  BY <1>1, FS_Subset
<1>3. Cardinality(up) \in Nat /\ Cardinality(found) \in Nat  BY <1>1, <1>2, FS_CardinalityType
<1>4. f \in up  BY FindingData
<1>5. Cardinality(up) # 0  BY <1>2, <1>4, FS_EmptySet
<1> QED  BY <1>2, <1>3, <1>5 DEF Rank

LEMMA RankFalls ==
  ASSUME NEW found \in SUBSET Findings, NEW f \in found, NEW g \in found, Priority[f] < Priority[g]
  PROVE  Rank(g, found) < Rank(f, found)
<1> DEFINE low == { h \in found : Priority[h] >= Priority[g] }
           high == { h \in found : Priority[h] >= Priority[f] }
<1>1. IsFiniteSet(found)  BY FindingData, FS_Subset
<1>2. IsFiniteSet(low) /\ IsFiniteSet(high)  BY <1>1, FS_Subset
<1>3. \A h \in found : Priority[h] \in Nat  BY FindingData
<1>4. low \in SUBSET high
  <2> SUFFICES ASSUME NEW h \in found, Priority[h] >= Priority[g] PROVE Priority[h] >= Priority[f]
    OBVIOUS
  <2> QED  BY <1>3
<1>5. f \in high /\ f \notin low  BY <1>3
<1>6. Cardinality(low) <= Cardinality(high) /\ Cardinality(low) # Cardinality(high)
  BY <1>2, <1>4, <1>5, FS_Subset
<1>7. Cardinality(low) \in Nat /\ Cardinality(high) \in Nat  BY <1>2, FS_CardinalityType
<1> QED  BY <1>6, <1>7 DEF Rank

LEMMA RankIsOrder ==
  ASSUME NEW found \in SUBSET Findings
  PROVE  /\ \A f, g \in found : Rank(f, found) = Rank(g, found) => f = g
         /\ \A k \in 1 .. Cardinality(found) : \E f \in found : Rank(f, found) = k
<1>1. IsFiniteSet(found)  BY FindingData, FS_Subset
<1>2. Cardinality(found) \in Nat  BY <1>1, FS_CardinalityType
<1> DEFINE r == [f \in found |-> Rank(f, found)]  T == 1 .. Cardinality(found)
<1>3. r \in [found -> T]  BY RankType
<1>4. \A f, g \in found : r[f] = r[g] => f = g
  <2> SUFFICES ASSUME NEW f \in found, NEW g \in found, f # g PROVE r[f] # r[g]  OBVIOUS
  <2>1. Priority[f] \in Nat /\ Priority[g] \in Nat /\ Priority[f] # Priority[g]  BY FindingData
  <2>2. r[f] \in Int /\ r[g] \in Int  BY <1>2, <1>3
  <2>3. Priority[f] < Priority[g] => r[g] < r[f]  BY RankFalls
  <2>4. Priority[g] < Priority[f] => r[f] < r[g]  BY RankFalls
  <2> HIDE DEF r
  <2> QED  BY <2>1, <2>2, <2>3, <2>4
<1>5. IsFiniteSet(T) /\ Cardinality(T) = Cardinality(found)  BY <1>2, FS_Interval
<1>6. r \in Injection(found, T)
  <2> HIDE DEF r, T
  <2> QED  BY <1>3, <1>4 DEF Injection, IsInjective
<1>7. r \in Surjection(found, T)  BY <1>5, <1>6, FS_Injection
<1>8. \A k \in T : \E f \in found : r[f] = k
  <2> HIDE DEF r, T
  <2> QED  BY <1>7 DEF Surjection
<1> QED  BY <1>4, <1>8

\* A batch to be saved after n others: each thing found once, open, and rivals that name
\* each other.
Numbered(b, n, m, found, born) ==
  /\ b \in Seq(Rec) /\ Len(b) = m
  /\ \A k \in 1 .. m :
       /\ b[k].finding \in found /\ b[k].status = "open" /\ b[k].born = born
       /\ \A j : j \in b[k].rivals <=>
                   \E l \in 1 .. m : j = n + l /\ l # k /\ ResourceOf[b[l].finding] = ResourceOf[b[k].finding]
  /\ \A k, l \in 1 .. m : b[k].finding = b[l].finding => k = l

\* What AnalyzeSave appends, as it is then found in the store.
Appended(n, m, found, born) ==
  /\ recs' \in Seq(Rec) /\ Len(recs') = n + m
  /\ \A i \in 1 .. n : recs'[i] = recs[i]
  /\ \A i \in n + 1 .. n + m :
       /\ recs'[i].finding \in found /\ recs'[i].status = "open" /\ recs'[i].born = born
       /\ \A j : j \in recs'[i].rivals <=>
                   /\ j \in n + 1 .. n + m /\ j # i
                   /\ ResourceOf[recs'[j].finding] = ResourceOf[recs'[i].finding]
  /\ \A i, j \in n + 1 .. n + m : recs'[i].finding = recs'[j].finding => i = j

LEMMA RecsJoined ==
  ASSUME recs \in Seq(Rec), NEW s \in Seq(Rec), recs' = recs \o s
  PROVE  /\ recs' \in Seq(Rec) /\ Len(recs') = Len(recs) + Len(s)
         /\ \A i \in 1 .. Len(recs) : recs'[i] = recs[i]
         /\ \A k \in 1 .. Len(s) : recs'[Len(recs) + k] = s[k]
OBVIOUS

LEMMA BatchFacts ==
  ASSUME NEW n \in Nat, NEW found \in SUBSET Findings, NEW born \in Time,
         n + Cardinality(found) <= MaxRecs
  PROVE  Numbered(Batch(n, found, born), n, Cardinality(found), found, born)
<1> DEFINE m == Cardinality(found)
           at(k) == CHOOSE f \in found : Rank(f, found) = k
<1>1. m \in Nat /\ n + m <= MaxRecs
  <2>1. IsFiniteSet(found)  BY FindingData, FS_Subset
  <2> QED  BY <2>1, FS_CardinalityType
<1>2. \A k \in 1 .. m : at(k) \in found /\ Rank(at(k), found) = k  BY RankIsOrder
<1>3. \A k, l \in 1 .. m : at(k) = at(l) => k = l
  <2> SUFFICES ASSUME NEW k \in 1 .. m, NEW l \in 1 .. m, at(k) = at(l) PROVE k = l  OBVIOUS
  <2>1. Rank(at(k), found) = k /\ Rank(at(l), found) = l  BY <1>2
  <2> QED  BY <2>1
<1> DEFINE rec(k) ==
      [ finding |-> at(k), status |-> "open", auto |-> FALSE,
        primary |-> \A g \in Rivals(at(k), found) : Priority[g] < Priority[at(k)],
        rivals  |-> { n + Rank(g, found) : g \in Rivals(at(k), found) }, born |-> born ]
<1>4. Batch(n, found, born) = [k \in 1 .. m |-> rec(k)]  BY DEF Batch
<1>5. \A g \in found : Rank(g, found) \in 1 .. m /\ at(Rank(g, found)) = g
  <2> SUFFICES ASSUME NEW g \in found PROVE Rank(g, found) \in 1 .. m /\ at(Rank(g, found)) = g
    OBVIOUS
  <2>1. Rank(g, found) \in 1 .. m  BY RankType
  <2>2. at(Rank(g, found)) \in found /\ Rank(at(Rank(g, found)), found) = Rank(g, found)
    BY <1>2, <2>1
  <2> QED  BY <2>1, <2>2, RankIsOrder
<1> HIDE DEF at
<1>6. ASSUME NEW k \in 1 .. m  PROVE rec(k) \in Rec
  <2>1. at(k) \in Findings  BY <1>2
  <2>2. (\A g \in Rivals(at(k), found) : Priority[g] < Priority[at(k)]) \in BOOLEAN  OBVIOUS
  <2>3. { n + Rank(g, found) : g \in Rivals(at(k), found) } \subseteq Ids
    <3> SUFFICES ASSUME NEW g \in Rivals(at(k), found) PROVE n + Rank(g, found) \in 1 .. MaxRecs
      BY DEF Ids
    <3>1. Rank(g, found) \in 1 .. m  BY <1>5 DEF Rivals
    <3> HIDE DEF m
    <3> QED  BY <1>1, <3>1, RecBounds
  <2>4. "open" \in Status  BY DEF Status
  <2> QED  BY <2>1, <2>2, <2>3, <2>4 DEF Rec, Time
<1>7. ASSUME NEW k \in 1 .. m
      PROVE  \A j : j \in rec(k).rivals <=>
                      \E l \in 1 .. m : j = n + l /\ l # k /\ ResourceOf[at(l)] = ResourceOf[at(k)]
  <2>1. rec(k).rivals = { n + Rank(g, found) : g \in Rivals(at(k), found) }  OBVIOUS
  <2>2. ASSUME NEW g \in Rivals(at(k), found)
        PROVE  \E l \in 1 .. m : n + Rank(g, found) = n + l /\ l # k /\ ResourceOf[at(l)] = ResourceOf[at(k)]
    BY <1>2, <1>5 DEF Rivals
  <2>3. ASSUME NEW l \in 1 .. m, l # k, ResourceOf[at(l)] = ResourceOf[at(k)]
        PROVE  at(l) \in Rivals(at(k), found) /\ Rank(at(l), found) = l
    BY <1>2, <1>3, <2>3 DEF Rivals
  <2> QED  BY <2>1, <2>2, <2>3
<1>8. ASSUME NEW k \in 1 .. m
      PROVE  rec(k).finding = at(k) /\ rec(k).status = "open" /\ rec(k).born = born
  OBVIOUS
<1> HIDE DEF rec
<1> DEFINE b == Batch(n, found, born)
<1>9. b \in Seq(Rec) /\ Len(b) = m /\ \A k \in 1 .. m : b[k] = rec(k)
  <2>1. b \in [1 .. m -> Rec]  BY <1>4, <1>6
  <2> HIDE DEF m
  <2> QED  BY <1>1, <1>4, <2>1
<1> HIDE DEF b, m
<1>10. ASSUME NEW k \in 1 .. m
       PROVE  /\ b[k].finding = at(k) /\ b[k].finding \in found
              /\ b[k].status = "open" /\ b[k].born = born /\ b[k].rivals = rec(k).rivals
  BY <1>2, <1>8, <1>9
<1>11. ASSUME NEW k \in 1 .. m
       PROVE  \A j : j \in b[k].rivals <=>
                \E l \in 1 .. m : j = n + l /\ l # k /\ ResourceOf[b[l].finding] = ResourceOf[b[k].finding]
  BY <1>7, <1>10
<1>12. \A k, l \in 1 .. m : b[k].finding = b[l].finding => k = l
  BY <1>3, <1>10
<1>13. Numbered(b, n, m, found, born)  BY <1>9, <1>10, <1>11, <1>12 DEF Numbered
<1> QED  BY <1>13 DEF b, m

LEMMA BatchSaved ==
  ASSUME TypeInv, NEW found \in SUBSET Findings, NEW born \in Time,
         Len(recs) + Cardinality(found) <= MaxRecs,
         recs' = recs \o Batch(Len(recs), found, born)
  PROVE  Appended(Len(recs), Cardinality(found), found, born)
<1>1. PICK n \in Nat, m \in Nat : n = Len(recs) /\ m = Cardinality(found)
  <2>1. IsFiniteSet(found)  BY FindingData, FS_Subset
  <2> QED  BY <2>1, FS_CardinalityType, TypeFacts
<1>2. PICK b : b = Batch(n, found, born)  OBVIOUS
<1>3. Numbered(b, n, m, found, born)  BY <1>1, <1>2, BatchFacts
<1>4. /\ recs' \in Seq(Rec) /\ Len(recs') = n + m
      /\ \A i \in 1 .. n : recs'[i] = recs[i]
      /\ \A k \in 1 .. m : recs'[n + k] = b[k]
  <2>1. recs' = recs \o b /\ b \in Seq(Rec) /\ Len(b) = m /\ Len(recs) = n
    BY <1>1, <1>2, <1>3 DEF Numbered
  <2>2. recs \in Seq(Rec)  BY DEF TypeInv, RecsOK
  <2> QED  BY <2>1, <2>2, RecsJoined
<1>5. \A i \in n + 1 .. n + m : i - n \in 1 .. m /\ i = n + (i - n)  OBVIOUS
<1>6. ASSUME NEW i \in n + 1 .. n + m
      PROVE  /\ recs'[i].finding = b[i - n].finding /\ recs'[i].finding \in found
             /\ recs'[i].status = "open" /\ recs'[i].born = born /\ recs'[i].rivals = b[i - n].rivals
  <2>1. PICK k \in 1 .. m : k = i - n /\ i = n + k  BY <1>5
  <2>2. recs'[i] = b[k]  BY <1>4, <2>1
  <2> QED  BY <1>3, <2>1, <2>2 DEF Numbered
<1>7. ASSUME NEW i \in n + 1 .. n + m, NEW j
      PROVE  j \in recs'[i].rivals <=>
                 /\ j \in n + 1 .. n + m /\ j # i
                 /\ ResourceOf[recs'[j].finding] = ResourceOf[recs'[i].finding]
  <2>1. PICK k \in 1 .. m : k = i - n /\ i = n + k  BY <1>5
  <2>2. j \in recs'[i].rivals <=>
          \E l \in 1 .. m : j = n + l /\ l # k /\ ResourceOf[b[l].finding] = ResourceOf[b[k].finding]
    <3>1. recs'[i].rivals = b[k].rivals  BY <1>6, <2>1
    <3>2. j \in b[k].rivals <=>
            \E l \in 1 .. m : j = n + l /\ l # k /\ ResourceOf[b[l].finding] = ResourceOf[b[k].finding]
      BY <1>3, <2>1 DEF Numbered
    <3> QED  BY <3>1, <3>2
  <2>3. recs'[i].finding = b[k].finding  BY <1>6, <2>1
  <2>4. ASSUME NEW l \in 1 .. m, j = n + l
        PROVE  j \in n + 1 .. n + m /\ recs'[j].finding = b[l].finding /\ (l # k <=> j # i)
    <3>1. j \in n + 1 .. n + m /\ j - n = l /\ (l # k <=> j # i)  BY <2>1, <2>4
    <3> QED  BY <3>1, <1>6
  <2>5. ASSUME j \in n + 1 .. n + m  PROVE \E l \in 1 .. m : j = n + l
    BY <1>5, <2>5
  <2> QED  BY <2>2, <2>3, <2>4, <2>5
<1>8. ASSUME NEW i \in n + 1 .. n + m, NEW j \in n + 1 .. n + m, recs'[i].finding = recs'[j].finding
      PROVE  i = j
  <2>1. PICK k \in 1 .. m : k = i - n /\ i = n + k  BY <1>5
  <2>2. PICK l \in 1 .. m : l = j - n /\ j = n + l  BY <1>5
  <2>3. b[k].finding = b[l].finding  BY <1>6, <1>8, <2>1, <2>2
  <2> QED  BY <1>3, <2>1, <2>2, <2>3 DEF Numbered
<1>9. Appended(n, m, found, born)
  BY <1>4, <1>6, <1>7, <1>8 DEF Appended
<1> QED  BY <1>1, <1>9

LEMMA SaveFacts ==
  ASSUME TypeInv, NEW c \in Callers, AnalyzeSave(c)
  PROVE  /\ proc[c].found \in SUBSET Findings /\ proc[c].born \in Time
         /\ Appended(Len(recs), Cardinality(proc[c].found), proc[c].found, proc[c].born)
         /\ Cardinality(proc[c].found) \in Nat
         /\ Cardinality(proc[c].found) <= Cardinality(Findings)
<1>1. proc[c].found \in SUBSET Findings /\ proc[c].born \in Time
  BY DEF TypeInv, ProcOK, Fits, ProcState, Procs
<1>2. Cardinality(proc[c].found) \in Nat /\ Cardinality(proc[c].found) <= Cardinality(Findings)
  <2>1. PICK found \in SUBSET Findings : found = proc[c].found  BY <1>1
  <2>2. IsFiniteSet(found) /\ Cardinality(found) <= Cardinality(Findings)
    BY FindingData, FS_Subset
  <2> QED  BY <2>1, <2>2, FS_CardinalityType
<1>3. c \in Analyzing  BY DEF AnalyzeSave, At, Analyzing, Procs
<1>4. Cardinality(Analyzing) # 0  BY <1>3, FS_EmptySet DEF TypeInv, SpaceOK
<1>5. Len(recs) + Cardinality(proc[c].found) <= MaxRecs
  <2>1. ASSUME NEW a \in Nat, NEW b \in Nat, b # 0  PROVE a <= a * b
    <3>1. b >= 1  BY <2>1
    <3> QED  BY <3>1
  <2>2. Cardinality(Findings) \in Nat /\ Cardinality(Analyzing) \in Nat  BY TypeFacts
  <2>3. Cardinality(Findings) <= Cardinality(Findings) * Cardinality(Analyzing)
    BY <1>4, <2>1, <2>2
  <2> DEFINE room == Cardinality(Findings) * Cardinality(Analyzing)
  <2>4. room \in Nat /\ Len(recs) + room <= MaxRecs /\ Cardinality(Findings) <= room
    BY <2>2, <2>3 DEF TypeInv, SpaceOK
  <2> HIDE DEF room
  <2> QED  BY <1>2, <2>2, <2>4, TypeFacts, RecBounds
<1>6. PICK found \in SUBSET Findings, born \in Time : found = proc[c].found /\ born = proc[c].born
  BY <1>1
<1>7. recs' = recs \o Batch(Len(recs), found, born)  BY <1>6 DEF AnalyzeSave
<1> QED  BY <1>1, <1>2, <1>5, <1>6, <1>7, BatchSaved

-------------------------------------------------------------------------------
\* What is stored only grows, and keeps what its readers rely on.

Grows ==
  /\ recs' \in Seq(Rec) /\ Len(recs') >= Len(recs)
  /\ \A i \in 1 .. Len(recs) : Same(recs'[i], recs[i])
  /\ plans' \in Seq(Plan) /\ Len(plans') >= Len(plans)
  /\ \A k \in 1 .. Len(plans) :
       /\ plans'[k].rec = plans[k].rec /\ plans'[k].captured = plans[k].captured
       /\ plans'[k].unattended = plans[k].unattended

LEMMA RecsGrow ==
  ASSUME TypeInv, Rewritten \/ \E c \in Callers : AnalyzeSave(c)
  PROVE  /\ recs' \in Seq(Rec) /\ Len(recs') >= Len(recs)
         /\ \A i \in 1 .. Len(recs) : Same(recs'[i], recs[i])
<1>1. CASE Rewritten  BY <1>1, TypeFacts DEF Rewritten
<1>2. ASSUME NEW c \in Callers, AnalyzeSave(c)
      PROVE  /\ recs' \in Seq(Rec) /\ Len(recs') >= Len(recs)
             /\ \A i \in 1 .. Len(recs) : Same(recs'[i], recs[i])
  <2>1. PICK m \in Nat : Appended(Len(recs), m, proc[c].found, proc[c].born)
    BY <1>2, SaveFacts
  <2>2. /\ recs' \in Seq(Rec) /\ Len(recs') = Len(recs) + m
        /\ \A i \in 1 .. Len(recs) : recs'[i] = recs[i]
    BY <2>1 DEF Appended
  <2> QED  BY <2>2, TypeFacts DEF Same
<1> QED  BY <1>1, <1>2

LEMMA StoreGrows ==
  ASSUME TypeInv, RecStep
  PROVE  /\ Grows /\ RecsOK' /\ PlansOK'
<1>1. /\ recs' \in Seq(Rec) /\ Len(recs') >= Len(recs)
      /\ \A i \in 1 .. Len(recs) : Same(recs'[i], recs[i])
  BY RecsStep, RecsGrow
<1>2. Len(recs') \in Nat /\ Len(recs) \in Nat  BY <1>1, TypeFacts
<1>3. CASE Replanned
  <2>1. \A k \in 1 .. Len(plans') : plans'[k].rec \in 1 .. Len(recs')
    BY <1>1, <1>2, <1>3, TypeFacts DEF Replanned
  <2> QED  BY <1>1, <1>3, <2>1, TypeFacts DEF Replanned, Grows, RecsOK, PlansOK, TypeInv
<1>4. ASSUME NEW p \in Procs, PlanCreate(p)  PROVE Grows /\ PlansOK'
  <2>1. /\ proc[p].id \in 1 .. Len(recs)
        /\ Len(plans') = Len(plans) + 1 /\ Len(plans') <= MaxPlans /\ plans' \in Seq(Plan)
        /\ \A k \in 1 .. Len(plans) : plans'[k] = plans[k]
        /\ plans'[Len(plans) + 1].rec = proc[p].id
    BY <1>4, PlanMade
  <2>2. \A k \in 1 .. Len(plans') : k \in 1 .. Len(plans) \/ k = Len(plans) + 1
    BY <2>1, TypeFacts
  <2>3. ASSUME NEW k \in 1 .. Len(plans')  PROVE plans'[k].rec \in 1 .. Len(recs')
    <3>1. CASE k \in 1 .. Len(plans)
      <4>1. plans'[k].rec \in 1 .. Len(recs)  BY <2>1, <3>1, TypeFacts
      <4> QED  BY <4>1, <1>1, <1>2
    <3>2. CASE k = Len(plans) + 1  BY <2>1, <3>2, <1>1, <1>2
    <3> QED  BY <2>2, <3>1, <3>2
  <2> QED  BY <1>1, <2>1, <2>3, TypeFacts DEF Grows, PlansOK
<1> QED  BY <1>1, <1>3, <1>4, PlansStep DEF RecsOK

-------------------------------------------------------------------------------
\* What the processes hold.

LEMMA FitsKept ==
  ASSUME TypeInv, Grows, NEW r, Fits(r, recs, Len(plans))
  PROVE  Fits(r, recs', Len(plans'))
<1>1. /\ Len(recs) \in Nat /\ Len(recs') \in Nat /\ Len(recs) <= Len(recs')
      /\ Len(plans) \in Nat /\ Len(plans') \in Nat /\ Len(plans) <= Len(plans')
  BY TypeFacts DEF Grows
<1>2. r \in ProcState /\ r.id \in Nat /\ r.plan \in Nat  BY DEF Fits, ProcState
<1>3. r.id <= Len(recs') /\ r.plan <= Len(plans') /\ r.queue \subseteq 1 .. Len(recs')
  BY <1>1, <1>2 DEF Fits
<1>4. ASSUME r.pc \in WithCopy
      PROVE  r.id >= 1 /\ r.copy \in Rec /\ Same(r.copy, recs'[r.id])
  <2>1. r.id \in 1 .. Len(recs)  BY <1>1, <1>2, <1>4 DEF Fits
  <2>2. Same(recs'[r.id], recs[r.id])  BY <2>1 DEF Grows
  <2>3. Same(r.copy, recs[r.id])  BY <1>4 DEF Fits
  <2> QED  BY <1>4, <2>1, <2>2, <2>3 DEF Fits, Same
<1> QED  BY <1>2, <1>3, <1>4 DEF Fits

LEMMA IdleFits ==
  ASSUME NEW rs, Len(rs) \in Nat, NEW n \in Nat
  PROVE  Fits(Idle, rs, n)
<1>1. Idle \in ProcState
  <2>1. 0 \in Time  BY RecBounds DEF Time
  <2> QED  BY <2>1 DEF Idle, ProcState, Labels
<1> QED  BY <1>1 DEF Fits, Idle, WithCopy, WithPlan

LEMMA DoneFits ==
  ASSUME NEW rs, Len(rs) \in Nat, NEW n \in Nat, NEW r, Fits(r, rs, n), NEW s \in Nat
  PROVE  /\ Fits([r EXCEPT !.pc = "loop", !.id = 0, !.copy = << >>, !.plan = 0,
                           !.granted = FALSE], rs, n)
         /\ Fits([r EXCEPT !.pc = "loop", !.id = 0, !.copy = << >>, !.plan = 0,
                           !.granted = FALSE, !.spent = s], rs, n)
<1> DEFINE t == [r EXCEPT !.pc = "loop", !.id = 0, !.copy = << >>, !.plan = 0, !.granted = FALSE]
           u == [r EXCEPT !.pc = "loop", !.id = 0, !.copy = << >>, !.plan = 0,
                          !.granted = FALSE, !.spent = s]
<1>1. r \in ProcState  BY DEF Fits
<1>2. t \in ProcState /\ u \in ProcState  BY <1>1 DEF ProcState, Labels
<1>3. t.pc = "loop" /\ t.id = 0 /\ t.plan = 0 /\ t.queue = r.queue  BY <1>1 DEF ProcState
<1>4. u.pc = "loop" /\ u.id = 0 /\ u.plan = 0 /\ u.queue = r.queue  BY <1>1 DEF ProcState
<1>5. "loop" \notin WithCopy /\ "loop" \notin WithPlan  BY DEF WithCopy, WithPlan
<1> HIDE DEF t, u
<1>6. Fits(t, rs, n)  BY <1>2, <1>3, <1>5 DEF Fits
<1>7. Fits(u, rs, n)  BY <1>2, <1>4, <1>5 DEF Fits
<1> QED  BY <1>6, <1>7 DEF t, u

\* One process at a time moves, to something that fits what is stored then.
OneMoves == \E p \in Procs, r \in ProcState : Become(p, r) /\ Fits(r, recs', Len(plans'))

LEMMA ReturnFits ==
  ASSUME TypeInv, Grows, NEW p \in Procs, Done(p)
  PROVE  OneMoves
<1>1. Len(recs') \in Nat /\ Len(plans') \in Nat  BY DEF Grows
<1>2. Fits(proc[p], recs', Len(plans'))
  <2>1. PICK r : r = proc[p]  OBVIOUS
  <2>2. Fits(r, recs, Len(plans))  BY <2>1 DEF TypeInv, ProcOK
  <2> QED  BY <2>1, <2>2, FitsKept
<1> DEFINE t == [proc[p] EXCEPT !.pc = "loop", !.id = 0, !.copy = << >>, !.plan = 0, !.granted = FALSE]
<1>3. PICK r, rs, n : r = proc[p] /\ rs = recs' /\ n = Len(plans')  OBVIOUS
<1>4. Fits(r, rs, n)  BY <1>2, <1>3
<1>5. Fits([r EXCEPT !.pc = "loop", !.id = 0, !.copy = << >>, !.plan = 0, !.granted = FALSE], rs, n)
  <2>1. 0 \in Nat  OBVIOUS
  <2> QED  BY <1>1, <1>3, <1>4, <2>1, DoneFits
<1>6. Fits(t, recs', Len(plans')) /\ Fits(Idle, recs', Len(plans'))
  BY <1>1, <1>3, <1>5, IdleFits
<1>7. \E r1 : Become(p, r1) /\ (r1 = t \/ r1 = Idle)  BY DEF Done
<1> HIDE DEF t
<1> QED  BY <1>6, <1>7 DEF OneMoves, Fits

\* A process goes on with the recommendation it holds.
LEMMA GoesOn ==
  ASSUME TypeInv, Grows, NEW p \in Procs, proc[p].pc \in WithCopy,
         NEW t \in ProcState, Become(p, t),
         t.id = proc[p].id, t.copy = proc[p].copy, t.queue = proc[p].queue,
         t.plan <= Len(plans'), t.pc \in WithPlan => t.plan >= 1
  PROVE  OneMoves
<1>1. Fits(proc[p], recs', Len(plans'))
  <2>1. PICK r : r = proc[p]  OBVIOUS
  <2>2. Fits(r, recs, Len(plans))  BY <2>1 DEF TypeInv, ProcOK
  <2> QED  BY <2>1, <2>2, FitsKept
<1>2. Fits(t, recs', Len(plans'))  BY <1>1 DEF Fits
<1> QED  BY <1>2 DEF OneMoves

\* A process takes up a recommendation, with a copy of it.
LEMMA TakesUp ==
  ASSUME TypeInv, Grows, NEW p \in Procs, NEW t \in ProcState, Become(p, t),
         t.id \in 1 .. Len(recs), t.copy \in Rec, Same(t.copy, recs[t.id]),
         t.queue \subseteq 1 .. Len(recs),
         t.plan <= Len(plans), t.pc \in WithPlan => t.plan >= 1
  PROVE  OneMoves
<1>1. t.id <= Len(recs) /\ t.id >= 1  BY TypeFacts
<1>2. Fits(t, recs, Len(plans))  BY <1>1 DEF Fits
<1> QED  BY <1>2, FitsKept DEF OneMoves

LEMMA ProcStep ==
  ASSUME TypeInv, RecStep
  PROVE  UNCHANGED proc \/ OneMoves
<1>1. Grows  BY StoreGrows
<1>2. Len(recs') \in Nat /\ Len(plans') \in Nat  BY <1>1 DEF Grows
<1>3. ASSUME NEW p \in Procs, Become(p, Idle)  PROVE OneMoves
  <2>1. Fits(Idle, recs', Len(plans'))
    <3>1. PICK rs, n : rs = recs' /\ n = Len(plans')  OBVIOUS
    <3> QED  BY <1>2, <3>1, IdleFits
  <2> QED  BY <1>3, <2>1 DEF OneMoves, Fits
<1>4. Fits(Idle, recs, Len(plans))  BY IdleFits, TypeFacts
<1>5. \A p \in Procs : Fits(proc[p], recs, Len(plans)) /\ proc[p] \in ProcState
  BY DEF TypeInv, ProcOK
<1>6. CASE World
  BY <1>6 DEF World, Discover, Claim, ValidateHolds, ValidateFails, Rollback, RollbackFails, Cancel
<1>7. ASSUME NEW c \in Callers, Call(c)  PROVE UNCHANGED proc \/ OneMoves
  <2>1. c \in Procs  BY DEF Procs
  <2>2. CASE AnalyzeLoad(c)
    <3>1. PICK pc \in { "save", "supersede" } :
            Become(c, [Idle EXCEPT !.pc = pc,
                         !.found = { f \in Findings : inventory[ResourceOf[f]] = "wasteful" },
                         !.now = clock + 1, !.born = clock + 1])
      BY <2>2 DEF AnalyzeLoad
    <3> DEFINE f0 == { f \in Findings : inventory[ResourceOf[f]] = "wasteful" }
               r == [Idle EXCEPT !.pc = pc, !.found = f0, !.now = clock + 1, !.born = clock + 1]
    <3>2. f0 \in SUBSET Findings  OBVIOUS
    <3> HIDE DEF f0
    <3>3. clock + 1 \in Time
      BY <2>2, RecBounds DEF AnalyzeLoad, Begins, TypeInv, LimitsOK, Time
    <3>4. Idle \in ProcState  BY <1>4 DEF Fits
    <3>5. r \in ProcState /\ r.pc = pc /\ r.id = 0 /\ r.plan = 0 /\ r.queue = {}
      BY <3>2, <3>3, <3>4 DEF ProcState, Labels, Idle
    <3>6. Become(c, r)  BY <3>1 DEF f0
    <3> HIDE DEF r
    <3>7. pc \notin WithCopy /\ pc \notin WithPlan  BY DEF WithCopy, WithPlan
    <3>8. Fits(r, recs', Len(plans'))  BY <1>2, <3>5, <3>7 DEF Fits
    <3> QED  BY <2>1, <3>5, <3>6, <3>8 DEF OneMoves
  <2>3. CASE AnalyzeSupersede(c)
    <3>1. CASE Become(c, Idle)  BY <1>3, <2>1, <3>1
    <3>2. CASE Become(c, [proc[c] EXCEPT !.pc = "save", !.born = clock])
      <4> DEFINE r == [proc[c] EXCEPT !.pc = "save", !.born = clock]
      <4>1. Fits(proc[c], recs', Len(plans'))
        <5>1. PICK s : s = proc[c]  OBVIOUS
        <5>2. Fits(s, recs, Len(plans))  BY <1>5, <2>1, <5>1
        <5> QED  BY <1>1, <5>1, <5>2, FitsKept
      <4>2. clock \in Time  BY RecBounds DEF TypeInv, LimitsOK, Time
      <4>3. r \in ProcState /\ r.pc = "save" /\ r.id = proc[c].id /\ r.plan = proc[c].plan
            /\ r.queue = proc[c].queue
        BY <1>5, <2>1, <4>2 DEF ProcState, Labels
      <4>4. Become(c, r)  BY <3>2
      <4> HIDE DEF r
      <4>5. "save" \notin WithCopy /\ "save" \notin WithPlan  BY DEF WithCopy, WithPlan
      <4>6. Fits(r, recs', Len(plans'))  BY <4>1, <4>3, <4>5 DEF Fits
      <4> QED  BY <2>1, <4>3, <4>4, <4>6 DEF OneMoves
    <3> QED  BY <2>3, <3>1, <3>2 DEF AnalyzeSupersede
  <2>4. CASE AnalyzeSave(c) \/ AnalyzeFails(c) \/ EvaluateWrite(c) \/ SnoozeWrite(c)
    BY <1>3, <2>1, <2>4 DEF AnalyzeSave, AnalyzeFails, EvaluateWrite, SnoozeWrite
  <2>5. CASE EvaluateRead(c) \/ SnoozeRead(c)
    <3>1. PICK pc \in { "evaluate", "snooze" }, i \in 1 .. Len(recs) :
            Become(c, [Idle EXCEPT !.pc = pc, !.id = i, !.copy = recs[i]])
      BY <2>5, TypeFacts DEF EvaluateRead, SnoozeRead, ReadFor
    <3>2. PICK t : t = [Idle EXCEPT !.pc = pc, !.id = i, !.copy = recs[i]]  OBVIOUS
    <3>3. recs[i] \in Rec /\ Same(recs[i], recs[i]) /\ i \in Nat  BY TypeFacts DEF Same
    <3>4. Idle \in ProcState  BY <1>4 DEF Fits
    <3>5. /\ t \in ProcState /\ t.pc = pc /\ t.id = i /\ t.copy = recs[i]
          /\ t.queue = {} /\ t.plan = 0
      BY <3>2, <3>3, <3>4 DEF ProcState, Labels, Idle
    <3>6. pc \notin WithPlan  BY DEF WithPlan
    <3>7. 0 <= Len(plans)  BY TypeFacts
    <3> QED  BY <1>1, <2>1, <3>1, <3>2, <3>3, <3>5, <3>6, <3>7, TakesUp
  <2>6. CASE PlanAsk(c)
    <3>1. PICK i \in 1 .. Len(recs) :
            Become(c, [proc[c] EXCEPT !.pc = "plan_decide", !.id = i, !.copy = recs[i]])
      BY <2>6, TypeFacts DEF PlanAsk, PlanRead
    <3>2. PICK t : t = [proc[c] EXCEPT !.pc = "plan_decide", !.id = i, !.copy = recs[i]]  OBVIOUS
    <3>3. recs[i] \in Rec /\ Same(recs[i], recs[i]) /\ i \in Nat  BY TypeFacts DEF Same
    <3>4. proc[c] \in ProcState /\ Fits(proc[c], recs, Len(plans))  BY <1>5, <2>1
    <3>5. /\ t \in ProcState /\ t.pc = "plan_decide" /\ t.id = i /\ t.copy = recs[i]
          /\ t.queue = proc[c].queue /\ t.plan = proc[c].plan
      BY <3>2, <3>3, <3>4 DEF ProcState, Labels
    <3>6. "plan_decide" \notin WithPlan  BY DEF WithPlan
    <3>7. proc[c].queue \subseteq 1 .. Len(recs) /\ proc[c].plan <= Len(plans)  BY <3>4 DEF Fits
    <3> QED  BY <1>1, <2>1, <3>1, <3>2, <3>3, <3>5, <3>6, <3>7, TakesUp
  <2>7. CASE ExecuteAsk(c)
    <3>1. PICK k \in 1 .. Len(plans) : ExecBegin(c, k) \/ ExecRefused(c, k)
      BY <2>7, TypeFacts DEF ExecuteAsk
    <3>2. CASE ExecRefused(c, k)  BY <1>1, <2>1, <3>2, ReturnFits DEF ExecRefused
    <3>3. CASE ExecBegin(c, k)
      <4>1. PICK i \in 1 .. Len(recs) : i = plans[k].rec  BY TypeFacts
      <4>2. PICK a \in BOOLEAN :
              Become(c, [proc[c] EXCEPT !.pc = "exec", !.plan = k, !.id = i,
                                        !.copy = [recs[i] EXCEPT !.auto = a]])
        BY <3>3, <4>1, AnswersAreBoolean DEF ExecBegin
      <4>3. PICK copy : copy = [recs[i] EXCEPT !.auto = a]  OBVIOUS
      <4>4. copy \in Rec /\ Same(copy, recs[i])
        <5>1. recs[i] \in Rec /\ "open" \in Status  BY TypeFacts DEF Status
        <5> QED  BY <4>3, <5>1, RecordFacts
      <4>5. PICK t : t = [proc[c] EXCEPT !.pc = "exec", !.plan = k, !.id = i, !.copy = copy]
        OBVIOUS
      <4>6. proc[c] \in ProcState /\ Fits(proc[c], recs, Len(plans))  BY <1>5, <2>1
      <4>7. i \in Nat /\ k \in Nat /\ k >= 1 /\ k <= Len(plans)  BY TypeFacts
      <4>8. /\ t \in ProcState /\ t.pc = "exec" /\ t.id = i /\ t.copy = copy
            /\ t.queue = proc[c].queue /\ t.plan = k
        BY <4>4, <4>5, <4>6, <4>7 DEF ProcState, Labels
      <4>9. proc[c].queue \subseteq 1 .. Len(recs)  BY <4>6 DEF Fits
      <4>10. Become(c, t)  BY <4>2, <4>3, <4>5
      <4> QED  BY <1>1, <2>1, <4>4, <4>7, <4>8, <4>9, <4>10, TakesUp
    <3> QED  BY <3>1, <3>2, <3>3
  <2>8. CASE Dismiss(c)  BY <2>8 DEF Dismiss
  <2> QED  BY <1>7, <2>2, <2>3, <2>4, <2>5, <2>6, <2>7, <2>8 DEF Call
<1>8. ASSUME NEW p \in Procs, Progress(p)  PROVE OneMoves
  <2>1. CASE Done(p)  BY <1>1, <2>1, ReturnFits
  <2>2. Fits(proc[p], recs, Len(plans)) /\ proc[p] \in ProcState  BY <1>5
  <2>3. /\ proc[p].plan \in 0 .. Len(plans') /\ proc[p].made \in Nat
        /\ Len(plans) + 1 \in Nat /\ proc[p].made + 1 \in Nat /\ proc[p].plan <= Len(plans')
    BY <1>1, <1>2, <2>2, TypeFacts DEF Fits, ProcState, Grows
  <2>4. CASE PlanDecide(p)
    <3>1. PICK a \in BOOLEAN : Become(p, [proc[p] EXCEPT !.pc = "plan_create", !.granted = a])
      BY <2>4, AnswersAreBoolean DEF PlanDecide
    <3>2. PICK t : t = [proc[p] EXCEPT !.pc = "plan_create", !.granted = a]  OBVIOUS
    <3>3. /\ t \in ProcState /\ t.pc = "plan_create" /\ t.id = proc[p].id /\ t.copy = proc[p].copy
          /\ t.queue = proc[p].queue /\ t.plan = proc[p].plan
      BY <2>2, <3>2 DEF ProcState, Labels
    <3>4. "plan_create" \notin WithPlan /\ proc[p].pc \in WithCopy
      BY <2>4 DEF WithPlan, WithCopy, PlanDecide, At
    <3> QED  BY <1>1, <2>3, <3>1, <3>2, <3>3, <3>4, GoesOn
  <2>5. CASE PlanCreate(p)
    <3>1. Become(p, [proc[p] EXCEPT !.pc = "plan_mark", !.plan = Len(plans) + 1, !.made = @ + 1])
      BY <2>5 DEF PlanCreate
    <3>2. PICK t : t = [proc[p] EXCEPT !.pc = "plan_mark", !.plan = Len(plans) + 1, !.made = @ + 1]
      OBVIOUS
    <3>3. /\ t \in ProcState /\ t.pc = "plan_mark" /\ t.id = proc[p].id /\ t.copy = proc[p].copy
          /\ t.queue = proc[p].queue /\ t.plan = Len(plans) + 1
      <4>1. PICK r, n, m : r = proc[p] /\ n = Len(plans) + 1 /\ m = r.made + 1  OBVIOUS
      <4>2. t = [r EXCEPT !.pc = "plan_mark", !.plan = n, !.made = m]  BY <3>2, <4>1
      <4>3. r \in ProcState /\ n \in Nat /\ m \in Nat  BY <2>2, <2>3, <4>1
      <4>4. t \in ProcState  BY <4>2, <4>3 DEF ProcState, Labels
      <4>5. t.pc = "plan_mark" /\ t.id = r.id /\ t.copy = r.copy /\ t.queue = r.queue /\ t.plan = n
        BY <4>2, <4>3 DEF ProcState
      <4> QED  BY <4>1, <4>4, <4>5
    <3>4. proc[p].pc \in WithCopy  BY <2>5 DEF WithCopy, PlanCreate, At
    <3>5. Len(plans') = Len(plans) + 1  BY <2>5, PlanMade
    <3>6. Len(plans) + 1 <= Len(plans') /\ Len(plans) + 1 >= 1  BY TypeFacts, <3>5
    <3> QED  BY <1>1, <3>1, <3>2, <3>3, <3>4, <3>6, GoesOn
  <2>6. CASE PlanMark(p) /\ ~ Done(p)
    <3>1. Become(p, [proc[p] EXCEPT !.pc = "exec_begin"])  BY <2>6 DEF PlanMark
    <3>2. PICK t : t = [proc[p] EXCEPT !.pc = "exec_begin"]  OBVIOUS
    <3>3. /\ t \in ProcState /\ t.pc = "exec_begin" /\ t.id = proc[p].id /\ t.copy = proc[p].copy
          /\ t.queue = proc[p].queue /\ t.plan = proc[p].plan
      BY <2>2, <3>2 DEF ProcState, Labels
    <3>4. proc[p].pc \in WithCopy /\ proc[p].pc \in WithPlan
      BY <2>6 DEF WithCopy, WithPlan, PlanMark, At
    <3>5. proc[p].plan >= 1  BY <2>2, <3>4 DEF Fits
    <3> QED  BY <1>1, <2>3, <3>1, <3>2, <3>3, <3>4, <3>5, GoesOn
  <2>7. CASE ExecSucceeds(p)
    <3>1. PICK i \in 1 .. Len(recs) : i = proc[p].id
      BY <2>7, TypeFacts DEF ExecSucceeds, At, TypeInv, ProcOK, Fits, ProcState, WithCopy
    <3>2. PICK s : s = proc[p].spent + Saving[recs[i].finding]  OBVIOUS
    <3>3. s \in Nat
      <4>1. recs[i].finding \in Findings  BY TypeFacts DEF Rec
      <4>2. Saving[recs[i].finding] \in Nat  BY <4>1, FindingData
      <4> QED  BY <2>2, <3>2, <4>2 DEF ProcState
    <3>4. CASE Become(p, Idle)  BY <1>3, <3>4
    <3>5. CASE Become(p, [proc[p] EXCEPT !.pc = "loop", !.id = 0, !.copy = << >>, !.plan = 0,
                       !.granted = FALSE, !.spent = @ + Saving[recs[i].finding]])
      <4>1. PICK r, rs, n : r = proc[p] /\ rs = recs' /\ n = Len(plans')  OBVIOUS
      <4> DEFINE t == [r EXCEPT !.pc = "loop", !.id = 0, !.copy = << >>, !.plan = 0,
                                !.granted = FALSE, !.spent = s]
      <4>2. Become(p, t)
        <5>1. r \in ProcState  BY <2>2, <4>1
        <5>2. [r EXCEPT !.pc = "loop", !.id = 0, !.copy = << >>, !.plan = 0,
                        !.granted = FALSE, !.spent = @ + Saving[recs[i].finding]] = t
          BY <3>2, <4>1, <5>1 DEF ProcState
        <5> QED  BY <3>5, <4>1, <5>2
      <4>3. Fits(r, rs, n)  BY <1>1, <2>2, <4>1, FitsKept
      <4>4. Fits(t, rs, n)  BY <1>2, <3>3, <4>1, <4>3, DoneFits
      <4> HIDE DEF t
      <4>5. PICK t1 : t1 = t  OBVIOUS
      <4> QED  BY <4>1, <4>2, <4>4, <4>5 DEF OneMoves, Fits
    <3> QED  BY <2>7, <3>1, <3>4, <3>5 DEF ExecSucceeds
  <2> QED
    BY <1>8, <2>1, <2>4, <2>5, <2>6, <2>7
    DEF Progress, PlanRefused, PlanMark, ExecFails, ExecRollsBack, ExecRollbackFails
<1> QED  BY <1>6, <1>7, <1>8 DEF RecStep

LEMMA Moved ==
  ASSUME TypeInv, NEW p \in Procs, NEW r, Become(p, r)
  PROVE  proc'[p] = r /\ \A q \in Procs : q # p => proc'[q] = proc[q]
BY DEF Become, TypeInv, ProcOK

LEMMA Returned ==
  ASSUME TypeInv, NEW p \in Procs, Done(p)
  PROVE  /\ proc'[p].pc \in { "idle", "loop" }
         /\ \A q \in Procs : q # p => proc'[q] = proc[q]
<1>1. proc[p] \in ProcState  BY DEF TypeInv, ProcOK
<1> DEFINE t == [proc[p] EXCEPT !.pc = "loop", !.id = 0, !.copy = << >>, !.plan = 0, !.granted = FALSE]
<1>2. t.pc = "loop"  BY <1>1 DEF ProcState
<1>3. Idle.pc = "idle"  BY DEF Idle
<1>4. \E r : Become(p, r) /\ (r = t \/ r = Idle)  BY DEF Done
<1> HIDE DEF t
<1> QED  BY <1>2, <1>3, <1>4, Moved

LEMMA ProcKept ==
  ASSUME TypeInv, Grows, UNCHANGED proc \/ OneMoves
  PROVE  ProcOK'
<1>1. \A q \in Procs : Fits(proc[q], recs', Len(plans'))
  <2> SUFFICES ASSUME NEW q \in Procs PROVE Fits(proc[q], recs', Len(plans'))  OBVIOUS
  <2>1. PICK r : r = proc[q]  OBVIOUS
  <2>2. Fits(r, recs, Len(plans))  BY <2>1 DEF TypeInv, ProcOK
  <2> QED  BY <2>1, <2>2, FitsKept
<1>2. proc \in [Procs -> ProcState]  BY DEF TypeInv, ProcOK
<1>3. CASE UNCHANGED proc
  <2>1. \A q \in Procs : Fits(proc'[q], recs', Len(plans'))  BY <1>1, <1>3
  <2>2. proc' \in [Procs -> ProcState]  BY <1>2, <1>3
  <2> QED  BY <2>1, <2>2 DEF ProcOK, Fits
<1>4. CASE OneMoves
  <2>1. PICK p \in Procs, r \in ProcState : Become(p, r) /\ Fits(r, recs', Len(plans'))
    BY <1>4 DEF OneMoves
  <2>2. proc' \in [Procs -> ProcState]  BY <1>2, <2>1 DEF Become
  <2>3. proc'[p] = r /\ \A q \in Procs : q # p => proc'[q] = proc[q]  BY <2>1, Moved
  <2>4. \A q \in Procs : Fits(proc'[q], recs', Len(plans'))  BY <1>1, <2>1, <2>3
  <2> QED  BY <2>2, <2>4 DEF ProcOK, Fits
<1> QED  BY <1>3, <1>4

\* Analyses are left alone, or end.
Calm == Analyzing' \subseteq Analyzing /\ \A p \in Analyzing' : proc'[p] = proc[p]

\* An analysis is joined by another only where one is loaded, and moves where it supersedes.
LEMMA AnalyzingStep ==
  ASSUME TypeInv, RecStep
  PROVE  \/ Calm
         \/ \E c \in Callers : AnalyzeSupersede(c) /\ Analyzing' \subseteq Analyzing
         \/ \E c \in Callers : AnalyzeLoad(c) /\ c \notin Analyzing /\ Analyzing' = Analyzing \cup {c}
<1> DEFINE Busy == { "supersede", "save" }
<1>1. ASSUME UNCHANGED proc  PROVE Calm
  BY <1>1 DEF Analyzing, Calm
<1>2. ASSUME NEW p \in Procs, \A q \in Procs : q # p => proc'[q] = proc[q], proc'[p].pc \notin Busy
      PROVE  Calm
  BY <1>2 DEF Analyzing, Calm
<1>3. ASSUME NEW p \in Procs, Done(p)  PROVE Calm
  BY <1>2, <1>3, Returned
<1>4. ASSUME NEW p \in Procs, NEW r, Become(p, r), r.pc \notin Busy
      PROVE  Calm
  BY <1>2, <1>4, Moved
<1>5. Idle.pc \notin Busy  BY DEF Idle
<1>6. \A p \in Procs : proc[p] \in ProcState  BY DEF TypeInv, ProcOK
<1>7. CASE World
  BY <1>1, <1>7 DEF World, Discover, Claim, ValidateHolds, ValidateFails, Rollback, RollbackFails, Cancel
<1>8. ASSUME NEW c \in Callers, Call(c)
      PROVE  \/ Calm
             \/ AnalyzeSupersede(c) /\ Analyzing' \subseteq Analyzing
             \/ AnalyzeLoad(c) /\ c \notin Analyzing /\ Analyzing' = Analyzing \cup {c}
  <2>1. c \in Procs  BY DEF Procs
  <2>2. CASE AnalyzeLoad(c)
    <3>1. PICK r : r.pc \in Busy /\ Become(c, r)
      <4>1. PICK pc \in Busy :
            Become(c, [Idle EXCEPT !.pc = pc,
                         !.found = { f \in Findings : inventory[ResourceOf[f]] = "wasteful" },
                         !.now = clock + 1, !.born = clock + 1])
        BY <2>2 DEF AnalyzeLoad
      <4>2. PICK r : r = [Idle EXCEPT !.pc = pc,
                         !.found = { f \in Findings : inventory[ResourceOf[f]] = "wasteful" },
                         !.now = clock + 1, !.born = clock + 1]
        OBVIOUS
      <4>3. r.pc = pc  BY <4>2 DEF Idle
      <4>4. Become(c, r)  BY <4>1, <4>2
      <4>5. r.pc \in Busy  BY <4>3
      <4> HIDE DEF Busy
      <4> QED  BY <4>4, <4>5
    <3>2. proc'[c].pc \in Busy /\ \A q \in Procs : q # c => proc'[q] = proc[q]
      BY <2>1, <3>1, Moved
    <3>3. c \notin Analyzing  BY <2>2 DEF AnalyzeLoad, Begins, At, Analyzing
    <3> QED  BY <2>1, <2>2, <3>2, <3>3 DEF Analyzing
  <2>3. CASE AnalyzeSupersede(c)
    <3>1. PICK r : Become(c, r)  BY <2>3 DEF AnalyzeSupersede
    <3>2. \A q \in Procs : q # c => proc'[q] = proc[q]  BY <2>1, <3>1, Moved
    <3>3. c \in Analyzing  BY <2>1, <2>3 DEF AnalyzeSupersede, At, Analyzing
    <3> QED  BY <2>3, <3>2, <3>3 DEF Analyzing
  <2>4. CASE AnalyzeSave(c) \/ AnalyzeFails(c) \/ EvaluateWrite(c) \/ SnoozeWrite(c)
    BY <1>4, <1>5, <2>1, <2>4 DEF AnalyzeSave, AnalyzeFails, EvaluateWrite, SnoozeWrite
  <2>5. CASE EvaluateRead(c) \/ SnoozeRead(c)
    <3>1. PICK pc \in { "evaluate", "snooze" }, i \in 1 .. Len(recs) :
            Become(c, [Idle EXCEPT !.pc = pc, !.id = i, !.copy = recs[i]])
      BY <2>5, TypeFacts DEF EvaluateRead, SnoozeRead, ReadFor
    <3>2. PICK r : r = [Idle EXCEPT !.pc = pc, !.id = i, !.copy = recs[i]]  OBVIOUS
    <3>3. r.pc = pc  BY <3>2 DEF Idle
    <3> QED  BY <1>4, <2>1, <3>1, <3>2, <3>3
  <2>6. CASE PlanAsk(c)
    <3>1. PICK i \in 1 .. Len(recs) :
            Become(c, [proc[c] EXCEPT !.pc = "plan_decide", !.id = i, !.copy = recs[i]])
      BY <2>6, TypeFacts DEF PlanAsk, PlanRead
    <3>2. PICK r : r = [proc[c] EXCEPT !.pc = "plan_decide", !.id = i, !.copy = recs[i]]  OBVIOUS
    <3>3. r.pc = "plan_decide"  BY <1>6, <2>1, <3>2 DEF ProcState
    <3> QED  BY <1>4, <2>1, <3>1, <3>2, <3>3
  <2>7. CASE ExecuteAsk(c)
    <3>1. PICK k \in 1 .. Len(plans) : ExecBegin(c, k) \/ ExecRefused(c, k)
      BY <2>7, TypeFacts DEF ExecuteAsk
    <3>2. CASE ExecRefused(c, k)  BY <1>3, <2>1, <3>2 DEF ExecRefused
    <3>3. CASE ExecBegin(c, k)
      <4>1. PICK copy, i : Become(c, [proc[c] EXCEPT !.pc = "exec", !.plan = k, !.id = i, !.copy = copy])
        BY <3>3 DEF ExecBegin
      <4>2. PICK r : r = [proc[c] EXCEPT !.pc = "exec", !.plan = k, !.id = i, !.copy = copy]  OBVIOUS
      <4>3. r.pc = "exec"  BY <1>6, <2>1, <4>2 DEF ProcState
      <4> QED  BY <1>4, <2>1, <4>1, <4>2, <4>3
    <3> QED  BY <3>1, <3>2, <3>3
  <2>8. CASE Dismiss(c)  BY <1>1, <2>8 DEF Dismiss
  <2>9. CASE ~ AnalyzeLoad(c)
    BY <1>8, <2>3, <2>4, <2>5, <2>6, <2>7, <2>8, <2>9 DEF Call
  <2> QED  BY <2>2, <2>9
<1>9. ASSUME NEW p \in Procs, Progress(p)  PROVE Calm
  <2>1. ASSUME NEW pc \in { "plan_create", "plan_mark", "exec_begin", "loop" },
               NEW r, Become(p, r), r.pc = pc
        PROVE  Calm
    BY <1>4, <2>1
  <2>2. proc[p] \in ProcState  BY <1>6
  <2>3. CASE PlanDecide(p)
    <3>1. PICK a : Become(p, [proc[p] EXCEPT !.pc = "plan_create", !.granted = a])
      BY <2>3 DEF PlanDecide
    <3>2. PICK r : r = [proc[p] EXCEPT !.pc = "plan_create", !.granted = a]  OBVIOUS
    <3> QED  BY <2>1, <2>2, <3>1, <3>2 DEF ProcState
  <2>4. CASE PlanCreate(p)
    <3>1. PICK r : /\ r = [proc[p] EXCEPT !.pc = "plan_mark", !.plan = Len(plans) + 1, !.made = @ + 1]
                   /\ Become(p, r)
      BY <2>4 DEF PlanCreate
    <3>2. r.pc = "plan_mark"  BY <2>2, <3>1 DEF ProcState
    <3> QED  BY <2>1, <3>1, <3>2
  <2>5. CASE PlanMark(p) /\ ~ Done(p)
    <3>1. PICK r : r = [proc[p] EXCEPT !.pc = "exec_begin"] /\ Become(p, r)  BY <2>5 DEF PlanMark
    <3> QED  BY <2>1, <2>2, <3>1 DEF ProcState
  <2>6. CASE ExecSucceeds(p)
    <3>1. CASE Become(p, Idle)  BY <1>4, <1>5, <3>1
    <3>2. CASE ~ Become(p, Idle)
      <4>1. PICK s, r : /\ Become(p, r)
                        /\ r = [proc[p] EXCEPT !.pc = "loop", !.id = 0, !.copy = << >>, !.plan = 0,
                                               !.granted = FALSE, !.spent = @ + s]
        BY <2>6, <3>2 DEF ExecSucceeds
      <4>2. r.pc = "loop"  BY <2>2, <4>1 DEF ProcState
      <4> QED  BY <2>1, <4>1, <4>2
    <3> QED  BY <3>1, <3>2
  <2> QED
    BY <1>3, <1>9, <2>3, <2>4, <2>5, <2>6
    DEF Progress, PlanRefused, PlanMark, ExecFails, ExecRollsBack, ExecRollbackFails
<1> QED  BY <1>7, <1>8, <1>9 DEF RecStep

LEMMA SaveLeaves ==
  ASSUME TypeInv, NEW c \in Callers, AnalyzeSave(c)
  PROVE  c \in Analyzing /\ c \notin Analyzing' /\ Analyzing' \subseteq Analyzing
<1>1. c \in Procs /\ Become(c, Idle) /\ proc[c].pc = "save"  BY DEF AnalyzeSave, At, Procs
<1>2. proc'[c] = Idle /\ \A q \in Procs : q # c => proc'[q] = proc[q]  BY <1>1, Moved
<1>3. Idle.pc = "idle"  BY DEF Idle
<1> QED  BY <1>1, <1>2, <1>3 DEF Analyzing

LEMMA SpaceStep ==
  ASSUME TypeInv, RecStep
  PROVE  SpaceOK'
<1> DEFINE F == Cardinality(Findings)  A == Cardinality(Analyzing)
<1>1. F \in Nat /\ A \in Nat /\ MaxRecs \in Nat /\ Len(recs) \in Nat /\ IsFiniteSet(Analyzing)
      /\ Len(recs) + F * A <= MaxRecs
  BY TypeFacts, RecBounds DEF TypeInv, SpaceOK
<1>2. ASSUME NEW a \in Nat, NEW b \in Nat, a <= b  PROVE F * a <= F * b
  <2>1. PICK d \in Nat : b = a + d
    <3>1. b - a \in Nat /\ b = a + (b - a)  BY <1>2
    <3> QED  BY <3>1
  <2>2. F * b = F * a + F * d  BY <1>1, <2>1
  <2>3. F * a \in Nat /\ F * d \in Nat  BY <1>1
  <2> DEFINE x == F * a  y == F * d
  <2> HIDE DEF x, y
  <2>4. x \in Nat /\ y \in Nat /\ F * b = x + y  BY <2>2, <2>3 DEF x, y
  <2>5. x <= x + y  BY <2>4
  <2> QED  BY <2>4, <2>5 DEF x
<1>3. ASSUME NEW S \in SUBSET Analyzing
      PROVE  IsFiniteSet(S) /\ Cardinality(S) \in Nat /\ Cardinality(S) <= A
  BY <1>1, FS_Subset, FS_CardinalityType
<1>4. CASE Rewritten /\ Analyzing' \subseteq Analyzing
  <2>1. PICK S \in SUBSET Analyzing : S = Analyzing'  BY <1>4
  <2>2. IsFiniteSet(S) /\ Cardinality(S) \in Nat /\ Cardinality(S) <= A  BY <1>3
  <2>3. F * Cardinality(S) <= F * A /\ F * Cardinality(S) \in Nat /\ F * A \in Nat
    <3>1. F * Cardinality(S) <= F * A  BY <1>1, <1>2, <2>2
    <3>2. F * Cardinality(S) \in Nat  BY <1>1, <2>2
    <3>3. F * A \in Nat  BY <1>1
    <3> QED  BY <3>1, <3>2, <3>3
  <2> DEFINE x == F * Cardinality(S)  y == F * A
  <2>4. x <= y /\ x \in Nat /\ y \in Nat /\ Len(recs) + y <= MaxRecs  BY <1>1, <2>3
  <2> HIDE DEF x, y
  <2>5. Len(recs) + x <= MaxRecs  BY <1>1, <2>4
  <2>6. Len(recs') = Len(recs)  BY <1>4 DEF Rewritten
  <2> QED  BY <2>1, <2>2, <2>5, <2>6 DEF SpaceOK, x
<1>5. ASSUME NEW c \in Callers, AnalyzeLoad(c), c \notin Analyzing, Analyzing' = Analyzing \cup {c}
      PROVE  SpaceOK'
  <2>1. IsFiniteSet(Analyzing \cup {c}) /\ Cardinality(Analyzing \cup {c}) = A + 1
    BY <1>1, <1>5, FS_AddElement
  <2>2. UNCHANGED recs /\ Len(recs) + F * (1 + A) <= MaxRecs  BY <1>5 DEF AnalyzeLoad
  <2>3. 1 + A = A + 1  BY <1>1
  <2> QED  BY <1>5, <2>1, <2>2, <2>3 DEF SpaceOK
<1>6. ASSUME NEW c \in Callers, AnalyzeSave(c)  PROVE SpaceOK'
  <2>1. PICK m \in Nat : m <= F /\ Appended(Len(recs), m, proc[c].found, proc[c].born)
    BY <1>6, SaveFacts
  <2>2. Len(recs') = Len(recs) + m  BY <2>1 DEF Appended
  <2>3. c \in Analyzing /\ c \notin Analyzing' /\ Analyzing' \subseteq Analyzing
    BY <1>6, SaveLeaves
  <2>4. PICK S \in SUBSET Analyzing : S = Analyzing'  BY <2>3
  <2>5. IsFiniteSet(S) /\ Cardinality(S) \in Nat /\ Cardinality(S) <= A  BY <1>3
  <2>6. Cardinality(S) # A  BY <1>1, <2>3, <2>4, FS_Subset
  <2>7. Cardinality(S) + 1 <= A /\ Cardinality(S) + 1 \in Nat  BY <1>1, <2>5, <2>6
  <2>8. F * (Cardinality(S) + 1) <= F * A  BY <1>1, <1>2, <2>7
  <2>9. F * (Cardinality(S) + 1) = F * Cardinality(S) + F  BY <1>1, <2>5
  <2>10. F * Cardinality(S) \in Nat /\ F * A \in Nat  BY <1>1, <2>5
  <2> DEFINE x == F * Cardinality(S)  y == F * A
  <2>11. /\ x \in Nat /\ y \in Nat /\ x + F <= y /\ Len(recs) + y <= MaxRecs
    BY <1>1, <2>8, <2>9, <2>10
  <2> HIDE DEF x, y
  <2>12. Len(recs) + m + x <= MaxRecs  BY <1>1, <2>1, <2>11
  <2> QED  BY <2>2, <2>4, <2>5, <2>12 DEF SpaceOK, x
<1>7. CASE \E c \in Callers : AnalyzeLoad(c) /\ c \notin Analyzing /\ Analyzing' = Analyzing \cup {c}
  BY <1>5, <1>7
<1>8. CASE \E c \in Callers : AnalyzeSave(c)  BY <1>6, <1>8
<1> QED  BY <1>4, <1>7, <1>8, RecsStep, AnalyzingStep DEF Calm

LEMMA TypeStep ==
  ASSUME TypeInv, RecStep
  PROVE  TypeInv'
<1>1. Grows /\ RecsOK' /\ PlansOK'  BY StoreGrows
<1>2. LedgerOK'  BY LedgerStep, LedgerTypes
<1>3. ProcOK'  BY <1>1, ProcStep, ProcKept
<1> QED  BY <1>1, <1>2, <1>3, CloudTypes, LimitsStep, SpaceStep DEF TypeInv

LEMMA TypeInit == Init => TypeInv
<1> SUFFICES ASSUME Init PROVE TypeInv  OBVIOUS
<1> USE DEF Init
<1>1. RecsOK /\ PlansOK  BY RecBounds DEF RecsOK, PlansOK
<1>2. LedgerOK
  <2>1. NewRecord \in SavingsRecord  BY Stage DEF NewRecord, SavingsRecord, Stages
  <2> QED  BY <2>1 DEF LedgerOK
<1>3. CloudOK  BY DEF CloudOK, Condition
<1>4. LimitsOK  BY RecBounds DEF LimitsOK
<1>5. ProcOK
  <2>1. Len(recs) = 0 /\ Len(plans) = 0  OBVIOUS
  <2>2. Fits(Idle, recs, Len(plans))  BY <2>1, IdleFits
  <2>3. \A p \in Procs : proc[p] = Idle  OBVIOUS
  <2> QED  BY <2>2, <2>3 DEF ProcOK, Fits
<1>6. SpaceOK
  <2>1. Analyzing = {}  BY DEF Analyzing, Idle
  <2>2. Cardinality(Findings) \in Nat  BY FindingData, FS_CardinalityType
  <2>3. Cardinality(Findings) * 0 = 0  BY <2>2
  <2> QED  BY <2>1, <2>3, FS_EmptySet, RecBounds DEF SpaceOK
<1> QED  BY <1>1, <1>2, <1>3, <1>4, <1>5, <1>6 DEF TypeInv

LEMMA NextIsStep == Next => RecStep
BY DEF Next, RecStep, Procs

LEMMA TypeStutter ==
  ASSUME TypeInv, UNCHANGED vars
  PROVE  TypeInv'
<1>1. ProcOK'
  <2>1. recs' = recs /\ plans' = plans /\ proc' = proc  BY DEF vars
  <2> QED  BY <2>1 DEF TypeInv, ProcOK, Fits
<1> QED
  BY <1>1 DEF TypeInv, vars, ledger, cloud, limits, RecsOK, PlansOK, LedgerOK, CloudOK, LimitsOK, SpaceOK,
              Analyzing

LEMMA Types == Spec => []TypeInv
<1>1. ASSUME TypeInv, [Next]_vars  PROVE TypeInv'
  BY <1>1, NextIsStep, TypeStep, TypeStutter
<1> QED  BY <1>1, TypeInit, PTL DEF Spec

LEMMA TypesImply == TypeInv => TypeOK
<1> SUFFICES ASSUME TypeInv PROVE TypeOK  OBVIOUS
<1>1. Len(recs) \in Nat /\ Len(plans) \in Nat /\ DOMAIN recs = 1 .. Len(recs) /\ Len(recs) <= MaxRecs
  BY TypeFacts
<1>2. ASSUME NEW p \in Procs
      PROVE  /\ proc[p].id \in 0 .. Len(recs) /\ proc[p].plan \in 0 .. Len(plans)
             /\ proc[p].queue \subseteq DOMAIN recs /\ proc[p].found \subseteq Findings
  BY <1>1 DEF TypeInv, ProcOK, Fits, ProcState
<1> QED
  BY <1>1, <1>2 DEF TypeOK, TypeInv, RecsOK, PlansOK, LedgerOK, CloudOK, LimitsOK

\* Every variable keeps its type: the copies, queues and plan numbers that calls hold between
\* two accesses to the stores always refer to recommendations and plans that were saved
\* (optimization/service.go:95-300, automation/plan.go:60-160, execute.go:40-330).
THEOREM RecommendationTypes == Spec => []TypeOK
BY Types, TypesImply, PTL

\* A recommendation that left "open" is offered again only where a copy read before it left
\* is stored over it: no other step of any method reopens one (evaluate.go:65, plan.go:146-153,
\* execute.go:270-330, optimization/service.go:209-227).
THEOREM ClosedStaysClosed == Spec => StaysClosed
<1>1. ASSUME TypeInv, Next, NEW i \in DOMAIN recs, recs[i].status # "open", recs'[i].status = "open"
      PROVE  "overwritten" \in past'
  <2>1. i \in 1 .. Len(recs)  BY <1>1, TypeFacts
  <2>2. CASE Rewritten  BY <1>1, <2>1, <2>2 DEF Rewritten
  <2>3. ASSUME NEW c \in Callers, AnalyzeSave(c)  PROVE FALSE
    <3>1. PICK m \in Nat : Appended(Len(recs), m, proc[c].found, proc[c].born)
      BY <1>1, <2>3, SaveFacts
    <3>2. recs'[i] = recs[i]  BY <2>1, <3>1 DEF Appended
    <3> QED  BY <1>1, <3>2
  <2> QED  BY <1>1, <2>2, <2>3, NextIsStep, RecsStep
<1>2. ASSUME TypeInv, [Next]_vars
      PROVE  [\A i \in DOMAIN recs :
                recs[i].status # "open" /\ recs'[i].status = "open" => "overwritten" \in past']_vars
  <2>1. CASE UNCHANGED vars  BY <2>1
  <2>2. CASE Next
    <3>1. \A i \in DOMAIN recs :
            recs[i].status # "open" /\ recs'[i].status = "open" => "overwritten" \in past'
      BY <1>1, <1>2, <2>2
    <3> QED  BY <3>1
  <2> QED  BY <1>2, <2>1, <2>2
<1> QED  BY <1>2, Types, PTL DEF StaysClosed, Spec

-------------------------------------------------------------------------------
\* Alternatives.  A record is created by the first entry of its recommendation, and that
\* entry retires the records its alternatives have then: of two alternatives with records,
\* the one whose record came first is lost for good.

\* Alternatives name each other, and nothing else.
SymInv ==
  \A i \in 1 .. Len(recs) : \A j \in recs[i].rivals :
    j \in 1 .. Len(recs) /\ i \in recs[j].rivals /\ j # i

\* A record is about a recommendation there is, and a missing one claims nothing.
BookInv == \A i \in Ids : /\ booked[i] => i <= Len(recs)
                          /\ ~ booked[i] => savings[i] = NewRecord

RivalInv ==
  losses = 0 =>
    \A i \in 1 .. Len(recs) : \A j \in recs[i].rivals :
      booked[i] /\ booked[j] => savings[i].lost \/ savings[j].lost

MoneyInv == SymInv /\ BookInv /\ RivalInv

LEMMA SymStep ==
  ASSUME TypeInv, SymInv, Rewritten \/ \E c \in Callers : AnalyzeSave(c)
  PROVE  SymInv'
<1>1. CASE Rewritten
  <2> SUFFICES ASSUME NEW i \in 1 .. Len(recs'), NEW j \in recs'[i].rivals
               PROVE  j \in 1 .. Len(recs') /\ i \in recs'[j].rivals /\ j # i
    BY DEF SymInv
  <2>1. i \in 1 .. Len(recs) /\ Len(recs') = Len(recs)  BY <1>1 DEF Rewritten
  <2>2. recs'[i].rivals = recs[i].rivals  BY <1>1, <2>1 DEF Rewritten, Same
  <2>3. j \in 1 .. Len(recs) /\ i \in recs[j].rivals /\ j # i  BY <2>1, <2>2 DEF SymInv
  <2>4. recs'[j].rivals = recs[j].rivals  BY <1>1, <2>3 DEF Rewritten, Same
  <2> QED  BY <2>1, <2>3, <2>4
<1>2. ASSUME NEW c \in Callers, AnalyzeSave(c)  PROVE SymInv'
  <2>1. PICK m \in Nat, n \in Nat : n = Len(recs) /\ Appended(n, m, proc[c].found, proc[c].born)
    BY <1>2, SaveFacts, TypeFacts
  <2> SUFFICES ASSUME NEW i \in 1 .. Len(recs'), NEW j \in recs'[i].rivals
               PROVE  j \in 1 .. Len(recs') /\ i \in recs'[j].rivals /\ j # i
    BY DEF SymInv
  <2>2. Len(recs') = n + m  BY <2>1 DEF Appended
  <2>3. i \in 1 .. n \/ i \in n + 1 .. n + m  BY <2>2
  <2>4. CASE i \in 1 .. n
    <3>1. recs'[i] = recs[i]  BY <2>1, <2>4 DEF Appended
    <3>2. j \in 1 .. n /\ i \in recs[j].rivals /\ j # i  BY <2>1, <2>4, <3>1 DEF SymInv
    <3>3. recs'[j] = recs[j]  BY <2>1, <3>2 DEF Appended
    <3> QED  BY <2>2, <3>2, <3>3
  <2>5. CASE i \in n + 1 .. n + m
    <3>1. /\ j \in n + 1 .. n + m /\ j # i
          /\ ResourceOf[recs'[j].finding] = ResourceOf[recs'[i].finding]
      BY <2>1, <2>5 DEF Appended
    <3>2. i \in recs'[j].rivals  BY <2>1, <2>5, <3>1 DEF Appended
    <3> QED  BY <2>2, <3>1, <3>2
  <2> QED  BY <2>3, <2>4, <2>5
<1> QED  BY <1>1, <1>2

\* What one entry leaves of each record.
LEMMA EntryEffect ==
  ASSUME TypeInv, NEW i \in 1 .. Len(recs), NEW e \in Entries, NEW unsaved \in SUBSET Ids,
         TouchBut(i, e, unsaved), NEW j \in Ids
  PROVE  /\ savings'[j].lost <=> \/ savings[j].lost
                                 \/ /\ j # i /\ j \notin unsaved /\ ~ booked[i]
                                    /\ j \in recs[i].rivals /\ booked[j]
         /\ booked'[j] <=> booked[j] \/ (j = i /\ i \notin unsaved)
         /\ ~ booked'[j] => savings'[j] = savings[j]
<1>1. savings[j] \in SavingsRecord /\ booked \in [Ids -> BOOLEAN] /\ i \in Ids
  BY TypeFacts DEF TypeInv, LedgerOK
<1>2. /\ Post(savings[j], e).lost = savings[j].lost
      /\ MarkLost(savings[j]).lost
  BY <1>1, Posting DEF Entries
<1>3. savings'[j] = IF j \in unsaved THEN savings[j]
                    ELSE IF j = i THEN Post(savings[j], e)
                    ELSE IF ~booked[i] /\ j \in recs[i].rivals /\ booked[j] THEN MarkLost(savings[j])
                    ELSE savings[j]
  BY DEF TouchBut, Touched
<1>4. booked'[j] <=> booked[j] \/ (j = i /\ i \notin unsaved)  BY <1>1 DEF TouchBut
<1>5. ~ booked'[j] => savings'[j] = savings[j]  BY <1>3, <1>4
<1>6. savings'[j].lost <=> \/ savings[j].lost
                           \/ /\ j # i /\ j \notin unsaved /\ ~ booked[i]
                              /\ j \in recs[i].rivals /\ booked[j]
  <2>1. CASE j \in unsaved  BY <1>3, <2>1
  <2>2. CASE j \notin unsaved /\ j = i  BY <1>2, <1>3, <2>2
  <2>3. CASE /\ j \notin unsaved /\ j # i
             /\ ~booked[i] /\ j \in recs[i].rivals /\ booked[j]
    <3>1. savings'[j] = MarkLost(savings[j])  BY <1>3, <2>3
    <3> QED  BY <1>2, <2>3, <3>1
  <2>4. CASE /\ j \notin unsaved /\ j # i
             /\ ~ (~booked[i] /\ j \in recs[i].rivals /\ booked[j])
    <3>1. savings'[j] = savings[j]  BY <1>3, <2>4
    <3> QED  BY <2>4, <3>1
  <2> QED  BY <2>1, <2>2, <2>3, <2>4
<1> QED  BY <1>4, <1>5, <1>6

LEMMA LossEffect ==
  ASSUME TypeInv, NEW i \in 1 .. Len(recs), Lose(i), NEW j \in Ids
  PROVE  /\ savings'[j].lost <=> savings[j].lost \/ (j = i /\ booked[i])
         /\ savings'[j].stage = savings[j].stage
         /\ booked'[j] <=> booked[j]
         /\ ~ booked[j] => savings'[j] = savings[j]
<1>1. savings[j] \in SavingsRecord /\ savings \in [Ids -> SavingsRecord] /\ i \in Ids
  BY TypeFacts DEF TypeInv, LedgerOK
<1>2. MarkLost(savings[j]).lost /\ MarkLost(savings[j]).stage = savings[j].stage
  BY <1>1 DEF MarkLost, SavingsRecord
<1>3. savings'[j] = IF booked[i] /\ j = i THEN MarkLost(savings[j]) ELSE savings[j]
  BY <1>1 DEF Lose
<1>4. booked' = booked  BY DEF Lose
<1>5. CASE booked[i] /\ j = i
  <2>1. savings'[j] = MarkLost(savings[j])  BY <1>3, <1>5
  <2> QED  BY <1>2, <1>4, <1>5, <2>1
<1>6. CASE ~ (booked[i] /\ j = i)
  <2>1. savings'[j] = savings[j]  BY <1>3, <1>6
  <2> QED  BY <1>4, <1>6, <2>1
<1> QED  BY <1>5, <1>6

LEMMA BookStep ==
  ASSUME TypeInv, BookInv, Len(recs') \in Nat, Len(recs) <= Len(recs'), LedgerMoves
  PROVE  BookInv'
<1>0. BookInv' <=> \A j \in Ids : /\ booked'[j] => j <= Len(recs')
                                  /\ ~ booked'[j] => savings'[j] = NewRecord
  BY DEF BookInv
<1>1. \A j \in Ids : j \in Nat  BY RecBounds DEF Ids
<1>2. \A j \in Ids : booked[j] => j <= Len(recs')  BY <1>1, TypeFacts DEF BookInv
<1>3. CASE UNCHANGED ledger
  <2>1. savings' = savings /\ booked' = booked  BY <1>3 DEF ledger
  <2> QED  BY <1>0, <1>2, <2>1 DEF BookInv
<1>4. ASSUME NEW i \in 1 .. Len(recs), Posted(i)  PROVE BookInv'
  <2>1. PICK e \in Entries, u \in SUBSET Ids : TouchBut(i, e, u)  BY <1>4 DEF Posted, PostedAs
  <2>2. ASSUME NEW j \in Ids
        PROVE  (booked'[j] => j <= Len(recs')) /\ (~ booked'[j] => savings'[j] = NewRecord)
    <3>1. booked'[j] <=> booked[j] \/ (j = i /\ i \notin u)  BY <2>1, EntryEffect
    <3>2. ~ booked'[j] => savings'[j] = savings[j]  BY <2>1, EntryEffect
    <3>3. i <= Len(recs')  BY TypeFacts
    <3> QED  BY <1>2, <3>1, <3>2, <3>3 DEF BookInv
  <2> QED  BY <1>0, <2>2
<1>5. ASSUME NEW i \in 1 .. Len(recs), Lose(i)  PROVE BookInv'
  <2>1. ASSUME NEW j \in Ids
        PROVE  (booked'[j] => j <= Len(recs')) /\ (~ booked'[j] => savings'[j] = NewRecord)
    <3>1. (booked'[j] <=> booked[j]) /\ (~ booked[j] => savings'[j] = savings[j])
      BY <1>5, LossEffect
    <3> QED  BY <1>2, <3>1 DEF BookInv
  <2> QED  BY <1>0, <2>1
<1> QED  BY <1>3, <1>4, <1>5 DEF LedgerMoves

LEMMA RivalStep ==
  ASSUME TypeInv, MoneyInv, losses <= losses', losses' \in Nat, LedgerMoves,
         \/ Rewritten
         \/ \E c \in Callers : AnalyzeSave(c)
  PROVE  RivalInv'
<1> SUFFICES ASSUME losses' = 0, NEW i \in 1 .. Len(recs'), NEW j \in recs'[i].rivals,
                    booked'[i], booked'[j]
             PROVE  savings'[i].lost \/ savings'[j].lost
  BY DEF RivalInv
<1>1. losses = 0  BY DEF TypeInv, LimitsOK
<1>2. ASSUME i \in 1 .. Len(recs), j \in recs[i].rivals, booked[i], booked[j]
      PROVE  savings[i].lost \/ savings[j].lost
  BY <1>1, <1>2 DEF MoneyInv, RivalInv
<1>3. CASE \E c \in Callers : AnalyzeSave(c)
  <2>1. PICK c \in Callers : AnalyzeSave(c)  BY <1>3
  <2>2. booked' = booked /\ savings' = savings  BY <2>1 DEF AnalyzeSave, ledger
  <2>3. PICK m \in Nat, n \in Nat : n = Len(recs) /\ Appended(n, m, proc[c].found, proc[c].born)
    BY <2>1, SaveFacts, TypeFacts
  <2>4. i \in 1 .. n
    <3>1. Len(recs') = n + m /\ recs' \in Seq(Rec)  BY <2>3 DEF Appended
    <3>2. i \in 1 .. n + m  BY <3>1
    <3>3. CASE i \in n + 1 .. n + m
      <4>1. j \in n + 1 .. n + m  BY <2>3, <3>3 DEF Appended
      <4>2. recs'[i] \in Rec  BY <3>1
      <4>3. j \in Ids  BY <4>2 DEF Rec
      <4>4. j <= n  BY <2>2, <2>3, <4>3 DEF MoneyInv, BookInv
      <4> QED  BY <4>1, <4>4
    <3> QED  BY <3>2, <3>3
  <2>5. recs'[i] = recs[i]  BY <2>3, <2>4 DEF Appended
  <2> QED  BY <1>2, <2>2, <2>3, <2>4, <2>5
<1>4. CASE Rewritten
  <2>1. i \in 1 .. Len(recs) /\ recs'[i].rivals = recs[i].rivals  BY <1>4 DEF Rewritten, Same
  <2>2. j \in 1 .. Len(recs) /\ i \in recs[j].rivals /\ j # i /\ j \in recs[i].rivals
    BY <2>1 DEF MoneyInv, SymInv
  <2>3. i \in Ids /\ j \in Ids  BY <2>1, <2>2, TypeFacts
  <2>4. CASE UNCHANGED ledger
    <3>1. booked' = booked /\ savings' = savings  BY <2>4 DEF ledger
    <3> QED  BY <1>2, <2>1, <2>2, <3>1
  <2>5. ASSUME NEW h \in 1 .. Len(recs), Lose(h)  PROVE savings'[i].lost \/ savings'[j].lost
    <3>1. (booked'[i] <=> booked[i]) /\ (savings[i].lost => savings'[i].lost)
      BY <2>3, <2>5, LossEffect
    <3>2. (booked'[j] <=> booked[j]) /\ (savings[j].lost => savings'[j].lost)
      BY <2>3, <2>5, LossEffect
    <3> QED  BY <1>2, <2>1, <2>2, <3>1, <3>2
  <2>6. ASSUME NEW h \in 1 .. Len(recs), Posted(h)  PROVE savings'[i].lost \/ savings'[j].lost
    <3>1. PICK e \in Entries, u \in SUBSET Ids : TouchBut(h, e, u) /\ u = {}
      BY <2>6 DEF Posted, PostedAs
    <3>2. /\ savings'[i].lost <=> \/ savings[i].lost
                                  \/ i # h /\ ~ booked[h] /\ i \in recs[h].rivals /\ booked[i]
          /\ booked'[i] <=> booked[i] \/ i = h
      BY <2>3, <3>1, EntryEffect
    <3>3. /\ savings'[j].lost <=> \/ savings[j].lost
                                  \/ j # h /\ ~ booked[h] /\ j \in recs[h].rivals /\ booked[j]
          /\ booked'[j] <=> booked[j] \/ j = h
      BY <2>3, <3>1, EntryEffect
    <3>4. CASE booked[i] /\ booked[j]  BY <1>2, <2>1, <2>2, <3>2, <3>3, <3>4
    <3>5. CASE ~ booked[i]  BY <2>2, <3>2, <3>3, <3>5
    <3>6. CASE ~ booked[j]  BY <2>2, <3>2, <3>3, <3>6
    <3> QED  BY <3>4, <3>5, <3>6
  <2> QED  BY <2>4, <2>5, <2>6 DEF LedgerMoves
<1> QED  BY <1>3, <1>4

LEMMA MoneyStep ==
  ASSUME TypeInv, MoneyInv, RecStep
  PROVE  MoneyInv'
<1>1. Rewritten \/ \E c \in Callers : AnalyzeSave(c)  BY RecsStep
<1>2. LedgerMoves  BY LedgerStep
<1>3. Len(recs') \in Nat /\ Len(recs) <= Len(recs')  BY <1>1, RecsGrow, TypeFacts
<1>4. losses <= losses' /\ losses' \in Nat  BY LimitsStep DEF LimitsOK
<1> QED  BY <1>1, <1>2, <1>3, <1>4, SymStep, BookStep, RivalStep DEF MoneyInv

LEMMA MoneyStutter ==
  ASSUME MoneyInv, UNCHANGED vars
  PROVE  MoneyInv'
BY DEF MoneyInv, SymInv, BookInv, RivalInv, vars, ledger

LEMMA MoneyInit == Init => MoneyInv
BY DEF Init, MoneyInv, SymInv, BookInv, RivalInv

LEMMA Money == Spec => []MoneyInv
<1>1. ASSUME TypeInv, MoneyInv, [Next]_vars  PROVE MoneyInv'
  BY <1>1, NextIsStep, MoneyStep, MoneyStutter
<1> QED  BY <1>1, MoneyInit, Types, PTL DEF Spec

\* A claim needs a record.
LEMMA ClaimIsBooked ==
  ASSUME BookInv, NEW i \in Ids, Order(savings[i].stage) >= 3
  PROVE  booked[i]
<1>1. ASSUME ~ booked[i]  PROVE FALSE
  <2>1. savings[i].stage = "potential"  BY <1>1 DEF BookInv, NewRecord
  <2> QED  BY <2>1, OrderValues
<1> QED  BY <1>1

LEMMA RivalsClaim == TypeInv /\ MoneyInv => RivalsClaimOnce
<1> SUFFICES ASSUME TypeInv, MoneyInv, losses = 0, NEW i \in DOMAIN recs, NEW j \in recs[i].rivals,
                    Order(savings[i].stage) >= Order("planned"), ~ savings[i].lost,
                    Order(savings[j].stage) >= Order("planned"), ~ savings[j].lost
             PROVE  FALSE
  BY DEF RivalsClaimOnce
<1>1. i \in 1 .. Len(recs) /\ i \in Ids  BY TypeFacts
<1>2. j \in Ids  BY <1>1, TypeFacts DEF MoneyInv, SymInv
<1>3. booked[i] /\ booked[j]  BY <1>1, <1>2, ClaimIsBooked, OrderValues DEF MoneyInv
<1> QED  BY <1>1, <1>3 DEF MoneyInv, RivalInv

\* Of two alternatives at most one holds a live claim from "planned" on, in whatever order
\* calls plan, execute, validate, cancel and roll back, as long as no write of the ledger
\* failed unnoticed (automation/service.go:205-262).
THEOREM AlternativesClaimOnce == Spec => []RivalsClaimOnce
BY Types, Money, RivalsClaim, PTL

-------------------------------------------------------------------------------
\* Full analyses that take turns.  Each starts after everything saved so far, so what it
\* supersedes is all there is, and nothing is open when it saves.

BornInv ==
  /\ \A i \in 1 .. Len(recs) : recs[i].born <= clock
  /\ \A p \in Analyzing : proc[p].born <= clock

TurnsInv == \A p, q \in Analyzing : p = q
StaleInv == \A p \in Analyzing : At(p, "supersede") => \A i \in 1 .. Len(recs) : recs[i].born < proc[p].now
ClearInv ==
  "overwritten" \notin past =>
    \A p \in Analyzing : At(p, "save") => \A i \in 1 .. Len(recs) : recs[i].status # "open"

OfferInv ==
  /\ BornInv
  /\ "mixed" \notin past => TurnsInv /\ StaleInv /\ ClearInv
  /\ OfferedOnce

\* What an analysis that has just been loaded, or has just superseded, knows.
LEMMA Loaded ==
  ASSUME TypeInv, NEW c \in Callers, AnalyzeLoad(c)
  PROVE  /\ clock' = clock + 1 /\ proc'[c].born = clock + 1 /\ proc'[c].now = clock + 1
         /\ "mixed" \notin past' => proc'[c].pc = "supersede" /\ Analyzing = {}
         /\ \A q \in Procs : q # c => proc'[q] = proc[q]
<1>1. PICK scoped \in BOOLEAN :
        /\ Become(c, [Idle EXCEPT !.pc = IF scoped THEN "save" ELSE "supersede",
                       !.found = { f \in Findings : inventory[ResourceOf[f]] = "wasteful" },
                       !.now = clock + 1, !.born = clock + 1])
        /\ Excuse(If(scoped \/ Analyzing # {}, "mixed"))
  BY DEF AnalyzeLoad
<1>2. PICK r : r = [Idle EXCEPT !.pc = IF scoped THEN "save" ELSE "supersede",
                       !.found = { f \in Findings : inventory[ResourceOf[f]] = "wasteful" },
                       !.now = clock + 1, !.born = clock + 1]
  OBVIOUS
<1>3. r.born = clock + 1 /\ r.now = clock + 1 /\ r.pc = IF scoped THEN "save" ELSE "supersede"
  BY <1>2 DEF Idle
<1>4. proc'[c] = r /\ \A q \in Procs : q # c => proc'[q] = proc[q]
  BY <1>1, <1>2, Moved DEF Procs
<1>5. "mixed" \notin past' => ~ scoped /\ Analyzing = {}  BY <1>1 DEF Excuse, If
<1>6. clock' = clock + 1  BY DEF AnalyzeLoad
<1> QED  BY <1>3, <1>4, <1>5, <1>6

LEMMA SupersededNow ==
  ASSUME TypeInv, NEW c \in Callers, AnalyzeSupersede(c)
  PROVE  /\ proc[c].pc = "supersede" /\ clock' = clock
         /\ proc'[c].pc \in { "idle", "save" }
         /\ proc'[c].pc = "save" => proc'[c].born = clock
         /\ "mixed" \notin past' => recs' = Superseded(proc[c].now)
         /\ \A q \in Procs : q # c => proc'[q] = proc[q]
<1>1. PICK r : Become(c, r) /\ (r = Idle \/ r = [proc[c] EXCEPT !.pc = "save", !.born = clock])
  BY DEF AnalyzeSupersede
<1>2. proc[c] \in ProcState /\ c \in Procs  BY DEF TypeInv, ProcOK, Procs
<1>3. r.pc \in { "idle", "save" } /\ (r.pc = "save" => r.born = clock)
  <2>1. CASE r = Idle  BY <2>1 DEF Idle
  <2>2. CASE r = [proc[c] EXCEPT !.pc = "save", !.born = clock]  BY <1>2, <2>2 DEF ProcState
  <2> QED  BY <1>1, <2>1, <2>2
<1>4. proc'[c] = r /\ \A q \in Procs : q # c => proc'[q] = proc[q]  BY <1>1, <1>2, Moved
<1>5. "mixed" \notin past' => recs' = Superseded(proc[c].now)  BY DEF AnalyzeSupersede, Excuse
<1>6. proc[c].pc = "supersede" /\ clock' = clock  BY DEF AnalyzeSupersede, At, limits
<1> QED  BY <1>3, <1>4, <1>5, <1>6

LEMMA BornStep ==
  ASSUME TypeInv, BornInv, RecStep
  PROVE  BornInv'
<1>1. clock \in Nat /\ clock' \in Nat /\ clock <= clock'
  BY LimitsStep DEF TypeInv, LimitsOK
<1>2. \A i \in 1 .. Len(recs') : recs'[i].born <= clock'
  <2>1. ASSUME NEW i \in 1 .. Len(recs), Same(recs'[i], recs[i])  PROVE recs'[i].born <= clock'
    <3>1. recs[i].born \in Nat /\ recs[i].born <= clock
      BY TypeFacts, RecBounds DEF BornInv, Rec
    <3> QED  BY <1>1, <2>1, <3>1 DEF Same
  <2>2. CASE Rewritten  BY <2>1, <2>2 DEF Rewritten
  <2>3. ASSUME NEW c \in Callers, AnalyzeSave(c), NEW i \in 1 .. Len(recs')
        PROVE  recs'[i].born <= clock'
    <3>1. PICK m \in Nat, n \in Nat : n = Len(recs) /\ Appended(n, m, proc[c].found, proc[c].born)
      BY <2>3, SaveFacts, TypeFacts
    <3>2. i \in 1 .. n \/ i \in n + 1 .. n + m  BY <2>3, <3>1 DEF Appended
    <3>3. CASE i \in 1 .. n
      <4>1. recs'[i] = recs[i]  BY <3>1, <3>3 DEF Appended
      <4> QED  BY <2>1, <3>1, <3>3, <4>1 DEF Same
    <3>4. CASE i \in n + 1 .. n + m
      <4>1. recs'[i].born = proc[c].born  BY <3>1, <3>4 DEF Appended
      <4>2. c \in Analyzing  BY <2>3, SaveLeaves
      <4>3. proc[c].born <= clock /\ proc[c].born \in Nat
        BY <2>3, <4>2, SaveFacts, RecBounds DEF BornInv, Time
      <4> QED  BY <1>1, <4>1, <4>3
    <3> QED  BY <3>2, <3>3, <3>4
  <2> QED  BY <2>2, <2>3, RecsStep
<1>3. \A p \in Analyzing' : proc'[p].born <= clock'
  <2>1. ASSUME NEW p \in Analyzing, proc'[p] = proc[p]  PROVE proc'[p].born <= clock'
    <3>1. proc[p].born \in Nat
      BY RecBounds DEF TypeInv, ProcOK, ProcState, Time, Analyzing
    <3> QED  BY <1>1, <2>1, <3>1 DEF BornInv
  <2>2. CASE Calm  BY <2>1, <2>2 DEF Calm
  <2>3. ASSUME NEW c \in Callers, AnalyzeSupersede(c), Analyzing' \subseteq Analyzing, NEW p \in Analyzing'
        PROVE  proc'[p].born <= clock'
    <3>1. p \in Procs /\ p \in Analyzing /\ proc'[p].pc \in { "supersede", "save" }
      BY <2>3 DEF Analyzing
    <3>2. CASE p = c  BY <1>1, <2>3, <3>1, <3>2, SupersededNow
    <3>3. CASE p # c  BY <2>1, <2>3, <3>1, <3>3, SupersededNow
    <3> QED  BY <3>2, <3>3
  <2>4. ASSUME NEW c \in Callers, AnalyzeLoad(c), Analyzing' = Analyzing \cup {c}, NEW p \in Analyzing'
        PROVE  proc'[p].born <= clock'
    <3>1. CASE p = c  BY <1>1, <2>4, <3>1, Loaded
    <3>2. CASE p # c
      <4>1. p \in Analyzing /\ p \in Procs  BY <2>4, <3>2 DEF Analyzing
      <4> QED  BY <2>1, <2>4, <3>2, <4>1, Loaded
    <3> QED  BY <3>1, <3>2
  <2> QED  BY <2>2, <2>3, <2>4, AnalyzingStep
<1> QED  BY <1>2, <1>3 DEF BornInv

LEMMA TurnsStep ==
  ASSUME TypeInv, OfferInv, RecStep, "mixed" \notin past'
  PROVE  TurnsInv' /\ StaleInv' /\ ClearInv'
<1>1. past \subseteq past' /\ clock \in Nat  BY LimitsStep DEF TypeInv, LimitsOK
<1>2. BornInv /\ TurnsInv /\ StaleInv /\ ClearInv  BY <1>1 DEF OfferInv
<1>3. \A p \in Analyzing' : p \in Procs /\ proc'[p].pc \in { "supersede", "save" }  BY DEF Analyzing
<1>4. CASE Analyzing' = {}  BY <1>4 DEF TurnsInv, StaleInv, ClearInv
<1>5. ASSUME NEW c \in Callers, AnalyzeSave(c)  PROVE Analyzing' = {}
  BY <1>2, <1>5, SaveLeaves DEF TurnsInv
<1>6. CASE Rewritten
  <2>1. Len(recs') = Len(recs) /\ \A i \in 1 .. Len(recs) : recs'[i].born = recs[i].born
    BY <1>6 DEF Rewritten, Same
  <2>2. CASE Calm
    <3>1. \A p \in Analyzing' : p \in Analyzing /\ proc'[p] = proc[p]  BY <2>2 DEF Calm
    <3>2. TurnsInv'  BY <1>2, <3>1 DEF TurnsInv
    <3>3. StaleInv'  BY <1>2, <2>1, <3>1 DEF StaleInv, At
    <3>4. ClearInv'
      <4> SUFFICES ASSUME "overwritten" \notin past', NEW p \in Analyzing', proc'[p].pc = "save",
                          NEW i \in 1 .. Len(recs')
                   PROVE  recs'[i].status # "open"
        BY DEF ClearInv, At
      <4>1. recs[i].status # "open"  BY <1>1, <1>2, <2>1, <3>1 DEF ClearInv, At
      <4> QED  BY <1>6, <2>1, <4>1 DEF Rewritten
    <3> QED  BY <3>2, <3>3, <3>4
  <2>3. ASSUME NEW c \in Callers, AnalyzeSupersede(c), Analyzing' \subseteq Analyzing
        PROVE  TurnsInv' /\ StaleInv' /\ ClearInv'
    <3>1. proc[c].pc = "supersede" /\ proc'[c].pc \in { "idle", "save" }
          /\ recs' = Superseded(proc[c].now)
      BY <2>3, SupersededNow
    <3>2. c \in Analyzing  BY <3>1 DEF Analyzing, Procs
    <3>3. \A p \in Analyzing' : p = c  BY <1>2, <2>3, <3>2 DEF TurnsInv
    <3>4. TurnsInv' /\ StaleInv'  BY <3>1, <3>3 DEF TurnsInv, StaleInv, At
    <3>5. ASSUME NEW i \in 1 .. Len(recs)  PROVE recs'[i].status # "open"
      <4>1. recs[i] \in Rec /\ i \in DOMAIN recs  BY TypeFacts
      <4>2. recs[i].born < proc[c].now  BY <1>2, <3>1, <3>2 DEF StaleInv, At
      <4>3. recs'[i] = IF recs[i].status \notin SparedBySupersede
                       THEN [recs[i] EXCEPT !.status = "superseded"] ELSE recs[i]
        BY <3>1, <4>1, <4>2 DEF Superseded
      <4>4. CASE recs[i].status \notin SparedBySupersede
        <5>1. recs'[i].status = "superseded"  BY <4>1, <4>3, <4>4 DEF Rec
        <5> QED  BY <5>1
      <4>5. CASE recs[i].status \in SparedBySupersede  BY <4>3, <4>5, OpenIsStale
      <4> QED  BY <4>4, <4>5
    <3>6. ClearInv'  BY <2>1, <3>5 DEF ClearInv
    <3> QED  BY <3>4, <3>6
  <2>4. ASSUME NEW c \in Callers, AnalyzeLoad(c), Analyzing' = Analyzing \cup {c}
        PROVE  TurnsInv' /\ StaleInv' /\ ClearInv'
    <3>1. proc'[c].pc = "supersede" /\ Analyzing = {} /\ proc'[c].now = clock + 1
      BY <2>4, Loaded
    <3>2. \A p \in Analyzing' : p = c  BY <2>4, <3>1
    <3>3. TurnsInv' /\ ClearInv'  BY <3>1, <3>2 DEF TurnsInv, ClearInv, At
    <3>4. ASSUME NEW i \in 1 .. Len(recs)  PROVE recs[i].born < clock + 1
      <4>1. recs[i].born \in Nat /\ recs[i].born <= clock
        BY <1>2, TypeFacts, RecBounds DEF BornInv, Rec
      <4> QED  BY <1>1, <4>1
    <3>5. StaleInv'  BY <2>1, <3>1, <3>2, <3>4 DEF StaleInv
    <3> QED  BY <3>3, <3>5
  <2> QED  BY <2>2, <2>3, <2>4, AnalyzingStep
<1> QED  BY <1>4, <1>5, <1>6, RecsStep

LEMMA OfferStep ==
  ASSUME TypeInv, OfferInv, RecStep
  PROVE  OfferInv'
<1>1. BornInv'  BY BornStep DEF OfferInv
<1>2. OfferedOnce'
  <2>1. past \subseteq past' /\ DOMAIN recs = 1 .. Len(recs)  BY LimitsStep, TypeFacts
  <2>2. recs' \in Seq(Rec)  BY RecsStep, RecsGrow
  <2>3. DOMAIN recs' = 1 .. Len(recs')  BY <2>2
  <2> SUFFICES ASSUME "mixed" \notin past', "overwritten" \notin past',
                      NEW i \in 1 .. Len(recs'), NEW j \in 1 .. Len(recs'),
                      recs'[i].status = "open", recs'[j].status = "open",
                      recs'[i].finding = recs'[j].finding
               PROVE  i = j
    BY <2>3 DEF OfferedOnce
  <2>4. "mixed" \notin past /\ "overwritten" \notin past  BY <2>1
  <2>5. CASE Rewritten
    <3>1. i \in 1 .. Len(recs) /\ j \in 1 .. Len(recs)  BY <2>5 DEF Rewritten
    <3>2. recs[i].status = "open" /\ recs[j].status = "open"  BY <2>5, <3>1 DEF Rewritten
    <3>3. recs[i].finding = recs[j].finding  BY <2>5, <3>1 DEF Rewritten, Same
    <3> QED  BY <2>1, <2>4, <3>1, <3>2, <3>3 DEF OfferInv, OfferedOnce
  <2>6. ASSUME NEW c \in Callers, AnalyzeSave(c)  PROVE i = j
    <3>1. PICK m \in Nat, n \in Nat : n = Len(recs) /\ Appended(n, m, proc[c].found, proc[c].born)
      BY <2>6, SaveFacts, TypeFacts
    <3>2. c \in Analyzing /\ At(c, "save")  BY <2>6, SaveLeaves DEF AnalyzeSave
    <3>3. ASSUME NEW h \in 1 .. n  PROVE recs'[h].status # "open"
      <4>1. recs[h].status # "open"  BY <2>4, <3>1, <3>2 DEF OfferInv, ClearInv
      <4>2. recs'[h] = recs[h]  BY <3>1 DEF Appended
      <4> QED  BY <4>1, <4>2
    <3>4. \A h \in 1 .. Len(recs') : h \in 1 .. n \/ h \in n + 1 .. n + m  BY <3>1 DEF Appended
    <3>5. i \in n + 1 .. n + m /\ j \in n + 1 .. n + m  BY <3>3, <3>4
    <3> QED  BY <3>1, <3>5 DEF Appended
  <2> QED  BY <2>5, <2>6, RecsStep
<1> QED  BY <1>1, <1>2, TurnsStep DEF OfferInv

LEMMA OfferInit == Init => OfferInv
<1> SUFFICES ASSUME Init PROVE OfferInv  OBVIOUS
<1>1. Analyzing = {}  BY DEF Init, Analyzing, Idle
<1>2. recs = << >>  BY DEF Init
<1> QED
  BY <1>1, <1>2 DEF OfferInv, BornInv, TurnsInv, StaleInv, ClearInv, OfferedOnce

LEMMA OfferStutter ==
  ASSUME OfferInv, UNCHANGED vars
  PROVE  OfferInv'
BY DEF OfferInv, BornInv, TurnsInv, StaleInv, ClearInv, OfferedOnce, Analyzing, At, vars, limits

LEMMA Offers == Spec => []OfferInv
<1>1. ASSUME TypeInv, OfferInv, [Next]_vars  PROVE OfferInv'
  BY <1>1, NextIsStep, OfferStep, OfferStutter
<1> QED  BY <1>1, OfferInit, Types, PTL DEF Spec

\* Full analyses that take turns and succeed offer every finding at most once, however their
\* three store accesses interleave with planning and triage, as long as no copy is stored
\* over a status written since (optimization/service.go:209-300).
THEOREM FindingsOfferedOnce == Spec => []OfferedOnce
<1>1. OfferInv => OfferedOnce  BY DEF OfferInv
<1> QED  BY <1>1, Offers, PTL

-------------------------------------------------------------------------------
\* Claims and the resources behind them.

\* States of a plan whose resource is as the plan left it, and states a claim may rest on.
LeanStates == { "executed", "validating", "validated" }
Backing == LeanStates \cup { "rollback_failed" }

\* A process that executes has a plan of its own, which is executing.
ExecInv ==
  /\ \A p \in Procs : At(p, "exec") => /\ plans[proc[p].plan].state = "executing"
                                       /\ plans[proc[p].plan].rec = proc[p].id
  /\ \A p, q \in Procs : At(p, "exec") /\ At(q, "exec") /\ proc[p].plan = proc[q].plan => p = q

\* The step leaves the processes that execute alone.
NoneExecutes == \A p \in Procs : proc'[p].pc = "exec" => proc'[p] = proc[p]

Ends(p) == ExecSucceeds(p) \/ ExecFails(p) \/ ExecRollsBack(p) \/ ExecRollbackFails(p)

LEMMA PlanSet ==
  ASSUME TypeInv, NEW k \in 1 .. Len(plans), NEW s \in PlanState, NEW a \in BOOLEAN,
         \/ SetPlan(k, s)
         \/ plans' = [plans EXCEPT ![k].state = s, ![k].alone = a]
  PROVE  plans'[k].state = s /\ \A l \in 1 .. Len(plans) : l # k => plans'[l] = plans[l]
<1>1. plans \in Seq(Plan) /\ DOMAIN plans = 1 .. Len(plans) /\ plans[k] \in Plan
  BY TypeFacts DEF TypeInv, PlansOK
<1> DEFINE r1 == [plans[k] EXCEPT !.state = s]
           r2 == [plans[k] EXCEPT !.state = s, !.alone = a]
<1>2. r1.state = s /\ r2.state = s  BY <1>1 DEF Plan
<1>3. plans' = [plans EXCEPT ![k] = r1] \/ plans' = [plans EXCEPT ![k] = r2]
  BY DEF SetPlan
<1> HIDE DEF r1, r2
<1> QED  BY <1>1, <1>2, <1>3

LEMMA Executes ==
  ASSUME TypeInv, NEW p \in Procs, At(p, "exec")
  PROVE  proc[p].plan \in 1 .. Len(plans) /\ proc[p].id \in 1 .. Len(recs)
BY TypeFacts DEF At, TypeInv, ProcOK, Fits, ProcState, WithPlan, WithCopy

LEMMA EndsAtExec ==
  ASSUME NEW p \in Procs, Ends(p)
  PROVE  At(p, "exec")
BY DEF Ends, ExecSucceeds, ExecFails, ExecRollsBack, ExecRollbackFails

LEMMA EndsLeaves ==
  ASSUME TypeInv, NEW p \in Procs, Ends(p)
  PROVE  proc'[p].pc # "exec" /\ \A q \in Procs : q # p => proc'[q] = proc[q]
<1>1. CASE Done(p)  BY <1>1, Returned
<1>2. CASE ExecSucceeds(p)
  <2>1. proc[p] \in ProcState  BY DEF TypeInv, ProcOK
  <2>2. PICK s, r : /\ Become(p, r)
                    /\ \/ r = Idle
                       \/ r = [proc[p] EXCEPT !.pc = "loop", !.id = 0, !.copy = << >>, !.plan = 0,
                                              !.granted = FALSE, !.spent = @ + s]
    BY <1>2 DEF ExecSucceeds
  <2>3. r.pc # "exec"
    <3>1. CASE r = Idle  BY <3>1 DEF Idle
    <3>2. CASE r # Idle
      <4>1. r.pc = "loop"  BY <2>1, <2>2, <3>2 DEF ProcState
      <4> QED  BY <4>1
    <3> QED  BY <3>1, <3>2
  <2> QED  BY <2>2, <2>3, Moved
<1> QED  BY <1>1, <1>2 DEF Ends, ExecFails, ExecRollsBack, ExecRollbackFails

LEMMA ExecBegins ==
  ASSUME TypeInv, NEW p \in Procs, NEW k \in 1 .. Len(plans), ExecBegin(p, k)
  PROVE  /\ plans[k].state \in { "approved", "awaiting_approval" }
         /\ plans'[k].state = "executing"
         /\ \A l \in 1 .. Len(plans) : l # k => plans'[l] = plans[l]
         /\ proc'[p].pc = "exec" /\ proc'[p].plan = k /\ proc'[p].id = plans[k].rec
         /\ \A q \in Procs : q # p => proc'[q] = proc[q]
<1>1. PICK a : Become(p, [proc[p] EXCEPT !.pc = "exec", !.plan = k, !.id = plans[k].rec,
                                         !.copy = [recs[plans[k].rec] EXCEPT !.auto = a]])
  BY DEF ExecBegin
<1>2. PICK copy, i, r : /\ i = plans[k].rec
                        /\ r = [proc[p] EXCEPT !.pc = "exec", !.plan = k, !.id = i, !.copy = copy]
                        /\ Become(p, r)
  BY <1>1
<1>3. proc[p] \in ProcState  BY DEF TypeInv, ProcOK
<1>4. r.pc = "exec" /\ r.plan = k /\ r.id = i  BY <1>2, <1>3 DEF ProcState
<1>5. proc'[p] = r /\ \A q \in Procs : q # p => proc'[q] = proc[q]  BY <1>2, Moved
<1>6. "executing" \in PlanState /\ TRUE \in BOOLEAN /\ SetPlan(k, "executing")
  BY DEF ExecBegin, PlanState
<1>7. plans'[k].state = "executing" /\ \A l \in 1 .. Len(plans) : l # k => plans'[l] = plans[l]
  BY <1>6, PlanSet
<1> QED  BY <1>2, <1>4, <1>5, <1>7 DEF ExecBegin

\* Plans that execute stay so but for the step of their own process.
ExecMoved ==
  \/ /\ NoneExecutes
     /\ \A k \in 1 .. Len(plans) : plans[k].state = "executing" => plans'[k].state = "executing"
  \/ \E p \in Procs, k \in 1 .. Len(plans) : ExecBegin(p, k)
  \/ \E p \in Procs : Ends(p)

LEMMA ExecMoves ==
  ASSUME TypeInv, RecStep
  PROVE  ExecMoved
<1> DEFINE Kept == \A k \in 1 .. Len(plans) : plans[k].state = "executing" => plans'[k].state = "executing"
<1>1. ASSUME UNCHANGED plans  PROVE Kept
  BY <1>1
<1>2. ASSUME UNCHANGED proc  PROVE NoneExecutes
  BY <1>2 DEF NoneExecutes
<1>3. ASSUME NEW p \in Procs, NEW r, Become(p, r), r.pc # "exec"  PROVE NoneExecutes
  BY <1>3, Moved DEF NoneExecutes
<1>4. ASSUME NEW p \in Procs, Done(p)  PROVE NoneExecutes
  <2>1. \A q \in Procs : q # p => proc'[q] = proc[q]  BY <1>4, Returned
  <2>2. proc'[p].pc # "exec"  BY <1>4, Returned
  <2> QED  BY <2>1, <2>2 DEF NoneExecutes
<1>5. ASSUME NEW k \in 1 .. Len(plans), NEW s \in PlanState, SetPlan(k, s), plans[k].state # "executing"
      PROVE  Kept
  <2>1. TRUE \in BOOLEAN  OBVIOUS
  <2>2. \A l \in 1 .. Len(plans) : l # k => plans'[l] = plans[l]  BY <1>5, <2>1, PlanSet
  <2> QED  BY <1>5, <2>2
<1>6. DOMAIN plans = 1 .. Len(plans) /\ \A p \in Procs : proc[p] \in ProcState
  BY TypeFacts DEF TypeInv, ProcOK
<1>7. Idle.pc # "exec"  BY DEF Idle
<1>8. ASSUME World  PROVE NoneExecutes /\ Kept
  <2>1. UNCHANGED proc
    BY <1>8 DEF World, Discover, Claim, ValidateHolds, ValidateFails, Rollback, RollbackFails, Cancel
  <2>2. ASSUME NEW k \in 1 .. Len(plans),
               \/ Claim(k) \/ ValidateHolds(k) \/ ValidateFails(k)
               \/ Rollback(k) \/ RollbackFails(k) \/ Cancel(k)
        PROVE  Kept
    <3>1. plans[k].state # "executing"
      BY <2>2 DEF Claim, ValidateHolds, ValidateFails, Rollback, RollbackFails, Cancel,
                  Validatable, Reversible, Cancellable
    <3>2. \E s \in PlanState : SetPlan(k, s)
      BY <2>2 DEF Claim, ValidateHolds, ValidateFails, Rollback, RollbackFails, Cancel, PlanState
    <3> QED  BY <1>5, <3>1, <3>2
  <2>3. ASSUME Discover  PROVE Kept  BY <1>1, <2>3 DEF Discover
  <2> HIDE DEF Kept
  <2> QED  BY <1>2, <1>6, <1>8, <2>1, <2>2, <2>3 DEF World
<1>9. ASSUME NEW c \in Callers, Call(c)
      PROVE  (NoneExecutes /\ Kept) \/ \E k \in 1 .. Len(plans) : ExecBegin(c, k)
  <2>1. c \in Procs  BY DEF Procs
  <2>2. CASE ExecuteAsk(c)
    <3>1. PICK k \in 1 .. Len(plans) : ExecBegin(c, k) \/ ExecRefused(c, k)
      BY <1>6, <2>2 DEF ExecuteAsk
    <3>2. CASE ExecRefused(c, k)
      <4>1. plans[k].state # "executing" /\ SetPlan(k, "failed") /\ Done(c)
        BY <3>2 DEF ExecRefused
      <4>2. "failed" \in PlanState  BY DEF PlanState
      <4> QED  BY <1>4, <1>5, <2>1, <4>1, <4>2
    <3> QED  BY <3>1, <3>2
  <2>3. CASE ~ ExecuteAsk(c)
    <3>1. UNCHANGED plans
      BY <1>9, <2>3
      DEF Call, AnalyzeLoad, AnalyzeSupersede, AnalyzeSave, AnalyzeFails, EvaluateRead, SnoozeRead,
          ReadFor, EvaluateWrite, SnoozeWrite, Dismiss, PlanAsk
    <3>2. CASE AnalyzeLoad(c)
      <4>1. PICK scoped \in BOOLEAN :
              Become(c, [Idle EXCEPT !.pc = IF scoped THEN "save" ELSE "supersede",
                           !.found = { f \in Findings : inventory[ResourceOf[f]] = "wasteful" },
                           !.now = clock + 1, !.born = clock + 1])
        BY <3>2 DEF AnalyzeLoad
      <4>2. PICK r : r = [Idle EXCEPT !.pc = IF scoped THEN "save" ELSE "supersede",
                           !.found = { f \in Findings : inventory[ResourceOf[f]] = "wasteful" },
                           !.now = clock + 1, !.born = clock + 1]
        OBVIOUS
      <4>3. r.pc # "exec"  BY <4>2 DEF Idle
      <4> QED  BY <1>1, <1>3, <2>1, <3>1, <4>1, <4>2, <4>3
    <3>3. CASE AnalyzeSupersede(c)
      <4>1. PICK r : Become(c, r) /\ (r = Idle \/ r = [proc[c] EXCEPT !.pc = "save", !.born = clock])
        BY <3>3 DEF AnalyzeSupersede
      <4>2. r.pc # "exec"
        <5>1. CASE r = Idle  BY <1>7, <5>1
        <5>2. CASE r # Idle
          <6>1. r.pc = "save"  BY <1>6, <2>1, <4>1, <5>2 DEF ProcState
          <6> QED  BY <6>1
        <5> QED  BY <5>1, <5>2
      <4> QED  BY <1>1, <1>3, <2>1, <3>1, <4>1, <4>2
    <3>4. CASE AnalyzeSave(c) \/ AnalyzeFails(c) \/ EvaluateWrite(c) \/ SnoozeWrite(c)
      <4>1. Become(c, Idle)  BY <3>4 DEF AnalyzeSave, AnalyzeFails, EvaluateWrite, SnoozeWrite
      <4> QED  BY <1>1, <1>3, <1>7, <2>1, <3>1, <4>1
    <3>5. CASE EvaluateRead(c) \/ SnoozeRead(c)
      <4>1. PICK pc \in { "evaluate", "snooze" }, i \in DOMAIN recs :
              Become(c, [Idle EXCEPT !.pc = pc, !.id = i, !.copy = recs[i]])
        BY <3>5 DEF EvaluateRead, SnoozeRead, ReadFor
      <4>2. PICK r : r = [Idle EXCEPT !.pc = pc, !.id = i, !.copy = recs[i]]  OBVIOUS
      <4>3. r.pc # "exec"  BY <4>2 DEF Idle
      <4> QED  BY <1>1, <1>3, <2>1, <3>1, <4>1, <4>2, <4>3
    <3>6. CASE PlanAsk(c)
      <4>1. PICK i \in DOMAIN recs :
              Become(c, [proc[c] EXCEPT !.pc = "plan_decide", !.id = i, !.copy = recs[i]])
        BY <3>6 DEF PlanAsk, PlanRead
      <4>2. PICK r : r = [proc[c] EXCEPT !.pc = "plan_decide", !.id = i, !.copy = recs[i]]  OBVIOUS
      <4>3. r.pc = "plan_decide"  BY <1>6, <2>1, <4>2 DEF ProcState
      <4> QED  BY <1>1, <1>3, <2>1, <3>1, <4>1, <4>2, <4>3
    <3>7. CASE Dismiss(c)
      <4>1. UNCHANGED proc  BY <3>7 DEF Dismiss
      <4> QED  BY <1>1, <1>2, <3>1, <4>1
    <3> HIDE DEF Kept
    <3> QED  BY <1>9, <2>3, <3>2, <3>3, <3>4, <3>5, <3>6, <3>7 DEF Call
  <2> QED  BY <2>2, <2>3
<1>10. ASSUME NEW p \in Procs, Progress(p)  PROVE (NoneExecutes /\ Kept) \/ Ends(p)
  <2>1. CASE PlanDecide(p)
    <3>1. PICK a : Become(p, [proc[p] EXCEPT !.pc = "plan_create", !.granted = a])
      BY <2>1 DEF PlanDecide
    <3>2. PICK r : r = [proc[p] EXCEPT !.pc = "plan_create", !.granted = a]  OBVIOUS
    <3>3. r.pc = "plan_create"  BY <1>6, <3>2 DEF ProcState
    <3>4. UNCHANGED plans  BY <2>1 DEF PlanDecide
    <3> QED  BY <1>1, <1>3, <3>1, <3>2, <3>3, <3>4
  <2>2. CASE PlanRefused(p)
    <3>1. Done(p) /\ UNCHANGED plans  BY <2>2 DEF PlanRefused
    <3> QED  BY <1>1, <1>4, <3>1
  <2>3. CASE PlanCreate(p)
    <3>1. PICK r : /\ r = [proc[p] EXCEPT !.pc = "plan_mark", !.plan = Len(plans) + 1, !.made = @ + 1]
                   /\ Become(p, r)
      BY <2>3 DEF PlanCreate
    <3>2. r.pc = "plan_mark"  BY <1>6, <3>1 DEF ProcState
    <3>3. Kept  BY <2>3, PlanMade
    <3> HIDE DEF Kept
    <3> QED  BY <1>3, <3>1, <3>2, <3>3
  <2>4. CASE PlanMark(p)
    <3>1. UNCHANGED plans  BY <2>4 DEF PlanMark
    <3>2. CASE Done(p)  BY <1>1, <1>4, <3>1, <3>2
    <3>3. CASE ~ Done(p)
      <4>1. PICK r : r = [proc[p] EXCEPT !.pc = "exec_begin"] /\ Become(p, r)
        BY <2>4, <3>3 DEF PlanMark
      <4>2. r.pc = "exec_begin"  BY <1>6, <4>1 DEF ProcState
      <4> QED  BY <1>1, <1>3, <3>1, <4>1, <4>2
    <3> QED  BY <3>2, <3>3
  <2> HIDE DEF Kept
  <2> QED  BY <1>10, <2>1, <2>2, <2>3, <2>4 DEF Progress, Ends
<1> HIDE DEF Kept
<1>11. (NoneExecutes /\ Kept) \/ (\E p \in Procs, k \in 1 .. Len(plans) : ExecBegin(p, k))
         \/ \E p \in Procs : Ends(p)
  <2>1. \A c \in Callers : c \in Procs  BY DEF Procs
  <2> QED  BY <1>8, <1>9, <1>10, <2>1 DEF RecStep
<1> QED  BY <1>11 DEF Kept, ExecMoved

LEMMA EndsEffect ==
  ASSUME TypeInv, NEW p \in Procs, Ends(p), NEW k \in 1 .. Len(plans), k = proc[p].plan
  PROVE  /\ Len(plans') = Len(plans)
         /\ plans'[k].state \in { "executed", "failed", "rolled_back", "rollback_failed" }
         /\ \A l \in 1 .. Len(plans) : l # k => plans'[l] = plans[l]
         /\ ExecSucceeds(p) => plans'[k].state = "executed"
         /\ ExecFails(p) => plans'[k].state = "failed"
         /\ ExecRollsBack(p) => plans'[k].state = "rolled_back"
         /\ ExecRollbackFails(p) => plans'[k].state = "rollback_failed"
<1> DEFINE Four == { "executed", "failed", "rolled_back", "rollback_failed" }
<1>1. ASSUME NEW s \in Four, NEW a \in BOOLEAN,
             SetPlan(k, s) \/ plans' = [plans EXCEPT ![k].state = s, ![k].alone = a]
      PROVE  /\ Len(plans') = Len(plans) /\ plans'[k].state = s
             /\ \A l \in 1 .. Len(plans) : l # k => plans'[l] = plans[l]
  <2>1. s \in PlanState  BY DEF PlanState
  <2> QED  BY <1>1, <2>1, PlanSet, OneReplanned DEF Replanned
<1>2. TRUE \in BOOLEAN  OBVIOUS
<1>3. ASSUME ExecSucceeds(p)
      PROVE  \E a \in BOOLEAN : plans' = [plans EXCEPT ![k].state = "executed", ![k].alone = a]
  <2>1. plans' = [plans EXCEPT ![k].state = "executed", ![k].alone = (p = Worker)]
    BY <1>3 DEF ExecSucceeds
  <2>2. PICK a \in BOOLEAN : a <=> p = Worker  OBVIOUS
  <2>3. plans' = [plans EXCEPT ![k].state = "executed", ![k].alone = a]  BY <2>1, <2>2
  <2> QED  BY <2>3
<1>4. ExecFails(p) => SetPlan(k, "failed")  BY DEF ExecFails
<1>5. ExecRollsBack(p) => SetPlan(k, "rolled_back")  BY DEF ExecRollsBack
<1>6. ExecRollbackFails(p) => SetPlan(k, "rollback_failed")  BY DEF ExecRollbackFails
<1> QED  BY <1>1, <1>2, <1>3, <1>4, <1>5, <1>6 DEF Ends

\* What a step may do to one plan, its resource and its recommendation's record together.
Turns(k, s) ==
  LET i == plans[k].rec IN
  /\ plans[k].state \notin { "cancelled", "rolled_back" }
  /\ Len(plans') = Len(plans) /\ plans'[k].state = s
  /\ \A l \in 1 .. Len(plans) : l # k => plans'[l] = plans[l]
  /\ \/ UNCHANGED estate /\ (s \in LeanStates => plans[k].state \in LeanStates)
     \/ \E c \in Condition : /\ estate' = [estate EXCEPT ![ResourceOfRec(i)] = c]
                             /\ s \in LeanStates => c = "lean"
  /\ \/ UNCHANGED ledger /\ (plans[k].state \in Backing => s \in Backing)
     \/ Lose(i)
     \/ s \in Backing /\ \E e \in Entries : PostedAs(i, e)

Quiet ==
  /\ UNCHANGED << plans, estate >>
  /\ UNCHANGED ledger \/ \E i \in 1 .. Len(recs) : PostedAs(i, "planned")

LEMMA Turning ==
  ASSUME TypeInv, NEW k \in 1 .. Len(plans), NEW s \in PlanState, SetPlan(k, s)
  PROVE  /\ Len(plans') = Len(plans) /\ plans'[k].state = s
         /\ \A l \in 1 .. Len(plans) : l # k => plans'[l] = plans[l]
<1>1. TRUE \in BOOLEAN  OBVIOUS
<1> QED  BY <1>1, PlanSet, OneReplanned DEF Replanned

LEMMA WorldTurns ==
  ASSUME TypeInv, NEW k \in 1 .. Len(plans),
         \/ Claim(k) \/ ValidateHolds(k) \/ ValidateFails(k)
         \/ Rollback(k) \/ RollbackFails(k) \/ Cancel(k)
  PROVE  \E s \in PlanState : Turns(k, s)
<1> USE DEF LeanStates, Backing
<1>1. PICK i \in 1 .. Len(recs) : i = plans[k].rec  BY TypeFacts
<1>2. plans[k].captured \in Condition  BY TypeFacts DEF Plan
<1>3. CASE Claim(k)
  <2>1. "validating" \in PlanState /\ SetPlan(k, "validating")  BY <1>3 DEF Claim, PlanState
  <2>2. UNCHANGED estate /\ UNCHANGED ledger /\ plans[k].state = "executed"
    BY <1>3 DEF Claim, cloud
  <2> QED  BY <2>1, <2>2, Turning DEF Turns
<1>4. CASE ValidateHolds(k)
  <2>1. "validated" \in PlanState /\ SetPlan(k, "validated")  BY <1>4 DEF ValidateHolds, PlanState
  <2>2. UNCHANGED estate /\ plans[k].state \in LeanStates  BY <1>4 DEF ValidateHolds, cloud, Validatable
  <2>3. "validated" \in Entries /\ Touch(i, "validated")  BY <1>1, <1>4 DEF ValidateHolds, Entries
  <2>4. PostedAs(i, "validated")  BY <2>3, TouchPosts
  <2>5. "validated" \in Backing /\ plans[k].state \notin { "cancelled", "rolled_back" }
    BY <2>2
  <2> QED  BY <1>1, <2>1, <2>2, <2>3, <2>4, <2>5, Turning DEF Turns
<1>5. CASE ValidateFails(k)
  <2>1. "failed" \in PlanState /\ SetPlan(k, "failed")  BY <1>5 DEF ValidateFails, PlanState
  <2>2. UNCHANGED estate /\ Lose(i) /\ plans[k].state \notin { "cancelled", "rolled_back" }
    BY <1>1, <1>5 DEF ValidateFails, cloud, Validatable
  <2> QED  BY <1>1, <2>1, <2>2, Turning DEF Turns
<1>6. CASE Rollback(k)
  <2>1. "rolled_back" \in PlanState /\ SetPlan(k, "rolled_back")  BY <1>6 DEF Rollback, PlanState
  <2>2. /\ estate' = [estate EXCEPT ![ResourceOfRec(i)] = plans[k].captured] /\ Lose(i)
        /\ plans[k].state \notin { "cancelled", "rolled_back" }
    BY <1>1, <1>6 DEF Rollback, Reversible
  <2> QED  BY <1>1, <1>2, <2>1, <2>2, Turning DEF Turns
<1>7. CASE RollbackFails(k)
  <2>1. "rollback_failed" \in PlanState /\ SetPlan(k, "rollback_failed")
    BY <1>7 DEF RollbackFails, PlanState
  <2>2. PICK c \in Condition : estate' = [estate EXCEPT ![ResourceOfRec(i)] = c]
    BY <1>1, <1>7 DEF RollbackFails
  <2>3. UNCHANGED ledger /\ plans[k].state \notin { "cancelled", "rolled_back" }
    BY <1>7 DEF RollbackFails, Reversible
  <2> QED  BY <1>1, <2>1, <2>2, <2>3, Turning DEF Turns
<1>8. CASE Cancel(k)
  <2>1. "cancelled" \in PlanState /\ SetPlan(k, "cancelled")  BY <1>8 DEF Cancel, PlanState
  <2>2. UNCHANGED estate /\ Lose(i) /\ plans[k].state \notin { "cancelled", "rolled_back" }
    BY <1>1, <1>8 DEF Cancel, cloud, Cancellable
  <2> QED  BY <1>1, <2>1, <2>2, Turning DEF Turns
<1> QED  BY <1>3, <1>4, <1>5, <1>6, <1>7, <1>8

LEMMA EndTurns ==
  ASSUME TypeInv, ExecInv, NEW p \in Procs, Ends(p)
  PROVE  \E k \in 1 .. Len(plans), s \in PlanState : Turns(k, s)
<1> USE DEF LeanStates, Backing
<1>1. At(p, "exec")  BY EndsAtExec
<1>2. PICK k \in 1 .. Len(plans), i \in 1 .. Len(recs) : k = proc[p].plan /\ i = proc[p].id
  BY <1>1, Executes
<1>3. plans[k].state = "executing" /\ plans[k].rec = i  BY <1>1, <1>2 DEF ExecInv
<1>4. plans[k].captured \in Condition  BY TypeFacts DEF Plan
<1>5. /\ Len(plans') = Len(plans)
      /\ \A l \in 1 .. Len(plans) : l # k => plans'[l] = plans[l]
  BY <1>2, EndsEffect
<1>6. { "executed", "failed", "rolled_back", "rollback_failed" } \subseteq PlanState  BY DEF PlanState
<1>7. "lean" \in Condition /\ estate[ResourceOfRec(i)] \in Condition
  BY ResourceFacts DEF Condition, TypeInv, CloudOK
<1>8. CASE ExecSucceeds(p)
  <2>1. plans'[k].state = "executed"  BY <1>2, <1>8, EndsEffect
  <2>2. estate' = [estate EXCEPT ![ResourceOfRec(i)] = "lean"]  BY <1>2, <1>8 DEF ExecSucceeds
  <2>3. "executed" \in Entries /\ (Touch(i, "executed") \/ (TouchPartly(i, "executed") /\ Lost))
    BY <1>2, <1>8 DEF ExecSucceeds, Account, Entries
  <2>4. PostedAs(i, "executed")  BY <2>3, TouchPosts
  <2> QED  BY <1>3, <1>5, <1>6, <1>7, <2>1, <2>2, <2>3, <2>4 DEF Turns
<1>9. CASE ExecFails(p)
  <2>1. plans'[k].state = "failed"  BY <1>2, <1>9, EndsEffect
  <2>2. PICK c \in Condition : estate' = [estate EXCEPT ![ResourceOfRec(i)] = c]
    BY <1>2, <1>7, <1>9 DEF ExecFails
  <2>3. Lose(i)  BY <1>2, <1>9 DEF ExecFails
  <2> QED  BY <1>3, <1>5, <1>6, <2>1, <2>2, <2>3 DEF Turns
<1>10. CASE ExecRollsBack(p)
  <2>1. plans'[k].state = "rolled_back"  BY <1>2, <1>10, EndsEffect
  <2>2. estate' = [estate EXCEPT ![ResourceOfRec(i)] = plans[k].captured]
    BY <1>2, <1>10 DEF ExecRollsBack
  <2>3. Lose(i) \/ UNCHANGED ledger  BY <1>2, <1>10 DEF ExecRollsBack, Account
  <2> QED  BY <1>3, <1>4, <1>5, <1>6, <2>1, <2>2, <2>3 DEF Turns
<1>11. CASE ExecRollbackFails(p)
  <2>1. plans'[k].state = "rollback_failed"  BY <1>2, <1>11, EndsEffect
  <2>2. PICK c \in Condition : estate' = [estate EXCEPT ![ResourceOfRec(i)] = c]
    BY <1>2, <1>11 DEF ExecRollbackFails
  <2>3. UNCHANGED ledger  BY <1>11 DEF ExecRollbackFails
  <2> QED  BY <1>3, <1>5, <1>6, <2>1, <2>2, <2>3 DEF Turns
<1> QED  BY <1>8, <1>9, <1>10, <1>11 DEF Ends

PlansMove ==
  \/ Quiet
  \/ \E p \in Procs : PlanCreate(p)
  \/ \E k \in 1 .. Len(plans), s \in PlanState : Turns(k, s)

LEMMA BeginTurns ==
  ASSUME TypeInv, NEW c \in Procs, NEW k \in 1 .. Len(plans), ExecBegin(c, k) \/ ExecRefused(c, k)
  PROVE  \E s \in PlanState : Turns(k, s)
<1>1. /\ plans[k].state \in { "approved", "awaiting_approval" }
      /\ UNCHANGED estate /\ UNCHANGED ledger
  BY DEF ExecBegin, ExecRefused, cloud
<1>2. PICK s \in { "executing", "failed" } : SetPlan(k, s)  BY DEF ExecBegin, ExecRefused
<1>3. s \in PlanState  BY DEF PlanState
<1> QED  BY <1>1, <1>2, <1>3, Turning DEF Turns, LeanStates, Backing

LEMMA PlanEffects ==
  ASSUME TypeInv, ExecInv, RecStep
  PROVE  PlansMove
<1>1. ASSUME UNCHANGED << plans, estate >>, UNCHANGED ledger  PROVE Quiet
  BY <1>1 DEF Quiet
<1>2. DOMAIN plans = 1 .. Len(plans)  BY TypeFacts
<1>3. CASE World
  <2>1. ASSUME Discover  PROVE Quiet  BY <1>1, <2>1 DEF Discover
  <2> QED  BY <1>2, <1>3, <2>1, WorldTurns DEF World, PlansMove
<1>4. ASSUME NEW c \in Callers, Call(c), ~ ExecuteAsk(c)  PROVE Quiet
  <2>1. UNCHANGED << plans, estate >> /\ UNCHANGED ledger
    BY <1>4
    DEF Call, AnalyzeLoad, AnalyzeSupersede, AnalyzeSave, AnalyzeFails, EvaluateRead, SnoozeRead,
        ReadFor, EvaluateWrite, SnoozeWrite, Dismiss, PlanAsk, cloud
  <2> QED  BY <1>1, <2>1
<1>5. ASSUME NEW p \in Procs, Progress(p)
      PROVE  Quiet \/ PlanCreate(p) \/ Ends(p)
  <2>1. CASE PlanDecide(p) \/ PlanRefused(p)
    <3>1. UNCHANGED << plans, estate >> /\ UNCHANGED ledger  BY <2>1 DEF PlanDecide, PlanRefused, cloud
    <3> QED  BY <1>1, <3>1
  <2>2. CASE PlanMark(p)
    <3>1. PICK i \in 1 .. Len(recs) : i = proc[p].id
      BY <2>2, TypeFacts DEF PlanMark, At, TypeInv, ProcOK, Fits, ProcState, WithCopy
    <3>2. "planned" \in Entries /\ (Touch(i, "planned") \/ (TouchPartly(i, "planned") /\ Lost))
      BY <2>2, <3>1 DEF PlanMark, Account, Entries
    <3>3. PostedAs(i, "planned")  BY <3>2, TouchPosts
    <3>4. UNCHANGED << plans, estate >>  BY <2>2 DEF PlanMark, cloud
    <3> QED  BY <3>3, <3>4 DEF Quiet
  <2> QED  BY <1>5, <2>1, <2>2 DEF Progress, Ends
<1>6. ASSUME NEW c \in Callers, ExecuteAsk(c)
      PROVE  \E k \in 1 .. Len(plans), s \in PlanState : Turns(k, s)
  <2>1. c \in Procs  BY DEF Procs
  <2>2. PICK k \in 1 .. Len(plans) : ExecBegin(c, k) \/ ExecRefused(c, k)
    BY <1>2, <1>6 DEF ExecuteAsk
  <2> QED  BY <2>1, <2>2, BeginTurns
<1> QED  BY <1>3, <1>4, <1>5, <1>6, EndTurns DEF RecStep, PlansMove

Res(k) == ResourceOfRec(plans[k].rec)

\* Without a contended resource: one plan at most has changed it or still may, and what a
\* plan leaves executed is lean.
OneStanding ==
  \A k, l \in 1 .. Len(plans) : Standing(k) /\ Standing(l) /\ Res(k) = Res(l) => k = l
LeanInv == \A k \in 1 .. Len(plans) : plans[k].state \in LeanStates => estate[Res(k)] = "lean"

\* A live claim to an executed saving has a plan that executed it.
ClaimInv ==
  losses = 0 =>
    \A i \in 1 .. Len(recs) :
      Order(savings[i].stage) >= 4 /\ ~ savings[i].lost =>
        \E k \in 1 .. Len(plans) : plans[k].rec = i /\ plans[k].state \in Backing

BackedInv == ExecInv /\ ("contended" \notin past => OneStanding /\ LeanInv) /\ ClaimInv

LEMMA ExecStep ==
  ASSUME TypeInv, ExecInv, Grows, ExecMoved
  PROVE  ExecInv'
<1>1. ASSUME NEW q \in Procs, At(q, "exec")
      PROVE  /\ proc[q].plan \in 1 .. Len(plans) /\ plans[proc[q].plan].state = "executing"
             /\ plans'[proc[q].plan].rec = proc[q].id
  BY <1>1, Executes DEF ExecInv, Grows
<1>2. CASE /\ NoneExecutes
           /\ \A k \in 1 .. Len(plans) : plans[k].state = "executing" => plans'[k].state = "executing"
  <2>1. ASSUME NEW p \in Procs, proc'[p].pc = "exec"
        PROVE  /\ proc'[p] = proc[p] /\ At(p, "exec")
               /\ plans'[proc'[p].plan].state = "executing" /\ plans'[proc'[p].plan].rec = proc'[p].id
    <3>1. proc'[p] = proc[p] /\ At(p, "exec")  BY <1>2, <2>1 DEF NoneExecutes, At
    <3> QED  BY <1>1, <1>2, <3>1
  <2> QED  BY <2>1 DEF ExecInv, At
<1>3. ASSUME NEW c \in Procs, NEW k \in 1 .. Len(plans), ExecBegin(c, k)  PROVE ExecInv'
  <2>1. /\ plans[k].state \in { "approved", "awaiting_approval" } /\ plans'[k].state = "executing"
        /\ \A l \in 1 .. Len(plans) : l # k => plans'[l] = plans[l]
        /\ proc'[c].plan = k /\ proc'[c].id = plans[k].rec
        /\ \A q \in Procs : q # c => proc'[q] = proc[q]
    BY <1>3, ExecBegins
  <2>2. plans'[k].rec = plans[k].rec  BY DEF Grows
  <2>3. ASSUME NEW p \in Procs, p # c, proc'[p].pc = "exec"
        PROVE  /\ proc'[p] = proc[p] /\ At(p, "exec") /\ proc[p].plan # k
               /\ plans'[proc[p].plan].state = "executing" /\ plans'[proc[p].plan].rec = proc[p].id
    <3>1. proc'[p] = proc[p] /\ At(p, "exec")  BY <2>1, <2>3 DEF At
    <3>2. /\ proc[p].plan \in 1 .. Len(plans) /\ plans[proc[p].plan].state = "executing"
          /\ plans'[proc[p].plan].rec = proc[p].id
      BY <1>1, <3>1
    <3>3. proc[p].plan # k  BY <2>1, <3>2
    <3> QED  BY <2>1, <3>1, <3>2, <3>3
  <2>4. ASSUME NEW p \in Procs, proc'[p].pc = "exec"
        PROVE  plans'[proc'[p].plan].state = "executing" /\ plans'[proc'[p].plan].rec = proc'[p].id
    <3>1. CASE p = c  BY <2>1, <2>2, <3>1
    <3>2. CASE p # c  BY <2>3, <2>4, <3>2
    <3> QED  BY <3>1, <3>2
  <2>5. ASSUME NEW p \in Procs, NEW q \in Procs, proc'[p].pc = "exec", proc'[q].pc = "exec",
               proc'[p].plan = proc'[q].plan
        PROVE  p = q
    <3>1. CASE p # c /\ q # c
      <4>1. At(p, "exec") /\ At(q, "exec") /\ proc[p].plan = proc[q].plan  BY <2>3, <2>5, <3>1
      <4> QED  BY <4>1 DEF ExecInv
    <3>2. CASE p = c /\ q # c  BY <2>1, <2>3, <2>5, <3>2
    <3>3. CASE p # c /\ q = c  BY <2>1, <2>3, <2>5, <3>3
    <3> QED  BY <3>1, <3>2, <3>3
  <2> QED  BY <2>4, <2>5 DEF ExecInv, At
<1>4. ASSUME NEW c \in Procs, Ends(c)  PROVE ExecInv'
  <2>1. At(c, "exec")  BY <1>4, EndsAtExec
  <2>2. PICK k \in 1 .. Len(plans) : k = proc[c].plan  BY <2>1, Executes
  <2>3. \A l \in 1 .. Len(plans) : l # k => plans'[l] = plans[l]  BY <1>4, <2>2, EndsEffect
  <2>4. ASSUME NEW p \in Procs, proc'[p].pc = "exec"
        PROVE  /\ proc'[p] = proc[p] /\ At(p, "exec")
               /\ plans'[proc[p].plan].state = "executing" /\ plans'[proc[p].plan].rec = proc[p].id
    <3>1. p # c /\ proc'[p] = proc[p] /\ At(p, "exec")  BY <1>4, <2>4, EndsLeaves DEF At
    <3>2. proc[p].plan # k  BY <2>1, <2>2, <3>1 DEF ExecInv
    <3>3. /\ proc[p].plan \in 1 .. Len(plans) /\ plans[proc[p].plan].state = "executing"
          /\ plans'[proc[p].plan].rec = proc[p].id
      BY <1>1, <3>1
    <3> QED  BY <2>3, <3>1, <3>2, <3>3
  <2> QED  BY <2>4 DEF ExecInv, At
<1> QED  BY <1>2, <1>3, <1>4 DEF ExecMoved

\* The resource of a plan stays the one it was made for.
LEMMA ResKept ==
  ASSUME TypeInv, Grows, NEW k \in 1 .. Len(plans)
  PROVE  Res(k)' = Res(k) /\ plans'[k].rec = plans[k].rec
<1>1. plans[k].rec \in 1 .. Len(recs) /\ plans'[k].rec = plans[k].rec  BY TypeFacts DEF Grows
<1>2. PICK i \in 1 .. Len(recs) : i = plans[k].rec  BY <1>1
<1>3. recs'[i].finding = recs[i].finding  BY DEF Grows, Same
<1> QED  BY <1>1, <1>2, <1>3 DEF Res, ResourceOfRec

LEMMA StandingStep ==
  ASSUME TypeInv, Grows, PlansMove, OneStanding, LeanInv, "contended" \notin past'
  PROVE  OneStanding' /\ LeanInv'
<1>1. Len(plans) \in Nat /\ estate \in [Resources -> Condition]  BY TypeFacts DEF TypeInv, CloudOK
<1>2. \A k \in 1 .. Len(plans) : Res(k)' = Res(k)  BY ResKept
<1>3. CASE Quiet
  <2>1. plans' = plans /\ estate' = estate  BY <1>3 DEF Quiet
  <2>2. OneStanding'  BY <1>2, <2>1 DEF OneStanding, Standing
  <2>3. LeanInv'  BY <1>2, <2>1 DEF LeanInv
  <2> QED  BY <2>2, <2>3
<1>4. ASSUME NEW p \in Procs, PlanCreate(p)  PROVE OneStanding' /\ LeanInv'
  <2>1. /\ proc[p].id \in 1 .. Len(recs) /\ Len(plans') = Len(plans) + 1
        /\ \A k \in 1 .. Len(plans) : plans'[k] = plans[k]
        /\ plans'[Len(plans) + 1].rec = proc[p].id
    BY <1>4, PlanMade
  <2>2. PICK new \in Plan : plans' = Append(plans, new) /\ new.state \in { "approved", "awaiting_approval" }
    BY <1>4, PlanMade
  <2>3. plans \in Seq(Plan)  BY DEF TypeInv, PlansOK
  <2>4. PICK n \in Nat : n = Len(plans)  BY <1>1
  <2>5. plans'[n + 1] = new  BY <2>2, <2>3, <2>4
  <2>6. \A k \in 1 .. Len(plans') : k \in 1 .. n \/ k = n + 1  BY <2>1, <2>4
  <2>7. UNCHANGED estate /\ UNCHANGED recs  BY <1>4 DEF PlanCreate, cloud
  <2>8. Res(n + 1)' = ResourceOfRec(proc[p].id)
    <3>1. plans'[n + 1].rec = proc[p].id  BY <2>1, <2>4
    <3> QED  BY <2>7, <3>1 DEF Res, ResourceOfRec
  <2>9. \A k \in 1 .. n : Standing(k) => Res(k) # ResourceOfRec(proc[p].id)
    <3>1. ~ (\E k \in DOMAIN plans : Standing(k) /\ ResourceOfRec(plans[k].rec) = ResourceOfRec(proc[p].id))
      BY <1>4 DEF PlanCreate, Excuse, If
    <3>2. DOMAIN plans = 1 .. n  BY <2>4, TypeFacts
    <3> QED  BY <3>1, <3>2 DEF Res
  <2>10. \A k \in 1 .. n : (Standing(k)' <=> Standing(k)) /\ Res(k)' = Res(k)
    BY <1>2, <2>1, <2>4 DEF Standing
  <2>11. ASSUME NEW k \in 1 .. Len(plans'), NEW l \in 1 .. Len(plans'),
                Standing(k)', Standing(l)', Res(k)' = Res(l)'
         PROVE  k = l
    <3>1. CASE k \in 1 .. n /\ l \in 1 .. n
      <4>1. Standing(k) /\ Standing(l) /\ Res(k) = Res(l)  BY <2>10, <2>11, <3>1
      <4> QED  BY <2>4, <3>1, <4>1 DEF OneStanding
    <3>2. CASE k \in 1 .. n /\ l = n + 1  BY <2>8, <2>9, <2>10, <2>11, <3>2
    <3>3. CASE k = n + 1 /\ l \in 1 .. n  BY <2>8, <2>9, <2>10, <2>11, <3>3
    <3> QED  BY <2>6, <3>1, <3>2, <3>3
  <2>12. OneStanding'  BY <2>11 DEF OneStanding
  <2>13. ASSUME NEW k \in 1 .. Len(plans'), plans'[k].state \in LeanStates
         PROVE  estate'[Res(k)'] = "lean"
    <3>1. k # n + 1  BY <2>2, <2>5, <2>13 DEF LeanStates
    <3>2. k \in 1 .. n /\ plans[k].state \in LeanStates  BY <2>1, <2>4, <2>6, <2>13, <3>1
    <3> QED  BY <2>4, <2>7, <2>10, <3>2 DEF LeanInv
  <2> QED  BY <2>12, <2>13 DEF LeanInv
<1>5. ASSUME NEW k \in 1 .. Len(plans), NEW s \in PlanState, Turns(k, s)
      PROVE  OneStanding' /\ LeanInv'
  <2>1. /\ Standing(k) /\ Len(plans') = Len(plans) /\ plans'[k].state = s
        /\ \A l \in 1 .. Len(plans) : l # k => plans'[l] = plans[l]
    BY <1>5 DEF Turns, Standing
  <2>2. \A l \in 1 .. Len(plans) : Standing(l)' => Standing(l)  BY <2>1 DEF Standing
  <2>3. OneStanding'
    <3> SUFFICES ASSUME NEW l \in 1 .. Len(plans), NEW m \in 1 .. Len(plans),
                        Standing(l)', Standing(m)', Res(l)' = Res(m)'
                 PROVE  l = m
      BY <2>1 DEF OneStanding
    <3> QED  BY <1>2, <2>2 DEF OneStanding
  <2>4. ASSUME NEW l \in 1 .. Len(plans), plans'[l].state \in LeanStates
        PROVE  estate'[Res(l)] = "lean"
    <3>1. Res(l) \in Resources /\ Res(k) \in Resources
      BY ResourceFacts, TypeFacts DEF Res
    <3>2. CASE UNCHANGED estate /\ (s \in LeanStates => plans[k].state \in LeanStates)
      <4>1. plans[l].state \in LeanStates
        <5>1. CASE l = k  BY <2>1, <2>4, <3>2, <5>1
        <5>2. CASE l # k  BY <2>1, <2>4, <5>2
        <5> QED  BY <5>1, <5>2
      <4> QED  BY <3>2, <4>1 DEF LeanInv
    <3>3. ASSUME NEW c \in Condition, estate' = [estate EXCEPT ![Res(k)] = c],
                 s \in LeanStates => c = "lean"
          PROVE  estate'[Res(l)] = "lean"
      <4>1. CASE l = k  BY <1>1, <2>1, <2>4, <3>1, <3>3, <4>1
      <4>2. CASE l # k
        <5>1. plans[l].state \in LeanStates  BY <2>1, <2>4, <4>2
        <5>2. Standing(l)  BY <5>1 DEF Standing, LeanStates
        <5>3. Res(l) # Res(k)  BY <2>1, <4>2, <5>2 DEF OneStanding
        <5> QED  BY <1>1, <3>1, <3>3, <5>1, <5>3 DEF LeanInv
      <4> QED  BY <4>1, <4>2
    <3> QED  BY <1>5, <3>2, <3>3 DEF Turns, Res
  <2>5. LeanInv'  BY <1>2, <2>1, <2>4 DEF LeanInv
  <2> QED  BY <2>3, <2>5
<1> QED  BY <1>3, <1>4, <1>5 DEF PlansMove

\* What one entry does to a stage.
LEMMA StageEffect ==
  ASSUME TypeInv, NEW i \in 1 .. Len(recs), NEW e \in Entries, NEW unsaved \in SUBSET Ids,
         TouchBut(i, e, unsaved), NEW j \in Ids
  PROVE  savings'[j].stage = savings[j].stage \/ (j = i /\ savings'[j].stage = e)
<1>1. savings[j] \in SavingsRecord  BY DEF TypeInv, LedgerOK
<1>2. /\ Post(savings[j], e).stage = savings[j].stage \/ Post(savings[j], e).stage = e
      /\ MarkLost(savings[j]).stage = savings[j].stage
  BY <1>1, Posting DEF Entries
<1>3. savings'[j] = IF j \in unsaved THEN savings[j]
                    ELSE IF j = i THEN Post(savings[j], e)
                    ELSE IF ~booked[i] /\ j \in recs[i].rivals /\ booked[j] THEN MarkLost(savings[j])
                    ELSE savings[j]
  BY DEF TouchBut, Touched
<1>4. CASE j \in unsaved  BY <1>3, <1>4
<1>5. CASE j \notin unsaved /\ j = i
  <2>1. savings'[j] = Post(savings[j], e)  BY <1>3, <1>5
  <2> QED  BY <1>2, <1>5, <2>1
<1>6. CASE j \notin unsaved /\ j # i
  <2>1. savings'[j] = MarkLost(savings[j]) \/ savings'[j] = savings[j]  BY <1>3, <1>6
  <2> QED  BY <1>2, <2>1
<1> QED  BY <1>4, <1>5, <1>6

LEMMA ClaimHasRec ==
  ASSUME TypeInv, BookInv, NEW i \in Ids, Order(savings[i].stage) >= 4
  PROVE  booked[i] /\ i \in 1 .. Len(recs)
<1>1. \A j \in Ids : j \in Nat /\ j >= 1  BY RecBounds DEF Ids
<1>2. savings[i].stage \in Stages  BY Stage DEF TypeInv, LedgerOK, SavingsRecord
<1>3. Order(savings[i].stage) \in 1 .. 6  BY <1>2, OrderValues DEF Stages
<1>4. Order(savings[i].stage) >= 3  BY <1>3
<1>5. booked[i]  BY <1>4, ClaimIsBooked
<1>6. i <= Len(recs)  BY <1>5 DEF BookInv
<1> QED  BY <1>1, <1>5, <1>6, TypeFacts

LEMMA ClaimStep ==
  ASSUME TypeInv, BookInv, ClaimInv, Grows, PlansMove, losses <= losses', losses' \in Nat,
         Len(recs') <= MaxRecs
  PROVE  ClaimInv'
<1> SUFFICES ASSUME losses' = 0, NEW i \in 1 .. Len(recs'),
                    Order(savings'[i].stage) >= 4, ~ savings'[i].lost
             PROVE  \E l \in 1 .. Len(plans') : plans'[l].rec = i /\ plans'[l].state \in Backing
  BY DEF ClaimInv
<1>1. i \in Ids  BY RecBounds DEF Grows, Ids
<1>2. losses = 0  BY DEF TypeInv, LimitsOK
\* A claim that was there before has its plan, which the step keeps unless it turns it.
<1>3. ASSUME Order(savings[i].stage) >= 4, ~ savings[i].lost
      PROVE  \E l \in 1 .. Len(plans) : plans[l].rec = i /\ plans[l].state \in Backing
    <2>1. i \in 1 .. Len(recs)  BY <1>1, <1>3, ClaimHasRec
    <2> QED  BY <1>2, <1>3, <2>1 DEF ClaimInv
<1>4. ASSUME NEW l \in 1 .. Len(plans), plans[l].rec = i, plans'[l].state \in Backing
      PROVE  \E m \in 1 .. Len(plans') : plans'[m].rec = i /\ plans'[m].state \in Backing
  <2>1. l \in 1 .. Len(plans')  BY TypeFacts DEF Grows
  <2> QED  BY <1>4, <2>1 DEF Grows
<1>5. CASE Quiet
  <2>1. Order(savings[i].stage) >= 4 /\ ~ savings[i].lost
    <3>1. CASE UNCHANGED ledger  BY <3>1 DEF ledger
    <3>2. ASSUME NEW h \in 1 .. Len(recs), PostedAs(h, "planned")
          PROVE  Order(savings[i].stage) >= 4 /\ ~ savings[i].lost
      <4>1. PICK u \in SUBSET Ids : TouchBut(h, "planned", u)  BY <3>2 DEF PostedAs
      <4>2. "planned" \in Entries  BY DEF Entries
      <4>3. savings'[i].stage = savings[i].stage \/ savings'[i].stage = "planned"
        BY <1>1, <4>1, <4>2, StageEffect
      <4>4. ~ savings[i].lost  BY <1>1, <4>1, <4>2, EntryEffect
      <4>5. savings'[i].stage # "planned"  BY OrderValues
      <4> QED  BY <4>3, <4>4, <4>5
    <3> QED  BY <1>5, <3>1, <3>2 DEF Quiet
  <2>2. PICK l \in 1 .. Len(plans) : plans[l].rec = i /\ plans[l].state \in Backing  BY <1>3, <2>1
  <2>3. plans' = plans  BY <1>5 DEF Quiet
  <2> QED  BY <2>2, <2>3
<1>6. ASSUME NEW p \in Procs, PlanCreate(p)
      PROVE  \E l \in 1 .. Len(plans') : plans'[l].rec = i /\ plans'[l].state \in Backing
  <2>1. savings' = savings  BY <1>6 DEF PlanCreate, ledger
  <2>2. PICK l \in 1 .. Len(plans) : plans[l].rec = i /\ plans[l].state \in Backing  BY <1>3, <2>1
  <2>3. plans'[l] = plans[l]  BY <1>6, PlanMade
  <2> QED  BY <1>4, <2>2, <2>3
<1>7. ASSUME NEW k \in 1 .. Len(plans), NEW s \in PlanState, Turns(k, s)
      PROVE  \E l \in 1 .. Len(plans') : plans'[l].rec = i /\ plans'[l].state \in Backing
  <2>1. PICK h \in 1 .. Len(recs) : h = plans[k].rec  BY TypeFacts
  <2>2. /\ plans'[k].state = s
        /\ \A l \in 1 .. Len(plans) : l # k => plans'[l] = plans[l]
    BY <1>7 DEF Turns
  <2>3. CASE UNCHANGED ledger /\ (plans[k].state \in Backing => s \in Backing)
    <3>1. savings' = savings  BY <2>3 DEF ledger
    <3>2. PICK l \in 1 .. Len(plans) : plans[l].rec = i /\ plans[l].state \in Backing
      BY <1>3, <3>1
    <3>3. CASE l = k  BY <1>4, <2>2, <2>3, <3>2, <3>3
    <3>4. CASE l # k  BY <1>4, <2>2, <3>2, <3>4
    <3> QED  BY <3>3, <3>4
  <2>4. CASE Lose(h)
    <3>1. /\ savings'[i].stage = savings[i].stage
          /\ ~ savings[i].lost /\ ~ (i = h /\ booked[h])
      BY <1>1, <2>4, LossEffect
    <3>2. Order(savings[i].stage) >= 4  BY <3>1
    <3>3. booked[i]  BY <1>1, <3>2, ClaimHasRec
    <3>4. PICK l \in 1 .. Len(plans) : plans[l].rec = i /\ plans[l].state \in Backing
      BY <1>3, <3>1, <3>2
    <3>5. l # k  BY <2>1, <3>1, <3>3, <3>4
    <3> QED  BY <1>4, <2>2, <3>4, <3>5
  <2>5. ASSUME s \in Backing, NEW e \in Entries, PostedAs(h, e)
        PROVE  \E l \in 1 .. Len(plans') : plans'[l].rec = i /\ plans'[l].state \in Backing
    <3>1. CASE i = h  BY <1>4, <2>1, <2>2, <2>5, <3>1
    <3>2. CASE i # h
      <4>1. PICK u \in SUBSET Ids : TouchBut(h, e, u)  BY <2>5 DEF PostedAs
      <4>2. savings'[i].stage = savings[i].stage  BY <1>1, <3>2, <4>1, StageEffect
      <4>3. ~ savings[i].lost  BY <1>1, <4>1, EntryEffect
      <4>4. Order(savings[i].stage) >= 4  BY <4>2
      <4>5. PICK l \in 1 .. Len(plans) : plans[l].rec = i /\ plans[l].state \in Backing
        BY <1>3, <4>3, <4>4
      <4>6. l # k  BY <2>1, <3>2, <4>5
      <4> QED  BY <1>4, <2>2, <4>5, <4>6
    <3> QED  BY <3>1, <3>2
  <2> QED  BY <1>7, <2>1, <2>3, <2>4, <2>5 DEF Turns
<1> QED  BY <1>5, <1>6, <1>7 DEF PlansMove

LEMMA BackedStep ==
  ASSUME TypeInv, TypeOK', MoneyInv, BackedInv, Grows, ExecMoved, PlansMove,
         losses <= losses', losses' \in Nat, past \subseteq past'
  PROVE  BackedInv'
<1>1. ExecInv'  BY ExecStep DEF BackedInv
<1>2. Len(recs') <= MaxRecs  BY DEF TypeOK
<1>3. ClaimInv'  BY <1>2, ClaimStep DEF BackedInv, MoneyInv
<1>4. ASSUME "contended" \notin past'  PROVE OneStanding' /\ LeanInv'
  BY <1>4, StandingStep DEF BackedInv
<1> QED  BY <1>1, <1>3, <1>4 DEF BackedInv

LEMMA BackedKept ==
  ASSUME TypeInv, TypeOK', MoneyInv, BackedInv, RecStep
  PROVE  BackedInv'
<1>1. Grows /\ ExecMoved /\ PlansMove  BY StoreGrows, ExecMoves, PlanEffects DEF BackedInv
<1>2. losses <= losses' /\ losses' \in Nat /\ past \subseteq past'  BY LimitsStep DEF LimitsOK
<1> QED  BY <1>1, <1>2, BackedStep

LEMMA BackedInit == Init => BackedInv
<1> SUFFICES ASSUME Init  PROVE BackedInv
  OBVIOUS
<1>1. Len(recs) = 0 /\ Len(plans) = 0  BY DEF Init
<1>2. ExecInv  BY DEF Init, ExecInv, At, Idle
<1>3. OneStanding /\ LeanInv  BY <1>1 DEF OneStanding, LeanInv
<1>4. ClaimInv  BY <1>1 DEF ClaimInv
<1> QED  BY <1>2, <1>3, <1>4 DEF BackedInv

LEMMA BackedStutter ==
  ASSUME BackedInv, UNCHANGED vars
  PROVE  BackedInv'
<1>1. /\ recs' = recs /\ plans' = plans /\ savings' = savings /\ estate' = estate
      /\ proc' = proc /\ losses' = losses /\ past' = past
  BY DEF vars, ledger, cloud
<1>2. ExecInv'  BY <1>1 DEF BackedInv, ExecInv, At
<1>3. (OneStanding' <=> OneStanding) /\ (LeanInv' <=> LeanInv)
  BY <1>1 DEF OneStanding, LeanInv, Standing, Res, ResourceOfRec
<1>4. ClaimInv'  BY <1>1 DEF BackedInv, ClaimInv
<1> QED  BY <1>1, <1>2, <1>3, <1>4 DEF BackedInv

LEMMA Backed == Spec => []BackedInv
<1>1. ASSUME TypeInv, TypeOK', MoneyInv, BackedInv, [Next]_vars  PROVE BackedInv'
  BY <1>1, NextIsStep, BackedKept, BackedStutter
<1> QED  BY <1>1, BackedInit, Types, RecommendationTypes, Money, PTL DEF Spec

LEMMA BackedClaims == TypeInv /\ BackedInv => ClaimsAreBacked
<1> SUFFICES ASSUME TypeInv, BackedInv, losses = 0, "contended" \notin past, NEW i \in DOMAIN recs,
                    Order(savings[i].stage) >= Order("executed"), ~ savings[i].lost
             PROVE  \/ estate[ResourceOfRec(i)] = "lean"
                    \/ \E k \in DOMAIN plans : plans[k].rec = i /\ plans[k].state = "rollback_failed"
  BY DEF ClaimsAreBacked
<1>1. i \in 1 .. Len(recs) /\ DOMAIN plans = 1 .. Len(plans)  BY TypeFacts
<1>2. PICK k \in 1 .. Len(plans) : plans[k].rec = i /\ plans[k].state \in Backing
  BY <1>1, OrderValues DEF BackedInv, ClaimInv
<1>3. CASE plans[k].state \in LeanStates
  <2>1. estate[Res(k)] = "lean"  BY <1>3 DEF BackedInv, LeanInv
  <2> QED  BY <1>2, <2>1 DEF Res
<1>4. CASE plans[k].state = "rollback_failed"  BY <1>1, <1>2, <1>4
<1> QED  BY <1>2, <1>3, <1>4 DEF Backing

\* A saving claimed as executed, and not lost, has its change behind it: the resource is as
\* the plan left it, or a rollback of it gave up half-way.  Two things can break the claim
\* and are named: a ledger write that failed unnoticed, and a plan made for a resource while
\* another plan for it stood (savings.go:105-133, rollback.go:121-136).
THEOREM ClaimsHaveBacking == Spec => []ClaimsAreBacked
BY Types, Backed, BackedClaims, PTL
==============================================================================
