--------------------------- MODULE Recommendations ---------------------------
(***************************************************************************)
(* The recommendations of one tenant: analysis writes them, people and     *)
(* governance triage them, planning and execution move them on, and the    *)
(* savings records count what they bring.                                  *)
(*                                                                         *)
(* A process is one call of a service method.  What it read stays in       *)
(* proc[p] and may be written back whole after others have written; a read *)
(* or a write of a store is a step, and so is everything a method does      *)
(* between two of them.  The plans are those of PlanExecution seen from     *)
(* afar: one step to begin, one to end.                                     *)
(***************************************************************************)
EXTENDS PlanLifecycle, FiniteSets

CONSTANTS
  Callers,       \* concurrent API calls
  Worker,        \* the automation worker; its lease keeps cycles apart (Lease)
  Findings,      \* what the rules can find wrong: a resource and a way to fix it
  ResourceOf,    \* the resource a finding is about
  Priority,      \* a finding's rank under the priority formula, no two alike
  Saving,        \* its estimated monthly saving
  Answers,       \* what governance may answer: may it be done unattended?
  SparedBySupersede, \* statuses the store's SupersedeStale leaves alone
  MaxRecs,       \* bound: recommendations ever saved
  MaxPlans,      \* bound: plans ever made
  MaxStarts,     \* bound: API calls over a behaviour
  MaxLosses      \* bound: store writes that fail and are only logged

Procs == Callers \cup {Worker}
Resources == { ResourceOf[f] : f \in Findings }

ASSUME RecBounds ==
  /\ MaxRecs \in Nat /\ MaxPlans \in Nat
  /\ MaxStarts \in Nat /\ MaxLosses \in Nat
ASSUME FindingData ==
  /\ IsFiniteSet(Findings)
  /\ Priority \in [Findings -> Nat] /\ Saving \in [Findings -> Nat]
  /\ \A f, g \in Findings : Priority[f] = Priority[g] => f = g
ASSUME OpenIsStale == "open" \notin SparedBySupersede
ASSUME AnswersAreBoolean == Answers \subseteq BOOLEAN
ASSUME Apart == Worker \notin Callers

VARIABLES
  recs,       \* the recommendations, in the order they were saved
  plans,      \* the execution plans
  savings,    \* the savings record of each recommendation
  booked,     \* whether it has one
  estate,     \* each AWS resource as it is: "wasteful" or "lean"
  inventory,  \* the same as discovery last saw it
  proc,       \* what each process is doing
  clock,      \* analyses started: stands for the time
  starts,     \* API calls started
  losses,     \* writes lost
  past        \* history: what has happened that excuses an anomaly

\* The histories.
Excuses ==
  { "mixed",        \* an analysis was scoped, met another one, or could not supersede
    "overwritten",  \* a copy was stored over a status written since it was read
    "misread",      \* a failed read was taken for a zero
    "contended" }   \* a plan was made for a resource that had a standing one

ledger == << savings, booked >>
cloud  == << estate, inventory >>
limits == << clock, starts >>
vars == << recs, plans, ledger, cloud, proc, limits, losses, past >>

Condition == { "wasteful", "lean" }

Status ==
  { "open", "under_review", "scheduled", "executed", "validated", "failed",
    "rolled_back", "superseded", "snoozed", "dismissed" }

\* Status.Terminal.
FinalStatus == { "validated", "rolled_back", "superseded", "dismissed" }

\* What SupersedeStale leaves alone in the two stores.
MemstoreSpares == FinalStatus
PostgresSpares == { "executed", "rolled_back", "superseded", "dismissed", "failed" }

Ids == 1 .. MaxRecs

Rec ==
  [ finding : Findings, status : Status,
    auto    : BOOLEAN,        \* AutoExecutable
    primary : BOOLEAN,        \* CountsTowardTotal: no better alternative is preferred
    rivals  : SUBSET Ids,     \* AlternativeIDs
    born    : 0 .. MaxStarts + 1 ]

Plan ==
  [ rec : Ids, state : PlanState,
    captured : Condition,     \* the state Rollback will restore
    unattended : BOOLEAN,     \* made by the autonomous loop
    alone      : BOOLEAN ]    \* and carried out by it

NewRecord == [ stage |-> "potential", lost |-> FALSE ]

Idle ==
  [ pc |-> "idle", id |-> 0, copy |-> << >>, plan |-> 0, granted |-> FALSE,
    found |-> {}, now |-> 0, born |-> 0, queue |-> {}, spent |-> 0, made |-> 0 ]

Init ==
  /\ recs = << >> /\ plans = << >>
  /\ savings = [i \in Ids |-> NewRecord] /\ booked = [i \in Ids |-> FALSE]
  /\ estate = [r \in Resources |-> "wasteful"]
  /\ inventory = estate
  /\ proc = [p \in Procs |-> Idle]
  /\ clock = 0 /\ starts = 0 /\ losses = 0 /\ past = {}

-------------------------------------------------------------------------------
\* Building blocks.

Become(p, r) == proc' = [proc EXCEPT ![p] = r]
At(p, label) == proc[p].pc = label

\* A call starts; a worker's calls are part of its cycle.
Begins(p) ==
  /\ p \in Callers /\ At(p, "idle")
  /\ starts < MaxStarts /\ starts' = starts + 1

\* A caller returns; a worker goes on with its cycle.
Done(p) ==
  Become(p, IF p \in Callers THEN Idle
            ELSE [proc[p] EXCEPT !.pc = "loop", !.id = 0, !.copy = << >>, !.plan = 0,
                                 !.granted = FALSE])

ResourceOfRec(i) == ResourceOf[recs[i].finding]
\* A plan that has changed its resource or still may.
Standing(k) == plans[k].state \notin { "cancelled", "rolled_back" }

Excuse(set) == past' = past \cup set
If(cond, e) == IF cond THEN { e } ELSE {}

\* RecommendationRepository.Update stores the whole copy.
Overwrites(p) == recs[proc[p].id].status # proc[p].copy.status
WriteBack(p, copy) == recs' = [recs EXCEPT ![proc[p].id] = copy]

\* A write fails, and its error is only logged.
Lost == losses < MaxLosses /\ losses' = losses + 1

-------------------------------------------------------------------------------
\* Discovery brings the inventory up to date.
Discover ==
  /\ inventory # estate
  /\ inventory' = estate
  /\ UNCHANGED << recs, plans, ledger, estate, proc, limits, losses, past >>

-------------------------------------------------------------------------------
\* Analyze.

Analyzing == { p \in Procs : proc[p].pc \in { "supersede", "save" } }

\* LoadInventory and the rules: every finding whose resource looks wasteful.
AnalyzeLoad(c) ==
  /\ Begins(c)
  /\ Len(recs) + Cardinality(Findings) * (1 + Cardinality(Analyzing)) <= MaxRecs
  /\ clock' = clock + 1
  /\ \E scoped \in BOOLEAN :
       /\ Become(c, [Idle EXCEPT !.pc = IF scoped THEN "save" ELSE "supersede",
                       !.found = { f \in Findings : inventory[ResourceOf[f]] = "wasteful" },
                       !.now = clock + 1, !.born = clock + 1])
       /\ Excuse(If(scoped \/ Analyzing # {}, "mixed"))
  /\ UNCHANGED << recs, plans, ledger, cloud, losses >>

\* (mutant) what is still open is spared instead of what is settled.
SupersedeOpenOnly(before) ==
  [i \in DOMAIN recs |->
     IF recs[i].status # "open" /\ recs[i].born < before
     THEN [recs[i] EXCEPT !.status = "superseded"] ELSE recs[i]]

\* SupersedeStale: whatever is not spared and was created before the analysis began.
Superseded(before) ==
  [i \in DOMAIN recs |->
     IF recs[i].status \notin SparedBySupersede /\ recs[i].born < before
     THEN [recs[i] EXCEPT !.status = "superseded"] ELSE recs[i]]

AnalyzeSupersede(c) ==
  /\ At(c, "supersede")
  /\ Become(c, IF proc[c].found = {} THEN Idle
               ELSE [proc[c] EXCEPT !.pc = "save", !.born = clock])
  /\ \/ recs' = Superseded(proc[c].now) /\ UNCHANGED past
     \/ UNCHANGED recs /\ Excuse({ "mixed" })   \* it failed, which is only logged
  /\ UNCHANGED << plans, ledger, cloud, limits, losses >>

\* buildRecommendation, Rank and GroupConflicts: the findings of one resource compete,
\* the one of highest priority is the primary.
Rivals(f, found) == { g \in found \ { f } : ResourceOf[g] = ResourceOf[f] }

\* A finding's place in the ranking.
Rank(f, found) == Cardinality({ g \in found : Priority[g] >= Priority[f] })

\* (mutant) the ranks of the alternatives are taken for their identities.
BatchByRank(n, found, born) ==
  LET ranked(k) == CHOOSE f \in found : Rank(f, found) = k
  IN [k \in 1 .. Cardinality(found) |->
        [ finding |-> ranked(k), status |-> "open", auto |-> FALSE,
          primary |-> \A g \in Rivals(ranked(k), found) : Priority[g] < Priority[ranked(k)],
          rivals  |-> { Rank(g, found) - 1 : g \in Rivals(ranked(k), found) },
          born    |-> born ]]

\* The batch of an analysis, to be saved after n others.
Batch(n, found, born) ==
  LET ranked(k) == CHOOSE f \in found : Rank(f, found) = k
  IN [k \in 1 .. Cardinality(found) |->
        [ finding |-> ranked(k), status |-> "open", auto |-> FALSE,
          primary |-> \A g \in Rivals(ranked(k), found) : Priority[g] < Priority[ranked(k)],
          rivals  |-> { n + Rank(g, found) : g \in Rivals(ranked(k), found) },
          born    |-> born ]]

AnalyzeSave(c) ==
  /\ At(c, "save")
  /\ recs' = recs \o Batch(Len(recs), proc[c].found, proc[c].born)
  /\ Become(c, Idle)
  /\ UNCHANGED << plans, ledger, cloud, limits, losses, past >>

\* SaveBatch fails and so does the call, or the process dies: what was superseded stays so.
AnalyzeFails(c) ==
  /\ proc[c].pc \in { "supersede", "save" }
  /\ Become(c, Idle)
  /\ UNCHANGED << recs, plans, ledger, cloud, limits, losses, past >>

-------------------------------------------------------------------------------
\* Triage: a governance decision on demand, Snooze, Dismiss.

ReadFor(c, label) ==
  /\ Begins(c)
  /\ \E i \in DOMAIN recs : Become(c, [Idle EXCEPT !.pc = label, !.id = i, !.copy = recs[i]])
  /\ UNCHANGED << recs, plans, ledger, cloud, clock, losses, past >>

EvaluateRead(c) == ReadFor(c, "evaluate")
SnoozeRead(c)   == ReadFor(c, "snooze")

EvaluateWrite(c) ==
  /\ At(c, "evaluate")
  /\ \E answer \in Answers : WriteBack(c, [proc[c].copy EXCEPT !.auto = answer])
  /\ Excuse(If(Overwrites(c), "overwritten"))
  /\ Become(c, Idle)
  /\ UNCHANGED << plans, ledger, cloud, limits, losses >>

SnoozeWrite(c) ==
  /\ At(c, "snooze")
  /\ WriteBack(c, [proc[c].copy EXCEPT !.status = "snoozed"])
  /\ Excuse(If(Overwrites(c), "overwritten"))
  /\ Become(c, Idle)
  /\ UNCHANGED << plans, ledger, cloud, limits, losses >>

\* UpdateStatus is one store operation.
Dismiss(c) ==
  /\ Begins(c)
  /\ \E i \in DOMAIN recs : recs' = [recs EXCEPT ![i].status = "dismissed"]
  /\ UNCHANGED << plans, ledger, cloud, proc, clock, losses, past >>

-------------------------------------------------------------------------------
\* PlanExecution.

\* Only a final status is refused.
Plannable(i) == recs[i].status \notin FinalStatus

PlanRead(p, i) ==
  /\ Plannable(i)
  /\ Become(p, [proc[p] EXCEPT !.pc = "plan_decide", !.id = i, !.copy = recs[i]])

\* Governance.Evaluate reads the recommendation afresh and writes it back.
Judge(i, answer) == recs' = [recs EXCEPT ![i].auto = answer]

PlanDecide(p) ==
  /\ At(p, "plan_decide")
  /\ \E answer \in Answers :
       /\ Judge(proc[p].id, answer)
       /\ Become(p, [proc[p] EXCEPT !.pc = "plan_create", !.granted = answer])
  /\ UNCHANGED << plans, ledger, cloud, limits, losses, past >>

\* Prohibited, or a lookup, the session, the executor, the approval request or
\* CreatePlan failed.
PlanRefused(p) ==
  /\ proc[p].pc \in { "plan_decide", "plan_create" }
  /\ Done(p)
  /\ UNCHANGED << recs, plans, ledger, cloud, limits, losses, past >>

\* The executor captures the live resource; an auto_execute decision approves the plan
\* outright, anything else attaches an approval request.
PlanCreate(p) ==
  LET r == ResourceOfRec(proc[p].id) IN
  /\ At(p, "plan_create")
  /\ Len(plans) < MaxPlans
  /\ plans' = Append(plans, [ rec |-> proc[p].id, captured |-> estate[r],
                              state |-> IF proc[p].granted THEN "approved" ELSE "awaiting_approval",
                              unattended |-> p = Worker, alone |-> FALSE ])
  /\ Excuse(If(\E k \in DOMAIN plans : Standing(k) /\ ResourceOfRec(plans[k].rec) = r,
               "contended"))
  /\ Become(p, [proc[p] EXCEPT !.pc = "plan_mark", !.plan = Len(plans) + 1, !.made = @ + 1])
  /\ UNCHANGED << recs, ledger, cloud, limits, losses >>

\* (mutant) the alternatives keep their claim.
TouchedAlone(i, entry, unsaved) == [savings EXCEPT ![i] = Post(@, entry)]

\* touchSavings: a record created by it retires those of the alternatives, each with a
\* write of its own.
Touched(i, entry, unsaved) ==
  [j \in Ids |->
     IF j \in unsaved THEN savings[j]
     ELSE IF j = i THEN Post(savings[j], entry)
     ELSE IF ~booked[i] /\ j \in recs[i].rivals /\ booked[j] THEN MarkLost(savings[j])
     ELSE savings[j]]

TouchBut(i, entry, unsaved) ==
  /\ savings' = Touched(i, entry, unsaved)
  /\ booked' = [booked EXCEPT ![i] = @ \/ i \notin unsaved]

Touch(i, entry) == TouchBut(i, entry, {})

\* One of the records is not saved.
TouchPartly(i, entry) == \E j \in {i} \cup recs[i].rivals : TouchBut(i, entry, {j})

\* (mutant) the loss is forgotten.
LoseNothing(i) == UNCHANGED << savings, booked >>

\* loseSavings
Lose(i) ==
  /\ savings' = IF booked[i] THEN [savings EXCEPT ![i] = MarkLost(@)] ELSE savings
  /\ UNCHANGED booked

\* A failed write of the ledger or of the recommendation is only logged.
Account(ledgerWrite, ledgerWriteFails, recWrite) ==
  \/ ledgerWrite /\ recWrite /\ UNCHANGED losses
  \/ Lost /\ ledgerWriteFails /\ recWrite
  \/ Lost /\ ledgerWrite /\ UNCHANGED recs

\* (mutant) the recommendation's status is left as it was.
PlanMarkNothing(p) ==
  /\ At(p, "plan_mark")
  /\ Touch(proc[p].id, "planned")
  /\ IF p = Worker /\ proc[p].granted
     THEN Become(p, [proc[p] EXCEPT !.pc = "exec_begin"]) ELSE Done(p)
  /\ UNCHANGED << recs, plans, cloud, limits, losses, past >>

\* The savings record, then the copy read before the decision, written back whole.  The
\* loop goes on to execute a plan that needs no approval.
PlanMark(p) ==
  /\ At(p, "plan_mark")
  /\ Account(Touch(proc[p].id, "planned"), TouchPartly(proc[p].id, "planned"),
             WriteBack(p, [proc[p].copy EXCEPT !.status =
                             IF proc[p].granted THEN "scheduled" ELSE "under_review"]))
  /\ Excuse(If(Overwrites(p), "overwritten"))
  /\ IF p = Worker /\ proc[p].granted
     THEN Become(p, [proc[p] EXCEPT !.pc = "exec_begin"]) ELSE Done(p)
  /\ UNCHANGED << plans, cloud, limits >>

-------------------------------------------------------------------------------
\* Execute.  The plan lock keeps two calls of one plan apart (Lease, PlanExecution).

SetPlan(k, state) == plans' = [plans EXCEPT ![k].state = state]

\* reconfirmAuthorization: a fresh decision, or the attached approval, which only a plan
\* made to wait for one has.
ExecBegin(p, k) ==
  LET i == plans[k].rec IN
  /\ plans[k].state \in { "approved", "awaiting_approval" }
  /\ \E answer \in Answers, approved \in BOOLEAN :
       /\ answer \/ (approved /\ plans[k].state = "awaiting_approval")
       /\ Judge(i, answer)
       /\ Become(p, [proc[p] EXCEPT !.pc = "exec", !.plan = k, !.id = i,
                                    !.copy = [recs[i] EXCEPT !.auto = answer]])
  /\ SetPlan(k, "executing")
  /\ UNCHANGED << ledger, cloud, limits, losses, past >>

ExecRefused(p, k) ==
  /\ plans[k].state \in { "approved", "awaiting_approval" }
  /\ SetPlan(k, "failed")
  /\ Judge(plans[k].rec, FALSE)
  /\ Done(p)
  /\ UNCHANGED << ledger, cloud, limits, losses, past >>

\* What the executor finds already done counts as done.  A worker adds the saving to
\* what its cycle has spent.
ExecSucceeds(p) ==
  LET i == proc[p].id IN
  /\ At(p, "exec")
  /\ estate' = [estate EXCEPT ![ResourceOfRec(i)] = "lean"]
  /\ plans' = [plans EXCEPT ![proc[p].plan].state = "executed",
                            ![proc[p].plan].alone = (p = Worker)]
  /\ Account(Touch(i, "executed"), TouchPartly(i, "executed"),
             WriteBack(p, [proc[p].copy EXCEPT !.status = "executed"]))
  /\ Excuse(If(Overwrites(p), "overwritten"))
  /\ IF p \in Callers THEN Become(p, Idle)
     ELSE Become(p, [proc[p] EXCEPT !.pc = "loop", !.id = 0, !.copy = << >>, !.plan = 0,
                       !.granted = FALSE, !.spent = @ + Saving[recs[i].finding]])
  /\ UNCHANGED << inventory, limits >>

\* Preflight failed, or a step failed and nothing could be undone.
ExecFails(p) ==
  /\ At(p, "exec")
  /\ \E c \in { estate[ResourceOfRec(proc[p].id)], "lean" } :
       estate' = [estate EXCEPT ![ResourceOfRec(proc[p].id)] = c]
  /\ SetPlan(proc[p].plan, "failed")
  /\ Lose(proc[p].id)
  /\ Done(p)
  /\ UNCHANGED << recs, inventory, limits, losses, past >>

\* (mutant) what was rolled back is offered again.
ExecRollsBackReopens(p) ==
  LET k == proc[p].plan IN
  /\ At(p, "exec")
  /\ estate' = [estate EXCEPT ![ResourceOfRec(proc[p].id)] = plans[k].captured]
  /\ SetPlan(k, "rolled_back")
  /\ Lose(proc[p].id)
  /\ WriteBack(p, [proc[p].copy EXCEPT !.status = "open"])
  /\ Done(p)
  /\ UNCHANGED << inventory, limits, losses, past >>

\* A step failed and the plan was rolled back, or the rollback failed too.
ExecRollsBack(p) ==
  LET k == proc[p].plan IN
  /\ At(p, "exec")
  /\ estate' = [estate EXCEPT ![ResourceOfRec(proc[p].id)] = plans[k].captured]
  /\ SetPlan(k, "rolled_back")
  /\ Account(Lose(proc[p].id), UNCHANGED ledger,
             WriteBack(p, [proc[p].copy EXCEPT !.status = "rolled_back"]))
  /\ Excuse(If(Overwrites(p), "overwritten"))
  /\ Done(p)
  /\ UNCHANGED << inventory, limits >>

ExecRollbackFails(p) ==
  /\ At(p, "exec")
  /\ \E c \in Condition : estate' = [estate EXCEPT ![ResourceOfRec(proc[p].id)] = c]
  /\ SetPlan(proc[p].plan, "rollback_failed")
  /\ Done(p)
  /\ UNCHANGED << recs, ledger, inventory, limits, losses, past >>

-------------------------------------------------------------------------------
\* What becomes of an executed plan.

\* ClaimPlansAwaitingValidation
Claim(k) ==
  /\ plans[k].state = "executed"
  /\ SetPlan(k, "validating")
  /\ UNCHANGED << recs, ledger, cloud, proc, limits, losses, past >>

Settle(i, status) == recs' = [recs EXCEPT ![i].status = status]

ValidateHolds(k) ==
  /\ plans[k].state \in Validatable
  /\ SetPlan(k, "validated")
  /\ Touch(plans[k].rec, "validated")
  /\ Settle(plans[k].rec, "validated")
  /\ UNCHANGED << cloud, proc, limits, losses, past >>

ValidateFails(k) ==
  /\ plans[k].state \in Validatable
  /\ SetPlan(k, "failed")
  /\ Lose(plans[k].rec)
  /\ Settle(plans[k].rec, "failed")
  /\ UNCHANGED << cloud, proc, limits, losses, past >>

\* Rollback, on demand or by a failed validation.
Rollback(k) ==
  /\ plans[k].state \in Reversible
  /\ SetPlan(k, "rolled_back")
  /\ estate' = [estate EXCEPT ![ResourceOfRec(plans[k].rec)] = plans[k].captured]
  /\ Lose(plans[k].rec)
  /\ Settle(plans[k].rec, "rolled_back")
  /\ UNCHANGED << inventory, proc, limits, losses, past >>

RollbackFails(k) ==
  /\ plans[k].state \in Reversible
  /\ SetPlan(k, "rollback_failed")
  /\ \E c \in Condition : estate' = [estate EXCEPT ![ResourceOfRec(plans[k].rec)] = c]
  /\ UNCHANGED << recs, ledger, inventory, proc, limits, losses, past >>

Cancel(k) ==
  /\ plans[k].state \in Cancellable
  /\ SetPlan(k, "cancelled")
  /\ Lose(plans[k].rec)
  /\ UNCHANGED << recs, cloud, proc, limits, losses, past >>

-------------------------------------------------------------------------------
\* One recommendation call, and the rest of the tenant's life.

PlanAsk(c) ==
  /\ Begins(c)
  /\ \E i \in DOMAIN recs : PlanRead(c, i)
  /\ UNCHANGED << recs, plans, ledger, cloud, clock, losses, past >>

ExecuteAsk(c) ==
  /\ c \in Callers /\ At(c, "idle")
  /\ \E k \in DOMAIN plans : ExecBegin(c, k) \/ ExecRefused(c, k)

Call(c) ==
  \/ AnalyzeLoad(c) \/ AnalyzeSupersede(c) \/ AnalyzeSave(c) \/ AnalyzeFails(c)
  \/ EvaluateRead(c) \/ EvaluateWrite(c) \/ SnoozeRead(c) \/ SnoozeWrite(c) \/ Dismiss(c)
  \/ PlanAsk(c) \/ ExecuteAsk(c)

Progress(p) ==
  \/ PlanDecide(p) \/ PlanRefused(p) \/ PlanCreate(p) \/ PlanMark(p)
  \/ ExecSucceeds(p) \/ ExecFails(p) \/ ExecRollsBack(p) \/ ExecRollbackFails(p)

World ==
  \/ Discover
  \/ \E k \in DOMAIN plans : \/ Claim(k) \/ ValidateHolds(k) \/ ValidateFails(k)
                             \/ Rollback(k) \/ RollbackFails(k) \/ Cancel(k)

Next == World \/ \E c \in Callers : Call(c) \/ Progress(c)

Spec == Init /\ [][Next]_vars

-------------------------------------------------------------------------------
\* Every variable has its type.
TypeOK ==
  /\ recs \in Seq(Rec) /\ Len(recs) <= MaxRecs
  /\ plans \in Seq(Plan) /\ Len(plans) <= MaxPlans
  /\ savings \in [Ids -> SavingsRecord] /\ booked \in [Ids -> BOOLEAN]
  /\ estate \in [Resources -> Condition] /\ inventory \in [Resources -> Condition]
  /\ \A p \in Procs : /\ proc[p].id \in 0 .. Len(recs) /\ proc[p].plan \in 0 .. Len(plans)
                      /\ proc[p].queue \subseteq DOMAIN recs /\ proc[p].found \subseteq Findings
  /\ past \subseteq Excuses

\* A recommendation that was planned, executed, superseded, snoozed or dismissed is never
\* offered as open again, unless a copy read before is stored over it (evaluate.go:65).
StaysClosed ==
  [][\A i \in DOMAIN recs :
       recs[i].status # "open" /\ recs'[i].status = "open" => "overwritten" \in past']_vars

\* Every finding is offered at most once: full analyses that take turns leave no second
\* open recommendation for it (optimization/service.go:209-227).
OfferedOnce ==
  past \cap { "mixed", "overwritten" } = {} =>
    \A i, j \in DOMAIN recs :
      recs[i].status = "open" /\ recs[j].status = "open" /\ recs[i].finding = recs[j].finding
        => i = j

\* Of two alternatives at most one claims its saving, in whatever order they are planned
\* and executed (automation/service.go:230-258).
RivalsClaimOnce ==
  losses = 0 =>
    \A i, j \in DOMAIN recs :
      /\ j \in recs[i].rivals
      /\ Order(savings[i].stage) >= Order("planned") /\ ~savings[i].lost
      /\ Order(savings[j].stage) >= Order("planned") /\ ~savings[j].lost
      => FALSE

\* A saving that is claimed as executed has a changed resource behind it, unless plans for
\* one resource met or a rollback gave up half-way (savings.go:105-133, rollback.go:121-136).
ClaimsAreBacked ==
  losses = 0 /\ "contended" \notin past =>
    \A i \in DOMAIN recs :
      Order(savings[i].stage) >= Order("executed") /\ ~savings[i].lost =>
        \/ estate[ResourceOfRec(i)] = "lean"
        \/ \E k \in DOMAIN plans : plans[k].rec = i /\ plans[k].state = "rollback_failed"
===============================================================================
