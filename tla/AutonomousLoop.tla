--------------------------- MODULE AutonomousLoop ---------------------------
(***************************************************************************)
(* ProcessAutonomous, the unattended cycle, over the recommendations it     *)
(* shares with everybody else: it lists candidates once, reads what has     *)
(* been spent once, and then judges, plans and executes them one by one.    *)
(* The worker's lease keeps cycles apart (Lease!FittingCyclesExclude).      *)
(***************************************************************************)
EXTENDS Recommendations

CONSTANTS
  Budget,          \* Automation.MaxMonthlyImpact; the daily slice is the same check again
  MaxConcurrent,   \* Automation.MaxConcurrentChanges, or its default
  MaxPerCycle,     \* maxAutonomousChangesPerCycle
  MaxCycles        \* bound: cycles over a behaviour

ASSUME LoopBounds ==
  /\ Budget \in Nat /\ MaxConcurrent \in Nat \ {0} /\ MaxPerCycle \in Nat /\ MaxCycles \in Nat
  /\ Cardinality(Findings) <= MaxRecs

VARIABLE cycles   \* cycles started

lvars == << vars, cycles >>

\* The tenant was analysed and its recommendations judged, as seeding leaves it.
Judged(a) == [k \in 1 .. Cardinality(Findings) |-> [Batch(0, Findings, 1)[k] EXCEPT !.auto = a[k]]]

LInit ==
  /\ \E a \in [1 .. Cardinality(Findings) -> Answers] : recs = Judged(a)
  /\ plans = << >> /\ savings = [i \in Ids |-> NewRecord] /\ booked = [i \in Ids |-> FALSE]
  /\ estate = [r \in Resources |-> "wasteful"] /\ inventory = estate
  /\ proc = [p \in Procs |-> Idle]
  /\ clock = 1 /\ starts = 0 /\ losses = 0 /\ past = {} /\ cycles = 0

-------------------------------------------------------------------------------
Candidates == { i \in DOMAIN recs : recs[i].status = "open" /\ recs[i].auto }

\* Records of the month, executed at least, and not lost.
Counted(i) ==
  booked[i] /\ Order(savings[i].stage) >= Order("executed") /\ ~savings[i].lost

\* The sum of some savings: their dollars, one by one, are counted.
Dollars(i) == {i} \X (1 .. Saving[recs[i].finding])
SumOf(ids) == Cardinality(UNION { Dollars(i) : i \in ids })

\* (mutant) savings already made do not count.
SpentNothing == 0

\* autonomousSpendSince
Spent == SumOf({ i \in DOMAIN recs : Counted(i) })

\* countInFlightPlans
InFlight ==
  Cardinality({ k \in DOMAIN plans : plans[k].state \in { "preflight", "executing", "validating" } })

own == proc[Worker]

\* The candidates are listed, and then the spending is read; a failed read of it counts
\* as nothing spent.
CycleStart ==
  /\ At(Worker, "idle")
  /\ cycles < MaxCycles /\ cycles' = cycles + 1
  /\ Become(Worker, [Idle EXCEPT !.pc = "spend", !.queue = Candidates])
  /\ UNCHANGED << recs, plans, ledger, cloud, limits, losses, past >>

CycleSpend ==
  /\ At(Worker, "spend")
  /\ \E seen \in { Spent, 0 } :
       /\ Become(Worker, [own EXCEPT !.pc = "loop", !.spent = seen])
       /\ Excuse(If(seen # Spent, "misread"))
  /\ UNCHANGED << recs, plans, ledger, cloud, limits, losses, cycles >>

\* The room the budget leaves; a budget of zero is none.
Affordable(i) == Budget > 0 => own.spent + Saving[recs[i].finding] <= Budget

\* A primary that policy allows, in its window, within the caps; a failed count of the
\* plans in flight counts as none.
Consider(i) ==
  /\ At(Worker, "loop") /\ i \in own.queue /\ own.made < MaxPerCycle
  /\ recs[i].primary
  /\ Affordable(i)
  /\ \E seen \in { InFlight, 0 } :
       seen < MaxConcurrent /\ Excuse(If(InFlight >= MaxConcurrent, "misread"))
  /\ Judge(i, TRUE)
  /\ Become(Worker, [own EXCEPT !.pc = "plan_read", !.id = i, !.queue = @ \ {i}])
  /\ UNCHANGED << plans, ledger, cloud, limits, losses, cycles >>

\* An alternative is passed over unjudged; anything else after a decision that is written
\* back whatever it says, or that failed.
Skip(i) ==
  /\ At(Worker, "loop") /\ i \in own.queue /\ own.made < MaxPerCycle
  /\ \/ UNCHANGED recs
     \/ recs[i].primary /\ \E answer \in Answers : Judge(i, answer)
  /\ Become(Worker, [own EXCEPT !.queue = @ \ {i}])
  /\ UNCHANGED << plans, ledger, cloud, limits, losses, past, cycles >>

CycleEnds ==
  /\ At(Worker, "loop")
  /\ own.queue = {} \/ own.made >= MaxPerCycle
  /\ Become(Worker, Idle)
  /\ UNCHANGED << recs, plans, ledger, cloud, limits, losses, past, cycles >>

LoopPlan ==
  /\ At(Worker, "plan_read")
  /\ \/ PlanRead(Worker, own.id)
     \/ ~Plannable(own.id) /\ Done(Worker)
  /\ UNCHANGED << recs, plans, ledger, cloud, limits, losses, past, cycles >>

LoopExecute ==
  /\ At(Worker, "exec_begin")
  /\ \/ ExecBegin(Worker, own.plan) \/ ExecRefused(Worker, own.plan)
     \/ /\ plans[own.plan].state \notin { "approved", "awaiting_approval" }
        /\ Done(Worker)
        /\ UNCHANGED << recs, plans, ledger, cloud, limits, losses, past >>
  /\ UNCHANGED cycles

Cycle ==
  \/ CycleStart \/ CycleSpend \/ CycleEnds
  \/ \E i \in own.queue : Consider(i) \/ Skip(i)
  \/ LoopPlan \/ LoopExecute

LNext ==
  \/ \E c \in Callers : Call(c) /\ UNCHANGED cycles
  \/ \E p \in Procs : Progress(p) /\ UNCHANGED cycles
  \/ Cycle
  \/ World /\ UNCHANGED cycles

LSpec == LInit /\ [][LNext]_lvars

-------------------------------------------------------------------------------
\* What the loop has changed for this month's money and still claims.
Unattended ==
  { i \in DOMAIN recs : Counted(i) /\ \E k \in DOMAIN plans :
                          /\ plans[k].rec = i /\ plans[k].alone
                          /\ plans[k].state \in { "executed", "validating", "validated" } }

\* The loop never spends more than the budget of the month, although it reads the
\* spending once per cycle and people execute plans of their own meanwhile
\* (autonomous.go:83-99, 169-178), as long as writes arrive and the reading did not fail.
ImpactCapHolds ==
  Budget > 0 /\ losses = 0 /\ "misread" \notin past => SumOf(Unattended) <= Budget

\* The loop makes at most one plan for a recommendation over all its cycles, whatever
\* people do to it in between, as long as writes arrive and nobody's stale copy is stored
\* over a status: it looks only at open ones and planning closes them
\* (autonomous.go:73-75, plan.go:146-153).
PlansOnce ==
  losses = 0 /\ "overwritten" \notin past =>
    \A k, l \in DOMAIN plans :
      plans[k].unattended /\ plans[l].unattended /\ plans[k].rec = plans[l].rec => k = l
===============================================================================
