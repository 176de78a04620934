---------------------------- MODULE PlanLifecycle ----------------------------
(***************************************************************************)
(* The domain vocabulary of internal/domain/execute that the orchestration *)
(* reads and writes: the states of an execution plan, the four steps an    *)
(* executor builds, the plan's own executability gate and the rungs of the *)
(* savings ladder.  Everything here is a pure operator; PlanExecution      *)
(* holds the state.                                                        *)
(***************************************************************************)
EXTENDS Integers, Sequences

PlanState ==
  { "draft", "awaiting_approval", "approved", "scheduled", "preflight",
    "executing", "executed", "validating", "validated", "failed",
    "rolling_back", "rolled_back", "rollback_failed", "cancelled" }

\* States Terminal() calls final.
Terminal == { "validated", "rolled_back", "cancelled", "rollback_failed" }

\* (mutant) Cancel accepts a plan that has run.
CancellableTooLate == { "draft", "awaiting_approval", "approved", "scheduled", "executed" }

\* States from which Cancel, Rollback and Validate accept a plan.
Cancellable == { "draft", "awaiting_approval", "approved", "scheduled" }
Reversible  == { "executed", "validating", "validated", "failed" }
Validatable == { "executed", "validating" }

StepState == { "pending", "succeeded", "failed", "skipped" }

\* The forward plan every executor builds: only the third step changes AWS, and
\* a failure of the last one does not stop the plan.
Steps == << "precondition", "snapshot", "mutate", "verify" >>
AbortOnFailure(i) == Steps[i] # "verify"

\* The plan record, without the fields no branch reads.
PlanRecord ==
  [ state    : PlanState,
    steps    : [DOMAIN Steps -> StepState],
    finished : BOOLEAN,    \* FinishedAt is set
    feasible : BOOLEAN,    \* Rollback.Feasible
    dryRun   : BOOLEAN,    \* DryRun
    watched  : BOOLEAN ]   \* Validation.AutoRollbackOn names the critical checks

HasStep(kind) == \E i \in DOMAIN Steps : Steps[i] = kind

\* Plan.Executable: the state gate, and no mutation without a snapshot step.
Executable(p) ==
  /\ p.state \in { "approved", "scheduled" }
  /\ HasStep("mutate") => HasStep("snapshot")

\* The step the execution loop runs after step i: the first later one that has
\* not already succeeded or been skipped; past the last step when there is none.
Todo(steps, i) ==
  { j \in DOMAIN Steps : j > i /\ steps[j] \notin { "succeeded", "skipped" } }

NextStep(steps, i) ==
  IF Todo(steps, i) = {} THEN Len(Steps) + 1
  ELSE CHOOSE j \in Todo(steps, i) : \A k \in Todo(steps, i) : j <= k

-------------------------------------------------------------------------------

Ladder == << "potential", "approved", "planned", "executed", "validated", "realized" >>
SavingsStage == { Ladder[i] : i \in DOMAIN Ladder }
Order(stage) == CHOOSE i \in DOMAIN Ladder : Ladder[i] = stage

SavingsRecord == [ stage : SavingsStage, lost : BOOLEAN ]

\* SavingsRecord.Advance climbs only; SavingsRecord.MarkLost leaves the rung alone.
Advance(s, to) == IF Order(to) > Order(s.stage) THEN [s EXCEPT !.stage = to] ELSE s
\* (mutant) the loss is not set on the copy that is saved.
MarkNothing(s) == s

MarkLost(s)    == [s EXCEPT !.lost = TRUE]

Post(s, entry) == IF entry = "lost" THEN MarkLost(s) ELSE Advance(s, entry)

\* The four-verdict outcome of ValidationResult.Decide.
Verdict == { "success", "partial_success", "failure", "inconclusive" }
===============================================================================
