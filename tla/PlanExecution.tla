---------------------------- MODULE PlanExecution ----------------------------
(***************************************************************************)
(* The life of one execution plan under internal/application/automation:   *)
(* concurrent calls of Execute, Validate, Rollback and Cancel, and the      *)
(* validation worker's claim, over a plan store whose UpdatePlan overwrites *)
(* the whole record, a lease-based plan lock and the AWS resource.          *)
(*                                                                         *)
(* A call is a process.  Every store read, store write, lock operation and  *)
(* AWS request is one action of it; between two actions any other call may  *)
(* run.  view[c] is the copy of the plan the call holds in memory, and every*)
(* UpdatePlan writes that copy back whole.                                  *)
(***************************************************************************)
EXTENDS PlanLifecycle

CONSTANTS
  Calls,        \* concurrent callers: HTTP requests and workers of any replica
  NoCall,       \* the lock is free
  Orphan,       \* the lock's holder died and its lease has not expired yet
  MaxRetries,   \* Step.MaxRetries
  MaxStarts,    \* bound: calls started over a behaviour
  MaxCrashes,   \* bound: calls that may die in mid-flight
  MaxRefusals,  \* bound: writes the store may fail to make
  Feasibles,    \* values Rollback.Feasible may take in the initial plan
  DryRuns       \* values DryRun may take in the initial plan

ASSUME NamesAssumption == NoCall \notin Calls /\ Orphan \notin Calls /\ NoCall # Orphan
ASSUME BoundsAssumption == 
  MaxRetries \in Nat /\ MaxStarts \in Nat /\ MaxCrashes \in Nat /\ MaxRefusals \in Nat
ASSUME VariantsAssumption == Feasibles \subseteq BOOLEAN /\ DryRuns \subseteq BOOLEAN

VARIABLES
  plan,       \* the stored plan record
  approval,   \* state of the approval request attached to the plan, or "none"
  lock,       \* holder of the plan lock
  changed,    \* the AWS resource differs from the state captured at plan time
  savings,    \* the recommendation's savings record
  recStatus,  \* the recommendation's status
  pc,         \* where each call is
  view,       \* each call's in-memory copy of the plan
  cur,        \* the step each call's loop has reached
  tries,      \* failed attempts at the current step
  todo,       \* savings entries each call has still to post
  recNext,    \* recommendation status each call will write last, or "keep"
  sview,      \* each call's copy of the savings record between Get and Save
  starts,     \* calls started so far
  crashes,    \* calls that have died
  refusals,   \* writes the store has failed to make
  permitted,  \* history: governance has answered auto_execute, or the attached
              \* request has been approved, at least once
  landed      \* history: the AWS resource has been mutated at least once

outside == << approval, changed, savings, recStatus, landed >>
loop    == << cur, tries >>
entries == << todo, recNext, sview >>
faults  == << crashes, refusals >>
vars == << plan, lock, pc, view, permitted, outside, loop, entries, starts, faults >>

ApprovalState == { "none", "pending", "approved", "rejected", "expired" }
RecStatus ==
  { "under_review", "scheduled", "executed", "validated", "failed", "rolled_back" }
LedgerEntry == { "executed", "validated", "realized", "lost" }

\* What Governance.Evaluate may answer: an effect, or an error.
GovernanceAnswer ==
  { "auto_execute", "require_approval", "advisory", "prohibit", "error" }

Labels ==
  { "idle", "reconfirm", "refuse", "promote", "acquire", "reload", "preflight",
    "apply", "record", "finish", "abort", "assume", "rb_acquire", "rb_begin",
    "rb_step", "rb_done", "rb_failed", "claimed", "mark", "judge",
    "auto_rollback", "cancel", "ledger", "ledger_save", "close" }

\* Labels a call passes through only while it holds the plan lock.
Critical ==
  { "reload", "preflight", "apply", "record", "finish", "abort", "assume",
    "rb_begin", "rb_step", "rb_done", "rb_failed" }

NewPlan(state, feasible, dryRun, watched) ==
  [ state |-> state, steps |-> [i \in DOMAIN Steps |-> "pending"],
    finished |-> FALSE, feasible |-> feasible, dryRun |-> dryRun, watched |-> watched ]

Blank == NewPlan("draft", FALSE, FALSE, FALSE)
NewSavings == [ stage |-> "planned", lost |-> FALSE ]

-------------------------------------------------------------------------------
\* PlanExecution leaves one of two plans behind: approved outright by an
\* auto_execute decision, or awaiting the approval it requested.

Init ==
  /\ \E feasible \in Feasibles, dryRun \in DryRuns, watched \in BOOLEAN :
       \/ /\ plan = NewPlan("approved", feasible, dryRun, watched)
          /\ approval = "none"
          /\ recStatus = "scheduled"
          /\ permitted = TRUE
       \/ /\ plan = NewPlan("awaiting_approval", feasible, dryRun, watched)
          /\ approval = "pending"
          /\ recStatus = "under_review"
          /\ permitted = FALSE
  /\ lock = NoCall
  /\ changed = FALSE
  /\ savings = NewSavings
  /\ pc = [c \in Calls |-> "idle"]
  /\ view = [c \in Calls |-> Blank]
  /\ cur = [c \in Calls |-> 0]
  /\ tries = [c \in Calls |-> 0]
  /\ todo = [c \in Calls |-> << >>]
  /\ recNext = [c \in Calls |-> "keep"]
  /\ sview = [c \in Calls |-> NewSavings]
  /\ starts = 0
  /\ crashes = 0
  /\ refusals = 0
  /\ landed = FALSE

-------------------------------------------------------------------------------
\* Building blocks of the actions.

Goto(c, label) == pc' = [pc EXCEPT ![c] = label]
Hold(c, p)     == view' = [view EXCEPT ![c] = p]

As(c, state)      == [view[c] EXCEPT !.state = state]
Closing(c, state) == [view[c] EXCEPT !.state = state, !.finished = TRUE]

\* A store that fails a write.  Most callers log the error and carry on.
Refused == refusals < MaxRefusals /\ refusals' = refusals + 1

\* UpdatePlan where a failure is only logged.
Store(p) ==
  \/ plan' = p /\ UNCHANGED refusals
  \/ Refused /\ UNCHANGED plan

\* The call returns: its locals are gone and its deferred release runs, which is
\* a no-op for a call that holds nothing.
Forget(c) ==
  /\ Goto(c, "idle")
  /\ Hold(c, Blank)
  /\ cur' = [cur EXCEPT ![c] = 0]
  /\ tries' = [tries EXCEPT ![c] = 0]
  /\ todo' = [todo EXCEPT ![c] = << >>]
  /\ recNext' = [recNext EXCEPT ![c] = "keep"]
  /\ sview' = [sview EXCEPT ![c] = NewSavings]

\* (mutant) the deferred release is missing.
ReturnHolding(c) == Forget(c) /\ UNCHANGED lock

\* (mutant) the release deletes the key whoever holds it.
ReturnReleasing(c) == Forget(c) /\ lock' = NoCall

Return(c) ==
  /\ Forget(c)
  /\ lock' = IF lock = c THEN NoCall ELSE lock

\* The call is done with the plan: it posts the given entries to the savings
\* record one by one, then sets the recommendation's status.
Bookkeep(c, posts, status) ==
  /\ Goto(c, "ledger")
  /\ Hold(c, Blank)
  /\ cur' = [cur EXCEPT ![c] = 0]
  /\ tries' = [tries EXCEPT ![c] = 0]
  /\ todo' = [todo EXCEPT ![c] = posts]
  /\ recNext' = [recNext EXCEPT ![c] = status]
  /\ UNCHANGED << lock, sview >>

-------------------------------------------------------------------------------
\* Execute.

LoadForExecute(c) ==
  /\ pc[c] = "idle"
  /\ Goto(c, "reconfirm")
  /\ Hold(c, plan)
  /\ UNCHANGED << plan, lock, permitted, outside, loop, entries, faults >>

\* (mutant) advice is taken for permission.
GrantedOnAdvice(answer) ==
  \/ answer \in { "auto_execute", "advisory" }
  \/ answer = "require_approval" /\ approval = "approved"

\* reconfirmAuthorization: a fresh governance decision, and the attached approval
\* when the decision is short of auto_execute.
Granted(answer) ==
  \/ answer = "auto_execute"
  \/ answer \in { "require_approval", "advisory" } /\ approval = "approved"

Reconfirm(c) ==
  /\ pc[c] = "reconfirm"
  /\ \E answer \in GovernanceAnswer :
       /\ permitted' = (permitted \/ answer = "auto_execute")
       /\ Goto(c, IF Granted(answer) THEN "promote" ELSE "refuse")
  /\ UNCHANGED << plan, lock, view, outside, loop, entries, faults >>

\* The refusal is written over whatever state the plan is in, without the lock.
Refuse(c) ==
  /\ pc[c] = "refuse"
  /\ Store(As(c, "failed"))
  /\ Return(c)
  /\ UNCHANGED << permitted, outside, crashes >>

\* (mutant) the state the plan was loaded in is not looked at.
PromoteAny(c) ==
  /\ pc[c] = "promote"
  /\ plan' = As(c, "approved")
  /\ Hold(c, As(c, "approved"))
  /\ Goto(c, "acquire")
  /\ UNCHANGED << lock, permitted, outside, loop, entries, faults >>

Promote(c) ==
  /\ pc[c] = "promote"
  /\ view[c].state = "awaiting_approval"
  /\ plan' = As(c, "approved")
  /\ Hold(c, As(c, "approved"))
  /\ Goto(c, "acquire")
  /\ UNCHANGED << lock, permitted, outside, loop, entries, faults >>

AlreadyPromoted(c) ==
  /\ pc[c] = "promote"
  /\ view[c].state # "awaiting_approval"
  /\ Executable(view[c])
  /\ Goto(c, "acquire")
  /\ UNCHANGED << plan, lock, view, permitted, outside, loop, entries, faults >>

\* The executability gate, before the lock and again under it.
NotExecutable(c) ==
  /\ \/ pc[c] = "promote" /\ view[c].state # "awaiting_approval" /\ ~Executable(view[c])
     \/ pc[c] = "reload" /\ ~Executable(plan)
  /\ Return(c)
  /\ UNCHANGED << plan, permitted, outside, faults >>

\* (mutant) the conflict answer is ignored.
AcquireAnyway(c) ==
  /\ pc[c] \in { "acquire", "rb_acquire" }
  /\ lock' = c
  /\ Goto(c, IF pc[c] = "acquire" THEN "reload" ELSE "rb_begin")
  /\ UNCHANGED << plan, view, permitted, outside, loop, entries, faults >>

\* Locker.Acquire never waits: it takes a free lock or reports a conflict.
Acquire(c) ==
  /\ pc[c] \in { "acquire", "rb_acquire" }
  /\ lock = NoCall
  /\ lock' = c
  /\ Goto(c, IF pc[c] = "acquire" THEN "reload" ELSE "rb_begin")
  /\ UNCHANGED << plan, view, permitted, outside, loop, entries, faults >>

\* (mutant) a call that could not lock the plan goes on.
AcquireFailsUnnoticed(c) ==
  /\ pc[c] \in { "acquire", "rb_acquire" }
  /\ Goto(c, IF pc[c] = "acquire" THEN "reload" ELSE "rb_begin")
  /\ UNCHANGED << plan, lock, view, permitted, outside, loop, entries, faults >>

\* Held by another call, or the locker's own backend failed.
AcquireFails(c) ==
  /\ pc[c] \in { "acquire", "rb_acquire" }
  /\ Return(c)
  /\ UNCHANGED << plan, permitted, outside, faults >>

Reload(c) ==
  /\ pc[c] = "reload"
  /\ Executable(plan)
  /\ Hold(c, plan)
  /\ Goto(c, "preflight")
  /\ UNCHANGED << plan, lock, permitted, outside, loop, entries, faults >>

\* A plan, recommendation, resource, account, executor or session that cannot be
\* had: the call gives up without touching the plan.
LookupFails(c) ==
  /\ pc[c] \in { "reload", "preflight", "rb_begin" }
  /\ Return(c)
  /\ UNCHANGED << plan, permitted, outside, faults >>

\* failPlan
PreflightFails(c) ==
  /\ pc[c] = "preflight"
  /\ Store(As(c, "failed"))
  /\ Bookkeep(c, << "lost" >>, "keep")
  /\ UNCHANGED << permitted, outside, crashes >>

\* The loop's next stop after step i.
Proceed(c, steps, i) ==
  /\ cur' = [cur EXCEPT ![c] = NextStep(steps, i)]
  /\ Goto(c, IF NextStep(steps, i) \in DOMAIN Steps THEN "apply" ELSE "finish")

Begin(c) ==
  /\ pc[c] = "preflight"
  /\ plan' = As(c, "executing")
  /\ Hold(c, As(c, "executing"))
  /\ Proceed(c, view[c].steps, 0)
  /\ UNCHANGED << lock, permitted, outside, tries, entries, faults >>

\* Executor.Apply: only the mutate step reaches AWS, and not in a dry run.
Mutates(c) == Steps[cur[c]] = "mutate" /\ ~view[c].dryRun

Touch(hit) ==
  /\ changed' = (changed \/ hit)
  /\ landed' = (landed \/ hit)
  /\ UNCHANGED << approval, savings, recStatus >>

\* A request that reports an error may have landed all the same.
MayTouch(c) == \E hit \in { FALSE, Mutates(c) } : Touch(hit)

Outcome(c, state) ==
  /\ Hold(c, [view[c] EXCEPT !.steps[cur[c]] = state])
  /\ tries' = [tries EXCEPT ![c] = 0]
  /\ Goto(c, "record")
  /\ UNCHANGED << plan, lock, permitted, cur, entries, faults >>

ApplyOk(c) ==
  /\ pc[c] = "apply"
  /\ Touch(Mutates(c))
  /\ Outcome(c, "succeeded")

ApplyFails(c) ==
  /\ pc[c] = "apply"
  /\ MayTouch(c)
  /\ Outcome(c, "failed")

ApplyRetries(c) ==
  /\ pc[c] = "apply"
  /\ tries[c] < MaxRetries
  /\ MayTouch(c)
  /\ tries' = [tries EXCEPT ![c] = @ + 1]
  /\ UNCHANGED << plan, lock, pc, view, permitted, cur, entries, faults >>

\* (mutant) every failed step is treated as advisory.
RecordAndContinue(c) ==
  /\ pc[c] = "record"
  /\ Store(view[c])
  /\ Proceed(c, view[c].steps, cur[c])
  /\ UNCHANGED << lock, view, permitted, outside, tries, entries, crashes >>

Record(c) ==
  /\ pc[c] = "record"
  /\ Store(view[c])
  /\ IF view[c].steps[cur[c]] = "failed" /\ AbortOnFailure(cur[c])
     THEN Goto(c, "abort") /\ UNCHANGED cur
     ELSE Proceed(c, view[c].steps, cur[c])
  /\ UNCHANGED << lock, view, permitted, outside, tries, entries, crashes >>

Finish(c) ==
  /\ pc[c] = "finish"
  /\ plan' = Closing(c, "executed")
  /\ Bookkeep(c, << "executed" >>, "executed")
  /\ UNCHANGED << permitted, outside, faults >>

\* (mutant) a failed step returns before the plan is failed and rolled back.
AbortAndReturn(c) ==
  /\ pc[c] = "abort"
  /\ Return(c)
  /\ UNCHANGED << plan, permitted, outside, faults >>

\* failAndRollback
Abort(c) ==
  /\ pc[c] = "abort"
  /\ Store(As(c, "failed"))
  /\ Hold(c, As(c, "failed"))
  /\ Goto(c, "assume")
  /\ UNCHANGED << lock, permitted, outside, loop, entries, crashes >>

AssumeFails(c) ==
  /\ pc[c] = "assume"
  /\ Bookkeep(c, << "lost" >>, "keep")
  /\ UNCHANGED << plan, permitted, outside, faults >>

-------------------------------------------------------------------------------
\* Rollback, on demand or from a failed validation, and the reverse plan it shares
\* with Execute.  A feasible rollback plan has exactly one step, an infeasible one
\* has none.

Reversing == plan.state \in Reversible /\ plan.feasible

LoadForRollback(c) ==
  /\ pc[c] \in { "idle", "auto_rollback" }
  /\ Reversing
  /\ Hold(c, plan)
  /\ Goto(c, "rb_acquire")
  /\ UNCHANGED << plan, lock, permitted, outside, loop, entries, faults >>

AutoRollbackRefused(c) ==
  /\ pc[c] = "auto_rollback"
  /\ ~Reversing
  /\ Return(c)
  /\ UNCHANGED << plan, permitted, outside, faults >>

\* The copy loaded before the lock is the one written back under it.
StartRollback(c) ==
  /\ pc[c] \in { "assume", "rb_begin" }
  /\ Store(As(c, "rolling_back"))
  /\ Hold(c, As(c, "rolling_back"))
  /\ Goto(c, IF view[c].feasible THEN "rb_step" ELSE "rb_done")
  /\ UNCHANGED << lock, permitted, outside, loop, entries, crashes >>

\* Executor.Rollback restores the attributes captured when the plan was built.
Restore(hit) ==
  /\ changed' = (changed /\ ~hit)
  /\ UNCHANGED << approval, savings, recStatus, landed >>

RollbackOk(c) ==
  /\ pc[c] = "rb_step"
  /\ Restore(TRUE)
  /\ Goto(c, "rb_done")
  /\ UNCHANGED << plan, lock, view, permitted, loop, entries, faults >>

\* (mutant) an exhausted rollback step is not counted as failed.
RollbackFailsUnnoticed(c) ==
  /\ pc[c] = "rb_step"
  /\ \E hit \in BOOLEAN : Restore(hit)
  /\ Goto(c, "rb_done")
  /\ UNCHANGED << plan, lock, view, permitted, loop, entries, faults >>

RollbackFails(c) ==
  /\ pc[c] = "rb_step"
  /\ \E hit \in BOOLEAN : Restore(hit)
  /\ Goto(c, "rb_failed")
  /\ UNCHANGED << plan, lock, view, permitted, loop, entries, faults >>

RollbackRetries(c) ==
  /\ pc[c] = "rb_step"
  /\ tries[c] < MaxRetries
  /\ \E hit \in BOOLEAN : Restore(hit)
  /\ tries' = [tries EXCEPT ![c] = @ + 1]
  /\ UNCHANGED << plan, lock, pc, view, permitted, cur, entries, faults >>

FinishRolledBack(c) ==
  /\ pc[c] = "rb_done"
  /\ plan' = Closing(c, "rolled_back")
  /\ Bookkeep(c, << "lost" >>, "rolled_back")
  /\ UNCHANGED << permitted, outside, faults >>

\* (mutant) a failed rollback is not stored.
FinishRollbackUnrecorded(c) ==
  /\ pc[c] = "rb_failed"
  /\ Return(c)
  /\ UNCHANGED << plan, permitted, outside, faults >>

\* A failed rollback leaves the savings record and the recommendation as they are.
FinishRollbackFailed(c) ==
  /\ pc[c] = "rb_failed"
  /\ Store(Closing(c, "rollback_failed"))
  /\ Return(c)
  /\ UNCHANGED << permitted, outside, crashes >>

-------------------------------------------------------------------------------
\* Validate, by a caller or by the validation worker, which first claims the plan.

Claim(c) ==
  /\ pc[c] = "idle"
  /\ plan.state = "executed" /\ plan.finished
  /\ plan' = [plan EXCEPT !.state = "validating"]
  /\ Goto(c, "claimed")
  /\ UNCHANGED << lock, view, permitted, outside, loop, entries, faults >>

LoadForValidate(c) ==
  /\ pc[c] \in { "idle", "claimed" }
  /\ plan.state \in Validatable /\ plan.finished
  /\ Hold(c, plan)
  /\ Goto(c, IF plan.state = "executed" THEN "mark" ELSE "judge")
  /\ UNCHANGED << plan, lock, permitted, outside, loop, entries, faults >>

\* The claimed plan has moved on, or its recommendation or resource cannot be read.
ClaimWasted(c) ==
  /\ pc[c] = "claimed"
  /\ Return(c)
  /\ UNCHANGED << plan, permitted, outside, faults >>

MarkValidating(c) ==
  /\ pc[c] = "mark"
  /\ Store(As(c, "validating"))
  /\ Hold(c, As(c, "validating"))
  /\ Goto(c, "judge")
  /\ UNCHANGED << lock, permitted, outside, loop, entries, crashes >>

\* No verdict takes the plan lock.
JudgeHolding(c) ==
  /\ pc[c] = "judge"
  /\ Store(As(c, "validated"))
  /\ \E verdict \in { "success", "partial_success" } :
       Bookkeep(c, IF verdict = "success" THEN << "validated", "realized" >>
                                          ELSE << "validated" >>, "validated")
  /\ UNCHANGED << permitted, outside, crashes >>

JudgeFailing(c) ==
  /\ pc[c] = "judge"
  /\ ~view[c].watched
  /\ Store(As(c, "failed"))
  /\ Bookkeep(c, << "lost" >>, "failed")
  /\ UNCHANGED << permitted, outside, crashes >>

JudgeAutoRollback(c) ==
  /\ pc[c] = "judge"
  /\ view[c].watched
  /\ Hold(c, Blank)
  /\ Goto(c, "auto_rollback")
  /\ UNCHANGED << plan, lock, permitted, outside, loop, entries, faults >>

JudgeInconclusive(c) ==
  /\ pc[c] = "judge"
  /\ Return(c)
  /\ UNCHANGED << plan, permitted, outside, faults >>

-------------------------------------------------------------------------------
\* Cancel, which takes no lock either.

LoadForCancel(c) ==
  /\ pc[c] = "idle"
  /\ plan.state \in Cancellable
  /\ Hold(c, plan)
  /\ Goto(c, "cancel")
  /\ UNCHANGED << plan, lock, permitted, outside, loop, entries, faults >>

Cancel(c) ==
  /\ pc[c] = "cancel"
  /\ plan' = As(c, "cancelled")
  /\ Bookkeep(c, << "lost" >>, "keep")
  /\ UNCHANGED << permitted, outside, faults >>

-------------------------------------------------------------------------------
\* UpdatePlan failing where the code returns the error instead of logging it.

WriteFails(c) ==
  /\ \/ pc[c] = "promote" /\ view[c].state = "awaiting_approval"
     \/ pc[c] \in { "preflight", "finish", "rb_done", "cancel" }
  /\ Refused
  /\ Return(c)
  /\ UNCHANGED << plan, permitted, outside, crashes >>

\* touchSavings and loseSavings: Get, change the copy, Save the whole record.
LedgerRead(c) ==
  /\ pc[c] = "ledger"
  /\ sview' = [sview EXCEPT ![c] = savings]
  /\ Goto(c, "ledger_save")
  /\ UNCHANGED << plan, lock, view, permitted, outside, loop, todo, recNext, faults >>

LedgerSave(c) ==
  /\ pc[c] = "ledger_save"
  /\ \/ savings' = Post(sview[c], Head(todo[c])) /\ UNCHANGED refusals
     \/ Refused /\ UNCHANGED savings
  /\ todo' = [todo EXCEPT ![c] = Tail(@)]
  /\ sview' = [sview EXCEPT ![c] = NewSavings]
  /\ Goto(c, IF Len(todo[c]) > 1 THEN "ledger" ELSE "close")
  /\ UNCHANGED << plan, lock, view, permitted, approval, changed, recStatus, landed,
                  loop, recNext, crashes >>

Close(c) ==
  /\ pc[c] = "close"
  /\ recStatus' = IF recNext[c] = "keep" THEN recStatus ELSE recNext[c]
  /\ Return(c)
  /\ UNCHANGED << plan, permitted, approval, changed, savings, landed, faults >>

-------------------------------------------------------------------------------
\* The environment.

\* The approval request is voted on, or expires, elsewhere.  A vote reads the request
\* and writes it back whole, without a lock, so racing voters can leave a decided
\* request in any state, pending again included.
Decide ==
  /\ approval # "none"
  /\ approval' \in ApprovalState \ { "none" }
  /\ permitted' = (permitted \/ approval' = "approved")
  /\ UNCHANGED << plan, lock, pc, view, changed, savings, recStatus, landed,
                  loop, entries, starts, faults >>

\* The process dies with the call in flight.  Nobody releases its lock.
Crash(c) ==
  /\ crashes < MaxCrashes
  /\ pc[c] # "idle"
  /\ crashes' = crashes + 1
  /\ Forget(c)
  /\ lock' = IF lock = c THEN Orphan ELSE lock
  /\ UNCHANGED << plan, permitted, outside, starts, refusals >>

\* The lease of a dead holder runs out.
ExpireLease ==
  /\ lock = Orphan
  /\ lock' = NoCall
  /\ UNCHANGED << plan, pc, view, permitted, outside, loop, entries, starts, faults >>

Start(c) ==
  /\ starts < MaxStarts
  /\ pc[c] = "idle"
  /\ \/ LoadForExecute(c) \/ LoadForRollback(c) \/ LoadForValidate(c)
     \/ LoadForCancel(c) \/ Claim(c)
  /\ starts' = starts + 1

Step(c) ==
  \/ Reconfirm(c) \/ Refuse(c) \/ Promote(c) \/ AlreadyPromoted(c) \/ NotExecutable(c)
  \/ Acquire(c) \/ AcquireFails(c) \/ Reload(c) \/ LookupFails(c) \/ PreflightFails(c)
  \/ Begin(c) \/ ApplyOk(c) \/ ApplyFails(c) \/ ApplyRetries(c) \/ Record(c)
  \/ Finish(c) \/ Abort(c) \/ AssumeFails(c)
  \/ LoadForRollback(c) \/ LoadForValidate(c)
  \/ AutoRollbackRefused(c) \/ StartRollback(c) \/ RollbackOk(c) \/ RollbackFails(c)
  \/ RollbackRetries(c) \/ FinishRolledBack(c) \/ FinishRollbackFailed(c)
  \/ ClaimWasted(c) \/ MarkValidating(c) \/ JudgeHolding(c) \/ JudgeFailing(c)
  \/ JudgeAutoRollback(c) \/ JudgeInconclusive(c)
  \/ Cancel(c) \/ WriteFails(c) \/ LedgerRead(c) \/ LedgerSave(c) \/ Close(c)

Continue(c) == pc[c] # "idle" /\ UNCHANGED starts /\ Step(c)

Next ==
  \/ \E c \in Calls : Start(c) \/ Continue(c) \/ Crash(c)
  \/ Decide
  \/ ExpireLease

Spec == Init /\ [][Next]_vars

\* A started call runs until it returns: AWS requests and lookups are bounded by
\* deadlines, retries by a count, and Acquire does not wait.  A dead holder's lease
\* expires.  Nothing obliges a caller to start a call or an approver to decide.
Fairness == (\A c \in Calls : WF_vars(Continue(c))) /\ WF_vars(ExpireLease)

FairSpec == Spec /\ Fairness

-------------------------------------------------------------------------------
\* Every variable has its type; the numbers stay under their bounds.
StoreOK ==
  /\ plan \in PlanRecord
  /\ approval \in ApprovalState
  /\ lock \in Calls \cup { NoCall, Orphan }
  /\ savings \in SavingsRecord
  /\ recStatus \in RecStatus
  /\ changed \in BOOLEAN /\ landed \in BOOLEAN /\ permitted \in BOOLEAN

LocalsOK ==
  /\ pc \in [Calls -> Labels]
  /\ view \in [Calls -> PlanRecord]
  /\ cur \in [Calls -> 0 .. Len(Steps) + 1]
  /\ tries \in [Calls -> 0 .. MaxRetries]
  /\ todo \in [Calls -> Seq(LedgerEntry)]
  /\ recNext \in [Calls -> RecStatus \cup { "keep" }]
  /\ sview \in [Calls -> SavingsRecord]

CountsOK ==
  /\ starts \in 0 .. MaxStarts
  /\ crashes \in 0 .. MaxCrashes
  /\ refusals \in 0 .. MaxRefusals

TypeOK == StoreOK /\ LocalsOK /\ CountsOK

\* A call past the lock and not yet returned from the plan holds the lock.
LockDiscipline == \A c \in Calls : pc[c] \in Critical => lock = c

\* At most one call is applying or reversing a step, whatever mix of Execute,
\* Rollback and auto-rollback runs: service.go promises it for "two calls to Execute
\* for the same plan, or an Execute racing a Rollback".
ExclusiveMutation ==
  \A c, d \in Calls : pc[c] \in { "apply", "rb_step" } /\ pc[d] \in { "apply", "rb_step" }
                        => c = d

\* When a call is at step i, every earlier step whose failure aborts the plan has
\* succeeded, so AWS is never changed without a snapshot (execute.go:161-180), not
\* even by a later attempt that resumes a half-run plan.
SnapshotBeforeMutation ==
  \A c \in Calls : pc[c] = "apply" =>
    \A j \in 1 .. cur[c] - 1 : AbortOnFailure(j) => view[c].steps[j] = "succeeded"

\* AWS has been changed only if governance once answered auto_execute or the attached
\* request was once approved, although every caller may start Execute at any time and
\* stale copies of the plan are written back without the lock (execute.go:54-78).
AuthorizedMutation == landed => permitted

\* A plan stored as executing or rolling_back has a live call at work on it, as long
\* as no process died and no write was lost: no interleaving of error paths leaves a
\* plan half-way with nobody to finish it.
ActiveIsOwned ==
  plan.state \in { "executing", "rolling_back" } /\ crashes = 0 /\ refusals = 0
    => \E c \in Calls : lock = c /\ pc[c] \in Critical

\* A plan once stored as started is never again stored as waiting to start, so it
\* cannot be executed a second time (execute.go:90-100).
Unstarted == { "awaiting_approval", "approved" }
PlanNeverReopens ==
  [][plan.state \notin Unstarted => plan'.state \notin Unstarted]_vars

\* A plan whose mutation has been made is not run from the start again: "two calls to Execute for
\* the same plan" is what the plan lock is for (service.go:195-198).
ExecutesOnce ==
  [][\A c \in Calls : landed /\ pc[c] = "preflight" => pc'[c] # "apply"]_vars

\* A plan reported rolled back really is: the resource is as it was when the plan was
\* built (rollback.go:121-136).
RolledBackMeansRestored == plan.state = "rolled_back" => ~changed

\* The same for plans that have a way back: no retry, stale copy, lost write or racing
\* call lets one be stored as rolled back while AWS carries the change
\* (rollback.go:85-143).
RollbackRestores == plan.feasible => RolledBackMeansRestored

\* The stored state tells whether AWS carries the change: not before execution or
\* after a cancellation, and from executed to validated always, unless a write of the
\* state itself was lost or the plan is a dry run, which is stored as executed all the same.
StateMatchesResource ==
  /\ plan.state \in Unstarted \cup { "cancelled" } => ~changed
  /\ plan.state \in { "executed", "validating", "validated" } /\ ~plan.dryRun /\ refusals = 0
       => changed

\* A saving booked as executed has a mutation behind it (savings.go:32, "the AWS
\* mutation succeeded"), however many calls overlap.  A dry run is left out: it books its
\* saving like any other plan (execute.go:203).
ExecutedMeansLanded ==
  ~plan.dryRun /\ Order(savings.stage) >= Order("executed") => landed

\* Once every call has returned, and nothing died or was lost on the way, the savings
\* record and the recommendation tell the same story as the plan (savings.go:105-133).
Quiet == \A c \in Calls : pc[c] = "idle"
LedgerAgrees ==
  Quiet /\ crashes = 0 /\ refusals = 0 =>
    /\ plan.state = "cancelled" => savings.lost
    /\ plan.state = "rolled_back" => savings.lost /\ recStatus = "rolled_back"
    /\ plan.state = "validated" => /\ ~savings.lost
                                   /\ Order(savings.stage) >= Order("validated")
                                   /\ recStatus = "validated"
    /\ ExecutedMeansLanded

\* The plan lock never stays taken: its holder returns, or its lease runs out.
LockEventuallyFreed == (lock # NoCall) ~> (lock = NoCall)

\* A plan caught executing or rolling back leaves that state, unless its call died or
\* a write was lost.
ExecutionSettles ==
  (plan.state \in { "executing", "rolling_back" })
    ~> (plan.state \notin { "executing", "rolling_back" } \/ crashes > 0 \/ refusals > 0)

-------------------------------------------------------------------------------
\* The abstract view: the lock's living holder, the authorisation on record, and the
\* snapshot step of the plan the holder has in hand.
Holder    == IF lock \in Calls THEN lock ELSE NoCall
Captured  == lock \in Calls /\ view[lock].steps[2] = "succeeded"

Change == INSTANCE SafeChange
            WITH Actors <- Calls, Nobody <- NoCall, holder <- Holder,
                 permitted <- permitted, captured <- Captured, altered <- changed

\* Whatever the four operations, the claims, crashes and stale writes do, the AWS
\* resource is altered only by the lock's holder, with permission and a snapshot, and
\* restored only by the lock's holder.
ImplementsSafeChange == Change!Spec

\* The lock as ports.Locker promises it, and the calls that rely on it.
Mutex == INSTANCE Locker
           WITH Users <- Calls, free <- (lock = NoCall),
                inside <- { c \in Calls : pc[c] \in Critical }

\* Execute and Rollback use the plan lock as ports.Locker means it to be used: a call
\* does what the lock protects only between its own Acquire and its return or its
\* turning to the books, on every path out, errors and deaths included.
ImplementsLocker == Mutex!Spec
===============================================================================
