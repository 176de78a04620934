------------------------- MODULE PlanExecutionProofs -------------------------
(***************************************************************************)
(* Proofs about PlanExecution, for any set of calls and any bounds.        *)
(*                                                                         *)
(* The argument runs in layers, each an inductive invariant that may use   *)
(* the layers before it: the types; what a label says of the lock and of   *)
(* the authorisation; what a label says of the steps already run; who owns *)
(* an active plan; what a rollback has restored; what the booked gains     *)
(* rest on.  Two more layers hold in the behaviours whose calls do not     *)
(* overlap: what the stored state says of the resource, and what the       *)
(* ledger says of the plan.  The step simulations of SafeChange and Locker *)
(* rest on the first three.                                                *)
(***************************************************************************)
EXTENDS PlanExecution, SequenceTheorems, TLAPS

-------------------------------------------------------------------------------
\* The data: plan records, savings records and the order of steps.

\* Every forward plan has four steps (adapters/aws/executor/common.go:206-228).
LEMMA StepsDomain == DOMAIN Steps = 1 .. 4 /\ Len(Steps) = 4
  BY DEF Steps

\* The execution loop moves forward and passes over no step that is still to do
\* (execute.go:148-152).
LEMMA NextStepLemma ==
  ASSUME NEW steps \in [1 .. 4 -> StepState], NEW i \in 0 .. 4
  PROVE  /\ NextStep(steps, i) \in 1 .. 5
         /\ NextStep(steps, i) > i
         /\ \A j \in 1 .. 4 : i < j /\ j < NextStep(steps, i)
                                 => steps[j] \in { "succeeded", "skipped" }
<1> USE StepsDomain
<1> DEFINE T == Todo(steps, i)
<1>1. T \subseteq 1 .. 4
  BY DEF Todo
<1>2. CASE T = {}
  BY <1>2 DEF NextStep, Todo
<1>3. CASE T # {}
  <2>1. \E j \in T : \A k \in T : j <= k
    BY <1>1, <1>3
  <2>2. NextStep(steps, i) \in T /\ \A k \in T : NextStep(steps, i) <= k
    BY <2>1, <1>3 DEF NextStep
  <2> QED
    BY <2>2 DEF Todo
<1> QED
  BY <1>2, <1>3

\* The fields of a plan record that the proofs read.
LEMMA PlanFields ==
  ASSUME NEW p \in PlanRecord
  PROVE  p.state \in PlanState /\ p.steps \in [1 .. 4 -> StepState]
  BY StepsDomain DEF PlanRecord

\* Setting a plan's state, and closing it, yields a plan.
LEMMA StateType ==
  ASSUME NEW p \in PlanRecord, NEW s \in PlanState
  PROVE  /\ [p EXCEPT !.state = s] \in PlanRecord
         /\ [p EXCEPT !.state = s, !.finished = TRUE] \in PlanRecord
  BY DEF PlanRecord

\* The copy a call writes back is a plan.
LEMMA AsType ==
  ASSUME LocalsOK, NEW c \in Calls, NEW s \in PlanState
  PROVE  As(c, s) \in PlanRecord /\ Closing(c, s) \in PlanRecord
<1>1. view[c] \in PlanRecord
  BY DEF LocalsOK
<1> QED
  BY <1>1, StateType DEF As, Closing

\* Recording a step's outcome yields a plan.
LEMMA StepType ==
  ASSUME NEW p \in PlanRecord, NEW i \in 1 .. 4, NEW s \in StepState
  PROVE  [p EXCEPT !.steps[i] = s] \in PlanRecord
<1>1. [p.steps EXCEPT ![i] = s] \in [1 .. 4 -> StepState]
  BY PlanFields
<1>2. [p EXCEPT !.steps[i] = s] = [p EXCEPT !.steps = [p.steps EXCEPT ![i] = s]]
  OBVIOUS
<1> QED
  BY <1>1, <1>2, StepsDomain DEF PlanRecord

\* The records a returned call is left with.
LEMMA BlankType == Blank \in PlanRecord /\ NewSavings \in SavingsRecord
  BY StepsDomain DEF Blank, NewPlan, PlanRecord, PlanState, StepState,
                     NewSavings, SavingsRecord, SavingsStage, Ladder

\* Posting an entry to a savings record yields a savings record (savings.go:105-133).
LEMMA PostType ==
  ASSUME NEW s \in SavingsRecord, NEW e \in LedgerEntry
  PROVE  Post(s, e) \in SavingsRecord
<1>1. CASE e = "lost"
  BY <1>1 DEF Post, MarkLost, SavingsRecord
<1>2. CASE e # "lost"
  <2>1. e \in SavingsStage
    BY <1>2 DEF LedgerEntry, SavingsStage, Ladder
  <2> QED
    BY <1>2, <2>1 DEF Post, Advance, SavingsRecord
<1> QED
  BY <1>1, <1>2

\* The lists of entries the handlers post are never empty.
LEMMA PostLists ==
  /\ << "lost" >> \in Seq(LedgerEntry) /\ << "lost" >> # << >>
  /\ << "executed" >> \in Seq(LedgerEntry) /\ << "executed" >> # << >>
  /\ << "validated" >> \in Seq(LedgerEntry) /\ << "validated" >> # << >>
  /\ << "validated", "realized" >> \in Seq(LedgerEntry)
  /\ << "validated", "realized" >> # << >>
  BY DEF LedgerEntry

\* After one entry of several is posted, some are left.
LEMMA TailLeft ==
  ASSUME NEW S, NEW s \in Seq(S), s # << >>, Len(s) > 1
  PROVE  Tail(s) # << >>
<1> DEFINE n == Len(s)
           m == Len(Tail(s))
<1>1. m = n - 1 /\ n \in Nat /\ n > 1
  BY HeadTailProperties, LenProperties
<1>2. Tail(s) = << >> => m = 0
  BY EmptySeq
<1> HIDE DEF n, m
<1>3. m # 0
  BY <1>1
<1> QED
  BY <1>2, <1>3

-------------------------------------------------------------------------------
\* First layer: types.  A call at a step is at one of the four, and a call that is
\* posting has something to post.

AtStep  == \A c \in Calls : pc[c] \in { "apply", "record" } => cur[c] \in 1 .. 4
Pending == \A c \in Calls : pc[c] \in { "ledger", "ledger_save" } => todo[c] # << >>

LocalsInv == LocalsOK /\ AtStep /\ Pending
FaultsOK  == crashes \in 0 .. MaxCrashes /\ refusals \in 0 .. MaxRefusals
TypeInv   == StoreOK /\ LocalsInv /\ FaultsOK /\ starts \in 0 .. MaxStarts

\* A call that returns or dies leaves well-typed locals.
LEMMA ForgetLocals ==
  ASSUME LocalsInv, NEW c \in Calls, Forget(c)
  PROVE  LocalsInv'
  BY BlankType, StepsDomain, BoundsAssumption
  DEF LocalsInv, LocalsOK, AtStep, Pending, Forget, Goto, Hold, Labels

\* So does a call that turns to its bookkeeping.
LEMMA BookkeepLocals ==
  ASSUME LocalsInv, NEW c \in Calls, NEW posts \in Seq(LedgerEntry), posts # << >>,
         NEW status \in RecStatus \cup { "keep" }, Bookkeep(c, posts, status)
  PROVE  LocalsInv'
  BY BlankType, StepsDomain, BoundsAssumption
  DEF LocalsInv, LocalsOK, AtStep, Pending, Bookkeep, Goto, Hold, Labels

\* So does a call that moves on outside the step loop and the ledger.
LEMMA GotoLocals ==
  ASSUME LocalsInv, NEW c \in Calls, NEW p \in PlanRecord,
         NEW label \in Labels \ { "apply", "record", "ledger", "ledger_save" },
         Goto(c, label), Hold(c, p) \/ UNCHANGED view, UNCHANGED << loop, entries >>
  PROVE  LocalsInv'
  BY DEF LocalsInv, LocalsOK, AtStep, Pending, Goto, Hold, loop, entries

\* So does the loop on its way to the next step.
LEMMA ProceedLocals ==
  ASSUME LocalsInv, NEW c \in Calls, NEW p \in PlanRecord, NEW i \in 0 .. 4,
         Proceed(c, p.steps, i), Hold(c, p) \/ UNCHANGED view,
         UNCHANGED << tries, entries >>
  PROVE  LocalsInv'
<1>1. p.steps \in [1 .. 4 -> StepState]
  BY PlanFields
<1>2. NextStep(p.steps, i) \in 1 .. 5
  BY <1>1, NextStepLemma
<1>3. LocalsOK'
  <2>1. pc' \in [Calls -> Labels] /\ cur' \in [Calls -> 0 .. Len(Steps) + 1]
    BY <1>2, StepsDomain DEF LocalsInv, LocalsOK, Proceed, Goto, Labels
  <2>2. view' \in [Calls -> PlanRecord]
    BY DEF LocalsInv, LocalsOK, Hold
  <2> QED
    BY <2>1, <2>2 DEF LocalsInv, LocalsOK, entries
<1>4. AtStep' /\ Pending'
  BY <1>2, StepsDomain DEF LocalsInv, LocalsOK, AtStep, Pending, Proceed, Goto, entries
<1> QED
  BY <1>3, <1>4 DEF LocalsInv

\* And the loop when a step has an outcome.
LEMMA OutcomeLocals ==
  ASSUME LocalsInv, NEW c \in Calls, pc[c] = "apply",
         NEW s \in StepState, Outcome(c, s)
  PROVE  LocalsInv'
<1>1. [view[c] EXCEPT !.steps[cur[c]] = s] \in PlanRecord
  BY StepType DEF LocalsInv, LocalsOK, AtStep
<1>2. LocalsOK'
  BY <1>1, BoundsAssumption
  DEF LocalsInv, LocalsOK, Outcome, Goto, Hold, Labels, entries
<1>3. AtStep' /\ Pending'
  BY DEF LocalsInv, LocalsOK, AtStep, Pending, Outcome, Goto, entries
<1> QED
  BY <1>2, <1>3 DEF LocalsInv

\* Every step of a call in flight keeps the types.
LEMMA StepTypes ==
  ASSUME TypeInv, NEW c \in Calls, Step(c)
  PROVE  LocalsInv' /\ StoreOK' /\ FaultsOK'
<1> DEFINE Typed == LocalsInv' /\ StoreOK' /\ FaultsOK'
<1> USE DEF TypeInv
<1>1. ASSUME Reconfirm(c) PROVE Typed
  <2>1. LocalsInv'
    BY <1>1, GotoLocals DEF Reconfirm, LocalsInv, LocalsOK, StoreOK, Labels
  <2>2. StoreOK' /\ FaultsOK'
    BY <1>1, BoundsAssumption
    DEF Reconfirm, outside, faults, LocalsInv, StoreOK, FaultsOK
  <2> QED
    BY <2>1, <2>2
<1>2. ASSUME Refuse(c) PROVE Typed
  <2>1. LocalsInv'
    BY <1>2, ForgetLocals DEF Refuse, Return
  <2>2. StoreOK' /\ FaultsOK'
    BY <1>2, AsType, BoundsAssumption
    DEF Refuse, Refused, Store, Return, outside, LocalsInv, StoreOK, FaultsOK, PlanState
  <2> QED
    BY <2>1, <2>2
<1>3. ASSUME Promote(c) PROVE Typed
  <2>1. LocalsInv'
    BY <1>3, AsType, GotoLocals DEF Promote, LocalsInv, LocalsOK, StoreOK, Labels, PlanState
  <2>2. StoreOK' /\ FaultsOK'
    BY <1>3, AsType, BoundsAssumption
    DEF Promote, outside, faults, LocalsInv, StoreOK, FaultsOK, PlanState
  <2> QED
    BY <2>1, <2>2
<1>4. ASSUME AlreadyPromoted(c) PROVE Typed
  <2>1. LocalsInv'
    BY <1>4, GotoLocals DEF AlreadyPromoted, LocalsInv, LocalsOK, StoreOK, Labels
  <2>2. StoreOK' /\ FaultsOK'
    BY <1>4, BoundsAssumption
    DEF AlreadyPromoted, outside, faults, LocalsInv, StoreOK, FaultsOK
  <2> QED
    BY <2>1, <2>2
<1>5. ASSUME NotExecutable(c) PROVE Typed
  <2>1. LocalsInv'
    BY <1>5, ForgetLocals DEF NotExecutable, Return
  <2>2. StoreOK' /\ FaultsOK'
    BY <1>5, BoundsAssumption
    DEF NotExecutable, Return, outside, faults, LocalsInv, StoreOK, FaultsOK
  <2> QED
    BY <2>1, <2>2
<1>6. ASSUME Acquire(c) PROVE Typed
  <2>1. LocalsInv'
    <3>1. CASE pc[c] = "acquire"
      BY <1>6, <3>1, GotoLocals DEF LocalsInv, LocalsOK, Acquire, Labels, StoreOK
    <3>2. CASE pc[c] = "rb_acquire"
      BY <1>6, <3>2, GotoLocals DEF LocalsInv, LocalsOK, Acquire, Labels, StoreOK
    <3> QED
      BY <1>6, <3>1, <3>2 DEF Acquire
  <2>2. StoreOK' /\ FaultsOK'
    BY <1>6, BoundsAssumption
    DEF Acquire, outside, faults, LocalsInv, StoreOK, FaultsOK
  <2> QED
    BY <2>1, <2>2
<1>7. ASSUME AcquireFails(c) PROVE Typed
  <2>1. LocalsInv'
    BY <1>7, ForgetLocals DEF AcquireFails, Return
  <2>2. StoreOK' /\ FaultsOK'
    BY <1>7, BoundsAssumption
    DEF AcquireFails, Return, outside, faults, LocalsInv, StoreOK, FaultsOK
  <2> QED
    BY <2>1, <2>2
<1>8. ASSUME Reload(c) PROVE Typed
  <2>1. LocalsInv'
    BY <1>8, GotoLocals DEF Reload, LocalsInv, LocalsOK, StoreOK, Labels
  <2>2. StoreOK' /\ FaultsOK'
    BY <1>8, BoundsAssumption
    DEF Reload, outside, faults, LocalsInv, StoreOK, FaultsOK
  <2> QED
    BY <2>1, <2>2
<1>9. ASSUME LookupFails(c) PROVE Typed
  <2>1. LocalsInv'
    BY <1>9, ForgetLocals DEF LookupFails, Return
  <2>2. StoreOK' /\ FaultsOK'
    BY <1>9, BoundsAssumption
    DEF LookupFails, Return, outside, faults, LocalsInv, StoreOK, FaultsOK
  <2> QED
    BY <2>1, <2>2
<1>10. ASSUME PreflightFails(c) PROVE Typed
  <2>1. LocalsInv'
    BY <1>10, BookkeepLocals, PostLists DEF PreflightFails, RecStatus
  <2>2. StoreOK' /\ FaultsOK'
    BY <1>10, AsType, BoundsAssumption
    DEF PreflightFails, Refused, Store, outside, Bookkeep, LocalsInv, StoreOK, FaultsOK,
        PlanState
  <2> QED
    BY <2>1, <2>2
<1>11. ASSUME Begin(c) PROVE Typed
  <2>1. LocalsInv'
    <3>1. As(c, "executing") \in PlanRecord
      BY AsType DEF LocalsInv, PlanState
    <3>2. view[c] \in PlanRecord
      BY DEF LocalsInv, LocalsOK
    <3>3. As(c, "executing").steps = view[c].steps
      BY <3>2 DEF PlanRecord, As
    <3> QED
      BY <1>11, <3>1, <3>3, ProceedLocals DEF Begin
  <2>2. StoreOK' /\ FaultsOK'
    BY <1>11, AsType, BoundsAssumption
    DEF Begin, outside, faults, LocalsInv, StoreOK, FaultsOK, PlanState
  <2> QED
    BY <2>1, <2>2
<1>12. ASSUME ApplyOk(c) PROVE Typed
  <2>1. LocalsInv'
    BY <1>12, OutcomeLocals DEF ApplyOk, StepState
  <2>2. StoreOK' /\ FaultsOK'
    BY <1>12, BoundsAssumption
    DEF ApplyOk, Touch, faults, Outcome, Mutates, LocalsInv, StoreOK, FaultsOK
  <2> QED
    BY <2>1, <2>2
<1>13. ASSUME ApplyFails(c) PROVE Typed
  <2>1. LocalsInv'
    BY <1>13, OutcomeLocals DEF ApplyFails, StepState
  <2>2. StoreOK' /\ FaultsOK'
    BY <1>13, BoundsAssumption
    DEF ApplyFails, Touch, MayTouch, faults, Outcome, Mutates, LocalsInv, StoreOK,
        FaultsOK
  <2> QED
    BY <2>1, <2>2
<1>14. ASSUME ApplyRetries(c) PROVE Typed
  <2>1. LocalsInv'
    BY <1>14, BoundsAssumption
    DEF ApplyRetries, LocalsInv, LocalsOK, AtStep, Pending, entries
  <2>2. StoreOK' /\ FaultsOK'
    BY <1>14, BoundsAssumption
    DEF ApplyRetries, Touch, MayTouch, faults, Mutates, LocalsInv, StoreOK, FaultsOK
  <2> QED
    BY <2>1, <2>2
<1>15. ASSUME Record(c) PROVE Typed
  <2>1. LocalsInv'
    <3>1. view[c] \in PlanRecord /\ cur[c] \in 1 .. 4
      BY <1>15 DEF Record, LocalsInv, LocalsOK, AtStep
    <3>2. CASE Proceed(c, view[c].steps, cur[c])
      BY <1>15, <3>1, <3>2, ProceedLocals DEF Record
    <3>3. CASE Goto(c, "abort") /\ UNCHANGED cur
      BY <1>15, <3>1, <3>3, GotoLocals DEF Record, loop, Labels
    <3> QED
      BY <1>15, <3>2, <3>3 DEF Record
  <2>2. StoreOK' /\ FaultsOK'
    BY <1>15, BoundsAssumption
    DEF Record, Refused, Store, outside, LocalsInv, LocalsOK, StoreOK, FaultsOK
  <2> QED
    BY <2>1, <2>2
<1>16. ASSUME Finish(c) PROVE Typed
  <2>1. LocalsInv'
    BY <1>16, BookkeepLocals, PostLists DEF Finish, RecStatus
  <2>2. StoreOK' /\ FaultsOK'
    BY <1>16, AsType, BoundsAssumption
    DEF Finish, outside, faults, Bookkeep, LocalsInv, StoreOK, FaultsOK, PlanState
  <2> QED
    BY <2>1, <2>2
<1>17. ASSUME Abort(c) PROVE Typed
  <2>1. LocalsInv'
    BY <1>17, AsType, GotoLocals DEF Abort, LocalsInv, LocalsOK, StoreOK, Labels, PlanState
  <2>2. StoreOK' /\ FaultsOK'
    BY <1>17, AsType, BoundsAssumption
    DEF Abort, Refused, Store, outside, LocalsInv, StoreOK, FaultsOK, PlanState
  <2> QED
    BY <2>1, <2>2
<1>18. ASSUME AssumeFails(c) PROVE Typed
  <2>1. LocalsInv'
    BY <1>18, BookkeepLocals, PostLists DEF AssumeFails, RecStatus
  <2>2. StoreOK' /\ FaultsOK'
    BY <1>18, BoundsAssumption
    DEF AssumeFails, outside, faults, Bookkeep, LocalsInv, StoreOK, FaultsOK
  <2> QED
    BY <2>1, <2>2
<1>19. ASSUME LoadForRollback(c) PROVE Typed
  <2>1. LocalsInv'
    BY <1>19, GotoLocals DEF LoadForRollback, LocalsInv, LocalsOK, StoreOK, Labels
  <2>2. StoreOK' /\ FaultsOK'
    BY <1>19, BoundsAssumption
    DEF LoadForRollback, outside, faults, LocalsInv, StoreOK, FaultsOK
  <2> QED
    BY <2>1, <2>2
<1>20. ASSUME LoadForValidate(c) PROVE Typed
  <2>1. LocalsInv'
    BY <1>20, GotoLocals DEF LoadForValidate, LocalsInv, LocalsOK, StoreOK, Labels
  <2>2. StoreOK' /\ FaultsOK'
    BY <1>20, BoundsAssumption
    DEF LoadForValidate, outside, faults, LocalsInv, StoreOK, FaultsOK
  <2> QED
    BY <2>1, <2>2
<1>21. ASSUME AutoRollbackRefused(c) PROVE Typed
  <2>1. LocalsInv'
    BY <1>21, ForgetLocals DEF AutoRollbackRefused, Return
  <2>2. StoreOK' /\ FaultsOK'
    BY <1>21, BoundsAssumption
    DEF AutoRollbackRefused, Return, outside, faults, LocalsInv, StoreOK, FaultsOK
  <2> QED
    BY <2>1, <2>2
<1>22. ASSUME StartRollback(c) PROVE Typed
  <2>1. LocalsInv'
    BY <1>22, AsType, GotoLocals DEF StartRollback, LocalsInv, LocalsOK, StoreOK, Labels,
        PlanState
  <2>2. StoreOK' /\ FaultsOK'
    BY <1>22, AsType, BoundsAssumption
    DEF StartRollback, Refused, Store, outside, LocalsInv, StoreOK, FaultsOK, PlanState
  <2> QED
    BY <2>1, <2>2
<1>23. ASSUME RollbackOk(c) PROVE Typed
  <2>1. LocalsInv'
    BY <1>23, GotoLocals DEF RollbackOk, LocalsInv, LocalsOK, StoreOK, Labels
  <2>2. StoreOK' /\ FaultsOK'
    BY <1>23, BoundsAssumption
    DEF RollbackOk, Restore, faults, LocalsInv, StoreOK, FaultsOK
  <2> QED
    BY <2>1, <2>2
<1>24. ASSUME RollbackFails(c) PROVE Typed
  <2>1. LocalsInv'
    BY <1>24, GotoLocals DEF RollbackFails, LocalsInv, LocalsOK, StoreOK, Labels
  <2>2. StoreOK' /\ FaultsOK'
    BY <1>24, BoundsAssumption
    DEF RollbackFails, Restore, faults, LocalsInv, StoreOK, FaultsOK
  <2> QED
    BY <2>1, <2>2
<1>25. ASSUME RollbackRetries(c) PROVE Typed
  <2>1. LocalsInv'
    BY <1>25, BoundsAssumption
    DEF RollbackRetries, LocalsInv, LocalsOK, AtStep, Pending, entries
  <2>2. StoreOK' /\ FaultsOK'
    BY <1>25, BoundsAssumption
    DEF RollbackRetries, Restore, faults, LocalsInv, StoreOK, FaultsOK
  <2> QED
    BY <2>1, <2>2
<1>26. ASSUME FinishRolledBack(c) PROVE Typed
  <2>1. LocalsInv'
    BY <1>26, BookkeepLocals, PostLists DEF FinishRolledBack, RecStatus
  <2>2. StoreOK' /\ FaultsOK'
    BY <1>26, AsType, BoundsAssumption
    DEF FinishRolledBack, outside, faults, Bookkeep, LocalsInv, StoreOK, FaultsOK,
        PlanState
  <2> QED
    BY <2>1, <2>2
<1>27. ASSUME FinishRollbackFailed(c) PROVE Typed
  <2>1. LocalsInv'
    BY <1>27, ForgetLocals DEF FinishRollbackFailed, Return
  <2>2. StoreOK' /\ FaultsOK'
    BY <1>27, AsType, BoundsAssumption
    DEF FinishRollbackFailed, Refused, Store, Return, outside, LocalsInv, StoreOK,
        FaultsOK, PlanState
  <2> QED
    BY <2>1, <2>2
<1>28. ASSUME ClaimWasted(c) PROVE Typed
  <2>1. LocalsInv'
    BY <1>28, ForgetLocals DEF ClaimWasted, Return
  <2>2. StoreOK' /\ FaultsOK'
    BY <1>28, BoundsAssumption
    DEF ClaimWasted, Return, outside, faults, LocalsInv, StoreOK, FaultsOK
  <2> QED
    BY <2>1, <2>2
<1>29. ASSUME MarkValidating(c) PROVE Typed
  <2>1. LocalsInv'
    BY <1>29, AsType, GotoLocals DEF MarkValidating, LocalsInv, LocalsOK, StoreOK, Labels,
        PlanState
  <2>2. StoreOK' /\ FaultsOK'
    BY <1>29, AsType, BoundsAssumption
    DEF MarkValidating, Refused, Store, outside, LocalsInv, StoreOK, FaultsOK, PlanState
  <2> QED
    BY <2>1, <2>2
<1>30. ASSUME JudgeHolding(c) PROVE Typed
  <2>1. LocalsInv'
    BY <1>30, BookkeepLocals, PostLists DEF JudgeHolding, RecStatus
  <2>2. StoreOK' /\ FaultsOK'
    BY <1>30, AsType, BoundsAssumption
    DEF JudgeHolding, Refused, Store, outside, Bookkeep, LocalsInv, StoreOK, FaultsOK,
        PlanState
  <2> QED
    BY <2>1, <2>2
<1>31. ASSUME JudgeFailing(c) PROVE Typed
  <2>1. LocalsInv'
    BY <1>31, BookkeepLocals, PostLists DEF JudgeFailing, RecStatus
  <2>2. StoreOK' /\ FaultsOK'
    BY <1>31, AsType, BoundsAssumption
    DEF JudgeFailing, Refused, Store, outside, Bookkeep, LocalsInv, StoreOK, FaultsOK,
        PlanState
  <2> QED
    BY <2>1, <2>2
<1>32. ASSUME JudgeAutoRollback(c) PROVE Typed
  <2>1. LocalsInv'
    BY <1>32, GotoLocals, BlankType DEF JudgeAutoRollback, Labels
  <2>2. StoreOK' /\ FaultsOK'
    BY <1>32, BoundsAssumption
    DEF JudgeAutoRollback, outside, faults, LocalsInv, StoreOK, FaultsOK
  <2> QED
    BY <2>1, <2>2
<1>33. ASSUME JudgeInconclusive(c) PROVE Typed
  <2>1. LocalsInv'
    BY <1>33, ForgetLocals DEF JudgeInconclusive, Return
  <2>2. StoreOK' /\ FaultsOK'
    BY <1>33, BoundsAssumption
    DEF JudgeInconclusive, Return, outside, faults, LocalsInv, StoreOK, FaultsOK
  <2> QED
    BY <2>1, <2>2
<1>34. ASSUME Cancel(c) PROVE Typed
  <2>1. LocalsInv'
    BY <1>34, BookkeepLocals, PostLists DEF Cancel, RecStatus
  <2>2. StoreOK' /\ FaultsOK'
    BY <1>34, AsType, BoundsAssumption
    DEF Cancel, outside, faults, Bookkeep, LocalsInv, StoreOK, FaultsOK, PlanState
  <2> QED
    BY <2>1, <2>2
<1>35. ASSUME WriteFails(c) PROVE Typed
  <2>1. LocalsInv'
    BY <1>35, ForgetLocals DEF WriteFails, Return
  <2>2. StoreOK' /\ FaultsOK'
    BY <1>35, BoundsAssumption
    DEF WriteFails, Refused, Return, outside, LocalsInv, StoreOK, FaultsOK
  <2> QED
    BY <2>1, <2>2
<1>36. ASSUME LedgerRead(c) PROVE Typed
  <2>1. LocalsInv'
    BY <1>36 DEF LedgerRead, LocalsInv, LocalsOK, AtStep, Pending, StoreOK, Goto, Labels, loop
  <2>2. StoreOK' /\ FaultsOK'
    BY <1>36, BoundsAssumption
    DEF LedgerRead, outside, faults, LocalsInv, StoreOK, FaultsOK
  <2> QED
    BY <2>1, <2>2
<1>37. ASSUME LedgerSave(c) PROVE Typed
  <2>1. todo[c] \in Seq(LedgerEntry) /\ todo[c] # << >>
    BY <1>37 DEF LedgerSave, LocalsInv, LocalsOK, Pending
  <2>2. LocalsInv'
    <3>1. LocalsOK'
      BY <1>37, <2>1, BlankType DEF LedgerSave, LocalsInv, LocalsOK, Goto, Labels, loop
    <3>2. AtStep'
      BY <1>37 DEF LedgerSave, LocalsInv, LocalsOK, AtStep, Goto, loop
    <3>3. Len(todo[c]) > 1 => Tail(todo[c]) # << >>
      BY <2>1, TailLeft
    <3>4. Pending'
      BY <1>37, <2>1, <3>3 DEF LedgerSave, LocalsInv, LocalsOK, Pending, Goto
    <3> QED
      BY <3>1, <3>2, <3>4 DEF LocalsInv
  <2>3. Post(sview[c], Head(todo[c])) \in SavingsRecord
    BY <2>1, PostType DEF LocalsInv, LocalsOK
  <2>4. StoreOK' /\ FaultsOK'
    BY <1>37, <2>3, BoundsAssumption DEF LedgerSave, Refused, StoreOK, FaultsOK
  <2> QED
    BY <2>2, <2>4
<1>38. ASSUME Close(c) PROVE Typed
  <2>1. LocalsInv'
    BY <1>38, ForgetLocals DEF Close, Return
  <2>2. StoreOK' /\ FaultsOK'
    BY <1>38 DEF Close, Return, StoreOK, LocalsInv, LocalsOK, FaultsOK, faults
  <2> QED
    BY <2>1, <2>2
<1> QED
  BY <1>1, <1>2, <1>3, <1>4, <1>5, <1>6, <1>7, <1>8, <1>9, <1>10, <1>11, <1>12, <1>13,
      <1>14, <1>15, <1>16, <1>17, <1>18, <1>19, <1>20, <1>21, <1>22, <1>23, <1>24, <1>25,
      <1>26, <1>27, <1>28, <1>29, <1>30, <1>31, <1>32, <1>33, <1>34, <1>35, <1>36, <1>37,
      <1>38 DEF Step
\* The first read of a call keeps the types.
LEMMA StartTypes ==
  ASSUME TypeInv, NEW c \in Calls, Start(c)
  PROVE  LocalsInv' /\ StoreOK' /\ FaultsOK'
<1> USE DEF TypeInv
<1>1. plan \in PlanRecord /\ Labels \ { "apply", "record", "ledger", "ledger_save" } # {}
  BY DEF StoreOK, Labels
<1>2. CASE LoadForExecute(c)
  BY <1>1, <1>2, GotoLocals DEF LoadForExecute, Labels, StoreOK, FaultsOK, outside, faults
<1>3. CASE LoadForRollback(c)
  BY <1>1, <1>3, GotoLocals DEF LoadForRollback, Labels, StoreOK, FaultsOK, outside, faults
<1>4. CASE LoadForValidate(c)
  BY <1>1, <1>4, GotoLocals DEF LoadForValidate, Labels, StoreOK, FaultsOK, outside, faults
<1>5. CASE LoadForCancel(c)
  BY <1>1, <1>5, GotoLocals DEF LoadForCancel, Labels, StoreOK, FaultsOK, outside, faults
<1>6. CASE Claim(c)
  <2>1. [plan EXCEPT !.state = "validating"] \in PlanRecord
    BY <1>1, StateType DEF PlanState
  <2>2. LocalsInv'
    BY <1>1, <1>6, GotoLocals DEF Claim, Labels
  <2> QED
    BY <1>6, <2>1, <2>2 DEF Claim, StoreOK, FaultsOK, outside, faults
<1> QED
  BY <1>2, <1>3, <1>4, <1>5, <1>6 DEF Start

\* Every step of the system keeps the types.
LEMMA TypeStep == TypeInv /\ [Next]_vars => TypeInv'
<1> SUFFICES ASSUME TypeInv, [Next]_vars PROVE TypeInv'
  OBVIOUS
<1>1. ASSUME NEW c \in Calls, Start(c) PROVE TypeInv'
  <2>1. starts' \in 0 .. MaxStarts
    BY <1>1, BoundsAssumption DEF Start, TypeInv
  <2> QED
    BY <1>1, <2>1, StartTypes DEF TypeInv
<1>2. ASSUME NEW c \in Calls, Continue(c) PROVE TypeInv'
  BY <1>2, StepTypes DEF Continue, TypeInv
<1>3. ASSUME NEW c \in Calls, Crash(c) PROVE TypeInv'
  <2>1. LocalsInv'
    BY <1>3, ForgetLocals DEF Crash, TypeInv
  <2>2. StoreOK' /\ FaultsOK' /\ starts' \in 0 .. MaxStarts
    BY <1>3, BoundsAssumption DEF Crash, TypeInv, StoreOK, FaultsOK, outside
  <2> QED
    BY <2>1, <2>2 DEF TypeInv
<1>4. CASE Decide
  BY <1>4
  DEF Decide, TypeInv, LocalsInv, LocalsOK, AtStep, Pending, StoreOK, FaultsOK,
      ApprovalState, loop, entries, faults
<1>5. CASE ExpireLease
  BY <1>5
  DEF ExpireLease, TypeInv, LocalsInv, LocalsOK, AtStep, Pending, StoreOK, FaultsOK,
      outside, loop, entries, faults
<1>6. CASE UNCHANGED vars
  BY <1>6
  DEF vars, TypeInv, LocalsInv, LocalsOK, AtStep, Pending, StoreOK, FaultsOK,
      outside, loop, entries, faults
<1> QED
  BY <1>1, <1>2, <1>3, <1>4, <1>5, <1>6 DEF Next

\* The plan PlanExecution leaves behind is well typed.
LEMMA TypeInit == Init => TypeInv
<1> SUFFICES ASSUME Init PROVE TypeInv
  OBVIOUS
<1>1. \A f, d, w \in BOOLEAN : \A s \in PlanState : NewPlan(s, f, d, w) \in PlanRecord
  BY StepsDomain DEF NewPlan, PlanRecord, StepState
<1>2. StoreOK
  <2>1. PICK f \in Feasibles, d \in DryRuns, w \in BOOLEAN :
          \/ plan = NewPlan("approved", f, d, w)
          \/ plan = NewPlan("awaiting_approval", f, d, w)
    BY DEF Init
  <2>2. plan \in PlanRecord
    BY <1>1, <2>1, VariantsAssumption DEF PlanState
  <2>3. /\ approval \in ApprovalState
        /\ recStatus \in RecStatus
        /\ permitted \in BOOLEAN
    BY DEF Init, ApprovalState, RecStatus
  <2> QED
    BY <2>2, <2>3, BlankType DEF Init, StoreOK
<1>3. LocalsInv
  BY BlankType, StepsDomain, BoundsAssumption
  DEF Init, LocalsInv, LocalsOK, AtStep, Pending, Labels
<1>4. FaultsOK /\ starts \in 0 .. MaxStarts
  BY BoundsAssumption DEF Init, FaultsOK
<1> QED
  BY <1>2, <1>3, <1>4 DEF TypeInv

\* The first layer holds in every reachable state.
LEMMA TypeAlways == Spec => []TypeInv
  BY TypeInit, TypeStep, PTL DEF Spec

\* Whatever the number of calls, retries, crashes and refused writes, the plan store,
\* the lock, the ledger and every call's locals keep their types, and the counts stay
\* under their bounds.
THEOREM TypeCorrect == Spec => []TypeOK
<1>1. TypeInv => TypeOK
  BY DEF TypeInv, TypeOK, LocalsInv, FaultsOK, CountsOK
<1> QED
  BY <1>1, TypeAlways, PTL

-------------------------------------------------------------------------------
\* Second layer: what a label says of the lock and of the authorisation.  LockDiscipline
\* is inductive as it stands; a call past reconfirmAuthorization carries a permission
\* that no later event takes back.

Cleared == { "promote", "acquire", "reload", "preflight", "apply", "record" }

AuthInv ==
  /\ approval = "approved" => permitted
  /\ \A c \in Calls : pc[c] \in Cleared => permitted
  /\ landed => permitted

LabelInv == LockDiscipline /\ AuthInv

\* A call moves on, and neither enters the region its new label belongs to nor touches
\* what the region is about.
LEMMA MoveLabel ==
  ASSUME TypeInv, LabelInv, NEW c \in Calls, NEW label \in Labels, Goto(c, label),
         label \in Critical => pc[c] \in Critical,
         label \in Cleared => pc[c] \in Cleared,
         UNCHANGED << lock, permitted, approval, landed >>
  PROVE  LabelInv'
  BY DEF TypeInv, LocalsInv, LocalsOK, LabelInv, LockDiscipline, AuthInv, Goto

\* A call ends and gives up the lock, to nobody or to its own ghost.
LEMMA EndLabel ==
  ASSUME TypeInv, LabelInv, NEW c \in Calls, Forget(c), NEW free,
         lock' = IF lock = c THEN free ELSE lock,
         UNCHANGED << permitted, approval, landed >>
  PROVE  LabelInv'
<1>1. pc' = [pc EXCEPT ![c] = "idle"]
  BY DEF Forget, Goto
<1>2. LockDiscipline'
  BY <1>1 DEF TypeInv, LocalsInv, LocalsOK, LabelInv, LockDiscipline, Critical
<1>3. AuthInv'
  BY <1>1 DEF TypeInv, LocalsInv, LocalsOK, LabelInv, AuthInv, Cleared
<1> QED
  BY <1>2, <1>3 DEF LabelInv

\* A call turns to its bookkeeping, which no region covers.
LEMMA BookkeepLabel ==
  ASSUME TypeInv, LabelInv, NEW c \in Calls, NEW posts, NEW status,
         Bookkeep(c, posts, status), UNCHANGED << permitted, approval, landed >>
  PROVE  LabelInv'
  BY MoveLabel DEF Bookkeep, Labels, Critical, Cleared

\* The loop moves to the next step, or to its end, from inside the loop.
LEMMA ProceedLabel ==
  ASSUME TypeInv, LabelInv, NEW c \in Calls, NEW steps, NEW i, Proceed(c, steps, i),
         pc[c] \in Critical \cap Cleared, UNCHANGED << lock, permitted, approval, landed >>
  PROVE  LabelInv'
<1>1. CASE Goto(c, "apply")
  BY <1>1, MoveLabel DEF Labels
<1>2. CASE Goto(c, "finish")
  BY <1>2, MoveLabel DEF Labels, Critical, Cleared
<1> QED
  BY <1>1, <1>2 DEF Proceed

\* Every step of a call in flight keeps the second layer.
LEMMA StepLabels ==
  ASSUME TypeInv, LabelInv, NEW c \in Calls, Step(c)
  PROVE  LabelInv'
<1>1. ASSUME Reconfirm(c) PROVE LabelInv'
  <2>1. PICK answer \in GovernanceAnswer :
          /\ permitted' = (permitted \/ answer = "auto_execute")
          /\ Goto(c, IF Granted(answer) THEN "promote" ELSE "refuse")
    BY <1>1 DEF Reconfirm
  <2>2. Granted(answer) => permitted'
    BY <1>1, <2>1 DEF Reconfirm, Granted, outside, LabelInv, AuthInv
  <2>3. permitted => permitted'
    BY <1>1, <2>1 DEF Reconfirm, outside
  <2>4. \E label \in { "promote", "refuse" } :
          /\ pc' = [pc EXCEPT ![c] = label]
          /\ label = "promote" => permitted'
    BY <2>1, <2>2 DEF Goto
  <2>5. LockDiscipline'
    BY <1>1, <2>4
    DEF Reconfirm, TypeInv, LocalsInv, LocalsOK, LabelInv, LockDiscipline, Critical
  <2>6. AuthInv'
    BY <1>1, <2>3, <2>4
    DEF Reconfirm, TypeInv, LocalsInv, LocalsOK, LabelInv, AuthInv, Cleared, outside
  <2> QED
    BY <2>5, <2>6 DEF LabelInv
<1>2. ASSUME Refuse(c) PROVE LabelInv'
  BY <1>2, EndLabel DEF Refuse, Return, outside
<1>3. ASSUME Promote(c) PROVE LabelInv'
  BY <1>3, MoveLabel DEF Promote, outside, Labels, Critical, Cleared
<1>4. ASSUME AlreadyPromoted(c) PROVE LabelInv'
  BY <1>4, MoveLabel DEF AlreadyPromoted, outside, Labels, Critical, Cleared
<1>5. ASSUME NotExecutable(c) PROVE LabelInv'
  BY <1>5, EndLabel DEF NotExecutable, Return, outside
<1>6. ASSUME Acquire(c) PROVE LabelInv'
  <2>1. \E label \in { "reload", "rb_begin" } :
          /\ pc' = [pc EXCEPT ![c] = label]
          /\ label \in Cleared => pc[c] \in Cleared
    BY <1>6 DEF Acquire, Goto, Cleared
  <2>2. lock = NoCall /\ lock' = c
    BY <1>6 DEF Acquire
  <2>3. LockDiscipline'
    BY <2>1, <2>2, NamesAssumption
    DEF TypeInv, LocalsInv, LocalsOK, LabelInv, LockDiscipline
  <2>4. AuthInv'
    BY <1>6, <2>1
    DEF Acquire, TypeInv, LocalsInv, LocalsOK, LabelInv, AuthInv, outside
  <2> QED
    BY <2>3, <2>4 DEF LabelInv
<1>7. ASSUME AcquireFails(c) PROVE LabelInv'
  BY <1>7, EndLabel DEF AcquireFails, Return, outside
<1>8. ASSUME Reload(c) PROVE LabelInv'
  BY <1>8, MoveLabel DEF Reload, outside, Labels, Critical, Cleared
<1>9. ASSUME LookupFails(c) PROVE LabelInv'
  BY <1>9, EndLabel DEF LookupFails, Return, outside
<1>10. ASSUME PreflightFails(c) PROVE LabelInv'
  BY <1>10, BookkeepLabel DEF PreflightFails, outside
<1>11. ASSUME Begin(c) PROVE LabelInv'
  BY <1>11, ProceedLabel DEF Begin, outside, Labels, Critical, Cleared
<1>12. ASSUME ApplyOk(c) PROVE LabelInv'
  <2>1. pc' = [pc EXCEPT ![c] = "record"] /\ pc[c] = "apply"
    BY <1>12 DEF ApplyOk, Outcome, Goto
  <2>2. UNCHANGED << lock, permitted, approval >>
    BY <1>12 DEF ApplyOk, Outcome, Touch
  <2>3. permitted
    BY <2>1 DEF LabelInv, AuthInv, Cleared
  <2>4. LockDiscipline'
    BY <2>1, <2>2
    DEF TypeInv, LocalsInv, LocalsOK, LabelInv, LockDiscipline, Critical
  <2>5. AuthInv'
    BY <2>2, <2>3 DEF AuthInv
  <2> QED
    BY <2>4, <2>5 DEF LabelInv
<1>13. ASSUME ApplyFails(c) PROVE LabelInv'
  <2>1. pc' = [pc EXCEPT ![c] = "record"] /\ pc[c] = "apply"
    BY <1>13 DEF ApplyFails, Outcome, Goto
  <2>2. UNCHANGED << lock, permitted, approval >>
    BY <1>13 DEF ApplyFails, Outcome, MayTouch, Touch
  <2>3. permitted
    BY <2>1 DEF LabelInv, AuthInv, Cleared
  <2>4. LockDiscipline'
    BY <2>1, <2>2
    DEF TypeInv, LocalsInv, LocalsOK, LabelInv, LockDiscipline, Critical
  <2>5. AuthInv'
    BY <2>2, <2>3 DEF AuthInv
  <2> QED
    BY <2>4, <2>5 DEF LabelInv
<1>14. ASSUME ApplyRetries(c) PROVE LabelInv'
  <2>1. UNCHANGED << pc, lock, permitted, approval >> /\ (landed' => permitted)
    BY <1>14 DEF ApplyRetries, MayTouch, Touch, LabelInv, AuthInv, Cleared
  <2> QED
    BY <2>1 DEF LabelInv, LockDiscipline, AuthInv
<1>15. ASSUME Record(c) PROVE LabelInv'
  <2>1. CASE Goto(c, "abort")
    BY <1>15, <2>1, MoveLabel DEF Record, outside, Labels, Critical, Cleared
  <2>2. CASE Proceed(c, view[c].steps, cur[c])
    BY <1>15, <2>2, ProceedLabel DEF Record, outside, Critical, Cleared
  <2> QED
    BY <1>15, <2>1, <2>2 DEF Record
<1>16. ASSUME Finish(c) PROVE LabelInv'
  BY <1>16, BookkeepLabel DEF Finish, outside
<1>17. ASSUME Abort(c) PROVE LabelInv'
  BY <1>17, MoveLabel DEF Abort, outside, Labels, Critical, Cleared
<1>18. ASSUME AssumeFails(c) PROVE LabelInv'
  BY <1>18, BookkeepLabel DEF AssumeFails, outside
<1>19. ASSUME LoadForRollback(c) PROVE LabelInv'
  BY <1>19, MoveLabel DEF LoadForRollback, outside, Labels, Critical, Cleared
<1>20. ASSUME LoadForValidate(c) PROVE LabelInv'
  <2>1. CASE Goto(c, "mark")
    BY <1>20, <2>1, MoveLabel DEF LoadForValidate, outside, Labels, Critical, Cleared
  <2>2. CASE Goto(c, "judge")
    BY <1>20, <2>2, MoveLabel DEF LoadForValidate, outside, Labels, Critical, Cleared
  <2> QED
    BY <1>20, <2>1, <2>2 DEF LoadForValidate
<1>21. ASSUME AutoRollbackRefused(c) PROVE LabelInv'
  BY <1>21, EndLabel DEF AutoRollbackRefused, Return, outside
<1>22. ASSUME StartRollback(c) PROVE LabelInv'
  <2>1. CASE Goto(c, "rb_step")
    BY <1>22, <2>1, MoveLabel DEF StartRollback, outside, Labels, Critical, Cleared
  <2>2. CASE Goto(c, "rb_done")
    BY <1>22, <2>2, MoveLabel DEF StartRollback, outside, Labels, Critical, Cleared
  <2> QED
    BY <1>22, <2>1, <2>2 DEF StartRollback
<1>23. ASSUME RollbackOk(c) PROVE LabelInv'
  BY <1>23, MoveLabel DEF RollbackOk, Restore, Labels, Critical, Cleared
<1>24. ASSUME RollbackFails(c) PROVE LabelInv'
  BY <1>24, MoveLabel DEF RollbackFails, Restore, Labels, Critical, Cleared
<1>25. ASSUME RollbackRetries(c) PROVE LabelInv'
  BY <1>25 DEF RollbackRetries, Restore, LabelInv, LockDiscipline, AuthInv
<1>26. ASSUME FinishRolledBack(c) PROVE LabelInv'
  BY <1>26, BookkeepLabel DEF FinishRolledBack, outside
<1>27. ASSUME FinishRollbackFailed(c) PROVE LabelInv'
  BY <1>27, EndLabel DEF FinishRollbackFailed, Return, outside
<1>28. ASSUME ClaimWasted(c) PROVE LabelInv'
  BY <1>28, EndLabel DEF ClaimWasted, Return, outside
<1>29. ASSUME MarkValidating(c) PROVE LabelInv'
  BY <1>29, MoveLabel DEF MarkValidating, outside, Labels, Critical, Cleared
<1>30. ASSUME JudgeHolding(c) PROVE LabelInv'
  BY <1>30, BookkeepLabel DEF JudgeHolding, outside
<1>31. ASSUME JudgeFailing(c) PROVE LabelInv'
  BY <1>31, BookkeepLabel DEF JudgeFailing, outside
<1>32. ASSUME JudgeAutoRollback(c) PROVE LabelInv'
  BY <1>32, MoveLabel DEF JudgeAutoRollback, outside, Labels, Critical, Cleared
<1>33. ASSUME JudgeInconclusive(c) PROVE LabelInv'
  BY <1>33, EndLabel DEF JudgeInconclusive, Return, outside
<1>34. ASSUME Cancel(c) PROVE LabelInv'
  BY <1>34, BookkeepLabel DEF Cancel, outside
<1>35. ASSUME WriteFails(c) PROVE LabelInv'
  BY <1>35, EndLabel DEF WriteFails, Return, outside
<1>36. ASSUME LedgerRead(c) PROVE LabelInv'
  BY <1>36, MoveLabel DEF LedgerRead, outside, Labels, Critical, Cleared
<1>37. ASSUME LedgerSave(c) PROVE LabelInv'
  <2>1. CASE Goto(c, "ledger")
    BY <1>37, <2>1, MoveLabel DEF LedgerSave, Labels, Critical, Cleared
  <2>2. CASE Goto(c, "close")
    BY <1>37, <2>2, MoveLabel DEF LedgerSave, Labels, Critical, Cleared
  <2> QED
    BY <1>37, <2>1, <2>2 DEF LedgerSave
<1>38. ASSUME Close(c) PROVE LabelInv'
  BY <1>38, EndLabel DEF Close, Return
<1> QED
  BY <1>1, <1>2, <1>3, <1>4, <1>5, <1>6, <1>7, <1>8, <1>9, <1>10, <1>11, <1>12, <1>13,
      <1>14, <1>15, <1>16, <1>17, <1>18, <1>19, <1>20, <1>21, <1>22, <1>23, <1>24, <1>25,
      <1>26, <1>27, <1>28, <1>29, <1>30, <1>31, <1>32, <1>33, <1>34, <1>35, <1>36, <1>37,
      <1>38
  DEF Step

\* So does every step of the system.
LEMMA LabelStep == TypeInv /\ LabelInv /\ [Next]_vars => LabelInv'
<1> SUFFICES ASSUME TypeInv, LabelInv, [Next]_vars PROVE LabelInv'
  OBVIOUS
<1>1. ASSUME NEW c \in Calls, Start(c) PROVE LabelInv'
  <2>1. CASE LoadForExecute(c)
    BY <2>1, MoveLabel DEF LoadForExecute, outside, Labels, Critical, Cleared
  <2>2. CASE LoadForRollback(c)
    BY <2>2, MoveLabel DEF LoadForRollback, outside, Labels, Critical, Cleared
  <2>3. CASE LoadForValidate(c)
    <3>1. CASE Goto(c, "mark")
      BY <2>3, <3>1, MoveLabel DEF LoadForValidate, outside, Labels, Critical, Cleared
    <3>2. CASE Goto(c, "judge")
      BY <2>3, <3>2, MoveLabel DEF LoadForValidate, outside, Labels, Critical, Cleared
    <3> QED
      BY <2>3, <3>1, <3>2 DEF LoadForValidate
  <2>4. CASE LoadForCancel(c)
    BY <2>4, MoveLabel DEF LoadForCancel, outside, Labels, Critical, Cleared
  <2>5. CASE Claim(c)
    BY <2>5, MoveLabel DEF Claim, outside, Labels, Critical, Cleared
  <2> QED
    BY <1>1, <2>1, <2>2, <2>3, <2>4, <2>5 DEF Start
<1>2. ASSUME NEW c \in Calls, Continue(c) PROVE LabelInv'
  BY <1>2, StepLabels DEF Continue
<1>3. ASSUME NEW c \in Calls, Crash(c) PROVE LabelInv'
  BY <1>3, EndLabel DEF Crash, outside
<1>4. CASE Decide
  BY <1>4 DEF Decide, LabelInv, LockDiscipline, AuthInv
<1>5. CASE ExpireLease
  <2>1. \A c \in Calls : pc[c] \notin Critical
    BY <1>5, NamesAssumption DEF ExpireLease, LabelInv, LockDiscipline
  <2> QED
    BY <1>5, <2>1 DEF ExpireLease, LabelInv, LockDiscipline, AuthInv, outside
<1>6. CASE UNCHANGED vars
  BY <1>6 DEF vars, LabelInv, LockDiscipline, AuthInv, outside
<1> QED
  BY <1>1, <1>2, <1>3, <1>4, <1>5, <1>6 DEF Next

\* At first no call is anywhere and nothing has been mutated.
LEMMA LabelInit == Init => LabelInv
  BY DEF Init, LabelInv, LockDiscipline, AuthInv, Critical, Cleared

\* The second layer holds in every reachable state.
LEMMA LabelAlways == Spec => []LabelInv
  BY TypeAlways, LabelInit, LabelStep, PTL DEF Spec

\* However many calls race, a call between its Acquire and its deferred release holds
\* the plan lock, so at most one of them is applying or reversing a step.
THEOREM MutationIsExclusive == Spec => []ExclusiveMutation
<1>1. LabelInv => ExclusiveMutation
  BY DEF LabelInv, LockDiscipline, ExclusiveMutation, Critical
<1> QED
  BY <1>1, LabelAlways, PTL

\* Whatever stale copies are written back and however approvals are decided, the
\* resource is first mutated under a permission that was really given.
THEOREM MutationIsAuthorized == Spec => []AuthorizedMutation
<1>1. LabelInv => AuthorizedMutation
  BY DEF LabelInv, AuthInv, AuthorizedMutation
<1> QED
  BY <1>1, LabelAlways, PTL

-------------------------------------------------------------------------------
\* Third layer: what a label says of the steps already run.  No step is ever marked
\* skipped, so a step the loop passes over has succeeded; a call at a step has run every
\* earlier step that could stop the plan, and one recording it knows its outcome.

Unskipped(p) == \A j \in 1 .. 4 : p.steps[j] # "skipped"
Ready(p, i)  == \A j \in 1 .. 4 : j < i /\ AbortOnFailure(j) => p.steps[j] = "succeeded"

NoSkips == Unskipped(plan) /\ \A c \in Calls : Unskipped(view[c])

RunsInOrder ==
  \A c \in Calls :
    /\ pc[c] \in { "apply", "record" } => Ready(view[c], cur[c])
    /\ pc[c] = "record" => view[c].steps[cur[c]] \in { "succeeded", "failed" }

StepsInv == NoSkips /\ RunsInOrder

\* A new state changes no step.
LEMMA StateSteps ==
  ASSUME NEW p \in PlanRecord, NEW s
  PROVE  /\ [p EXCEPT !.state = s].steps = p.steps
         /\ [p EXCEPT !.state = s, !.finished = TRUE].steps = p.steps
  BY DEF PlanRecord

\* The copies a call writes back differ from its view in the state alone.
LEMMA AsSteps ==
  ASSUME TypeInv, NEW c \in Calls, NEW s
  PROVE  As(c, s).steps = view[c].steps /\ Closing(c, s).steps = view[c].steps
  BY StateSteps DEF TypeInv, LocalsInv, LocalsOK, As, Closing

\* So they have no skipped step either.
LEMMA AsUnskipped ==
  ASSUME TypeInv, StepsInv, NEW c \in Calls, NEW s
  PROVE  Unskipped(As(c, s)) /\ Unskipped(Closing(c, s)) /\ Unskipped(view[c])
  BY AsSteps DEF StepsInv, NoSkips, Unskipped

\* Nor has the copy of a call that is over with the plan.
LEMMA BlankUnskipped == Unskipped(Blank)
  BY StepsDomain DEF Blank, NewPlan, Unskipped

\* A call takes another copy of a plan with no skipped step and moves outside the loop.
LEMMA MoveSteps ==
  ASSUME TypeInv, StepsInv, NEW c \in Calls, NEW p, Unskipped(p),
         NEW label \in Labels \ { "apply", "record" }, Goto(c, label),
         Hold(c, p) \/ UNCHANGED view, Unskipped(plan'),
         cur' = cur \/ cur' = [cur EXCEPT ![c] = 0]
  PROVE  StepsInv'
<1>1. NoSkips'
  BY DEF TypeInv, LocalsInv, LocalsOK, StepsInv, NoSkips, Hold
<1>2. ASSUME NEW d \in Calls, d # c
      PROVE  pc'[d] = pc[d] /\ view'[d] = view[d] /\ cur'[d] = cur[d]
  BY <1>2 DEF TypeInv, LocalsInv, LocalsOK, Goto, Hold
<1>3. pc'[c] \notin { "apply", "record" }
  BY DEF TypeInv, LocalsInv, LocalsOK, Goto
<1>4. RunsInOrder'
  BY <1>2, <1>3 DEF StepsInv, RunsInOrder, Ready
<1> QED
  BY <1>1, <1>4 DEF StepsInv

\* A call that returns or dies has left the loop.
LEMMA EndSteps ==
  ASSUME TypeInv, StepsInv, NEW c \in Calls, Forget(c), Unskipped(plan')
  PROVE  StepsInv'
  BY MoveSteps, BlankUnskipped DEF Forget, Labels

\* A call that turns to its bookkeeping has left the loop.
LEMMA BookkeepSteps ==
  ASSUME TypeInv, StepsInv, NEW c \in Calls, NEW posts, NEW status,
         Bookkeep(c, posts, status), Unskipped(plan')
  PROVE  StepsInv'
  BY MoveSteps, BlankUnskipped DEF Bookkeep, Labels

\* The loop moves on after step i with everything up to i run.
LEMMA ProceedSteps ==
  ASSUME TypeInv, StepsInv, NEW c \in Calls, NEW p \in PlanRecord, NEW i \in 0 .. 4,
         Unskipped(p), Ready(p, i + 1), Proceed(c, p.steps, i), Unskipped(plan'),
         Hold(c, p) \/ (UNCHANGED view /\ view[c] = p)
  PROVE  StepsInv'
<1>1. p.steps \in [1 .. 4 -> StepState]
  BY PlanFields
<1>2. NoSkips'
  BY DEF TypeInv, LocalsInv, LocalsOK, StepsInv, NoSkips, Hold
<1>3. ASSUME NEW d \in Calls, d # c
      PROVE  pc'[d] = pc[d] /\ view'[d] = view[d] /\ cur'[d] = cur[d]
  BY <1>3 DEF TypeInv, LocalsInv, LocalsOK, Proceed, Goto, Hold
<1>4. /\ view'[c] = p
      /\ cur'[c] = NextStep(p.steps, i)
      /\ pc'[c] \in { "apply", "finish" }
  BY DEF TypeInv, LocalsInv, LocalsOK, Proceed, Goto, Hold
<1>5. Ready(p, NextStep(p.steps, i))
  <2> DEFINE next == NextStep(p.steps, i)
  <2>1. next \in 1 .. 5 /\ \A j \in 1 .. 4 : i < j /\ j < next
                             => p.steps[j] \in { "succeeded", "skipped" }
    BY <1>1, NextStepLemma
  <2> HIDE DEF next
  <2>2. ASSUME NEW j \in 1 .. 4, j < next, AbortOnFailure(j)
        PROVE  p.steps[j] = "succeeded"
    <3>1. CASE j < i + 1
      BY <2>2, <3>1 DEF Ready
    <3>2. CASE i < j
      BY <2>1, <2>2, <3>2 DEF Unskipped
    <3> QED
      BY <3>1, <3>2
  <2>3. Ready(p, next)
    BY <2>2 DEF Ready
  <2> QED
    BY <2>3 DEF next
<1>6. RunsInOrder'
  BY <1>3, <1>4, <1>5 DEF StepsInv, RunsInOrder, Ready
<1> QED
  BY <1>2, <1>6 DEF StepsInv

\* A step ends with an outcome.
LEMMA OutcomeSteps ==
  ASSUME TypeInv, StepsInv, NEW c \in Calls, pc[c] = "apply",
         NEW s \in { "succeeded", "failed" }, Outcome(c, s)
  PROVE  StepsInv'
<1> DEFINE i == cur[c]
           p == view[c]
           q == [p EXCEPT !.steps[i] = s]
<1>1. i \in 1 .. 4 /\ p \in PlanRecord /\ p.steps \in [1 .. 4 -> StepState]
  BY PlanFields DEF TypeInv, LocalsInv, LocalsOK, AtStep
<1>2. q.steps = [p.steps EXCEPT ![i] = s]
  BY <1>1 DEF PlanRecord
<1>3. /\ pc' = [pc EXCEPT ![c] = "record"]
      /\ view' = [view EXCEPT ![c] = q]
      /\ UNCHANGED << plan, cur >>
  BY DEF Outcome, Goto, Hold
<1> HIDE DEF q
<1>4. Unskipped(p) /\ Ready(p, i)
  BY DEF StepsInv, NoSkips, RunsInOrder
<1>5. Unskipped(q) /\ Ready(q, i) /\ q.steps[i] \in { "succeeded", "failed" }
  <2> HIDE DEF i, p
  <2>1. \A j \in 1 .. 4 : q.steps[j] = IF j = i THEN s ELSE p.steps[j]
    BY <1>1, <1>2
  <2> QED
    BY <1>1, <1>4, <2>1 DEF Unskipped, Ready
<1>6. NoSkips'
  BY <1>3, <1>5 DEF TypeInv, LocalsInv, LocalsOK, StepsInv, NoSkips
<1>7. ASSUME NEW d \in Calls, d # c PROVE pc'[d] = pc[d] /\ view'[d] = view[d] /\ cur'[d] = cur[d]
  BY <1>3, <1>7 DEF TypeInv, LocalsInv, LocalsOK
<1>8. pc'[c] = "record" /\ view'[c] = q /\ cur'[c] = i
  BY <1>3 DEF TypeInv, LocalsInv, LocalsOK
<1>9. RunsInOrder'
  BY <1>5, <1>7, <1>8 DEF StepsInv, RunsInOrder, Ready
<1> QED
  BY <1>6, <1>9 DEF StepsInv

\* Every step of a call in flight keeps the third layer.
LEMMA StepSteps ==
  ASSUME TypeInv, StepsInv, NEW c \in Calls, Step(c)
  PROVE  StepsInv'
<1>1. ASSUME Reconfirm(c) PROVE StepsInv'
  <2>1. CASE Goto(c, "promote")
    BY <1>1, <2>1, AsUnskipped, MoveSteps
    DEF Reconfirm, StepsInv, NoSkips, Labels, loop
  <2>2. CASE Goto(c, "refuse")
    BY <1>1, <2>2, AsUnskipped, MoveSteps
    DEF Reconfirm, StepsInv, NoSkips, Labels, loop
  <2> QED
    BY <1>1, <2>1, <2>2 DEF Reconfirm
<1>2. ASSUME Refuse(c) PROVE StepsInv'
  BY <1>2, AsUnskipped, EndSteps DEF Refuse, Return, Store, StepsInv, NoSkips
<1>3. ASSUME Promote(c) PROVE StepsInv'
  BY <1>3, AsUnskipped, MoveSteps
  DEF Promote, StepsInv, NoSkips, Labels, loop
<1>4. ASSUME AlreadyPromoted(c) PROVE StepsInv'
  BY <1>4, AsUnskipped, MoveSteps
  DEF AlreadyPromoted, StepsInv, NoSkips, Labels, loop
<1>5. ASSUME NotExecutable(c) PROVE StepsInv'
  BY <1>5, EndSteps DEF NotExecutable, Return, StepsInv, NoSkips
<1>6. ASSUME Acquire(c) PROVE StepsInv'
  <2>1. CASE Goto(c, "reload")
    BY <1>6, <2>1, AsUnskipped, MoveSteps
    DEF Acquire, StepsInv, NoSkips, Labels, loop
  <2>2. CASE Goto(c, "rb_begin")
    BY <1>6, <2>2, AsUnskipped, MoveSteps
    DEF Acquire, StepsInv, NoSkips, Labels, loop
  <2> QED
    BY <1>6, <2>1, <2>2 DEF Acquire
<1>7. ASSUME AcquireFails(c) PROVE StepsInv'
  BY <1>7, EndSteps DEF AcquireFails, Return, StepsInv, NoSkips
<1>8. ASSUME Reload(c) PROVE StepsInv'
  BY <1>8, AsUnskipped, MoveSteps
  DEF Reload, StepsInv, NoSkips, Labels, loop
<1>9. ASSUME LookupFails(c) PROVE StepsInv'
  BY <1>9, EndSteps DEF LookupFails, Return, StepsInv, NoSkips
<1>10. ASSUME PreflightFails(c) PROVE StepsInv'
  BY <1>10, AsUnskipped, BookkeepSteps DEF PreflightFails, Store, StepsInv, NoSkips
<1>11. ASSUME Begin(c) PROVE StepsInv'
  <2>1. As(c, "executing") \in PlanRecord
    BY AsType DEF TypeInv, LocalsInv, PlanState
  <2>2. As(c, "executing").steps = view[c].steps /\ Unskipped(As(c, "executing"))
    BY AsSteps, AsUnskipped
  <2>3. Ready(As(c, "executing"), 0 + 1)
    BY DEF Ready
  <2> QED
    BY <1>11, <2>1, <2>2, <2>3, ProceedSteps DEF Begin
<1>12. ASSUME ApplyOk(c) PROVE StepsInv'
  BY <1>12, OutcomeSteps DEF ApplyOk
<1>13. ASSUME ApplyFails(c) PROVE StepsInv'
  BY <1>13, OutcomeSteps DEF ApplyFails
<1>14. ASSUME ApplyRetries(c) PROVE StepsInv'
  BY <1>14 DEF ApplyRetries, StepsInv, NoSkips, RunsInOrder
<1>15. ASSUME Record(c) PROVE StepsInv'
  <2>1. pc[c] = "record" /\ view[c] \in PlanRecord /\ cur[c] \in 1 .. 4
    BY <1>15 DEF Record, TypeInv, LocalsInv, LocalsOK, AtStep
  <2>2. Unskipped(view[c]) /\ Unskipped(plan') /\ UNCHANGED view
    BY <1>15 DEF Record, Store, StepsInv, NoSkips
  <2>3. CASE view[c].steps[cur[c]] = "failed" /\ AbortOnFailure(cur[c])
    BY <1>15, <2>2, <2>3, MoveSteps DEF Record, Labels
  <2>4. CASE ~(view[c].steps[cur[c]] = "failed" /\ AbortOnFailure(cur[c]))
    <3>1. Ready(view[c], cur[c] + 1)
      <4>1. \A j \in 1 .. 4 : j < cur[c] + 1 => j < cur[c] \/ j = cur[c]
        BY <2>1
      <4> QED
        BY <2>1, <2>4, <4>1 DEF StepsInv, RunsInOrder, Ready
    <3> QED
      BY <1>15, <2>1, <2>2, <2>4, <3>1, ProceedSteps DEF Record
  <2> QED
    BY <2>3, <2>4
<1>16. ASSUME Finish(c) PROVE StepsInv'
  BY <1>16, AsUnskipped, BookkeepSteps DEF Finish, StepsInv, NoSkips
<1>17. ASSUME Abort(c) PROVE StepsInv'
  BY <1>17, AsUnskipped, MoveSteps
  DEF Abort, Store, StepsInv, NoSkips, Labels, loop
<1>18. ASSUME AssumeFails(c) PROVE StepsInv'
  BY <1>18, BookkeepSteps DEF AssumeFails, StepsInv, NoSkips
<1>19. ASSUME LoadForRollback(c) PROVE StepsInv'
  BY <1>19, AsUnskipped, MoveSteps
  DEF LoadForRollback, StepsInv, NoSkips, Labels, loop
<1>20. ASSUME LoadForValidate(c) PROVE StepsInv'
  <2>1. CASE Goto(c, "mark")
    BY <1>20, <2>1, AsUnskipped, MoveSteps
    DEF LoadForValidate, StepsInv, NoSkips, Labels, loop
  <2>2. CASE Goto(c, "judge")
    BY <1>20, <2>2, AsUnskipped, MoveSteps
    DEF LoadForValidate, StepsInv, NoSkips, Labels, loop
  <2> QED
    BY <1>20, <2>1, <2>2 DEF LoadForValidate
<1>21. ASSUME AutoRollbackRefused(c) PROVE StepsInv'
  BY <1>21, EndSteps DEF AutoRollbackRefused, Return, StepsInv, NoSkips
<1>22. ASSUME StartRollback(c) PROVE StepsInv'
  <2>1. CASE Goto(c, "rb_step")
    BY <1>22, <2>1, AsUnskipped, MoveSteps
    DEF StartRollback, Store, StepsInv, NoSkips, Labels, loop
  <2>2. CASE Goto(c, "rb_done")
    BY <1>22, <2>2, AsUnskipped, MoveSteps
    DEF StartRollback, Store, StepsInv, NoSkips, Labels, loop
  <2> QED
    BY <1>22, <2>1, <2>2 DEF StartRollback
<1>23. ASSUME RollbackOk(c) PROVE StepsInv'
  BY <1>23, AsUnskipped, MoveSteps
  DEF RollbackOk, StepsInv, NoSkips, Labels, loop
<1>24. ASSUME RollbackFails(c) PROVE StepsInv'
  BY <1>24, AsUnskipped, MoveSteps
  DEF RollbackFails, StepsInv, NoSkips, Labels, loop
<1>25. ASSUME RollbackRetries(c) PROVE StepsInv'
  BY <1>25 DEF RollbackRetries, StepsInv, NoSkips, RunsInOrder
<1>26. ASSUME FinishRolledBack(c) PROVE StepsInv'
  BY <1>26, AsUnskipped, BookkeepSteps DEF FinishRolledBack, StepsInv, NoSkips
<1>27. ASSUME FinishRollbackFailed(c) PROVE StepsInv'
  BY <1>27, AsUnskipped, EndSteps DEF FinishRollbackFailed, Return, Store, StepsInv, NoSkips
<1>28. ASSUME ClaimWasted(c) PROVE StepsInv'
  BY <1>28, EndSteps DEF ClaimWasted, Return, StepsInv, NoSkips
<1>29. ASSUME MarkValidating(c) PROVE StepsInv'
  BY <1>29, AsUnskipped, MoveSteps
  DEF MarkValidating, Store, StepsInv, NoSkips, Labels, loop
<1>30. ASSUME JudgeHolding(c) PROVE StepsInv'
  BY <1>30, AsUnskipped, BookkeepSteps DEF JudgeHolding, Store, StepsInv, NoSkips
<1>31. ASSUME JudgeFailing(c) PROVE StepsInv'
  BY <1>31, AsUnskipped, BookkeepSteps DEF JudgeFailing, Store, StepsInv, NoSkips
<1>32. ASSUME JudgeAutoRollback(c) PROVE StepsInv'
  BY <1>32, AsUnskipped, BlankUnskipped, MoveSteps
  DEF JudgeAutoRollback, StepsInv, NoSkips, Labels, loop
<1>33. ASSUME JudgeInconclusive(c) PROVE StepsInv'
  BY <1>33, EndSteps DEF JudgeInconclusive, Return, StepsInv, NoSkips
<1>34. ASSUME Cancel(c) PROVE StepsInv'
  BY <1>34, AsUnskipped, BookkeepSteps DEF Cancel, StepsInv, NoSkips
<1>35. ASSUME WriteFails(c) PROVE StepsInv'
  BY <1>35, EndSteps DEF WriteFails, Return, StepsInv, NoSkips
<1>36. ASSUME LedgerRead(c) PROVE StepsInv'
  BY <1>36, AsUnskipped, MoveSteps
  DEF LedgerRead, StepsInv, NoSkips, Labels, loop
<1>37. ASSUME LedgerSave(c) PROVE StepsInv'
  <2>1. CASE Goto(c, "ledger")
    BY <1>37, <2>1, AsUnskipped, MoveSteps DEF LedgerSave, StepsInv, NoSkips, Labels, loop
  <2>2. CASE Goto(c, "close")
    BY <1>37, <2>2, AsUnskipped, MoveSteps DEF LedgerSave, StepsInv, NoSkips, Labels, loop
  <2> QED
    BY <1>37, <2>1, <2>2 DEF LedgerSave
<1>38. ASSUME Close(c) PROVE StepsInv'
  BY <1>38, EndSteps DEF Close, Return, StepsInv, NoSkips
<1> QED
  BY <1>1, <1>2, <1>3, <1>4, <1>5, <1>6, <1>7, <1>8, <1>9, <1>10, <1>11, <1>12, <1>13,
      <1>14, <1>15, <1>16, <1>17, <1>18, <1>19, <1>20, <1>21, <1>22, <1>23, <1>24, <1>25,
      <1>26, <1>27, <1>28, <1>29, <1>30, <1>31, <1>32, <1>33, <1>34, <1>35, <1>36, <1>37,
      <1>38
  DEF Step

\* So does every step of the system.
LEMMA StepsStep == TypeInv /\ StepsInv /\ [Next]_vars => StepsInv'
<1> SUFFICES ASSUME TypeInv, StepsInv, [Next]_vars PROVE StepsInv'
  OBVIOUS
<1>1. ASSUME NEW c \in Calls, Start(c) PROVE StepsInv'
  <2>1. CASE LoadForExecute(c)
    BY <2>1, MoveSteps DEF LoadForExecute, StepsInv, NoSkips, Labels, loop
  <2>2. CASE LoadForRollback(c)
    BY <2>2, MoveSteps DEF LoadForRollback, StepsInv, NoSkips, Labels, loop
  <2>3. CASE LoadForValidate(c)
    <3>1. CASE Goto(c, "mark")
      BY <2>3, <3>1, MoveSteps DEF LoadForValidate, StepsInv, NoSkips, Labels, loop
    <3>2. CASE Goto(c, "judge")
      BY <2>3, <3>2, MoveSteps DEF LoadForValidate, StepsInv, NoSkips, Labels, loop
    <3> QED
      BY <2>3, <3>1, <3>2 DEF LoadForValidate
  <2>4. CASE LoadForCancel(c)
    BY <2>4, MoveSteps DEF LoadForCancel, StepsInv, NoSkips, Labels, loop
  <2>5. CASE Claim(c)
    <3>1. plan'.steps = plan.steps
      BY <2>5, StateSteps DEF Claim, TypeInv, StoreOK
    <3>2. Unskipped(plan) /\ Unskipped(plan')
      BY <3>1 DEF StepsInv, NoSkips, Unskipped
    <3> QED
      BY <2>5, <3>2, MoveSteps DEF Claim, Labels, loop
  <2> QED
    BY <1>1, <2>1, <2>2, <2>3, <2>4, <2>5 DEF Start
<1>2. ASSUME NEW c \in Calls, Continue(c) PROVE StepsInv'
  BY <1>2, StepSteps DEF Continue
<1>3. ASSUME NEW c \in Calls, Crash(c) PROVE StepsInv'
  BY <1>3, EndSteps DEF Crash, StepsInv, NoSkips
<1>4. CASE Decide
  BY <1>4 DEF Decide, StepsInv, NoSkips, RunsInOrder, loop
<1>5. CASE ExpireLease
  BY <1>5 DEF ExpireLease, StepsInv, NoSkips, RunsInOrder, loop
<1>6. CASE UNCHANGED vars
  BY <1>6 DEF vars, StepsInv, NoSkips, RunsInOrder, loop
<1> QED
  BY <1>1, <1>2, <1>3, <1>4, <1>5, <1>6 DEF Next

\* PlanExecution builds every step pending (common.go:206-228).
LEMMA StepsInit == Init => StepsInv
<1> SUFFICES ASSUME Init PROVE StepsInv
  OBVIOUS
<1>1. Unskipped(plan)
  BY StepsDomain DEF Init, NewPlan, Unskipped
<1> QED
  BY <1>1, BlankUnskipped DEF Init, StepsInv, NoSkips, RunsInOrder

\* The third layer holds in every reachable state.
LEMMA StepsAlways == Spec => []StepsInv
  BY TypeAlways, StepsInit, StepsStep, PTL DEF Spec

\* A step is applied only after every earlier step that could stop the plan succeeded:
\* AWS is never changed without the snapshot a rollback would need, not even by an
\* attempt that resumes a half-run plan from a stale copy.
THEOREM SnapshotComesFirst == Spec => []SnapshotBeforeMutation
<1>1. TypeInv /\ StepsInv => SnapshotBeforeMutation
  <2> SUFFICES ASSUME TypeInv, StepsInv, NEW c \in Calls, pc[c] = "apply",
                      NEW j \in 1 .. cur[c] - 1, AbortOnFailure(j)
               PROVE  view[c].steps[j] = "succeeded"
    BY DEF SnapshotBeforeMutation
  <2>1. cur[c] \in 1 .. 4
    BY DEF TypeInv, LocalsInv, AtStep
  <2>2. j \in 1 .. 4 /\ j < cur[c]
    BY <2>1
  <2> QED
    BY <2>2 DEF StepsInv, RunsInOrder, Ready
<1> QED
  BY <1>1, TypeAlways, StepsAlways, PTL

-------------------------------------------------------------------------------
\* Fourth layer: a plan stored as active is in its owner's hands.  Whoever stores an
\* active state holds the lock and is at one of the labels below, and leaves them only
\* by storing another state.

Working == { "apply", "record", "finish", "abort", "rb_step", "rb_done", "rb_failed" }
Active  == { "executing", "rolling_back" }

Unlucky  == crashes # 0 \/ refusals # 0
OwnedInv == plan.state \in Active => Unlucky \/ \E c \in Calls : lock = c /\ pc[c] \in Working

\* A step of c leaves the owner at work: it is c and stays at work, or c is not the owner.
LEMMA OwnerStays ==
  ASSUME TypeInv, OwnedInv, NEW c \in Calls, NEW label \in Labels, Goto(c, label),
         UNCHANGED crashes, UNCHANGED refusals \/ Refused,
         lock' # lock => lock = c,
         pc[c] \in Working => \/ UNCHANGED lock /\ label \in Working
                              \/ plan'.state \notin Active
                              \/ Refused,
         plan'.state \in Active => \/ plan.state \in Active
                                   \/ lock' = c /\ label \in Working
  PROVE  OwnedInv'
<1> SUFFICES ASSUME plan'.state \in Active, ~Unlucky'
             PROVE  \E d \in Calls : lock' = d /\ pc'[d] \in Working
  BY DEF OwnedInv
<1>1. ~Refused /\ ~Unlucky
  BY BoundsAssumption DEF Unlucky, Refused, TypeInv, FaultsOK
<1>2. /\ pc'[c] = label
      /\ \A d \in Calls : d # c => pc'[d] = pc[d]
  BY DEF Goto, TypeInv, LocalsInv, LocalsOK
<1>3. CASE lock' = c /\ label \in Working
  BY <1>2, <1>3
<1>4. CASE plan.state \in Active
  <2>1. PICK d \in Calls : lock = d /\ pc[d] \in Working
    BY <1>1, <1>4 DEF OwnedInv
  <2> QED
    BY <1>1, <1>2, <2>1
<1> QED
  BY <1>3, <1>4

\* The states the handlers write.
LEMMA AsState ==
  ASSUME TypeInv, NEW c \in Calls, NEW s
  PROVE  As(c, s).state = s /\ Closing(c, s).state = s
  BY DEF TypeInv, LocalsInv, LocalsOK, PlanRecord, As, Closing

\* Every step of a call in flight keeps the plan owned.
LEMMA StepOwned ==
  ASSUME TypeInv, LabelInv, OwnedInv, NEW c \in Calls, Step(c)
  PROVE  OwnedInv'
<1>1. ASSUME Reconfirm(c) PROVE OwnedInv'
  <2>1. PICK label \in { "promote", "refuse" } : Goto(c, label)
    BY <1>1 DEF Reconfirm
  <2> QED
    BY <1>1, <2>1, OwnerStays DEF Reconfirm, Labels, Working, faults
<1>2. ASSUME Refuse(c) PROVE OwnedInv'
  BY <1>2, AsState, OwnerStays
  DEF Refuse, Store, Return, Forget, Labels, Working, Active
<1>3. ASSUME Promote(c) PROVE OwnedInv'
  BY <1>3, AsState, OwnerStays
  DEF Promote, faults, Labels, Working, Active
<1>4. ASSUME AlreadyPromoted(c) PROVE OwnedInv'
  BY <1>4, OwnerStays
  DEF AlreadyPromoted, faults, Labels, Working, Active
<1>5. ASSUME NotExecutable(c) PROVE OwnedInv'
  BY <1>5, OwnerStays
  DEF NotExecutable, Return, Forget, faults, Labels, Working, Active
<1>6. ASSUME Acquire(c) PROVE OwnedInv'
  <2>1. plan.state \in Active => Unlucky
    BY <1>6, NamesAssumption DEF Acquire, OwnedInv
  <2> QED
    BY <1>6, <2>1 DEF Acquire, OwnedInv, Unlucky, faults
<1>7. ASSUME AcquireFails(c) PROVE OwnedInv'
  BY <1>7, OwnerStays
  DEF AcquireFails, Return, Forget, faults, Labels, Working, Active
<1>8. ASSUME Reload(c) PROVE OwnedInv'
  BY <1>8, OwnerStays
  DEF Reload, faults, Labels, Working, Active
<1>9. ASSUME LookupFails(c) PROVE OwnedInv'
  BY <1>9, OwnerStays
  DEF LookupFails, Return, Forget, faults, Labels, Working, Active
<1>10. ASSUME PreflightFails(c) PROVE OwnedInv'
  BY <1>10, AsState, OwnerStays
  DEF PreflightFails, Store, Bookkeep, Labels, Working, Active
<1>11. ASSUME Begin(c) PROVE OwnedInv'
  <2>1. lock = c /\ pc[c] \notin Working
    BY <1>11 DEF Begin, LabelInv, LockDiscipline, Critical, Working
  <2>2. PICK label \in { "apply", "finish" } : Goto(c, label)
    BY <1>11 DEF Begin, Proceed
  <2> QED
    BY <1>11, <2>1, <2>2, OwnerStays DEF Begin, Labels, Working, faults
<1>12. ASSUME ApplyOk(c) PROVE OwnedInv'
  BY <1>12, OwnerStays
  DEF ApplyOk, Outcome, faults, Labels, Working, Active
<1>13. ASSUME ApplyFails(c) PROVE OwnedInv'
  BY <1>13, OwnerStays
  DEF ApplyFails, Outcome, faults, Labels, Working, Active
<1>14. ASSUME ApplyRetries(c) PROVE OwnedInv'
  BY <1>14 DEF ApplyRetries, OwnedInv, Unlucky, faults
<1>15. ASSUME Record(c) PROVE OwnedInv'
  <2>1. lock = c
    BY <1>15 DEF Record, LabelInv, LockDiscipline, Critical
  <2>2. PICK label \in { "apply", "finish", "abort" } : Goto(c, label)
    BY <1>15 DEF Record, Proceed
  <2> QED
    BY <1>15, <2>1, <2>2, OwnerStays DEF Record, Store, Labels, Working
<1>16. ASSUME Finish(c) PROVE OwnedInv'
  BY <1>16, AsState, OwnerStays
  DEF Finish, Bookkeep, faults, Labels, Working, Active
<1>17. ASSUME Abort(c) PROVE OwnedInv'
  BY <1>17, AsState, OwnerStays
  DEF Abort, Store, Labels, Working, Active
<1>18. ASSUME AssumeFails(c) PROVE OwnedInv'
  BY <1>18, OwnerStays
  DEF AssumeFails, Bookkeep, faults, Labels, Working, Active
<1>19. ASSUME LoadForRollback(c) PROVE OwnedInv'
  BY <1>19, OwnerStays
  DEF LoadForRollback, faults, Labels, Working, Active
<1>20. ASSUME LoadForValidate(c) PROVE OwnedInv'
  <2>1. PICK label \in { "mark", "judge" } : Goto(c, label)
    BY <1>20 DEF LoadForValidate
  <2> QED
    BY <1>20, <2>1, OwnerStays DEF LoadForValidate, Labels, Working, faults
<1>21. ASSUME AutoRollbackRefused(c) PROVE OwnedInv'
  BY <1>21, OwnerStays
  DEF AutoRollbackRefused, Return, Forget, faults, Labels, Working, Active
<1>22. ASSUME StartRollback(c) PROVE OwnedInv'
  <2>1. lock = c /\ pc[c] \notin Working
    BY <1>22 DEF StartRollback, LabelInv, LockDiscipline, Critical, Working
  <2>2. PICK label \in { "rb_step", "rb_done" } : Goto(c, label)
    BY <1>22 DEF StartRollback
  <2> QED
    BY <1>22, <2>1, <2>2, OwnerStays DEF StartRollback, Store, Labels, Working
<1>23. ASSUME RollbackOk(c) PROVE OwnedInv'
  BY <1>23, OwnerStays
  DEF RollbackOk, faults, Labels, Working, Active
<1>24. ASSUME RollbackFails(c) PROVE OwnedInv'
  BY <1>24, OwnerStays
  DEF RollbackFails, faults, Labels, Working, Active
<1>25. ASSUME RollbackRetries(c) PROVE OwnedInv'
  BY <1>25 DEF RollbackRetries, OwnedInv, Unlucky, faults
<1>26. ASSUME FinishRolledBack(c) PROVE OwnedInv'
  BY <1>26, AsState, OwnerStays
  DEF FinishRolledBack, Bookkeep, faults, Labels, Working, Active
<1>27. ASSUME FinishRollbackFailed(c) PROVE OwnedInv'
  BY <1>27, AsState, OwnerStays
  DEF FinishRollbackFailed, Store, Return, Forget, Labels, Working, Active
<1>28. ASSUME ClaimWasted(c) PROVE OwnedInv'
  BY <1>28, OwnerStays
  DEF ClaimWasted, Return, Forget, faults, Labels, Working, Active
<1>29. ASSUME MarkValidating(c) PROVE OwnedInv'
  BY <1>29, AsState, OwnerStays
  DEF MarkValidating, Store, Labels, Working, Active
<1>30. ASSUME JudgeHolding(c) PROVE OwnedInv'
  BY <1>30, AsState, OwnerStays
  DEF JudgeHolding, Store, Bookkeep, Labels, Working, Active
<1>31. ASSUME JudgeFailing(c) PROVE OwnedInv'
  BY <1>31, AsState, OwnerStays
  DEF JudgeFailing, Store, Bookkeep, Labels, Working, Active
<1>32. ASSUME JudgeAutoRollback(c) PROVE OwnedInv'
  BY <1>32, OwnerStays
  DEF JudgeAutoRollback, faults, Labels, Working, Active
<1>33. ASSUME JudgeInconclusive(c) PROVE OwnedInv'
  BY <1>33, OwnerStays
  DEF JudgeInconclusive, Return, Forget, faults, Labels, Working, Active
<1>34. ASSUME Cancel(c) PROVE OwnedInv'
  BY <1>34, AsState, OwnerStays
  DEF Cancel, Bookkeep, faults, Labels, Working, Active
<1>35. ASSUME WriteFails(c) PROVE OwnedInv'
  BY <1>35, OwnerStays
  DEF WriteFails, Return, Forget, Labels, Working, Active
<1>36. ASSUME LedgerRead(c) PROVE OwnedInv'
  BY <1>36, OwnerStays
  DEF LedgerRead, faults, Labels, Working, Active
<1>37. ASSUME LedgerSave(c) PROVE OwnedInv'
  <2>1. PICK label \in { "ledger", "close" } : Goto(c, label)
    BY <1>37 DEF LedgerSave
  <2> QED
    BY <1>37, <2>1, OwnerStays DEF LedgerSave, Labels, Working
<1>38. ASSUME Close(c) PROVE OwnedInv'
  BY <1>38, OwnerStays
  DEF Close, Return, Forget, faults, Labels, Working, Active
<1> QED
  BY <1>1, <1>2, <1>3, <1>4, <1>5, <1>6, <1>7, <1>8, <1>9, <1>10, <1>11, <1>12, <1>13,
      <1>14, <1>15, <1>16, <1>17, <1>18, <1>19, <1>20, <1>21, <1>22, <1>23, <1>24, <1>25,
      <1>26, <1>27, <1>28, <1>29, <1>30, <1>31, <1>32, <1>33, <1>34, <1>35, <1>36, <1>37,
      <1>38
  DEF Step

\* So does every step of the system.
LEMMA OwnedStep == TypeInv /\ LabelInv /\ OwnedInv /\ [Next]_vars => OwnedInv'
<1> SUFFICES ASSUME TypeInv, LabelInv, OwnedInv, [Next]_vars PROVE OwnedInv'
  OBVIOUS
<1>1. ASSUME NEW c \in Calls, Start(c) PROVE OwnedInv'
  <2>1. CASE LoadForExecute(c)
    BY <2>1, OwnerStays DEF LoadForExecute, Labels, Working, faults
  <2>2. CASE LoadForRollback(c)
    BY <2>2, OwnerStays DEF LoadForRollback, Labels, Working, faults
  <2>3. CASE LoadForValidate(c)
    <3>1. PICK label \in { "mark", "judge" } : Goto(c, label)
      BY <2>3 DEF LoadForValidate
    <3> QED
      BY <2>3, <3>1, OwnerStays DEF LoadForValidate, Labels, Working, faults
  <2>4. CASE LoadForCancel(c)
    BY <2>4, OwnerStays DEF LoadForCancel, Labels, Working, faults
  <2>5. CASE Claim(c)
    <3>1. plan'.state = "validating"
      BY <2>5 DEF Claim, TypeInv, StoreOK, PlanRecord
    <3> QED
      BY <3>1 DEF OwnedInv, Active
  <2> QED
    BY <1>1, <2>1, <2>2, <2>3, <2>4, <2>5 DEF Start
<1>2. ASSUME NEW c \in Calls, Continue(c) PROVE OwnedInv'
  BY <1>2, StepOwned DEF Continue
<1>3. ASSUME NEW c \in Calls, Crash(c) PROVE OwnedInv'
  BY <1>3, BoundsAssumption DEF Crash, OwnedInv, Unlucky, TypeInv, FaultsOK
<1>4. CASE Decide
  BY <1>4 DEF Decide, OwnedInv, Unlucky, faults
<1>5. CASE ExpireLease
  BY <1>5, NamesAssumption DEF ExpireLease, OwnedInv, Unlucky, faults
<1>6. CASE UNCHANGED vars
  BY <1>6 DEF vars, OwnedInv, Unlucky, faults
<1> QED
  BY <1>1, <1>2, <1>3, <1>4, <1>5, <1>6 DEF Next

\* PlanExecution leaves no active plan behind.
LEMMA OwnedInit == Init => OwnedInv
<1> SUFFICES ASSUME Init PROVE OwnedInv
  OBVIOUS
<1>1. plan.state \in { "approved", "awaiting_approval" }
  BY DEF Init, NewPlan
<1> QED
  BY <1>1 DEF OwnedInv, Active

\* No interleaving of the four operations and their error paths leaves a plan executing
\* or rolling back with nobody holding its lock at work on it: only a crash or a refused
\* write can.
THEOREM ActivePlansAreOwned == Spec => []ActiveIsOwned
<1>1. OwnedInv => ActiveIsOwned
  BY DEF OwnedInv, ActiveIsOwned, Unlucky, Active, Working, Critical
<1>2. Spec => []OwnedInv
  BY TypeAlways, LabelAlways, OwnedInit, OwnedStep, PTL DEF Spec
<1> QED
  BY <1>1, <1>2, PTL

-------------------------------------------------------------------------------
\* Fifth layer: a rollback that is reported done has been done.  A call about to apply a
\* step has stored the plan as executing, and nobody but the lock's holder stores it as
\* rolled back.

AtWork(c) == pc[c] \in { "apply", "record" }

RestoreInv ==
  /\ RollbackRestores
  /\ \A c \in Calls : AtWork(c) => plan.state # "rolled_back" /\ view[c].state = "executing"
  /\ \A c \in Calls : pc[c] = "rb_done" /\ view[c].feasible => ~changed

\* A step of c that leaves AWS alone, or restores it, and does not store a rollback.
LEMMA RestoreMoves ==
  ASSUME TypeInv, RestoreInv, NEW c \in Calls, NEW label \in Labels, Goto(c, label),
         \A d \in Calls : d # c => view'[d] = view[d],
         changed' => changed,
         plan' = plan \/ plan'.state # "rolled_back",
         label \in { "apply", "record" } =>
           plan'.state # "rolled_back" /\ view'[c].state = "executing",
         label = "rb_done" /\ view'[c].feasible => ~changed'
  PROVE  RestoreInv'
<1>1. /\ pc'[c] = label
      /\ \A d \in Calls : d # c => pc'[d] = pc[d]
  BY DEF Goto, TypeInv, LocalsInv, LocalsOK
<1>2. RollbackRestores'
  BY DEF RestoreInv, RollbackRestores, RolledBackMeansRestored
<1>3. ASSUME NEW d \in Calls, AtWork(d)'
      PROVE  plan'.state # "rolled_back" /\ view'[d].state = "executing"
  BY <1>1, <1>3 DEF AtWork, RestoreInv
<1>4. ASSUME NEW d \in Calls, pc'[d] = "rb_done", view'[d].feasible
      PROVE  ~changed'
  BY <1>1, <1>4 DEF RestoreInv
<1> QED
  BY <1>2, <1>3, <1>4 DEF RestoreInv

\* An attempt at a step: AWS may change, and the plan's stored state says executing.
LEMMA RestoreApplies ==
  ASSUME TypeInv, LabelInv, RestoreInv, NEW c \in Calls, pc[c] = "apply",
         UNCHANGED plan, view'[c].state = view[c].state,
         \A d \in Calls : d # c => pc'[d] = pc[d] /\ view'[d] = view[d],
         pc'[c] \in { "apply", "record" }
  PROVE  RestoreInv'
<1>1. plan.state # "rolled_back" /\ view[c].state = "executing"
  BY DEF RestoreInv, AtWork
<1>2. \A d \in Calls : d # c => pc[d] # "rb_done"
  BY DEF LabelInv, LockDiscipline, Critical
<1> QED
  BY <1>1, <1>2
  DEF RestoreInv, RollbackRestores, RolledBackMeansRestored, AtWork

\* Every step of a call in flight keeps rolled-back plans restored.
LEMMA StepRestores ==
  ASSUME TypeInv, LabelInv, RestoreInv, NEW c \in Calls, Step(c)
  PROVE  RestoreInv'
<1>a. ASSUME NEW p, Hold(c, p)
      PROVE  view'[c] = p /\ \A d \in Calls : d # c => view'[d] = view[d]
  BY <1>a DEF Hold, TypeInv, LocalsInv, LocalsOK
<1>b. ASSUME NEW label, Goto(c, label)
      PROVE  pc'[c] = label /\ \A d \in Calls : d # c => pc'[d] = pc[d]
  BY <1>b DEF Goto, TypeInv, LocalsInv, LocalsOK
<1>1. ASSUME Reconfirm(c) PROVE RestoreInv'
  <2>1. PICK label \in { "promote", "refuse" } : Goto(c, label)
    BY <1>1 DEF Reconfirm
  <2> QED
    BY <1>1, <1>a, <2>1, RestoreMoves DEF Reconfirm, Labels, outside
<1>2. ASSUME Refuse(c) PROVE RestoreInv'
  BY <1>2, <1>a, AsState, RestoreMoves
  DEF Refuse, Store, Return, Forget, Labels, outside
<1>3. ASSUME Promote(c) PROVE RestoreInv'
  BY <1>3, <1>a, AsState, RestoreMoves
  DEF Promote, Labels, outside
<1>4. ASSUME AlreadyPromoted(c) PROVE RestoreInv'
  BY <1>4, <1>a, RestoreMoves
  DEF AlreadyPromoted, Labels, outside
<1>5. ASSUME NotExecutable(c) PROVE RestoreInv'
  BY <1>5, <1>a, RestoreMoves
  DEF NotExecutable, Return, Forget, Labels, outside
<1>6. ASSUME Acquire(c) PROVE RestoreInv'
  <2>1. PICK label \in { "reload", "rb_begin" } : Goto(c, label)
    BY <1>6 DEF Acquire
  <2> QED
    BY <1>6, <1>a, <2>1, RestoreMoves DEF Acquire, Labels, outside
<1>7. ASSUME AcquireFails(c) PROVE RestoreInv'
  BY <1>7, <1>a, RestoreMoves
  DEF AcquireFails, Return, Forget, Labels, outside
<1>8. ASSUME Reload(c) PROVE RestoreInv'
  BY <1>8, <1>a, RestoreMoves
  DEF Reload, Labels, outside
<1>9. ASSUME LookupFails(c) PROVE RestoreInv'
  BY <1>9, <1>a, RestoreMoves
  DEF LookupFails, Return, Forget, Labels, outside
<1>10. ASSUME PreflightFails(c) PROVE RestoreInv'
  BY <1>10, <1>a, AsState, RestoreMoves
  DEF PreflightFails, Store, Bookkeep, Labels, outside
<1>11. ASSUME Begin(c) PROVE RestoreInv'
  <2>1. plan'.state = "executing" /\ view'[c].state = "executing"
    BY <1>11, AsState DEF Begin, Hold, TypeInv, LocalsInv, LocalsOK
  <2>2. PICK label \in { "apply", "finish" } : Goto(c, label)
    BY <1>11 DEF Begin, Proceed
  <2> QED
    BY <1>11, <1>a, <2>1, <2>2, RestoreMoves
    DEF Begin, Labels, outside
<1>12. ASSUME ApplyOk(c) PROVE RestoreInv'
  <2> DEFINE p == [view[c] EXCEPT !.steps[cur[c]] = "succeeded"]
  <2>1. p.state = view[c].state
    BY DEF TypeInv, LocalsInv, LocalsOK, PlanRecord
  <2> HIDE DEF p
  <2>2. /\ Hold(c, p) /\ Goto(c, "record")
        /\ pc[c] = "apply" /\ UNCHANGED plan
    BY <1>12 DEF ApplyOk, Outcome, p
  <2> QED
    BY <1>a, <1>b, <2>1, <2>2, RestoreApplies
<1>13. ASSUME ApplyFails(c) PROVE RestoreInv'
  <2> DEFINE p == [view[c] EXCEPT !.steps[cur[c]] = "failed"]
  <2>1. p.state = view[c].state
    BY DEF TypeInv, LocalsInv, LocalsOK, PlanRecord
  <2> HIDE DEF p
  <2>2. /\ Hold(c, p) /\ Goto(c, "record")
        /\ pc[c] = "apply" /\ UNCHANGED plan
    BY <1>13 DEF ApplyFails, Outcome, p
  <2> QED
    BY <1>a, <1>b, <2>1, <2>2, RestoreApplies
<1>14. ASSUME ApplyRetries(c) PROVE RestoreInv'
  BY <1>14, RestoreApplies DEF ApplyRetries
<1>15. ASSUME Record(c) PROVE RestoreInv'
  <2>1. lock = c /\ view[c].state = "executing" /\ plan.state # "rolled_back"
    BY <1>15 DEF Record, LabelInv, LockDiscipline, Critical, RestoreInv, AtWork
  <2>2. PICK label \in { "apply", "finish", "abort" } : Goto(c, label)
    BY <1>15 DEF Record, Proceed
  <2> QED
    BY <1>15, <1>a, <2>1, <2>2, RestoreMoves
    DEF Record, Store, Labels, outside
<1>16. ASSUME Finish(c) PROVE RestoreInv'
  BY <1>16, <1>a, AsState, RestoreMoves
  DEF Finish, Bookkeep, Labels, outside
<1>17. ASSUME Abort(c) PROVE RestoreInv'
  BY <1>17, <1>a, AsState, RestoreMoves
  DEF Abort, Store, Labels, outside
<1>18. ASSUME AssumeFails(c) PROVE RestoreInv'
  BY <1>18, <1>a, RestoreMoves
  DEF AssumeFails, Bookkeep, Labels, outside
<1>19. ASSUME LoadForRollback(c) PROVE RestoreInv'
  BY <1>19, <1>a, RestoreMoves
  DEF LoadForRollback, Labels, outside
<1>20. ASSUME LoadForValidate(c) PROVE RestoreInv'
  <2>1. PICK label \in { "mark", "judge" } : Goto(c, label)
    BY <1>20 DEF LoadForValidate
  <2> QED
    BY <1>20, <1>a, <2>1, RestoreMoves DEF LoadForValidate, Labels, outside
<1>21. ASSUME AutoRollbackRefused(c) PROVE RestoreInv'
  BY <1>21, <1>a, RestoreMoves
  DEF AutoRollbackRefused, Return, Forget, Labels, outside
<1>22. ASSUME StartRollback(c) PROVE RestoreInv'
  <2>1. PICK label \in { "rb_step", "rb_done" } : Goto(c, label) /\ (label = "rb_done" => ~view[c].feasible)
    BY <1>22 DEF StartRollback
  <2>2. As(c, "rolling_back").feasible = view[c].feasible
    BY DEF As, TypeInv, LocalsInv, LocalsOK, PlanRecord
  <2> QED
    BY <1>22, <1>a, <2>1, <2>2, AsState, RestoreMoves DEF StartRollback, Store, Labels, outside
<1>23. ASSUME RollbackOk(c) PROVE RestoreInv'
  BY <1>23, RestoreMoves DEF RollbackOk, Restore, Labels
<1>24. ASSUME RollbackFails(c) PROVE RestoreInv'
  BY <1>24, <1>a, RestoreMoves
  DEF RollbackFails, Restore, Labels, outside
<1>25. ASSUME RollbackRetries(c) PROVE RestoreInv'
  BY <1>25
  DEF RollbackRetries, Restore, RestoreInv, RollbackRestores, RolledBackMeansRestored, AtWork
<1>26. ASSUME FinishRolledBack(c) PROVE RestoreInv'
  <2>1. Closing(c, "rolled_back").feasible = view[c].feasible
    BY DEF Closing, TypeInv, LocalsInv, LocalsOK, PlanRecord
  <2>2. view[c].feasible => ~changed
    BY <1>26 DEF FinishRolledBack, RestoreInv
  <2>3. \A d \in Calls : d # c => pc[d] \notin { "apply", "record", "rb_done" }
    BY <1>26 DEF FinishRolledBack, LabelInv, LockDiscipline, Critical
  <2>4. pc'[c] = "ledger" /\ \A d \in Calls : d # c => pc'[d] = pc[d]
    BY <1>26, <1>b DEF FinishRolledBack, Bookkeep
  <2> QED
    BY <1>26, <2>1, <2>2, <2>3, <2>4
    DEF FinishRolledBack, outside, RestoreInv, RollbackRestores, RolledBackMeansRestored, AtWork
<1>27. ASSUME FinishRollbackFailed(c) PROVE RestoreInv'
  BY <1>27, <1>a, AsState, RestoreMoves
  DEF FinishRollbackFailed, Store, Return, Forget, Labels, outside
<1>28. ASSUME ClaimWasted(c) PROVE RestoreInv'
  BY <1>28, <1>a, RestoreMoves
  DEF ClaimWasted, Return, Forget, Labels, outside
<1>29. ASSUME MarkValidating(c) PROVE RestoreInv'
  BY <1>29, <1>a, AsState, RestoreMoves
  DEF MarkValidating, Store, Labels, outside
<1>30. ASSUME JudgeHolding(c) PROVE RestoreInv'
  BY <1>30, <1>a, AsState, RestoreMoves
  DEF JudgeHolding, Store, Bookkeep, Labels, outside
<1>31. ASSUME JudgeFailing(c) PROVE RestoreInv'
  BY <1>31, <1>a, AsState, RestoreMoves
  DEF JudgeFailing, Store, Bookkeep, Labels, outside
<1>32. ASSUME JudgeAutoRollback(c) PROVE RestoreInv'
  BY <1>32, <1>a, RestoreMoves
  DEF JudgeAutoRollback, Labels, outside
<1>33. ASSUME JudgeInconclusive(c) PROVE RestoreInv'
  BY <1>33, <1>a, RestoreMoves
  DEF JudgeInconclusive, Return, Forget, Labels, outside
<1>34. ASSUME Cancel(c) PROVE RestoreInv'
  BY <1>34, <1>a, AsState, RestoreMoves
  DEF Cancel, Bookkeep, Labels, outside
<1>35. ASSUME WriteFails(c) PROVE RestoreInv'
  BY <1>35, <1>a, RestoreMoves
  DEF WriteFails, Return, Forget, Labels, outside
<1>36. ASSUME LedgerRead(c) PROVE RestoreInv'
  BY <1>36, <1>a, RestoreMoves
  DEF LedgerRead, Labels, outside
<1>37. ASSUME LedgerSave(c) PROVE RestoreInv'
  <2>1. PICK label \in { "ledger", "close" } : Goto(c, label)
    BY <1>37 DEF LedgerSave
  <2> QED
    BY <1>37, <1>a, <2>1, RestoreMoves DEF LedgerSave, Labels, outside
<1>38. ASSUME Close(c) PROVE RestoreInv'
  BY <1>38, <1>a, RestoreMoves
  DEF Close, Return, Forget, Labels, outside
<1> QED
  BY <1>1, <1>2, <1>3, <1>4, <1>5, <1>6, <1>7, <1>8, <1>9, <1>10, <1>11, <1>12, <1>13,
      <1>14, <1>15, <1>16, <1>17, <1>18, <1>19, <1>20, <1>21, <1>22, <1>23, <1>24,
      <1>25, <1>26, <1>27, <1>28, <1>29, <1>30, <1>31, <1>32, <1>33, <1>34, <1>35,
      <1>36, <1>37, <1>38
  DEF Step

\* So does every step of the system.
LEMMA RestoreNext == TypeInv /\ LabelInv /\ RestoreInv /\ [Next]_vars => RestoreInv'
<1> SUFFICES ASSUME TypeInv, LabelInv, RestoreInv, [Next]_vars PROVE RestoreInv'
  OBVIOUS
<1>1. ASSUME NEW c \in Calls, Start(c) PROVE RestoreInv'
  <2>a. ASSUME NEW p, Hold(c, p)
        PROVE  \A d \in Calls : d # c => view'[d] = view[d]
    BY <2>a DEF Hold, TypeInv, LocalsInv, LocalsOK
  <2>1. CASE LoadForExecute(c)
    BY <2>1, <2>a, RestoreMoves DEF LoadForExecute, Labels, outside
  <2>2. CASE LoadForRollback(c)
    BY <2>2, <2>a, RestoreMoves DEF LoadForRollback, Labels, outside
  <2>3. CASE LoadForValidate(c)
    <3>1. PICK label \in { "mark", "judge" } : Goto(c, label)
      BY <2>3 DEF LoadForValidate
    <3> QED
      BY <2>3, <2>a, <3>1, RestoreMoves DEF LoadForValidate, Labels, outside
  <2>4. CASE LoadForCancel(c)
    BY <2>4, <2>a, RestoreMoves DEF LoadForCancel, Labels, outside
  <2>5. CASE Claim(c)
    <3>1. plan'.state = "validating"
      BY <2>5 DEF Claim, TypeInv, StoreOK, PlanRecord
    <3> QED
      BY <2>5, <3>1, RestoreMoves DEF Claim, Labels, outside
  <2> QED
    BY <1>1, <2>1, <2>2, <2>3, <2>4, <2>5 DEF Start
<1>2. ASSUME NEW c \in Calls, Continue(c) PROVE RestoreInv'
  BY <1>2, StepRestores DEF Continue
<1>3. ASSUME NEW c \in Calls, Crash(c) PROVE RestoreInv'
  <2>1. \A d \in Calls : d # c => view'[d] = view[d]
    BY <1>3 DEF Crash, Forget, Hold, TypeInv, LocalsInv, LocalsOK
  <2> QED
    BY <1>3, <2>1, RestoreMoves DEF Crash, Forget, Labels, outside
<1>4. CASE Decide
  BY <1>4 DEF Decide, RestoreInv, RollbackRestores, RolledBackMeansRestored, AtWork
<1>5. CASE ExpireLease
  BY <1>5
  DEF ExpireLease, outside, RestoreInv, RollbackRestores, RolledBackMeansRestored, AtWork
<1>6. CASE UNCHANGED vars
  BY <1>6
  DEF vars, outside, RestoreInv, RollbackRestores, RolledBackMeansRestored, AtWork
<1> QED
  BY <1>1, <1>2, <1>3, <1>4, <1>5, <1>6 DEF Next

\* A plan with a way back that is stored as rolled back has left the resource as it was,
\* whatever attempts, lost writes, deaths and racing calls came before (runRollback).
THEOREM RollbackIsReal == Spec => []RollbackRestores
<1>1. Init => RestoreInv
  BY DEF Init, RestoreInv, RollbackRestores, RolledBackMeansRestored, AtWork
<1>2. Spec => []RestoreInv
  BY <1>1, TypeAlways, LabelAlways, RestoreNext, PTL DEF Spec
<1>3. RestoreInv => RollbackRestores
  BY DEF RestoreInv
<1> QED
  BY <1>2, <1>3, PTL

-------------------------------------------------------------------------------
\* Sixth layer: what is booked as gained is earned, however the calls interleave, die and
\* overwrite one another.  Any copy of the plan and any copy of the savings record may be
\* the next one stored, so the layer speaks of all of them.

HasRun      == Validatable \cup { "validated" }
Posting(c)  == pc[c] \in { "ledger", "ledger_save" }
Promises    == { << "validated" >>, << "validated", "realized" >> }
Lists       == Promises \cup { << "lost" >>, << "executed" >>, << "realized" >> }
OwesGain(c) == Posting(c) /\ todo[c] # << "lost" >>

\* The labels at which a call has the plan in hand.
Handling == Labels \ { "idle", "claimed", "auto_rollback", "ledger", "ledger_save", "close" }

\* A copy of the plan that says the change was made; a dry run makes none.
Claims(p) == ~p.dryRun /\ (p.state \in HasRun \/ p.steps[3] = "succeeded")
Gained(s) == Order(s.stage) >= Order("executed")

CallEarns(c) ==
  /\ Claims(view[c]) => landed
  /\ pc[c] \in Handling => (view[c].dryRun <=> plan.dryRun)
  /\ pc[c] = "finish" => view[c].steps[3] = "succeeded"
  /\ pc[c] \in { "mark", "judge" } => view[c].state \in HasRun
  /\ Posting(c) => todo[c] \in Lists
  /\ ~plan.dryRun /\ (Gained(sview[c]) \/ OwesGain(c)) => landed

StoreEarns ==
  /\ Claims(plan) => landed
  /\ ~plan.dryRun /\ Gained(savings) => landed

EarnedInv == StoreEarns /\ \A c \in Calls : CallEarns(c)

\* A change stays on record, and a dry run stays one.
Onward == (landed => landed') /\ (plan'.dryRun <=> plan.dryRun)

\* The rungs of the ladder, in order (savings.go:20-44).
LEMMA Rungs ==
  /\ \A i \in 1 .. 6 : Order(Ladder[i]) = i
  /\ SavingsStage = { Ladder[i] : i \in 1 .. 6 }
  /\ Order("executed") = 4 /\ Order("validated") = 5 /\ Order("realized") = 6
<1>1. DOMAIN Ladder = 1 .. 6
  BY DEF Ladder
<1>2. \A i, j \in 1 .. 6 : Ladder[i] = Ladder[j] => i = j
  BY DEF Ladder
<1>3. ASSUME NEW i \in 1 .. 6 PROVE Order(Ladder[i]) = i
  BY <1>1, <1>2, <1>3 DEF Order
<1>4. Ladder[4] = "executed" /\ Ladder[5] = "validated" /\ Ladder[6] = "realized"
  BY DEF Ladder
<1> QED
  BY <1>1, <1>3, <1>4 DEF SavingsStage

\* Every stage has a rung.
LEMMA OrderType ==
  ASSUME NEW s \in SavingsRecord
  PROVE  Order(s.stage) \in 1 .. 6
  BY Rungs DEF SavingsRecord

\* What one posting does to a savings record: a loss marks it and leaves the rung; a gain
\* leaves the mark and climbs at least to its own rung (savings.go:105-133).
LEMMA PostEffect ==
  ASSUME NEW s \in SavingsRecord, NEW e \in LedgerEntry
  PROVE  /\ Post(s, e).lost <=> s.lost \/ e = "lost"
         /\ Order(Post(s, e).stage) >= Order(s.stage)
         /\ e = "lost" => Post(s, e).stage = s.stage
         /\ e # "lost" => Order(Post(s, e).stage) >= Order(e)
<1>1. CASE e = "lost"
  <2>1. Post(s, e) = [s EXCEPT !.lost = TRUE]
    BY <1>1 DEF Post, MarkLost
  <2>2. Post(s, e).lost = TRUE /\ Post(s, e).stage = s.stage
    BY <2>1 DEF SavingsRecord
  <2>3. Order(s.stage) \in 1 .. 6
    BY OrderType
  <2> QED
    BY <1>1, <2>2, <2>3
<1>2. CASE e # "lost"
  <2>1. Post(s, e) = IF Order(e) > Order(s.stage) THEN [s EXCEPT !.stage = e] ELSE s
    BY <1>2 DEF Post, Advance
  <2>2. Order(e) \in 4 .. 6 /\ Order(s.stage) \in 1 .. 6 /\ s.lost \in BOOLEAN
    BY <1>2, Rungs, OrderType DEF LedgerEntry, SavingsRecord
  <2> QED
    BY <1>2, <2>1, <2>2 DEF SavingsRecord
<1> QED
  BY <1>1, <1>2

\* The lists a call works through, entry by entry.
LEMMA ListShapes ==
  ASSUME NEW l \in Lists
  PROVE  /\ l = << "lost" >> => Head(l) = "lost" /\ Len(l) = 1
         /\ l # << "lost" >> => Head(l) \in { "executed", "validated", "realized" }
         /\ l \in Promises <=> Head(l) = "validated"
         /\ Len(l) > 1 => Tail(l) = << "realized" >> /\ l \in Promises
<1>1. CASE l = << "lost" >>
  BY <1>1 DEF Promises
<1>2. CASE l = << "executed" >>
  BY <1>2 DEF Promises
<1>3. CASE l = << "validated" >>
  BY <1>3 DEF Promises
<1>4. CASE l = << "validated", "realized" >>
  BY <1>4 DEF Promises
<1>5. CASE l = << "realized" >>
  BY <1>5 DEF Promises
<1> QED
  BY <1>1, <1>2, <1>3, <1>4, <1>5 DEF Lists, Promises

\* What a handler writes back is as real as the copy it holds.
LEMMA AsReal ==
  ASSUME TypeInv, NEW c \in Calls, NEW s
  PROVE  As(c, s).dryRun = view[c].dryRun /\ Closing(c, s).dryRun = view[c].dryRun
  BY DEF TypeInv, LocalsInv, LocalsOK, PlanRecord, As, Closing

\* A step moves the call and replaces its copy.
LEMMA Moves ==
  ASSUME TypeInv, NEW c \in Calls
  PROVE  /\ \A label : Goto(c, label) => pc'[c] = label
         /\ \A p : Hold(c, p) => view'[c] = p
  BY DEF TypeInv, LocalsInv, LocalsOK, Goto, Hold

\* What one call does to its own locals, no other call notices.
Spared(c) ==
  \A d \in Calls : d # c => /\ pc'[d] = pc[d] /\ view'[d] = view[d]
                            /\ todo'[d] = todo[d] /\ recNext'[d] = recNext[d]
                            /\ sview'[d] = sview[d]

\* The building blocks of the handlers write the locals of their own call.
LEMMA OwnLocals ==
  ASSUME TypeInv, NEW c \in Calls
  PROVE  /\ \A label : Goto(c, label) => \A d \in Calls : d # c => pc'[d] = pc[d]
         /\ \A p : Hold(c, p) => \A d \in Calls : d # c => view'[d] = view[d]
         /\ Forget(c) => Spared(c)
         /\ \A posts, status : Bookkeep(c, posts, status) => Spared(c)
  BY DEF TypeInv, LocalsInv, LocalsOK, Goto, Hold, Forget, Bookkeep, Spared

\* So does every step of a call in flight.
LEMMA StepSpares ==
  ASSUME TypeInv, NEW c \in Calls, Step(c)
  PROVE  Spared(c)
<1>1. CASE \/ Refuse(c) \/ NotExecutable(c) \/ AcquireFails(c) \/ LookupFails(c)
           \/ AutoRollbackRefused(c) \/ FinishRollbackFailed(c) \/ ClaimWasted(c)
           \/ JudgeInconclusive(c) \/ WriteFails(c) \/ Close(c)
  BY <1>1, OwnLocals
  DEF Refuse, NotExecutable, AcquireFails, LookupFails, AutoRollbackRefused,
      FinishRollbackFailed, ClaimWasted, JudgeInconclusive, WriteFails, Close, Return
<1>2. CASE \/ PreflightFails(c) \/ Finish(c) \/ AssumeFails(c) \/ FinishRolledBack(c)
           \/ JudgeHolding(c) \/ JudgeFailing(c) \/ Cancel(c)
  BY <1>2, OwnLocals
  DEF PreflightFails, Finish, AssumeFails, FinishRolledBack, JudgeHolding, JudgeFailing,
      Cancel
<1>3. CASE \/ Reconfirm(c) \/ Promote(c) \/ AlreadyPromoted(c) \/ Acquire(c) \/ Reload(c)
           \/ Begin(c) \/ Record(c) \/ Abort(c)
  BY <1>3, OwnLocals
  DEF Reconfirm, Promote, AlreadyPromoted, Acquire, Reload, Begin, Record, Abort, Proceed,
      entries, Spared
<1>4. CASE ApplyOk(c) \/ ApplyFails(c) \/ ApplyRetries(c)
  BY <1>4, OwnLocals DEF ApplyOk, ApplyFails, ApplyRetries, Outcome, entries, Spared
<1>5. CASE \/ LoadForRollback(c) \/ LoadForValidate(c) \/ StartRollback(c)
           \/ RollbackOk(c) \/ RollbackFails(c) \/ RollbackRetries(c)
           \/ MarkValidating(c) \/ JudgeAutoRollback(c)
  BY <1>5, OwnLocals
  DEF LoadForRollback, LoadForValidate, StartRollback, RollbackOk, RollbackFails,
      RollbackRetries, MarkValidating, JudgeAutoRollback, entries, Spared
<1>6. CASE LedgerRead(c) \/ LedgerSave(c)
  BY <1>6, OwnLocals
  DEF LedgerRead, LedgerSave, Spared, TypeInv, LocalsInv, LocalsOK
<1> QED
  BY <1>1, <1>2, <1>3, <1>4, <1>5, <1>6 DEF Step

\* So does everything a call does.
LEMMA CallSpares ==
  ASSUME TypeInv, NEW c \in Calls, Start(c) \/ Continue(c) \/ Crash(c)
  PROVE  Spared(c)
<1>1. CASE Continue(c)
  BY <1>1, StepSpares DEF Continue
<1>2. CASE Crash(c)
  BY <1>2, OwnLocals DEF Crash
<1>3. CASE Start(c)
  BY <1>3, OwnLocals
  DEF Start, LoadForExecute, LoadForRollback, LoadForValidate, LoadForCancel, Claim,
      entries, Spared
<1> QED
  BY <1>1, <1>2, <1>3

\* A blank record claims nothing.
LEMMA BlankClaims == ~Claims(Blank) /\ ~Gained(NewSavings)
<1>1. ~Claims(Blank)
  BY StepsDomain DEF Claims, Blank, NewPlan, HasRun, Validatable
<1>2. NewSavings.stage = Ladder[3]
  BY DEF NewSavings, Ladder
<1> QED
  BY <1>1, <1>2, Rungs DEF Gained

\* What a handler writes back claims no more than the copy it holds, unless it stores that
\* the plan has run.
LEMMA AsClaims ==
  ASSUME TypeInv, NEW c \in Calls, NEW s,
         s \in HasRun => view[c].state \in HasRun \/ view[c].steps[3] = "succeeded"
  PROVE  (Claims(As(c, s)) => Claims(view[c])) /\ (Claims(Closing(c, s)) => Claims(view[c]))
  BY AsState, AsReal, AsSteps DEF Claims

\* A plan written back by the call that has it in hand leaves the store earned.
LEMMA WritesEarned ==
  ASSUME TypeInv, StoreEarns, NEW c \in Calls, CallEarns(c), pc[c] \in Handling, NEW s,
         s \in HasRun => view[c].state \in HasRun \/ view[c].steps[3] = "succeeded",
         UNCHANGED << savings, landed >>,
         \/ UNCHANGED plan
         \/ plan' = view[c] \/ plan' = As(c, s) \/ plan' = Closing(c, s)
  PROVE  StoreEarns' /\ Onward
<1>1. plan'.dryRun <=> plan.dryRun
  BY AsReal DEF CallEarns
<1>2. Claims(plan') => landed
  BY AsClaims DEF CallEarns, StoreEarns
<1> QED
  BY <1>1, <1>2 DEF StoreEarns, Onward

\* What one call does leaves the others' claims good.
LEMMA OthersEarn ==
  ASSUME NEW c \in Calls, Spared(c), EarnedInv, Onward, StoreEarns', CallEarns(c)'
  PROVE  EarnedInv'
<1>1. ASSUME NEW d \in Calls, d # c PROVE CallEarns(d)'
  <2>1. CallEarns(d) /\ pc'[d] = pc[d] /\ view'[d] = view[d] /\ todo'[d] = todo[d]
        /\ sview'[d] = sview[d]
    BY <1>1 DEF Spared, EarnedInv
  <2> QED
    BY <2>1 DEF CallEarns, Posting, OwesGain, Onward
<1> QED
  BY <1>1 DEF EarnedInv

\* A call that returns or dies claims nothing.
LEMMA EndEarned ==
  ASSUME TypeInv, NEW c \in Calls, Forget(c)
  PROVE  CallEarns(c)'
<1>1. pc'[c] = "idle" /\ view'[c] = Blank /\ sview'[c] = NewSavings
  BY DEF Forget, Goto, Hold, TypeInv, LocalsInv, LocalsOK
<1> QED
  BY <1>1, BlankClaims DEF CallEarns, Handling, Posting, OwesGain

\* A call that turns to the books has earned the gains it is about to post.
LEMMA BookkeepEarned ==
  ASSUME TypeInv, NEW c \in Calls, CallEarns(c), Onward, NEW posts \in Lists, NEW status,
         Bookkeep(c, posts, status), ~plan.dryRun /\ posts # << "lost" >> => landed
  PROVE  CallEarns(c)'
<1>1. pc'[c] = "ledger" /\ view'[c] = Blank /\ todo'[c] = posts /\ sview'[c] = sview[c]
  BY DEF Bookkeep, Goto, Hold, TypeInv, LocalsInv, LocalsOK
<1> QED
  BY <1>1, BlankClaims DEF CallEarns, Handling, Posting, OwesGain, Onward

\* A call that goes on with a copy of the plan answers for what the copy claims.
LEMMA GoesOnEarned ==
  ASSUME NEW c \in Calls, CallEarns(c), Onward, UNCHANGED entries,
         NEW p, view'[c] = p, Claims(p) => landed', ~Posting(c)',
         pc'[c] \in Handling => (p.dryRun <=> plan.dryRun),
         pc'[c] = "finish" => p.steps[3] = "succeeded",
         pc'[c] \in { "mark", "judge" } => p.state \in HasRun
  PROVE  CallEarns(c)'
<1>1. ~OwesGain(c)' /\ UNCHANGED sview
  BY DEF OwesGain, entries
<1> QED
  BY <1>1 DEF CallEarns, Onward

\* A loop that has no step left has made the change: no step is ever marked skipped.
LEMMA LoopEnds ==
  ASSUME NEW steps \in [1 .. 4 -> StepState], NEW i \in 0 .. 4,
         NextStep(steps, i) \notin DOMAIN Steps, steps[3] # "skipped",
         i >= 3 => steps[3] = "succeeded"
  PROVE  steps[3] = "succeeded"
<1> DEFINE n == NextStep(steps, i)
<1>1. n = 5 /\ \A j \in 1 .. 4 : i < j /\ j < n => steps[j] \in { "succeeded", "skipped" }
  BY NextStepLemma, StepsDomain
<1> HIDE DEF n
<1> QED
  BY <1>1

\* An attempt at the mutate step leaves the change behind it, or claims nothing.
LEMMA OutcomeEarned ==
  ASSUME TypeInv, StoreEarns, NEW c \in Calls, CallEarns(c), pc[c] = "apply",
         NEW s \in StepState, Outcome(c, s), NEW hit \in { FALSE, Mutates(c) }, Touch(hit),
         s = "succeeded" => hit = Mutates(c)
  PROVE  StoreEarns' /\ CallEarns(c)' /\ Onward
<1> DEFINE p == view[c]
           i == cur[c]
           q == [p EXCEPT !.steps[i] = s]
<1>1. i \in 1 .. 4 /\ p \in PlanRecord /\ p.steps \in [1 .. 4 -> StepState]
  BY PlanFields DEF TypeInv, LocalsInv, LocalsOK, AtStep
<1>2. /\ view'[c] = q /\ pc'[c] = "record"
      /\ UNCHANGED << plan, savings, entries >> /\ landed' = (landed \/ hit)
  BY Moves DEF Outcome, Touch
<1>3. q.state = p.state /\ q.dryRun = p.dryRun /\ q.steps = [p.steps EXCEPT ![i] = s]
  BY <1>1 DEF PlanRecord
<1>4. ASSUME i = 3, s = "succeeded", ~p.dryRun PROVE hit
  <2>1. Steps[cur[c]] = "mutate"
    BY <1>4 DEF Steps
  <2>2. Mutates(c) = TRUE
    BY <1>4, <2>1 DEF Mutates
  <2> QED
    BY <1>4, <2>2
<1>5. (Claims(p) => landed) /\ (p.dryRun <=> plan.dryRun)
  BY DEF CallEarns, Handling, Labels
<1> HIDE DEF p, q, i
<1>6. q.steps[3] = IF i = 3 THEN s ELSE p.steps[3]
  BY <1>1, <1>3
<1>7. Claims(q) => landed'
  BY <1>2, <1>3, <1>4, <1>5, <1>6 DEF Claims
<1>8. StoreEarns' /\ Onward
  BY <1>2 DEF StoreEarns, Onward
<1>9. CallEarns(c)'
  BY <1>2, <1>3, <1>5, <1>7, <1>8, GoesOnEarned DEF Posting
<1> QED
  BY <1>8, <1>9

\* A posting turns a gain that was earned into a gain that is booked.
LEMMA SaveEarned ==
  ASSUME TypeInv, StoreEarns, NEW c \in Calls, CallEarns(c), LedgerSave(c)
  PROVE  StoreEarns' /\ CallEarns(c)' /\ Onward
<1> DEFINE l == todo[c]
           s == sview[c]
<1>1. /\ Posting(c) /\ UNCHANGED << plan, view, landed >>
      /\ savings' = Post(s, Head(l)) \/ UNCHANGED savings
  BY DEF LedgerSave, Posting
<1>2. /\ pc'[c] = IF Len(l) > 1 THEN "ledger" ELSE "close"
      /\ todo'[c] = Tail(l) /\ sview'[c] = NewSavings
  BY DEF LedgerSave, Goto, TypeInv, LocalsInv, LocalsOK
<1>3. l \in Lists /\ s \in SavingsRecord
  BY <1>1 DEF CallEarns, TypeInv, LocalsInv, LocalsOK
<1>4. ~plan.dryRun /\ (Gained(s) \/ l # << "lost" >>) => landed
  BY <1>1 DEF CallEarns, OwesGain
<1>c. Claims(view[c]) => landed
  BY DEF CallEarns
<1> HIDE DEF l, s
<1>5. Gained(Post(s, Head(l))) => Gained(s) \/ l # << "lost" >>
  BY <1>3, PostEffect, ListShapes DEF Gained, LedgerEntry
<1>6. /\ Posting(c)' => todo'[c] = << "realized" >> /\ l \in Promises
      /\ << "realized" >> \in Lists
  BY <1>2, <1>3, ListShapes DEF Posting, Lists
<1>7. OwesGain(c)' => l # << "lost" >>
  BY <1>3, <1>6, ListShapes DEF OwesGain
<1>8. StoreEarns' /\ Onward
  BY <1>1, <1>4, <1>5 DEF StoreEarns, Onward
<1>9. CallEarns(c)'
  BY <1>1, <1>2, <1>4, <1>6, <1>7, <1>c, BlankClaims DEF CallEarns, Handling
<1> QED
  BY <1>8, <1>9

\* Every step of a call in flight keeps the sixth layer.
LEMMA StepEarns ==
  ASSUME TypeInv, StepsInv, StoreEarns, NEW c \in Calls, CallEarns(c), Step(c)
  PROVE  StoreEarns' /\ CallEarns(c)' /\ Onward
<1> DEFINE Earned == StoreEarns' /\ CallEarns(c)' /\ Onward
<1>h. pc[c] \in Labels
  BY DEF TypeInv, LocalsInv, LocalsOK
<1>w. ASSUME UNCHANGED << plan, savings >>, landed => landed'
      PROVE  StoreEarns' /\ Onward
  BY <1>w DEF StoreEarns, Onward
<1>l. << "lost" >> \in Lists /\ << "executed" >> \in Lists /\ Promises \subseteq Lists
  BY DEF Lists
<1>s. { "failed", "rolling_back", "rolled_back", "rollback_failed", "cancelled",
        "approved", "executing" } \cap HasRun = {}
  BY DEF HasRun, Validatable
\* The call is over.
<1>1. CASE \/ NotExecutable(c) \/ AcquireFails(c) \/ LookupFails(c)
           \/ AutoRollbackRefused(c) \/ ClaimWasted(c) \/ JudgeInconclusive(c)
           \/ WriteFails(c) \/ Close(c)
  BY <1>1, <1>w, EndEarned
  DEF NotExecutable, AcquireFails, LookupFails, AutoRollbackRefused, ClaimWasted,
      JudgeInconclusive, WriteFails, Close, Return, outside
<1>2. CASE Refuse(c) \/ FinishRollbackFailed(c)
  <2>1. PICK s \in { "failed", "rollback_failed" } :
          UNCHANGED plan \/ plan' = As(c, s) \/ plan' = Closing(c, s)
    BY <1>2 DEF Refuse, FinishRollbackFailed, Store
  <2>2. pc[c] \in Handling /\ Forget(c) /\ UNCHANGED << savings, landed >>
    BY <1>2, <1>h DEF Refuse, FinishRollbackFailed, Return, outside, Handling
  <2> QED
    BY <1>s, <2>1, <2>2, WritesEarned, EndEarned
\* It turns to the books, with a loss or with a gain.
<1>3. CASE \/ PreflightFails(c) \/ AssumeFails(c) \/ FinishRolledBack(c)
           \/ JudgeFailing(c) \/ Cancel(c)
  <2>1. PICK s \in { "failed", "rolled_back", "cancelled" } :
          UNCHANGED plan \/ plan' = As(c, s) \/ plan' = Closing(c, s)
    BY <1>3
    DEF PreflightFails, AssumeFails, FinishRolledBack, JudgeFailing, Cancel, Store
  <2>2. PICK status : Bookkeep(c, << "lost" >>, status)
    BY <1>3 DEF PreflightFails, AssumeFails, FinishRolledBack, JudgeFailing, Cancel
  <2>3. pc[c] \in Handling /\ UNCHANGED << savings, landed >>
    BY <1>3, <1>h
    DEF PreflightFails, AssumeFails, FinishRolledBack, JudgeFailing, Cancel, outside,
        Handling
  <2>4. StoreEarns' /\ Onward
    BY <1>s, <2>1, <2>3, WritesEarned
  <2> QED
    BY <1>l, <2>2, <2>4, BookkeepEarned
<1>4. CASE Finish(c) \/ JudgeHolding(c)
  <2>1. PICK s \in { "executed", "validated" } :
          UNCHANGED plan \/ plan' = As(c, s) \/ plan' = Closing(c, s)
    BY <1>4 DEF Finish, JudgeHolding, Store
  <2>2. PICK posts \in Lists : \E status : Bookkeep(c, posts, status)
    BY <1>4, <1>l DEF Finish, JudgeHolding, Promises
  <2>3. /\ pc[c] \in Handling /\ UNCHANGED << savings, landed >>
        /\ view[c].state \in HasRun \/ view[c].steps[3] = "succeeded"
    BY <1>4, <1>h DEF Finish, JudgeHolding, outside, Handling, CallEarns
  <2>4. StoreEarns' /\ Onward
    BY <2>1, <2>3, WritesEarned
  <2>5. ~plan.dryRun => landed
    BY <2>3 DEF CallEarns, Claims
  <2> QED
    BY <2>2, <2>4, <2>5, BookkeepEarned
\* It reads the plan again.
<1>5. CASE Reload(c) \/ LoadForRollback(c) \/ LoadForValidate(c)
  <2>1. /\ view'[c] = plan /\ UNCHANGED << plan, savings, landed, entries >>
        /\ pc'[c] \in { "preflight", "rb_acquire", "mark", "judge" }
        /\ pc'[c] \in { "mark", "judge" } => plan.state \in HasRun
    BY <1>5, Moves DEF Reload, LoadForRollback, LoadForValidate, outside, HasRun
  <2>2. CallEarns(c)'
    BY <1>w, <2>1, GoesOnEarned DEF StoreEarns, Posting
  <2> QED
    BY <1>w, <2>1, <2>2
\* It moves on with the copy it has.
<1>6. CASE \/ Reconfirm(c) \/ AlreadyPromoted(c) \/ Acquire(c) \/ RollbackOk(c)
           \/ RollbackFails(c)
  <2>1. /\ UNCHANGED << view, plan, savings, landed, entries >> /\ pc[c] \in Handling
        /\ pc'[c] \in Handling \ { "finish", "mark", "judge" }
    BY <1>6, <1>h, Moves
    DEF Reconfirm, AlreadyPromoted, Acquire, RollbackOk, RollbackFails, Restore, outside,
        Handling, Labels
  <2>2. CallEarns(c)'
    BY <1>w, <2>1, GoesOnEarned DEF CallEarns, Posting, Handling
  <2> QED
    BY <1>w, <2>1, <2>2
<1>7. CASE ApplyRetries(c) \/ RollbackRetries(c)
  <2>1. UNCHANGED << view, pc, plan, savings, entries >> /\ (landed => landed')
    <3>1. CASE ApplyRetries(c)
      BY <3>1 DEF ApplyRetries, MayTouch, Touch
    <3>2. CASE RollbackRetries(c)
      BY <3>2 DEF RollbackRetries, Restore
    <3> QED
      BY <1>7, <3>1, <3>2
  <2>2. CallEarns(c)'
    BY <2>1 DEF CallEarns, Posting, OwesGain, entries
  <2> QED
    BY <1>w, <2>1, <2>2
<1>8. CASE JudgeAutoRollback(c)
  <2>1. /\ view'[c] = Blank /\ pc'[c] = "auto_rollback"
        /\ UNCHANGED << plan, savings, landed, entries >>
    BY <1>8, Moves DEF JudgeAutoRollback, outside
  <2>2. CallEarns(c)'
    BY <1>w, <2>1, BlankClaims, GoesOnEarned DEF Posting, Handling
  <2> QED
    BY <1>w, <2>1, <2>2
\* It writes the plan back and goes on with what it wrote.
<1>9. CASE Promote(c) \/ Abort(c) \/ StartRollback(c) \/ MarkValidating(c)
  <2>1. PICK s \in { "approved", "failed", "rolling_back", "validating" } :
          /\ UNCHANGED plan \/ plan' = As(c, s)
          /\ view'[c] = As(c, s)
          /\ s \in HasRun => pc[c] = "mark" /\ s = "validating"
    BY <1>9, <1>s, Moves DEF Promote, Abort, StartRollback, MarkValidating, Store
  <2>2. /\ pc[c] \in Handling /\ UNCHANGED << savings, landed, entries >>
        /\ pc'[c] \in { "acquire", "assume", "rb_step", "rb_done", "judge" }
        /\ pc'[c] = "judge" => s = "validating"
    BY <1>9, <1>h, <2>1, Moves, AsState
    DEF Promote, Abort, StartRollback, MarkValidating, outside, Handling
  <2>3. s \in HasRun => view[c].state \in HasRun
    BY <2>1 DEF CallEarns
  <2>4. StoreEarns' /\ Onward
    BY <2>1, <2>2, <2>3, WritesEarned
  <2>5. (Claims(As(c, s)) => landed) /\ (As(c, s).dryRun <=> plan.dryRun)
    BY <2>2, <2>3, AsClaims, AsReal DEF CallEarns
  <2>6. pc'[c] = "judge" => As(c, s).state \in HasRun
    BY <2>2, AsState DEF HasRun, Validatable
  <2>7. CallEarns(c)'
    BY <2>1, <2>2, <2>4, <2>5, <2>6, GoesOnEarned DEF Posting
  <2> QED
    BY <2>4, <2>7
\* It begins the loop, or goes round it.
<1>10. CASE Begin(c)
  <2> PICK p : p = As(c, "executing")
    OBVIOUS
  <2>1. /\ pc[c] \in Handling /\ plan' = p /\ view'[c] = p
        /\ UNCHANGED << savings, landed, entries >>
        /\ pc'[c] \in { "apply", "finish" }
    BY <1>10, <1>h, Moves DEF Begin, Proceed, outside, Handling
  <2>2. p.steps = view[c].steps /\ (p.dryRun <=> plan.dryRun)
    BY <2>1, AsSteps, AsReal DEF CallEarns
  <2>3. StoreEarns' /\ Onward
    BY <1>s, <2>1, WritesEarned
  <2>4. ASSUME pc'[c] = "finish" PROVE p.steps[3] = "succeeded"
    <3>1. view[c].steps \in [1 .. 4 -> StepState] /\ view[c].steps[3] # "skipped"
      BY PlanFields DEF TypeInv, LocalsInv, LocalsOK, StepsInv, NoSkips, Unskipped
    <3>2. NextStep(view[c].steps, 0) \notin DOMAIN Steps
      BY <1>10, <2>4, Moves DEF Begin, Proceed
    <3> QED
      BY <2>2, <3>1, <3>2, LoopEnds
  <2>5. CallEarns(c)'
    BY <2>1, <2>2, <2>3, <2>4, GoesOnEarned DEF Posting, StoreEarns
  <2> QED
    BY <2>3, <2>5
<1>11. CASE ApplyOk(c)
  <2>1. "succeeded" \in StepState /\ Mutates(c) \in { FALSE, Mutates(c) }
    BY DEF StepState
  <2> QED
    BY <1>11, <2>1, OutcomeEarned DEF ApplyOk
<1>12. CASE ApplyFails(c)
  <2>1. "failed" \in StepState
    BY DEF StepState
  <2>2. PICK hit \in { FALSE, Mutates(c) } : Touch(hit)
    BY <1>12 DEF ApplyFails, MayTouch
  <2> QED
    BY <1>12, <2>1, <2>2, OutcomeEarned DEF ApplyFails
<1>13. CASE Record(c)
  <2>1. /\ pc[c] = "record" /\ pc[c] \in Handling
        /\ UNCHANGED plan \/ plan' = view[c]
        /\ UNCHANGED << view, savings, landed, entries >>
        /\ pc'[c] \in { "apply", "finish", "abort" }
    BY <1>13, <1>h, Moves DEF Record, Store, Proceed, outside, Handling
  <2>2. StoreEarns' /\ Onward
    BY <1>s, <2>1, WritesEarned
  <2>3. ASSUME pc'[c] = "finish" PROVE view[c].steps[3] = "succeeded"
    <3>1. cur[c] \in 1 .. 4 /\ view[c].steps \in [1 .. 4 -> StepState]
      BY <2>1, PlanFields DEF TypeInv, LocalsInv, LocalsOK, AtStep
    <3>2. /\ NextStep(view[c].steps, cur[c]) \notin DOMAIN Steps
          /\ ~(view[c].steps[cur[c]] = "failed" /\ AbortOnFailure(cur[c]))
      BY <1>13, <2>3, Moves DEF Record, Proceed
    <3>3. AbortOnFailure(3) /\ view[c].steps[3] # "skipped"
      BY DEF AbortOnFailure, Steps, StepsInv, NoSkips, Unskipped
    <3>4. cur[c] = 3 => view[c].steps[3] = "succeeded"
      BY <2>1, <3>2, <3>3 DEF StepsInv, RunsInOrder
    <3>5. cur[c] > 3 => view[c].steps[3] = "succeeded"
      BY <2>1, <3>1, <3>3 DEF StepsInv, RunsInOrder, Ready
    <3> QED
      BY <3>1, <3>2, <3>3, <3>4, <3>5, LoopEnds
  <2>4. CallEarns(c)'
    BY <2>1, <2>2, <2>3, GoesOnEarned DEF Posting, CallEarns
  <2> QED
    BY <2>2, <2>4
\* It posts to the books.
<1>14. CASE LedgerRead(c)
  <2>1. /\ pc[c] = "ledger" /\ pc'[c] = "ledger_save" /\ sview'[c] = savings
        /\ UNCHANGED << plan, view, savings, landed, todo >>
    BY <1>14, Moves DEF LedgerRead, outside, TypeInv, LocalsInv, LocalsOK
  <2>2. CallEarns(c)'
    BY <2>1 DEF CallEarns, StoreEarns, Posting, OwesGain, Handling
  <2> QED
    BY <1>w, <2>1, <2>2
<1>15. CASE LedgerSave(c)
  BY <1>15, SaveEarned
<1> QED
  BY <1>1, <1>2, <1>3, <1>4, <1>5, <1>6, <1>7, <1>8, <1>9, <1>10, <1>11, <1>12, <1>13,
      <1>14, <1>15
  DEF Step

\* So does the first read of a call.
LEMMA StartEarns ==
  ASSUME TypeInv, StoreEarns, NEW c \in Calls, CallEarns(c), Start(c)
  PROVE  StoreEarns' /\ CallEarns(c)' /\ Onward
<1>1. UNCHANGED << savings, landed, entries >>
  BY
  DEF Start, LoadForExecute, LoadForRollback, LoadForValidate, LoadForCancel, Claim, outside
<1>2. CASE ~Claim(c)
  <2>1. /\ view'[c] = plan /\ UNCHANGED plan
        /\ pc'[c] \in { "reconfirm", "rb_acquire", "mark", "judge", "cancel" }
        /\ pc'[c] \in { "mark", "judge" } => plan.state \in HasRun
    BY <1>2, Moves
    DEF Start, LoadForExecute, LoadForRollback, LoadForValidate, LoadForCancel, HasRun
  <2>2. StoreEarns' /\ Onward
    BY <1>1, <2>1 DEF StoreEarns, Onward
  <2>3. CallEarns(c)'
    BY <1>1, <2>1, <2>2, GoesOnEarned DEF StoreEarns, Posting
  <2> QED
    BY <2>2, <2>3
<1>3. CASE Claim(c)
  <2> PICK p : p = [plan EXCEPT !.state = "validating"]
    OBVIOUS
  <2>1. /\ plan' = p /\ plan.state = "executed" /\ UNCHANGED view /\ pc[c] = "idle"
        /\ pc'[c] = "claimed"
    BY <1>3, Moves DEF Claim
  <2>2. p.dryRun = plan.dryRun
    BY DEF TypeInv, StoreOK, PlanRecord
  <2>3. Claims(p) => landed
    BY <2>1, <2>2 DEF StoreEarns, Claims, HasRun, Validatable
  <2>4. StoreEarns' /\ Onward
    BY <1>1, <2>1, <2>2, <2>3 DEF StoreEarns, Onward
  <2>5. CallEarns(c)'
    BY <1>1, <2>1, <2>4, GoesOnEarned DEF CallEarns, Posting, Handling
  <2> QED
    BY <2>4, <2>5
<1> QED
  BY <1>2, <1>3

\* Every step of the system keeps the sixth layer.
LEMMA EarnedStep == TypeInv /\ StepsInv /\ EarnedInv /\ [Next]_vars => EarnedInv'
<1> SUFFICES ASSUME TypeInv, StepsInv, EarnedInv, [Next]_vars PROVE EarnedInv'
  OBVIOUS
<1>1. ASSUME NEW c \in Calls, Start(c) \/ Continue(c) \/ Crash(c) PROVE EarnedInv'
  <2>1. StoreEarns /\ CallEarns(c)
    BY DEF EarnedInv
  <2>2. StoreEarns' /\ CallEarns(c)' /\ Onward
    <3>1. CASE Start(c)
      BY <2>1, <3>1, StartEarns
    <3>2. CASE Continue(c)
      BY <2>1, <3>2, StepEarns DEF Continue
    <3>3. CASE Crash(c)
      BY <2>1, <3>3, EndEarned DEF Crash, outside, StoreEarns, Onward
    <3> QED
      BY <1>1, <3>1, <3>2, <3>3
  <2> QED
    BY <1>1, <2>2, CallSpares, OthersEarn
<1>2. CASE UNCHANGED << plan, savings, landed, pc, view, todo, sview >>
  BY <1>2 DEF EarnedInv, StoreEarns, CallEarns, Posting, OwesGain
<1>3. CASE Decide \/ ExpireLease \/ UNCHANGED vars
  BY <1>2, <1>3 DEF Decide, ExpireLease, vars, outside, entries
<1> QED
  BY <1>1, <1>3 DEF Next

\* At first nothing has run and nothing is booked.
LEMMA EarnedInit == Init => EarnedInv
<1> SUFFICES ASSUME Init PROVE EarnedInv
  OBVIOUS
<1>1. plan.state \in { "approved", "awaiting_approval" } /\ plan.steps[3] = "pending"
  BY StepsDomain DEF Init, NewPlan
<1>2. StoreEarns
  BY <1>1, BlankClaims DEF Init, StoreEarns, Claims, HasRun, Validatable
<1>3. \A c \in Calls : CallEarns(c)
  BY BlankClaims DEF Init, CallEarns, Handling, Posting, OwesGain
<1> QED
  BY <1>2, <1>3 DEF EarnedInv

\* The sixth layer holds throughout.
LEMMA EarnedAlways == Spec => []EarnedInv
  BY TypeAlways, StepsAlways, EarnedInit, EarnedStep, PTL DEF Spec

\* A saving booked as executed has a mutation behind it, unless the plan is a dry run.  No
\* overlap of calls, stale copy, retry, death or lost write can book a gain for a change
\* that was never made (savings.go:32).
THEOREM BookedGainsAreReal == Spec => []ExecutedMeansLanded
<1>1. EarnedInv => ExecutedMeansLanded
  BY DEF EarnedInv, StoreEarns, Gained, ExecutedMeansLanded
<1> QED
  BY <1>1, EarnedAlways, PTL

-------------------------------------------------------------------------------
\* Seventh layer: calls that do not overlap.  Then no copy of the plan is stale when a
\* decision is taken on it, and the stored state tells what AWS carries.  Overlapping calls
\* break each of the results of this layer and the next: a cancellation or a refusal
\* writes its old copy over a plan that has run meanwhile.

Apart == \A c, d \in Calls : pc[c] # "idle" /\ pc[d] # "idle" => c = d

\* The plan is really to be executed.
NoDryRun == ~plan.dryRun

Unrun  == Cancellable \cup { "cancelled" }

StoreFits ==
  /\ plan.state \in Cancellable => ~landed /\ plan.steps[3] # "succeeded"
  /\ plan.state = "cancelled" => ~changed
  /\ plan.state \in HasRun /\ NoDryRun /\ refusals = 0 => changed
  /\ changed => landed

CallFits(c) ==
  /\ pc[c] \in { "reconfirm", "promote", "preflight" } => view[c] = plan
  /\ pc[c] = "preflight" => plan.state \in { "approved", "scheduled" }
  /\ pc[c] \in { "apply", "record", "finish" } =>
       /\ plan.state = "executing" /\ view[c].state = "executing"
       /\ view[c].steps[3] = "succeeded" /\ NoDryRun => changed
  /\ pc[c] = "assume" /\ refusals = 0 => plan.state = "failed"
  /\ pc[c] \in { "rb_step", "rb_done", "rb_failed" } /\ refusals = 0
       => plan.state = "rolling_back"
  /\ pc[c] \in { "mark", "judge" } => plan.state \in HasRun
  /\ pc[c] = "cancel" => plan.state \in Cancellable

SequentialInv == StoreFits /\ \A c \in Calls : CallFits(c)

\* While a call does something, and nothing overlaps it, every other call is at rest.
LEMMA OthersRest ==
  ASSUME TypeInv, Apart, Apart', NEW c \in Calls, Start(c) \/ Continue(c) \/ Crash(c),
         NEW d \in Calls, d # c
  PROVE  pc[d] = "idle" /\ pc'[d] = "idle"
<1>1. pc'[d] = pc[d]
  BY CallSpares DEF Spared
<1>2. pc[c] # "idle" \/ pc'[c] # "idle"
  <2>1. CASE Start(c)
    BY <2>1
    DEF Start, LoadForExecute, LoadForRollback, LoadForValidate, LoadForCancel, Claim,
        Goto, TypeInv, LocalsInv, LocalsOK
  <2>2. CASE Continue(c) \/ Crash(c)
    BY <2>2 DEF Continue, Crash
  <2> QED
    BY <2>1, <2>2
<1> QED
  BY <1>1, <1>2 DEF Apart

\* The call that does something is all there is to look at.
LEMMA ApartFits ==
  ASSUME TypeInv, SequentialInv, Apart, Apart', NEW c \in Calls,
         Start(c) \/ Continue(c) \/ Crash(c), StoreFits', CallFits(c)'
  PROVE  SequentialInv'
<1>1. ASSUME NEW d \in Calls, d # c PROVE CallFits(d)'
  <2>1. pc'[d] = "idle" /\ view'[d] = view[d]
    BY <1>1, OthersRest, CallSpares DEF Spared
  <2> QED
    BY <1>1, <2>1 DEF SequentialInv, CallFits
<1> QED
  BY <1>1 DEF SequentialInv

\* A write that failed, or that stored a state between approval and execution's end,
\* needs nothing of AWS.
LEMMA StoreStays ==
  ASSUME TypeInv, StoreFits, UNCHANGED << changed, landed >>,
         UNCHANGED refusals \/ Refused,
         \/ UNCHANGED plan
         \/ plan'.state \notin Unrun \cup HasRun
  PROVE  StoreFits'
<1>1. refusals' = 0 => refusals = 0
  BY BoundsAssumption DEF Refused, TypeInv, FaultsOK
<1> QED
  BY <1>1 DEF StoreFits, Unrun, HasRun, NoDryRun

\* A call that is over, or left with its bookkeeping, fits any store.
LEMMA LeavesFit ==
  ASSUME TypeInv, NEW c \in Calls,
         Forget(c) \/ \E posts, status : Bookkeep(c, posts, status)
  PROVE  CallFits(c)'
<1>1. pc'[c] \in { "idle", "ledger" }
  BY Moves DEF Forget, Bookkeep
<1> QED
  BY <1>1 DEF CallFits

\* A step that ends with an outcome leaves the loop between two stored states.
LEMMA OutcomeFits ==
  ASSUME TypeInv, StoreFits, NEW c \in Calls, CallEarns(c), CallFits(c), pc[c] = "apply",
         NEW s \in StepState, Outcome(c, s), NEW hit \in { FALSE, Mutates(c) }, Touch(hit),
         s = "succeeded" => hit = Mutates(c)
  PROVE  StoreFits' /\ CallFits(c)'
<1> DEFINE p == view[c]
           i == cur[c]
           q == [p EXCEPT !.steps[i] = s]
<1>1. i \in 1 .. 4 /\ p \in PlanRecord /\ p.steps \in [1 .. 4 -> StepState]
  BY PlanFields DEF TypeInv, LocalsInv, LocalsOK, AtStep
<1>2. /\ plan.state = "executing" /\ p.state = "executing" /\ (NoDryRun => ~p.dryRun)
      /\ p.steps[3] = "succeeded" /\ NoDryRun => changed
  BY DEF CallFits, CallEarns, Handling, Labels, NoDryRun
<1>3. view'[c] = q /\ pc'[c] = "record" /\ UNCHANGED << plan, refusals >>
  BY Moves DEF Outcome, faults
<1>4. (changed => changed') /\ (changed' => landed') /\ (hit => changed')
  BY DEF Touch, StoreFits
<1>5. q.state = "executing" /\ q.dryRun = p.dryRun /\ q.steps = [p.steps EXCEPT ![i] = s]
  BY <1>1, <1>2 DEF PlanRecord
<1>6. ASSUME i = 3, s = "succeeded", NoDryRun PROVE hit
  <2>1. Steps[cur[c]] = "mutate"
    BY <1>6 DEF Steps
  <2>2. Mutates(c) = TRUE
    BY <1>2, <1>6, <2>1 DEF Mutates
  <2> QED
    BY <1>6, <2>2
<1> HIDE DEF q
<1>7. q.steps[3] = "succeeded" /\ NoDryRun => changed'
  <2> HIDE DEF i, p
  <2>1. q.steps[3] = IF i = 3 THEN s ELSE p.steps[3]
    BY <1>1, <1>5
  <2> QED
    BY <1>2, <1>4, <1>6, <2>1
<1>8. StoreFits'
  BY <1>2, <1>3, <1>4 DEF StoreFits, Cancellable, HasRun, Validatable
<1>9. CallFits(c)'
  BY <1>2, <1>3, <1>5, <1>7 DEF CallFits, NoDryRun
<1> QED
  BY <1>8, <1>9

\* Every step of a call in flight that fits the store keeps the seventh layer.
LEMMA StepFits ==
  ASSUME TypeInv, StepsInv, StoreFits, NEW c \in Calls, CallEarns(c), CallFits(c),
         Step(c), Onward
  PROVE  StoreFits' /\ CallFits(c)'
<1> DEFINE Fits == StoreFits' /\ CallFits(c)'
<1>o. NoDryRun' <=> NoDryRun
  BY DEF NoDryRun, Onward
<1>1. ASSUME Reconfirm(c) PROVE Fits
  <2>1. StoreFits'
    BY <1>1, StoreStays DEF Reconfirm, outside, faults
  <2>2. pc'[c] \in { "promote", "refuse" } /\ UNCHANGED << view, plan >>
    BY <1>1, Moves DEF Reconfirm
  <2>3. CallFits(c)'
    BY <1>1, <2>2 DEF Reconfirm, CallFits
  <2> QED
    BY <2>1, <2>3
<1>2. ASSUME Refuse(c) PROVE Fits
  <2>1. StoreFits'
    BY <1>2, AsState, StoreStays
    DEF Refuse, Store, Return, outside, Unrun, Cancellable, HasRun, Validatable, CallFits
  <2>2. CallFits(c)'
    BY <1>2, LeavesFit DEF Refuse, Return
  <2> QED
    BY <2>1, <2>2
<1>3. ASSUME Promote(c) PROVE Fits
  <2> PICK p : p = As(c, "approved")
    OBVIOUS
  <2>1. plan' = p /\ view'[c] = p /\ pc'[c] = "acquire"
    BY <1>3, Moves DEF Promote
  <2>2. p.state = "approved" /\ p.steps = plan.steps
    BY <1>3, AsState, AsSteps DEF Promote, CallFits
  <2>3. plan.state \in Cancellable
    BY <1>3 DEF Promote, CallFits, Cancellable
  <2>4. StoreFits'
    BY <1>3, <2>1, <2>2, <2>3
    DEF Promote, StoreFits, outside, faults, HasRun, Validatable
  <2>5. CallFits(c)'
    BY <2>1, <2>2 DEF CallFits
  <2> QED
    BY <2>4, <2>5
<1>4. ASSUME AlreadyPromoted(c) PROVE Fits
  <2>1. StoreFits'
    BY <1>4, StoreStays DEF AlreadyPromoted, outside, faults
  <2>2. CallFits(c)'
    BY <1>4, Moves DEF AlreadyPromoted, CallFits
  <2> QED
    BY <2>1, <2>2
<1>5. ASSUME NotExecutable(c) PROVE Fits
  <2>1. StoreFits'
    BY <1>5, StoreStays DEF NotExecutable, Return, outside, faults
  <2>2. CallFits(c)'
    BY <1>5, LeavesFit DEF NotExecutable, Return
  <2> QED
    BY <2>1, <2>2
<1>6. ASSUME Acquire(c) PROVE Fits
  <2>1. StoreFits'
    BY <1>6, StoreStays DEF Acquire, outside, faults
  <2>2. pc'[c] \in { "reload", "rb_begin" }
    BY <1>6, Moves DEF Acquire
  <2>3. CallFits(c)'
    BY <1>6, <2>2 DEF Acquire, CallFits
  <2> QED
    BY <2>1, <2>3
<1>7. ASSUME AcquireFails(c) PROVE Fits
  <2>1. StoreFits'
    BY <1>7, StoreStays DEF AcquireFails, Return, outside, faults
  <2>2. CallFits(c)'
    BY <1>7, LeavesFit DEF AcquireFails, Return
  <2> QED
    BY <2>1, <2>2
<1>8. ASSUME Reload(c) PROVE Fits
  <2>1. StoreFits'
    BY <1>8, StoreStays DEF Reload, outside, faults
  <2>2. CallFits(c)'
    BY <1>8, Moves DEF Reload, CallFits, StoreFits, Executable
  <2> QED
    BY <2>1, <2>2
<1>9. ASSUME LookupFails(c) PROVE Fits
  <2>1. StoreFits'
    BY <1>9, StoreStays DEF LookupFails, Return, outside, faults
  <2>2. CallFits(c)'
    BY <1>9, LeavesFit DEF LookupFails, Return
  <2> QED
    BY <2>1, <2>2
<1>10. ASSUME PreflightFails(c) PROVE Fits
  <2>1. StoreFits'
    BY <1>10, AsState, StoreStays
    DEF PreflightFails, Store, Bookkeep, outside, Unrun, Cancellable, HasRun, Validatable,
        CallFits
  <2>2. CallFits(c)'
    BY <1>10, LeavesFit DEF PreflightFails
  <2> QED
    BY <2>1, <2>2
<1>11. ASSUME Begin(c) PROVE Fits
  <2> PICK p : p = As(c, "executing")
    OBVIOUS
  <2>1. plan' = p /\ view'[c] = p /\ UNCHANGED << changed, landed, refusals >>
    BY <1>11, Moves DEF Begin, outside, faults
  <2>2. p.state = "executing" /\ p.steps = view[c].steps
    BY AsState, AsSteps DEF CallFits
  <2>3. p.steps[3] # "succeeded"
    BY <1>11, <2>2 DEF Begin, CallFits, StoreFits, Cancellable
  <2>4. pc'[c] = "apply"
    <3>1. view[c].steps \in [1 .. 4 -> StepState] /\ view[c].steps[3] # "skipped"
      BY PlanFields DEF TypeInv, LocalsInv, LocalsOK, StepsInv, NoSkips, Unskipped
    <3>2. NextStep(view[c].steps, 0) \in 1 .. 3
      BY <2>2, <2>3, <3>1, NextStepLemma
    <3> QED
      BY <1>11, <3>2, StepsDomain, Moves DEF Begin, Proceed
  <2>5. StoreFits'
    BY <2>1, <2>2, StoreStays DEF Unrun, Cancellable, HasRun, Validatable
  <2>6. CallFits(c)'
    BY <2>1, <2>2, <2>3, <2>4 DEF CallFits
  <2> QED
    BY <2>5, <2>6
<1>12. ASSUME ApplyOk(c) PROVE Fits
  <2>1. pc[c] = "apply" /\ Touch(Mutates(c)) /\ Outcome(c, "succeeded")
    BY <1>12 DEF ApplyOk
  <2>2. "succeeded" \in StepState /\ Mutates(c) \in { FALSE, Mutates(c) }
    BY DEF StepState
  <2> QED
    BY <2>1, <2>2, OutcomeFits
<1>13. ASSUME ApplyFails(c) PROVE Fits
  <2>1. /\ pc[c] = "apply" /\ Outcome(c, "failed")
        /\ \E hit \in { FALSE, Mutates(c) } : Touch(hit)
    BY <1>13 DEF ApplyFails, MayTouch
  <2>2. "failed" \in StepState
    BY DEF StepState
  <2> QED
    BY <2>1, <2>2, OutcomeFits
<1>14. ASSUME ApplyRetries(c) PROVE Fits
  <2>1. pc[c] = "apply" /\ \E hit \in { FALSE, Mutates(c) } : Touch(hit)
    BY <1>14 DEF ApplyRetries, MayTouch
  <2>2. (changed => changed') /\ (changed' => landed')
    BY <2>1 DEF Touch, StoreFits
  <2>3. UNCHANGED << plan, pc, view, refusals >>
    BY <1>14 DEF ApplyRetries, faults
  <2>4. StoreFits'
    BY <2>1, <2>2, <2>3
    DEF StoreFits, CallFits, HasRun, Validatable, Cancellable
  <2>5. CallFits(c)'
    BY <1>o, <2>1, <2>2, <2>3 DEF CallFits
  <2> QED
    BY <2>4, <2>5
<1>15. ASSUME Record(c) PROVE Fits
  <2>1. /\ pc[c] = "record" /\ plan.state = "executing" /\ view[c].state = "executing"
        /\ view[c].steps[3] = "succeeded" /\ NoDryRun => changed
    BY <1>15 DEF Record, CallFits
  <2>2. StoreFits'
    BY <1>15, <2>1, StoreStays
    DEF Record, Store, outside, Unrun, Cancellable, HasRun, Validatable
  <2>3. plan'.state = "executing" /\ UNCHANGED << view, changed >>
    BY <1>15, <2>1 DEF Record, Store, outside
  <2>4. pc'[c] \in { "apply", "finish", "abort" }
    BY <1>15, Moves DEF Record, Proceed
  <2>5. CallFits(c)'
    BY <1>o, <2>1, <2>3, <2>4 DEF CallFits
  <2> QED
    BY <2>2, <2>5
<1>16. ASSUME Finish(c) PROVE Fits
  <2> PICK p : p = Closing(c, "executed")
    OBVIOUS
  <2>1. plan' = p /\ p.state = "executed"
    BY <1>16, AsState DEF Finish, CallFits
  <2>2. (NoDryRun => changed) /\ UNCHANGED << changed, landed >>
    BY <1>16 DEF Finish, CallFits, CallEarns, outside
  <2>3. StoreFits'
    BY <1>o, <2>1, <2>2 DEF StoreFits, Cancellable
  <2>4. CallFits(c)'
    BY <1>16, LeavesFit DEF Finish
  <2> QED
    BY <2>3, <2>4
<1>17. ASSUME Abort(c) PROVE Fits
  <2> PICK p : p = As(c, "failed")
    OBVIOUS
  <2>1. p.state = "failed" /\ view'[c] = p /\ pc'[c] = "assume"
    BY <1>17, AsState, Moves DEF Abort, CallFits
  <2>2. (plan' = p /\ UNCHANGED refusals) \/ (Refused /\ UNCHANGED plan)
    BY <1>17 DEF Abort, Store
  <2>3. StoreFits'
    BY <1>17, <2>1, <2>2, StoreStays
    DEF Abort, outside, Unrun, Cancellable, HasRun, Validatable
  <2>4. refusals' = 0 => plan' = p
    BY <2>2, BoundsAssumption DEF Refused, TypeInv, FaultsOK
  <2>5. CallFits(c)'
    BY <2>1, <2>4 DEF CallFits
  <2> QED
    BY <2>3, <2>5
<1>18. ASSUME AssumeFails(c) PROVE Fits
  <2>1. StoreFits'
    BY <1>18, StoreStays DEF AssumeFails, Bookkeep, outside, faults
  <2>2. CallFits(c)'
    BY <1>18, LeavesFit DEF AssumeFails
  <2> QED
    BY <2>1, <2>2
<1>19. ASSUME LoadForRollback(c) PROVE Fits
  <2>1. StoreFits'
    BY <1>19, StoreStays DEF LoadForRollback, outside, faults
  <2>2. CallFits(c)'
    BY <1>19, Moves DEF LoadForRollback, CallFits, StoreFits
  <2> QED
    BY <2>1, <2>2
<1>20. ASSUME LoadForValidate(c) PROVE Fits
  <2>1. StoreFits'
    BY <1>20, StoreStays DEF LoadForValidate, outside, faults
  <2>2. /\ pc'[c] \in { "mark", "judge" } /\ view'[c] = plan
        /\ plan.state \in HasRun /\ UNCHANGED plan
    BY <1>20, Moves DEF LoadForValidate, HasRun
  <2>3. CallFits(c)'
    BY <2>2 DEF CallFits, StoreFits
  <2> QED
    BY <2>1, <2>3
<1>21. ASSUME AutoRollbackRefused(c) PROVE Fits
  <2>1. StoreFits'
    BY <1>21, StoreStays DEF AutoRollbackRefused, Return, outside, faults
  <2>2. CallFits(c)'
    BY <1>21, LeavesFit DEF AutoRollbackRefused, Return
  <2> QED
    BY <2>1, <2>2
<1>22. ASSUME StartRollback(c) PROVE Fits
  <2> PICK p : p = As(c, "rolling_back")
    OBVIOUS
  <2>1. /\ p.state = "rolling_back"
        /\ view'[c] = p /\ pc'[c] \in { "rb_step", "rb_done" }
    BY <1>22, AsState, Moves DEF StartRollback, CallFits
  <2>2. (plan' = p /\ UNCHANGED refusals) \/ (Refused /\ UNCHANGED plan)
    BY <1>22 DEF StartRollback, Store
  <2>3. StoreFits'
    BY <1>22, <2>1, <2>2, StoreStays
    DEF StartRollback, outside, Unrun, Cancellable, HasRun, Validatable
  <2>4. refusals' = 0 => plan' = p
    BY <2>2, BoundsAssumption DEF Refused, TypeInv, FaultsOK
  <2>5. CallFits(c)'
    BY <2>1, <2>4 DEF CallFits
  <2> QED
    BY <2>3, <2>5
<1>23. ASSUME RollbackOk(c) PROVE Fits
  <2>1. /\ pc[c] = "rb_step" /\ pc'[c] = "rb_done"
        /\ UNCHANGED << plan, view, refusals, landed >> /\ (changed' => changed)
    BY <1>23, Moves DEF RollbackOk, Restore, faults
  <2>2. StoreFits'
    BY <2>1 DEF StoreFits, CallFits, HasRun, Validatable
  <2>3. CallFits(c)'
    BY <2>1 DEF CallFits
  <2> QED
    BY <2>2, <2>3
<1>24. ASSUME RollbackFails(c) PROVE Fits
  <2>1. /\ pc[c] = "rb_step" /\ pc'[c] = "rb_failed"
        /\ UNCHANGED << plan, view, refusals, landed >> /\ (changed' => changed)
    BY <1>24, Moves DEF RollbackFails, Restore, faults
  <2>2. StoreFits'
    BY <2>1 DEF StoreFits, CallFits, HasRun, Validatable
  <2>3. CallFits(c)'
    BY <2>1 DEF CallFits
  <2> QED
    BY <2>2, <2>3
<1>25. ASSUME RollbackRetries(c) PROVE Fits
  <2>1. /\ pc[c] = "rb_step" /\ UNCHANGED pc
        /\ UNCHANGED << plan, view, refusals, landed >> /\ (changed' => changed)
    BY <1>25, Moves DEF RollbackRetries, Restore, faults
  <2>2. StoreFits'
    BY <2>1 DEF StoreFits, CallFits, HasRun, Validatable
  <2>3. CallFits(c)'
    BY <2>1 DEF CallFits
  <2> QED
    BY <2>2, <2>3
<1>26. ASSUME FinishRolledBack(c) PROVE Fits
  <2>1. StoreFits'
    BY <1>26, AsState, StoreStays
    DEF FinishRolledBack, outside, faults, Unrun, Cancellable, HasRun, Validatable,
        CallFits
  <2>2. CallFits(c)'
    BY <1>26, LeavesFit DEF FinishRolledBack
  <2> QED
    BY <2>1, <2>2
<1>27. ASSUME FinishRollbackFailed(c) PROVE Fits
  <2>1. StoreFits'
    BY <1>27, AsState, StoreStays
    DEF FinishRollbackFailed, Store, Return, outside, Unrun, Cancellable, HasRun,
        Validatable, CallFits
  <2>2. CallFits(c)'
    BY <1>27, LeavesFit DEF FinishRollbackFailed, Return
  <2> QED
    BY <2>1, <2>2
<1>28. ASSUME ClaimWasted(c) PROVE Fits
  <2>1. StoreFits'
    BY <1>28, StoreStays DEF ClaimWasted, Return, outside, faults
  <2>2. CallFits(c)'
    BY <1>28, LeavesFit DEF ClaimWasted, Return
  <2> QED
    BY <2>1, <2>2
<1>29. ASSUME MarkValidating(c) PROVE Fits
  <2> PICK p : p = As(c, "validating")
    OBVIOUS
  <2>1. /\ p.state = "validating"
        /\ view'[c] = p /\ pc'[c] = "judge"
    BY <1>29, AsState, Moves DEF MarkValidating, CallFits
  <2>2. plan.state \in HasRun /\ UNCHANGED << changed, landed >>
    BY <1>29 DEF MarkValidating, CallFits, outside
  <2>3. (plan' = p /\ UNCHANGED refusals) \/ (Refused /\ UNCHANGED plan)
    BY <1>29 DEF MarkValidating, Store
  <2>4. StoreFits'
    BY <1>o, <2>1, <2>2, <2>3, StoreStays DEF StoreFits, Cancellable
  <2>5. plan'.state \in HasRun
    BY <2>1, <2>2, <2>3 DEF HasRun, Validatable
  <2>6. CallFits(c)'
    BY <2>1, <2>5 DEF CallFits
  <2> QED
    BY <2>4, <2>6
<1>30. ASSUME JudgeHolding(c) PROVE Fits
  <2> PICK p : p = As(c, "validated")
    OBVIOUS
  <2>1. p.state = "validated"
    BY AsState DEF CallFits
  <2>2. plan.state \in HasRun /\ UNCHANGED << changed, landed >>
    BY <1>30 DEF JudgeHolding, CallFits, outside
  <2>3. (plan' = p /\ UNCHANGED refusals) \/ (Refused /\ UNCHANGED plan)
    BY <1>30 DEF JudgeHolding, Store
  <2>4. StoreFits'
    BY <1>o, <2>1, <2>2, <2>3, StoreStays DEF StoreFits, Cancellable
  <2>5. CallFits(c)'
    BY <1>30, LeavesFit DEF JudgeHolding
  <2> QED
    BY <2>4, <2>5
<1>31. ASSUME JudgeFailing(c) PROVE Fits
  <2>1. StoreFits'
    BY <1>31, AsState, StoreStays
    DEF JudgeFailing, Store, outside, Unrun, Cancellable, HasRun, Validatable, CallFits
  <2>2. CallFits(c)'
    BY <1>31, LeavesFit DEF JudgeFailing
  <2> QED
    BY <2>1, <2>2
<1>32. ASSUME JudgeAutoRollback(c) PROVE Fits
  <2>1. StoreFits'
    BY <1>32, StoreStays DEF JudgeAutoRollback, outside, faults
  <2>2. Blank.dryRun = FALSE
    BY DEF Blank, NewPlan
  <2>3. CallFits(c)'
    BY <1>32, <2>2, Moves DEF JudgeAutoRollback, CallFits
  <2> QED
    BY <2>1, <2>3
<1>33. ASSUME JudgeInconclusive(c) PROVE Fits
  <2>1. StoreFits'
    BY <1>33, StoreStays DEF JudgeInconclusive, Return, outside, faults
  <2>2. CallFits(c)'
    BY <1>33, LeavesFit DEF JudgeInconclusive, Return
  <2> QED
    BY <2>1, <2>2
<1>34. ASSUME Cancel(c) PROVE Fits
  <2> PICK p : p = As(c, "cancelled")
    OBVIOUS
  <2>1. plan' = p /\ p.state = "cancelled"
    BY <1>34, AsState DEF Cancel, CallFits
  <2>2. ~changed /\ UNCHANGED << changed, landed >>
    BY <1>34 DEF Cancel, CallFits, StoreFits, outside
  <2>3. StoreFits'
    BY <2>1, <2>2 DEF StoreFits, Cancellable, HasRun, Validatable
  <2>4. CallFits(c)'
    BY <1>34, LeavesFit DEF Cancel
  <2> QED
    BY <2>3, <2>4
<1>35. ASSUME WriteFails(c) PROVE Fits
  <2>1. StoreFits'
    BY <1>35, StoreStays DEF WriteFails, outside
  <2>2. CallFits(c)'
    BY <1>35, LeavesFit DEF WriteFails, Return
  <2> QED
    BY <2>1, <2>2
<1>36. ASSUME LedgerRead(c) PROVE Fits
  <2>1. StoreFits'
    BY <1>36, StoreStays DEF LedgerRead, outside, faults
  <2>2. CallFits(c)'
    BY <1>36, Moves DEF LedgerRead, CallFits
  <2> QED
    BY <2>1, <2>2
<1>37. ASSUME LedgerSave(c) PROVE Fits
  <2>1. StoreFits'
    BY <1>37, StoreStays DEF LedgerSave
  <2>2. pc'[c] \in { "ledger", "close" } /\ UNCHANGED << plan, view >>
    BY <1>37, Moves DEF LedgerSave
  <2>3. CallFits(c)'
    BY <2>2 DEF CallFits
  <2> QED
    BY <2>1, <2>3
<1>38. ASSUME Close(c) PROVE Fits
  <2>1. StoreFits'
    BY <1>38, StoreStays DEF Close, Return, faults
  <2>2. CallFits(c)'
    BY <1>38, LeavesFit DEF Close, Return
  <2> QED
    BY <2>1, <2>2
<1> QED
  BY <1>1, <1>2, <1>3, <1>4, <1>5, <1>6, <1>7, <1>8, <1>9, <1>10, <1>11, <1>12, <1>13,
      <1>14, <1>15, <1>16, <1>17, <1>18, <1>19, <1>20, <1>21, <1>22, <1>23, <1>24,
      <1>25, <1>26, <1>27, <1>28, <1>29, <1>30, <1>31, <1>32, <1>33, <1>34, <1>35,
      <1>36, <1>37, <1>38
  DEF Step

\* So does the first read of a call.
LEMMA StartFits ==
  ASSUME TypeInv, StepsInv, StoreFits, NEW c \in Calls, CallEarns(c), CallFits(c),
         Start(c), Onward
  PROVE  StoreFits' /\ CallFits(c)'
<1>1. CASE LoadForExecute(c) \/ LoadForRollback(c) \/ LoadForCancel(c)
  <2>1. StoreFits'
    BY <1>1, StoreStays
    DEF LoadForExecute, LoadForRollback, LoadForCancel, outside, faults
  <2>2. /\ view'[c] = plan /\ UNCHANGED plan
        /\ pc'[c] \in { "reconfirm", "rb_acquire", "cancel" }
        /\ pc'[c] = "cancel" => plan.state \in Cancellable
    BY <1>1, Moves DEF LoadForExecute, LoadForRollback, LoadForCancel
  <2>3. CallFits(c)'
    BY <2>2 DEF CallFits, StoreFits
  <2> QED
    BY <2>1, <2>3
<1>2. CASE LoadForValidate(c)
  BY <1>2, StepFits DEF Step
<1>3. CASE Claim(c)
  <2> PICK p : p = [plan EXCEPT !.state = "validating"]
    OBVIOUS
  <2>1. plan' = p /\ p.state = "validating" /\ p.dryRun = plan.dryRun
    BY <1>3 DEF Claim, TypeInv, StoreOK, PlanRecord
  <2>2. plan.state = "executed" /\ UNCHANGED << changed, landed, refusals, view >>
    BY <1>3 DEF Claim, outside, faults
  <2>3. StoreFits'
    BY <2>1, <2>2 DEF StoreFits, Cancellable, HasRun, Validatable, NoDryRun
  <2>4. CallFits(c)'
    BY <1>3, <2>2, Moves DEF Claim, CallFits
  <2> QED
    BY <2>3, <2>4
<1> QED
  BY <1>1, <1>2, <1>3 DEF Start

\* The stored state and the resource are not affected by what happens around the call.
LEMMA AsideFits ==
  ASSUME TypeInv, SequentialInv, UNCHANGED << plan, changed, landed, refusals, pc, view >>
  PROVE  SequentialInv'
  BY DEF SequentialInv, StoreFits, CallFits, NoDryRun

\* So does every step of the system, as long as calls do not overlap.
LEMMA SequentialStep ==
  /\ TypeInv /\ StepsInv /\ Apart /\ Apart' /\ EarnedInv /\ SequentialInv
  /\ [Next]_vars
  => SequentialInv'
<1> SUFFICES ASSUME TypeInv, StepsInv, Apart, Apart', EarnedInv, SequentialInv,
                    [Next]_vars
             PROVE  SequentialInv'
  OBVIOUS
<1>a. StoreFits /\ StoreEarns /\ \A c \in Calls : CallFits(c) /\ CallEarns(c)
  BY DEF SequentialInv, EarnedInv
<1>1. ASSUME NEW c \in Calls, Start(c) PROVE SequentialInv'
  BY <1>1, <1>a, StartEarns, StartFits, ApartFits
<1>2. ASSUME NEW c \in Calls, Continue(c) PROVE SequentialInv'
  BY <1>2, <1>a, StepEarns, StepFits, ApartFits DEF Continue
<1>3. ASSUME NEW c \in Calls, Crash(c) PROVE SequentialInv'
  <2>1. StoreFits'
    BY <1>3, <1>a, StoreStays DEF Crash, outside
  <2>2. CallFits(c)'
    BY <1>3, LeavesFit DEF Crash
  <2> QED
    BY <1>3, <2>1, <2>2, ApartFits
<1>4. CASE Decide
  BY <1>4, AsideFits DEF Decide, faults
<1>5. CASE ExpireLease
  BY <1>5, AsideFits DEF ExpireLease, outside, faults
<1>6. CASE UNCHANGED vars
  BY <1>6, AsideFits DEF vars, outside, faults
<1> QED
  BY <1>1, <1>2, <1>3, <1>4, <1>5, <1>6 DEF Next

\* PlanExecution leaves a plan that has not run.
LEMMA SequentialInit ==
  Init => SequentialInv
<1> SUFFICES ASSUME Init PROVE SequentialInv
  OBVIOUS
<1>1. PICK f \in Feasibles, d \in DryRuns, w \in BOOLEAN :
        \/ plan = NewPlan("approved", f, d, w)
        \/ plan = NewPlan("awaiting_approval", f, d, w)
  BY DEF Init
<1>2. /\ plan.dryRun = d /\ plan.steps[3] = "pending"
      /\ plan.state \in { "approved", "awaiting_approval" }
  BY <1>1, StepsDomain DEF NewPlan
<1>3. ~changed /\ ~landed /\ \A c \in Calls : pc[c] = "idle" /\ view[c] = Blank
  BY DEF Init
<1>4. StoreFits
  BY <1>2, <1>3 DEF StoreFits, HasRun, Validatable
<1>5. \A c \in Calls : CallFits(c)
  BY <1>3 DEF CallFits, Blank, NewPlan
<1> QED
  BY <1>4, <1>5 DEF SequentialInv

\* The seventh layer holds throughout a behaviour whose calls do not overlap.
LEMMA SequentialAlways ==
  Spec /\ []Apart => []SequentialInv
  BY TypeAlways, StepsAlways, EarnedAlways, SequentialInit, SequentialStep, PTL DEF Spec

\* When calls do not overlap, the stored state tells what AWS carries, whatever dies,
\* fails or is refused on the way: nothing before execution and after a cancellation, the
\* change from executed to validated.
THEOREM StateTellsTheResource ==
  Spec /\ []Apart => []StateMatchesResource
<1>1. SequentialInv => StateMatchesResource
  BY DEF NoDryRun, SequentialInv, StoreFits, StateMatchesResource, Unstarted,
         Cancellable, HasRun, Validatable
<1> QED
  BY <1>1, SequentialAlways, PTL

\* A call that reaches the preflight with no other in flight finds a plan whose mutation
\* has not been made: it takes overlapping calls for the same plan to run it twice.
THEOREM ApartExecutesOnce ==
  Spec /\ []Apart => ExecutesOnce
<1>1. SequentialInv => \A c \in Calls : pc[c] = "preflight" => ~landed
  BY DEF SequentialInv, StoreFits, CallFits, Cancellable
<1>2. SequentialInv /\ [Next]_vars =>
        [\A c \in Calls : landed /\ pc[c] = "preflight" => pc'[c] # "apply"]_vars
  BY <1>1
<1> QED
  BY <1>2, SequentialAlways, PTL DEF Spec, ExecutesOnce

\* What a call in flight stores over a started plan is the state of a started plan.
LEMMA StepNeverReopens ==
  ASSUME TypeInv, SequentialInv, NEW c \in Calls, Step(c), plan.state \notin Unstarted
  PROVE  plan'.state \notin Unstarted
<1> DEFINE Closed == plan'.state \notin Unstarted
<1>a. CallFits(c)
  BY DEF SequentialInv
<1>b. ASSUME NEW s \in PlanState \ Unstarted,
             \/ Store(As(c, s)) \/ plan' = As(c, s)
             \/ Store(Closing(c, s)) \/ plan' = Closing(c, s)
      PROVE  Closed
  BY <1>b, AsState DEF Store
<1>1. CASE UNCHANGED plan
  BY <1>1
<1>2. CASE Promote(c)
  BY <1>2, <1>a DEF Promote, CallFits, Unstarted
<1>3. CASE Begin(c)
  BY <1>3, <1>b DEF Begin, PlanState, Unstarted
<1>4. CASE Record(c)
  BY <1>4, <1>a DEF Record, Store, CallFits, Unstarted
<1>5. CASE Finish(c) \/ Cancel(c) \/ FinishRolledBack(c)
  BY <1>5, <1>b DEF Finish, Cancel, FinishRolledBack, PlanState, Unstarted
<1>6. CASE Refuse(c) \/ PreflightFails(c) \/ Abort(c)
  BY <1>6, <1>b DEF Refuse, PreflightFails, Abort, PlanState, Unstarted
<1>7. CASE StartRollback(c) \/ FinishRollbackFailed(c)
  BY <1>7, <1>b DEF StartRollback, FinishRollbackFailed, PlanState, Unstarted
<1>8. CASE MarkValidating(c) \/ JudgeHolding(c) \/ JudgeFailing(c)
  BY <1>8, <1>b DEF MarkValidating, JudgeHolding, JudgeFailing, PlanState, Unstarted
<1>9. CASE \/ Reconfirm(c) \/ AlreadyPromoted(c) \/ NotExecutable(c) \/ Acquire(c)
           \/ AcquireFails(c) \/ Reload(c) \/ LookupFails(c) \/ ApplyOk(c)
           \/ ApplyFails(c) \/ ApplyRetries(c) \/ AssumeFails(c)
  BY <1>1, <1>9
  DEF Reconfirm, AlreadyPromoted, NotExecutable, Acquire, AcquireFails, Reload,
      LookupFails, ApplyOk, ApplyFails, ApplyRetries, AssumeFails, Outcome
<1>10. CASE \/ LoadForRollback(c) \/ LoadForValidate(c) \/ AutoRollbackRefused(c)
            \/ RollbackOk(c) \/ RollbackFails(c) \/ RollbackRetries(c) \/ ClaimWasted(c)
            \/ JudgeAutoRollback(c) \/ JudgeInconclusive(c)
  BY <1>1, <1>10
  DEF LoadForRollback, LoadForValidate, AutoRollbackRefused, RollbackOk, RollbackFails,
      RollbackRetries, ClaimWasted, JudgeAutoRollback, JudgeInconclusive
<1>11. CASE WriteFails(c) \/ LedgerRead(c) \/ LedgerSave(c) \/ Close(c)
  BY <1>1, <1>11 DEF WriteFails, LedgerRead, LedgerSave, Close
<1> QED
  BY <1>2, <1>3, <1>4, <1>5, <1>6, <1>7, <1>8, <1>9, <1>10, <1>11 DEF Step

\* When calls do not overlap, a plan once started is never again stored as waiting to
\* start: the stale copies that reopen it are another call's.
THEOREM ApartNeverReopens ==
  Spec /\ []Apart => PlanNeverReopens
<1>1. TypeInv /\ SequentialInv /\ [Next]_vars =>
        [plan.state \notin Unstarted => plan'.state \notin Unstarted]_vars
  <2> SUFFICES ASSUME TypeInv, SequentialInv, Next, plan.state \notin Unstarted
               PROVE  plan'.state \notin Unstarted
    OBVIOUS
  <2>1. ASSUME NEW c \in Calls, Start(c) PROVE plan'.state \notin Unstarted
    BY <2>1
    DEF Start, LoadForExecute, LoadForRollback, LoadForValidate, LoadForCancel, Claim,
        TypeInv, StoreOK, PlanRecord, Unstarted
  <2>2. ASSUME NEW c \in Calls, Continue(c) PROVE plan'.state \notin Unstarted
    BY <2>2, StepNeverReopens DEF Continue
  <2>3. UNCHANGED plan => plan'.state \notin Unstarted
    OBVIOUS
  <2> QED
    BY <2>1, <2>2, <2>3 DEF Next, Crash, Decide, ExpireLease
<1> QED
  BY <1>1, TypeAlways, SequentialAlways, PTL DEF Spec, PlanNeverReopens
-------------------------------------------------------------------------------
-------------------------------------------------------------------------------
\* Eighth layer, again of calls that do not overlap: the savings record and the
\* recommendation follow the plan.  What a finished operation has not booked yet, its call
\* still owes.

Booking(c)       == Posting(c) \/ pc[c] = "close"
OwesLost(c)      == Posting(c) /\ todo[c] = << "lost" >>
OwesValidated(c) == Posting(c) /\ todo[c] \in Promises
Sets(c)          == Booking(c) /\ recNext[c] # "keep"

\* States of a plan whose saving is given up, or may be.
GivenUp == { "failed", "cancelled", "rolling_back", "rolled_back", "rollback_failed" }

\* What the ledger looks like when c alone has something to book.
LedgerFits(c) ==
  /\ pc[c] = "ledger_save" => sview[c] = savings
  /\ ~Unlucky =>
       /\ savings.lost \/ OwesLost(c) => plan.state \in GivenUp
       /\ plan.state \in { "cancelled", "rolled_back" } => savings.lost \/ OwesLost(c)
       /\ plan.state = "validated" =>
            Order(savings.stage) >= Order("validated") \/ OwesValidated(c)
       /\ \A s \in { "rolled_back", "validated" } :
            plan.state = s => IF Sets(c) THEN recNext[c] = s ELSE recStatus = s

LedgerInv ==
  /\ \A c \in Calls : pc[c] = "ledger_save" => sview[c] = savings
  /\ ~Unlucky =>
       /\ savings.lost \/ (\E c \in Calls : OwesLost(c)) => plan.state \in GivenUp
       /\ plan.state \in { "cancelled", "rolled_back" } =>
            savings.lost \/ \E c \in Calls : OwesLost(c)
       /\ plan.state = "validated" =>
            \/ Order(savings.stage) >= Order("validated")
            \/ \E c \in Calls : OwesValidated(c)
       /\ \A s \in { "rolled_back", "validated" } :
            plan.state = s => /\ \A c \in Calls : Sets(c) => recNext[c] = s
                              /\ recStatus = s \/ \E c \in Calls : Sets(c)

\* Seen from the only call that is not at rest, the layer is about that call.
LEMMA LedgerFocus ==
  ASSUME NEW c \in Calls, \A d \in Calls : d # c => pc[d] = "idle"
  PROVE  LedgerInv => LedgerFits(c)
<1>1. \A d \in Calls : Posting(d) \/ Booking(d) => d = c
  BY DEF Posting, Booking
<1> QED
  BY <1>1
  DEF LedgerInv, LedgerFits, OwesLost, OwesValidated, Sets

\* And back.
LEMMA LedgerWiden ==
  ASSUME NEW c \in Calls, \A d \in Calls : d # c => pc'[d] = "idle", LedgerFits(c)'
  PROVE  LedgerInv'
<1>1. \A d \in Calls : Posting(d)' \/ Booking(d)' => d = c
  BY DEF Posting, Booking
<1>2. \A d \in Calls : pc'[d] = "ledger_save" => d = c
  OBVIOUS
<1> QED
  BY <1>1, <1>2
  DEF LedgerInv, LedgerFits, OwesLost, OwesValidated, Sets

\* Luck does not come back, and a refused write is the end of it.
LEMMA LuckRunsOut ==
  ASSUME TypeInv, UNCHANGED crashes, UNCHANGED refusals \/ Refused
  PROVE  (Unlucky => Unlucky') /\ (Refused => Unlucky')
  BY BoundsAssumption DEF Unlucky, Refused, TypeInv, FaultsOK

\* A step outside the bookkeeping books nothing.  It may store a state that promises
\* nothing of the ledger, as long as a plan given up stays given up.
LEMMA BooksNothing ==
  ASSUME TypeInv, NEW c \in Calls, LedgerFits(c), ~Booking(c), ~Booking(c)',
         UNCHANGED << savings, recStatus >>, landed => landed', Unlucky => Unlucky',
         \/ Unlucky'
         \/ plan'.state = plan.state
         \/ /\ plan'.state \notin { "cancelled", "rolled_back", "validated" }
            /\ plan.state \in GivenUp => plan'.state \in GivenUp
  PROVE  LedgerFits(c)'
<1>1. /\ ~Posting(c) /\ ~Posting(c)' /\ pc'[c] # "ledger_save"
      /\ ~OwesLost(c)' /\ ~OwesValidated(c)' /\ ~Sets(c)'
      /\ ~OwesLost(c) /\ ~OwesValidated(c) /\ ~Sets(c)
  BY DEF Booking, Posting, OwesLost, OwesValidated, Sets
<1> HIDE DEF GivenUp
<1>2. \/ Unlucky'
      \/ /\ ~Unlucky
         /\ savings.lost => plan'.state \in GivenUp
         /\ plan'.state \in { "cancelled", "rolled_back" } => savings.lost
         /\ plan'.state = "validated" => Order(savings.stage) >= Order("validated")
         /\ \A s \in { "rolled_back", "validated" } : plan'.state = s => recStatus = s
  BY <1>1 DEF LedgerFits
<1> QED
  BY <1>1, <1>2 DEF LedgerFits

\* A step that turns to the bookkeeping owes what the state it stores promises.
LEMMA BooksLater ==
  ASSUME TypeInv, NEW c \in Calls, LedgerFits(c), ~Booking(c),
         NEW posts \in Lists, NEW status, Bookkeep(c, posts, status),
         UNCHANGED << savings, recStatus >>, Unlucky => Unlucky',
         \/ Unlucky'
         \/ /\ savings.lost \/ posts = << "lost" >> => plan'.state \in GivenUp
            /\ plan'.state \in { "cancelled", "rolled_back" } => posts = << "lost" >>
            /\ plan'.state = "rolled_back" => status = "rolled_back"
            /\ plan'.state = "validated" => posts \in Promises /\ status = "validated"
  PROVE  LedgerFits(c)'
<1>1. pc'[c] = "ledger" /\ todo'[c] = posts /\ recNext'[c] = status
  BY DEF Bookkeep, Goto, TypeInv, LocalsInv, LocalsOK
<1>2. /\ Posting(c)' /\ Booking(c)' /\ (Sets(c)' <=> status # "keep")
      /\ OwesLost(c)' <=> posts = << "lost" >>
      /\ OwesValidated(c)' <=> posts \in Promises
  BY <1>1 DEF Posting, Booking, Sets, OwesLost, OwesValidated
<1> QED
  BY <1>1, <1>2 DEF LedgerFits

\* Saving an entry turns a debt into an entry.
LEMMA BooksNow ==
  ASSUME TypeInv, NEW c \in Calls, CallEarns(c), LedgerFits(c), LedgerSave(c)
  PROVE  LedgerFits(c)'
<1> DEFINE l == todo[c]
           s == savings
<1>1. /\ pc[c] = "ledger_save" /\ UNCHANGED << plan, recStatus, recNext, crashes >>
      /\ UNCHANGED refusals \/ Refused
      /\ savings' = Post(s, Head(l)) \/ (Refused /\ savings' = s)
  BY DEF LedgerSave, LedgerFits
<1>2. l \in Lists /\ s \in SavingsRecord /\ Head(l) \in LedgerEntry
  <2>1. l \in Lists
    BY <1>1 DEF CallEarns, Posting
  <2>2. Head(l) \in LedgerEntry
    BY <2>1, ListShapes DEF LedgerEntry
  <2> QED
    BY <2>1, <2>2 DEF TypeInv, StoreOK
<1>3. /\ pc'[c] = IF Len(l) > 1 THEN "ledger" ELSE "close"
      /\ todo'[c] = Tail(l)
  BY DEF LedgerSave, Goto, TypeInv, LocalsInv, LocalsOK
<1> HIDE DEF l, s
<1>4. /\ Posting(c)' <=> Len(l) > 1
      /\ Posting(c)' => todo'[c] = << "realized" >> /\ l \in Promises
      /\ << "realized" >> \in Lists /\ << "realized" >> # << "lost" >>
      /\ pc'[c] # "ledger_save" /\ (Sets(c)' <=> Sets(c))
  <2>1. << "realized" >> \in Lists /\ << "realized" >> # << "lost" >>
    BY DEF Lists
  <2> QED
    BY <1>1, <1>2, <1>3, <2>1, ListShapes DEF Posting, Booking, Sets
<1>5. ~OwesLost(c)'
  BY <1>4 DEF OwesLost
<1>6. CASE Unlucky'
  BY <1>4, <1>6 DEF LedgerFits
<1>7. CASE ~Unlucky'
  <2>1. ~Unlucky /\ savings' = Post(s, Head(l))
    BY <1>1, <1>7, LuckRunsOut
  <2>2. /\ savings'.lost <=> s.lost \/ l = << "lost" >>
        /\ Order(savings'.stage) >= Order(s.stage)
        /\ l \in Promises => Order(savings'.stage) >= Order("validated")
        /\ Order(savings'.stage) \in Int /\ Order(s.stage) \in Int
    <3>1. Post(s, Head(l)) \in SavingsRecord
      BY <1>2, PostType
    <3> QED
      BY <1>2, <2>1, <3>1, PostEffect, ListShapes, OrderType
  <2>3. /\ s.lost \/ l = << "lost" >> => plan.state \in GivenUp
        /\ plan.state \in { "cancelled", "rolled_back" } => s.lost \/ l = << "lost" >>
        /\ plan.state = "validated" =>
             Order(s.stage) >= Order("validated") \/ l \in Promises
        /\ \A x \in { "rolled_back", "validated" } :
             plan.state = x => IF Sets(c) THEN recNext[c] = x ELSE recStatus = x
    BY <1>1, <2>1 DEF LedgerFits, OwesLost, OwesValidated, Posting, l, s
  <2>4. /\ savings'.lost => plan'.state \in GivenUp
        /\ plan'.state \in { "cancelled", "rolled_back" } => savings'.lost
        /\ plan'.state = "validated" => Order(savings'.stage) >= Order("validated")
    BY <1>1, <2>2, <2>3, Rungs
  <2> QED
    BY <1>1, <1>4, <1>5, <2>3, <2>4 DEF LedgerFits
<1> QED
  BY <1>6, <1>7

\* Every step of a call in flight keeps its books.
LEMMA StepBooks ==
  ASSUME TypeInv, StoreFits, NEW c \in Calls, CallFits(c), CallEarns(c), LedgerFits(c),
         Step(c)
  PROVE  LedgerFits(c)'
<1> DEFINE Books == LedgerFits(c)'
<1>a. ASSUME NEW label, Goto(c, label), pc[c] \notin { "ledger", "ledger_save", "close" },
             label \notin { "ledger", "ledger_save", "close" }
      PROVE  ~Booking(c) /\ ~Booking(c)'
  BY <1>a, Moves DEF Booking, Posting
<1>b. ASSUME NEW p, Store(p), UNCHANGED crashes
      PROVE  (Unlucky => Unlucky') /\ (Unlucky' \/ plan' = p)
  BY <1>b, LuckRunsOut DEF Store
<1>c. ASSUME UNCHANGED faults
      PROVE  Unlucky => Unlucky'
  BY <1>c DEF faults, Unlucky
<1>d. /\ << "lost" >> \in Lists /\ << "executed" >> \in Lists /\ Promises \subseteq Lists
      /\ << "lost" >> \notin Promises
  BY ListShapes DEF Lists, Promises
<1>1. ASSUME Reconfirm(c) PROVE Books
  <2>1. PICK label \in { "promote", "refuse" } : Goto(c, label)
    BY <1>1 DEF Reconfirm
  <2> QED
    BY <1>1, <1>a, <1>c, <2>1, BooksNothing DEF Reconfirm, outside
<1>2. ASSUME Refuse(c) PROVE Books
  <2>1. (Unlucky => Unlucky') /\ (Unlucky' \/ plan'.state = "failed")
    BY <1>2, <1>b, AsState DEF Refuse
  <2> QED
    BY <1>2, <1>a, <2>1, BooksNothing DEF Refuse, Return, Forget, outside, GivenUp
<1>3. ASSUME Promote(c) PROVE Books
  <2>1. plan.state = "awaiting_approval" /\ plan'.state = "approved"
    BY <1>3, AsState DEF Promote, CallFits
  <2> QED
    BY <1>3, <1>a, <1>c, <2>1, BooksNothing DEF Promote, outside, GivenUp
<1>4. ASSUME AlreadyPromoted(c) PROVE Books
  BY <1>4, <1>a, <1>c, BooksNothing DEF AlreadyPromoted, outside
<1>5. ASSUME NotExecutable(c) PROVE Books
  BY <1>5, <1>a, <1>c, BooksNothing DEF NotExecutable, Return, Forget, outside
<1>6. ASSUME Acquire(c) PROVE Books
  <2>1. PICK label \in { "reload", "rb_begin" } : Goto(c, label)
    BY <1>6 DEF Acquire
  <2> QED
    BY <1>6, <1>a, <1>c, <2>1, BooksNothing DEF Acquire, outside
<1>7. ASSUME AcquireFails(c) PROVE Books
  BY <1>7, <1>a, <1>c, BooksNothing DEF AcquireFails, Return, Forget, outside
<1>8. ASSUME Reload(c) PROVE Books
  BY <1>8, <1>a, <1>c, BooksNothing DEF Reload, outside
<1>9. ASSUME LookupFails(c) PROVE Books
  BY <1>9, <1>a, <1>c, BooksNothing DEF LookupFails, Return, Forget, outside
<1>10. ASSUME PreflightFails(c) PROVE Books
  <2>1. (Unlucky => Unlucky') /\ (Unlucky' \/ plan'.state = "failed")
    BY <1>10, <1>b, AsState DEF PreflightFails
  <2>2. Bookkeep(c, << "lost" >>, "keep") /\ UNCHANGED outside /\ ~Booking(c)
    BY <1>10 DEF PreflightFails, Booking, Posting
  <2> QED
    BY <1>d, <2>1, <2>2, BooksLater DEF outside, GivenUp
<1>11. ASSUME Begin(c) PROVE Books
  <2>1. PICK label \in { "apply", "finish" } : Goto(c, label)
    BY <1>11 DEF Begin, Proceed
  <2>2. plan.state \in { "approved", "scheduled" } /\ plan'.state = "executing"
    BY <1>11, AsState DEF Begin, CallFits
  <2> QED
    BY <1>11, <1>a, <1>c, <2>1, <2>2, BooksNothing DEF Begin, outside, GivenUp
<1>12. ASSUME ApplyOk(c) PROVE Books
  BY <1>12, <1>a, <1>c, BooksNothing DEF ApplyOk, Outcome, Touch
<1>13. ASSUME ApplyFails(c) PROVE Books
  BY <1>13, <1>a, <1>c, BooksNothing DEF ApplyFails, Outcome, MayTouch, Touch
<1>14. ASSUME ApplyRetries(c) PROVE Books
  <2>1. ~Booking(c) /\ ~Booking(c)'
    BY <1>14 DEF ApplyRetries, Booking, Posting
  <2> QED
    BY <1>14, <1>c, <2>1, BooksNothing DEF ApplyRetries, MayTouch, Touch
<1>15. ASSUME Record(c) PROVE Books
  <2>1. PICK label \in { "apply", "finish", "abort" } : Goto(c, label)
    BY <1>15 DEF Record, Proceed
  <2>2. plan.state = "executing" /\ view[c].state = "executing"
    BY <1>15 DEF Record, CallFits
  <2>3. (Unlucky => Unlucky') /\ (Unlucky' \/ plan'.state = plan.state)
    BY <1>15, <1>b, <2>2 DEF Record
  <2> QED
    BY <1>15, <1>a, <2>1, <2>3, BooksNothing DEF Record, outside
<1>16. ASSUME Finish(c) PROVE Books
  <2>1. plan.state = "executing" /\ plan'.state = "executed"
    BY <1>16, AsState DEF Finish, CallFits
  <2>2. /\ Bookkeep(c, << "executed" >>, "executed") /\ UNCHANGED << outside, faults >>
        /\ ~Booking(c)
    BY <1>16 DEF Finish, Booking, Posting
  <2>3. Unlucky \/ ~savings.lost
    BY <2>1 DEF LedgerFits, GivenUp
  <2>4. << "executed" >> # << "lost" >>
    OBVIOUS
  <2> QED
    BY <1>c, <1>d, <2>1, <2>2, <2>3, <2>4, BooksLater DEF outside
<1>17. ASSUME Abort(c) PROVE Books
  <2>1. (Unlucky => Unlucky') /\ (Unlucky' \/ plan'.state = "failed")
    BY <1>17, <1>b, AsState DEF Abort
  <2> QED
    BY <1>17, <1>a, <2>1, BooksNothing DEF Abort, outside, GivenUp
<1>18. ASSUME AssumeFails(c) PROVE Books
  <2>1. Unlucky \/ plan.state = "failed"
    BY <1>18 DEF AssumeFails, CallFits, Unlucky
  <2>2. /\ Bookkeep(c, << "lost" >>, "keep") /\ UNCHANGED << plan, outside, faults >>
        /\ ~Booking(c)
    BY <1>18 DEF AssumeFails, Booking, Posting
  <2> QED
    BY <1>c, <1>d, <2>1, <2>2, BooksLater DEF outside, GivenUp
<1>19. ASSUME LoadForRollback(c) PROVE Books
  BY <1>19, <1>a, <1>c, BooksNothing DEF LoadForRollback, outside
<1>20. ASSUME LoadForValidate(c) PROVE Books
  <2>1. PICK label \in { "mark", "judge" } : Goto(c, label)
    BY <1>20 DEF LoadForValidate
  <2> QED
    BY <1>20, <1>a, <1>c, <2>1, BooksNothing DEF LoadForValidate, outside
<1>21. ASSUME AutoRollbackRefused(c) PROVE Books
  BY <1>21, <1>a, <1>c, BooksNothing DEF AutoRollbackRefused, Return, Forget, outside
<1>22. ASSUME StartRollback(c) PROVE Books
  <2>1. PICK label \in { "rb_step", "rb_done" } : Goto(c, label)
    BY <1>22 DEF StartRollback
  <2>2. (Unlucky => Unlucky') /\ (Unlucky' \/ plan'.state = "rolling_back")
    BY <1>22, <1>b, AsState DEF StartRollback
  <2> QED
    BY <1>22, <1>a, <2>1, <2>2, BooksNothing DEF StartRollback, outside, GivenUp
<1>23. ASSUME RollbackOk(c) PROVE Books
  BY <1>23, <1>a, <1>c, BooksNothing DEF RollbackOk, Restore
<1>24. ASSUME RollbackFails(c) PROVE Books
  BY <1>24, <1>a, <1>c, BooksNothing DEF RollbackFails, Restore
<1>25. ASSUME RollbackRetries(c) PROVE Books
  <2>1. ~Booking(c) /\ ~Booking(c)'
    BY <1>25 DEF RollbackRetries, Booking, Posting
  <2> QED
    BY <1>25, <1>c, <2>1, BooksNothing DEF RollbackRetries, Restore
<1>26. ASSUME FinishRolledBack(c) PROVE Books
  <2>1. plan'.state = "rolled_back"
    BY <1>26, AsState DEF FinishRolledBack
  <2>2. /\ Bookkeep(c, << "lost" >>, "rolled_back") /\ UNCHANGED << outside, faults >>
        /\ ~Booking(c)
    BY <1>26 DEF FinishRolledBack, Booking, Posting
  <2> QED
    BY <1>c, <1>d, <2>1, <2>2, BooksLater DEF outside, GivenUp
<1>27. ASSUME FinishRollbackFailed(c) PROVE Books
  <2>1. (Unlucky => Unlucky') /\ (Unlucky' \/ plan'.state = "rollback_failed")
    BY <1>27, <1>b, AsState DEF FinishRollbackFailed
  <2> QED
    BY <1>27, <1>a, <2>1, BooksNothing
    DEF FinishRollbackFailed, Return, Forget, outside, GivenUp
<1>28. ASSUME ClaimWasted(c) PROVE Books
  BY <1>28, <1>a, <1>c, BooksNothing DEF ClaimWasted, Return, Forget, outside
<1>29. ASSUME MarkValidating(c) PROVE Books
  <2>1. (Unlucky => Unlucky') /\ (Unlucky' \/ plan'.state = "validating")
    BY <1>29, <1>b, AsState DEF MarkValidating
  <2>2. plan.state \notin GivenUp
    BY <1>29 DEF MarkValidating, CallFits, HasRun, Validatable, GivenUp
  <2> QED
    BY <1>29, <1>a, <2>1, <2>2, BooksNothing DEF MarkValidating, outside
<1>30. ASSUME JudgeHolding(c) PROVE Books
  <2>1. (Unlucky => Unlucky') /\ (Unlucky' \/ plan'.state = "validated")
    BY <1>30, <1>b, AsState DEF JudgeHolding
  <2>2. PICK posts \in Promises : Bookkeep(c, posts, "validated")
    BY <1>30 DEF JudgeHolding, Promises
  <2>3. plan.state \in HasRun /\ ~Booking(c) /\ UNCHANGED outside
    BY <1>30 DEF JudgeHolding, CallFits, Booking, Posting
  <2>4. Unlucky \/ ~savings.lost
    BY <2>3 DEF LedgerFits, HasRun, Validatable, GivenUp
  <2> QED
    BY <1>d, <2>1, <2>2, <2>3, <2>4, BooksLater DEF outside
<1>31. ASSUME JudgeFailing(c) PROVE Books
  <2>1. (Unlucky => Unlucky') /\ (Unlucky' \/ plan'.state = "failed")
    BY <1>31, <1>b, AsState DEF JudgeFailing
  <2>2. Bookkeep(c, << "lost" >>, "failed") /\ UNCHANGED outside /\ ~Booking(c)
    BY <1>31 DEF JudgeFailing, Booking, Posting
  <2> QED
    BY <1>d, <2>1, <2>2, BooksLater DEF outside, GivenUp
<1>32. ASSUME JudgeAutoRollback(c) PROVE Books
  BY <1>32, <1>a, <1>c, BooksNothing DEF JudgeAutoRollback, outside
<1>33. ASSUME JudgeInconclusive(c) PROVE Books
  BY <1>33, <1>a, <1>c, BooksNothing DEF JudgeInconclusive, Return, Forget, outside
<1>34. ASSUME Cancel(c) PROVE Books
  <2>1. plan'.state = "cancelled"
    BY <1>34, AsState DEF Cancel
  <2>2. /\ Bookkeep(c, << "lost" >>, "keep") /\ UNCHANGED << outside, faults >>
        /\ ~Booking(c)
    BY <1>34 DEF Cancel, Booking, Posting
  <2> QED
    BY <1>c, <1>d, <2>1, <2>2, BooksLater DEF outside, GivenUp
<1>35. ASSUME WriteFails(c) PROVE Books
  <2>1. Unlucky => Unlucky'
    BY <1>35, LuckRunsOut DEF WriteFails
  <2> QED
    BY <1>35, <1>a, <2>1, BooksNothing DEF WriteFails, Return, Forget, outside
<1>36. ASSUME LedgerRead(c) PROVE Books
  <2>1. /\ pc[c] = "ledger" /\ pc'[c] = "ledger_save" /\ sview'[c] = savings
        /\ UNCHANGED << plan, todo, recNext, outside, faults >>
    BY <1>36, Moves DEF LedgerRead, TypeInv, LocalsInv, LocalsOK
  <2>2. /\ Posting(c) /\ Posting(c)' /\ (Sets(c)' <=> Sets(c))
        /\ (OwesLost(c)' <=> OwesLost(c)) /\ (OwesValidated(c)' <=> OwesValidated(c))
    BY <2>1 DEF Posting, Booking, Sets, OwesLost, OwesValidated
  <2>3. Unlucky' <=> Unlucky
    BY <2>1 DEF faults, Unlucky
  <2> QED
    BY <2>1, <2>2, <2>3 DEF LedgerFits, outside
<1>37. ASSUME LedgerSave(c) PROVE Books
  BY <1>37, BooksNow
<1>38. ASSUME Close(c) PROVE Books
  <2>1. /\ pc[c] = "close" /\ pc'[c] = "idle"
        /\ recStatus' = IF recNext[c] = "keep" THEN recStatus ELSE recNext[c]
        /\ UNCHANGED << plan, savings, landed, faults >>
    BY <1>38, Moves DEF Close, Return, Forget
  <2>2. /\ ~Posting(c) /\ ~Posting(c)' /\ (Sets(c) <=> recNext[c] # "keep") /\ ~Sets(c)'
        /\ ~OwesLost(c) /\ ~OwesLost(c)' /\ ~OwesValidated(c)
        /\ pc'[c] # "ledger_save"
    BY <2>1 DEF Posting, Booking, Sets, OwesLost, OwesValidated
  <2>3. Unlucky' <=> Unlucky
    BY <2>1 DEF faults, Unlucky
  <2> QED
    BY <2>1, <2>2, <2>3 DEF LedgerFits
<1> QED
  BY <1>1, <1>2, <1>3, <1>4, <1>5, <1>6, <1>7, <1>8, <1>9, <1>10, <1>11, <1>12, <1>13,
      <1>14, <1>15, <1>16, <1>17, <1>18, <1>19, <1>20, <1>21, <1>22, <1>23, <1>24,
      <1>25, <1>26, <1>27, <1>28, <1>29, <1>30, <1>31, <1>32, <1>33, <1>34, <1>35,
      <1>36, <1>37, <1>38
  DEF Step

\* The first read of a call books nothing.
LEMMA StartBooks ==
  ASSUME TypeInv, NEW c \in Calls, LedgerFits(c), Start(c)
  PROVE  LedgerFits(c)'
<1>1. pc[c] = "idle" /\ UNCHANGED << outside, faults >>
  BY
  DEF Start, LoadForExecute, LoadForRollback, LoadForValidate, LoadForCancel, Claim
<1>2. pc'[c] \in { "reconfirm", "rb_acquire", "mark", "judge", "cancel", "claimed" }
  BY Moves
  DEF Start, LoadForExecute, LoadForRollback, LoadForValidate, LoadForCancel, Claim
<1>3. \/ UNCHANGED plan
      \/ plan.state = "executed" /\ plan'.state = "validating"
  BY
  DEF Start, LoadForExecute, LoadForRollback, LoadForValidate, LoadForCancel, Claim,
      TypeInv, StoreOK, PlanRecord
<1>4. ~Booking(c) /\ ~Booking(c)' /\ (Unlucky => Unlucky')
  BY <1>1, <1>2 DEF Booking, Posting, Unlucky, faults
<1> QED
  BY <1>1, <1>3, <1>4, BooksNothing DEF outside, GivenUp

\* Nor does a call that dies, and from then on luck has run out.
LEMMA CrashBooks ==
  ASSUME TypeInv, NEW c \in Calls, LedgerFits(c), Crash(c)
  PROVE  LedgerFits(c)'
<1>1. pc'[c] = "idle"
  BY Moves DEF Crash, Forget
<1>2. Unlucky'
  BY BoundsAssumption DEF Crash, Unlucky, TypeInv, FaultsOK
<1> QED
  BY <1>1, <1>2 DEF LedgerFits

\* Every step of the system keeps the eighth layer, as long as calls do not overlap.
LEMMA LedgerStep ==
  /\ TypeInv /\ Apart /\ Apart' /\ SequentialInv /\ EarnedInv /\ LedgerInv
  /\ [Next]_vars
  => LedgerInv'
<1> SUFFICES ASSUME TypeInv, Apart, Apart', SequentialInv, EarnedInv, LedgerInv,
                    [Next]_vars
             PROVE  LedgerInv'
  OBVIOUS
<1>1. ASSUME NEW c \in Calls, Start(c) \/ Continue(c) \/ Crash(c)
      PROVE  LedgerInv'
  <2>1. \A d \in Calls : d # c => pc[d] = "idle" /\ pc'[d] = "idle"
    BY <1>1, OthersRest
  <2>2. LedgerFits(c)
    BY <2>1, LedgerFocus
  <2>3. LedgerFits(c)'
    <3>1. CASE Start(c)
      BY <2>2, <3>1, StartBooks
    <3>2. CASE Continue(c)
      BY <2>2, <3>2, StepBooks DEF Continue, SequentialInv, EarnedInv
    <3>3. CASE Crash(c)
      BY <2>2, <3>3, CrashBooks
    <3> QED
      BY <1>1, <3>1, <3>2, <3>3
  <2> QED
    BY <2>1, <2>3, LedgerWiden
<1>2. CASE /\ UNCHANGED << plan, savings, recStatus >>
           /\ UNCHANGED << pc, todo, recNext, sview, crashes, refusals >>
  BY <1>2
  DEF LedgerInv, Posting, Booking, OwesLost, OwesValidated, Sets, Unlucky
<1>3. CASE Decide \/ ExpireLease \/ UNCHANGED vars
  BY <1>2, <1>3 DEF Decide, ExpireLease, vars, outside, entries, faults
<1> QED
  BY <1>1, <1>3 DEF Next

\* At first nothing is booked and nothing is owed.
LEMMA LedgerInit == Init => LedgerInv
<1> SUFFICES ASSUME Init PROVE LedgerInv
  OBVIOUS
<1>1. plan.state \in { "approved", "awaiting_approval" }
  BY DEF Init, NewPlan
<1>2. ~savings.lost /\ Order(savings.stage) = 3
  <2>1. savings.stage = Ladder[3] /\ ~savings.lost
    BY DEF Init, NewSavings, Ladder
  <2> QED
    BY <2>1, Rungs
<1>3. \A c \in Calls : ~Posting(c) /\ ~Booking(c) /\ pc[c] # "ledger_save"
  BY DEF Init, Posting, Booking
<1> QED
  BY <1>1, <1>2, <1>3, Rungs
  DEF LedgerInv, OwesLost, OwesValidated, Sets

\* The eighth layer holds throughout a behaviour whose calls do not overlap.
LEMMA LedgerAlways == Spec /\ []Apart => []LedgerInv
  BY TypeAlways, SequentialAlways, EarnedAlways, LedgerInit, LedgerStep, PTL DEF Spec

\* When calls do not overlap, the savings record and the recommendation tell the same
\* story as the plan once every call has returned, unless a process died or a write was
\* refused.
THEOREM LedgerFollowsThePlan ==
  Spec /\ []Apart => []LedgerAgrees
<1>1. EarnedInv /\ LedgerInv => LedgerAgrees
  <2> SUFFICES ASSUME EarnedInv, LedgerInv, Quiet, crashes = 0, refusals = 0
               PROVE  /\ plan.state = "cancelled" => savings.lost
                      /\ plan.state = "rolled_back" =>
                           savings.lost /\ recStatus = "rolled_back"
                      /\ plan.state = "validated" =>
                           /\ ~savings.lost
                           /\ Order(savings.stage) >= Order("validated")
                           /\ recStatus = "validated"
                      /\ ExecutedMeansLanded
    BY DEF LedgerAgrees
  <2>1. ~Unlucky /\ \A c \in Calls : ~Posting(c) /\ ~Booking(c)
    BY DEF Unlucky, Quiet, Posting, Booking
  <2>2. \A c \in Calls : ~OwesLost(c) /\ ~OwesValidated(c) /\ ~Sets(c)
    BY <2>1 DEF OwesLost, OwesValidated, Sets
  <2>3. ExecutedMeansLanded
    BY DEF EarnedInv, StoreEarns, Gained, ExecutedMeansLanded
  <2> QED
    BY <2>1, <2>2, <2>3 DEF LedgerInv, GivenUp
<1> QED
  BY <1>1, EarnedAlways, LedgerAlways, PTL

\* A caller that waits for each call to return before it makes the next needs no other
\* assumption: the plan, AWS and the books agree after any sequence of calls.
THEOREM OneCallerAgrees ==
  ASSUME NEW c, Calls = { c }
  PROVE  Spec => [](StateMatchesResource /\ LedgerAgrees)
<1>1. Apart
  BY DEF Apart
<1>2. []Apart
  BY <1>1, PTL
<1> QED
  BY <1>2, StateTellsTheResource, LedgerFollowsThePlan, PTL

-------------------------------------------------------------------------------
\* PlanExecution implements SafeChange.

Abstract == << Holder, permitted, Captured, changed >>
SafeStep == [Change!Next]_Abstract

\* A step that only replaces copies of the plan, or gives a permission, is a Capture, a
\* Drop, a Permit or a stutter.
LEMMA CopyStep ==
  ASSUME UNCHANGED << lock, changed >>, UNCHANGED permitted
  PROVE  SafeStep
<1>1. UNCHANGED Holder
  BY DEF Holder
<1>2. CASE UNCHANGED Captured
  BY <1>1, <1>2 DEF SafeStep, Abstract
<1>3. CASE Captured' = TRUE
  <2>1. Holder \in Calls
    BY <1>3 DEF Captured, Holder
  <2>2. Change!Capture
    BY <1>1, <1>3, <2>1 DEF Change!Capture
  <2> QED
    BY <2>2 DEF SafeStep, Change!Next
<1>4. CASE Captured' = FALSE
  <2>1. Change!Drop
    BY <1>1, <1>4 DEF Change!Drop
  <2> QED
    BY <2>1 DEF SafeStep, Change!Next
<1> QED
  BY <1>2, <1>3, <1>4 DEF Captured

\* The holder leaves or dies: it drops its copy.  Anybody else leaves unnoticed.
LEMMA EndStep ==
  ASSUME TypeInv, NEW c \in Calls, Forget(c), NEW free, free \notin Calls,
         lock' = IF lock = c THEN free ELSE lock, UNCHANGED changed, UNCHANGED permitted
  PROVE  SafeStep
<1>1. CASE lock = c
  <2>1. Holder' = NoCall /\ Captured' = FALSE
    BY <1>1 DEF Holder, Captured
  <2>2. Change!Drop
    BY <2>1 DEF Change!Drop
  <2> QED
    BY <2>2 DEF SafeStep, Change!Next
<1>2. CASE lock # c
  BY <1>2, CopyStep
<1> QED
  BY <1>1, <1>2

\* An attempt at the mutate step is made by the holder, permitted and with a snapshot;
\* an attempt at any other step does not touch the resource.
LEMMA ApplyStep ==
  ASSUME TypeInv, LabelInv, StepsInv, NEW c \in Calls, pc[c] = "apply",
         NEW hit \in { FALSE, Mutates(c) }, Touch(hit), UNCHANGED << lock, permitted >>,
         \/ UNCHANGED view
         \/ \E s \in StepState : Hold(c, [view[c] EXCEPT !.steps[cur[c]] = s])
  PROVE  SafeStep
<1>1. UNCHANGED permitted /\ UNCHANGED Holder
  BY DEF Touch, Holder
<1>2. CASE UNCHANGED changed
  BY <1>1, <1>2, CopyStep
<1>3. CASE changed' # changed
  <2>1. Mutates(c) /\ changed' = TRUE
    BY <1>3 DEF Touch, TypeInv, StoreOK
  <2>2. cur[c] = 3
    BY <2>1 DEF Mutates, Steps, TypeInv, LocalsInv, AtStep
  <2>3. lock = c /\ permitted
    BY DEF LabelInv, LockDiscipline, AuthInv, Critical, Cleared
  <2>4. Captured
    <3>1. AbortOnFailure(2)
      BY DEF AbortOnFailure, Steps
    <3>2. Ready(view[c], 3)
      BY <2>2 DEF StepsInv, RunsInOrder
    <3> QED
      BY <2>3, <3>1, <3>2 DEF Ready, Captured
  <2>5. UNCHANGED Captured
    <3>1. ASSUME NEW s \in StepState, Hold(c, [view[c] EXCEPT !.steps[cur[c]] = s])
          PROVE  view'[c].steps[2] = view[c].steps[2]
      <4>1. view[c] \in PlanRecord /\ view[c].steps \in [1 .. 4 -> StepState]
        BY PlanFields DEF TypeInv, LocalsInv, LocalsOK
      <4>2. view'[c] = [view[c] EXCEPT !.steps[cur[c]] = s]
        BY <3>1 DEF Hold, TypeInv, LocalsInv, LocalsOK
      <4>3. view'[c].steps = [view[c].steps EXCEPT ![3] = s]
        BY <2>2, <4>1, <4>2 DEF PlanRecord
      <4> QED
        BY <4>1, <4>3
    <3> QED
      BY <2>3, <3>1 DEF Captured
  <2>6. Change!Alter
    BY <1>1, <2>1, <2>3, <2>4, <2>5 DEF Change!Alter, Holder
  <2> QED
    BY <2>6 DEF SafeStep, Change!Next
<1> QED
  BY <1>2, <1>3

\* Only the holder restores the resource.
LEMMA RestoreStep ==
  ASSUME TypeInv, LabelInv, NEW c \in Calls, pc[c] = "rb_step", NEW hit \in BOOLEAN,
         Restore(hit), UNCHANGED << lock, view, permitted >>
  PROVE  SafeStep
<1>1. UNCHANGED << Holder, permitted, Captured >>
  BY DEF Restore, Holder, Captured
<1>2. CASE UNCHANGED changed
  BY <1>1, <1>2 DEF SafeStep, Abstract
<1>3. CASE changed' # changed
  <2>1. changed' = FALSE
    BY <1>3 DEF Restore, TypeInv, StoreOK
  <2>2. lock = c
    BY DEF LabelInv, LockDiscipline, Critical
  <2>3. Change!Undo
    BY <1>1, <2>1, <2>2 DEF Change!Undo, Holder
  <2> QED
    BY <2>3 DEF SafeStep, Change!Next
<1> QED
  BY <1>2, <1>3

\* Every step of a call in flight is a step of SafeChange or a stutter.
LEMMA StepSafe ==
  ASSUME TypeInv, LabelInv, StepsInv, NEW c \in Calls, Step(c)
  PROVE  SafeStep
<1>1. ASSUME Reconfirm(c) PROVE SafeStep
  <2>1. UNCHANGED << Holder, Captured, changed >>
    BY <1>1 DEF Reconfirm, Holder, Captured, outside
  <2>2. CASE UNCHANGED permitted
    BY <2>1, <2>2 DEF SafeStep, Abstract
  <2>3. CASE permitted' = TRUE
    <3>1. Change!Permit
      BY <2>1, <2>3 DEF Change!Permit
    <3> QED
      BY <3>1 DEF SafeStep, Change!Next
  <2>4. UNCHANGED permitted \/ permitted' = TRUE
    BY <1>1 DEF Reconfirm, TypeInv, StoreOK, outside
  <2> QED
    BY <2>2, <2>3, <2>4
<1>2. ASSUME Refuse(c) PROVE SafeStep
  BY <1>2, EndStep, NamesAssumption DEF Refuse, Return, outside
<1>3. ASSUME Promote(c) PROVE SafeStep
  BY <1>3, CopyStep DEF Promote, outside
<1>4. ASSUME AlreadyPromoted(c) PROVE SafeStep
  BY <1>4, CopyStep DEF AlreadyPromoted, outside
<1>5. ASSUME NotExecutable(c) PROVE SafeStep
  BY <1>5, EndStep, NamesAssumption DEF NotExecutable, Return, outside
<1>6. ASSUME Acquire(c) PROVE SafeStep
  <2>1. Holder = NoCall /\ Holder' = c /\ UNCHANGED << permitted, changed >>
    BY <1>6, NamesAssumption DEF Acquire, Holder, outside
  <2>2. Captured' \in BOOLEAN
    BY DEF Captured
  <2>3. Change!Take
    BY <2>1, <2>2 DEF Change!Take
  <2> QED
    BY <2>3 DEF SafeStep, Change!Next
<1>7. ASSUME AcquireFails(c) PROVE SafeStep
  BY <1>7, EndStep, NamesAssumption DEF AcquireFails, Return, outside
<1>8. ASSUME Reload(c) PROVE SafeStep
  BY <1>8, CopyStep DEF Reload, outside
<1>9. ASSUME LookupFails(c) PROVE SafeStep
  BY <1>9, EndStep, NamesAssumption DEF LookupFails, Return, outside
<1>10. ASSUME PreflightFails(c) PROVE SafeStep
  BY <1>10, CopyStep DEF PreflightFails, Bookkeep, outside
<1>11. ASSUME Begin(c) PROVE SafeStep
  BY <1>11, CopyStep DEF Begin, outside
<1>12. ASSUME ApplyOk(c) PROVE SafeStep
  <2>1. Mutates(c) \in BOOLEAN
    BY DEF Mutates
  <2> QED
    BY <1>12, <2>1, ApplyStep DEF ApplyOk, Outcome, StepState
<1>13. ASSUME ApplyFails(c) PROVE SafeStep
  BY <1>13, ApplyStep DEF ApplyFails, MayTouch, Outcome, StepState
<1>14. ASSUME ApplyRetries(c) PROVE SafeStep
  BY <1>14, ApplyStep DEF ApplyRetries, MayTouch
<1>15. ASSUME Record(c) PROVE SafeStep
  BY <1>15, CopyStep DEF Record, outside
<1>16. ASSUME Finish(c) PROVE SafeStep
  BY <1>16, CopyStep DEF Finish, Bookkeep, outside
<1>17. ASSUME Abort(c) PROVE SafeStep
  BY <1>17, CopyStep DEF Abort, outside
<1>18. ASSUME AssumeFails(c) PROVE SafeStep
  BY <1>18, CopyStep DEF AssumeFails, Bookkeep, outside
<1>19. ASSUME LoadForRollback(c) PROVE SafeStep
  BY <1>19, CopyStep DEF LoadForRollback, outside
<1>20. ASSUME LoadForValidate(c) PROVE SafeStep
  BY <1>20, CopyStep DEF LoadForValidate, outside
<1>21. ASSUME AutoRollbackRefused(c) PROVE SafeStep
  BY <1>21, EndStep, NamesAssumption DEF AutoRollbackRefused, Return, outside
<1>22. ASSUME StartRollback(c) PROVE SafeStep
  BY <1>22, CopyStep DEF StartRollback, outside
<1>23. ASSUME RollbackOk(c) PROVE SafeStep
  BY <1>23, RestoreStep DEF RollbackOk
<1>24. ASSUME RollbackFails(c) PROVE SafeStep
  BY <1>24, RestoreStep DEF RollbackFails
<1>25. ASSUME RollbackRetries(c) PROVE SafeStep
  BY <1>25, RestoreStep DEF RollbackRetries
<1>26. ASSUME FinishRolledBack(c) PROVE SafeStep
  BY <1>26, CopyStep DEF FinishRolledBack, Bookkeep, outside
<1>27. ASSUME FinishRollbackFailed(c) PROVE SafeStep
  BY <1>27, EndStep, NamesAssumption DEF FinishRollbackFailed, Return, outside
<1>28. ASSUME ClaimWasted(c) PROVE SafeStep
  BY <1>28, EndStep, NamesAssumption DEF ClaimWasted, Return, outside
<1>29. ASSUME MarkValidating(c) PROVE SafeStep
  BY <1>29, CopyStep DEF MarkValidating, outside
<1>30. ASSUME JudgeHolding(c) PROVE SafeStep
  BY <1>30, CopyStep DEF JudgeHolding, Bookkeep, outside
<1>31. ASSUME JudgeFailing(c) PROVE SafeStep
  BY <1>31, CopyStep DEF JudgeFailing, Bookkeep, outside
<1>32. ASSUME JudgeAutoRollback(c) PROVE SafeStep
  BY <1>32, CopyStep DEF JudgeAutoRollback, outside
<1>33. ASSUME JudgeInconclusive(c) PROVE SafeStep
  BY <1>33, EndStep, NamesAssumption DEF JudgeInconclusive, Return, outside
<1>34. ASSUME Cancel(c) PROVE SafeStep
  BY <1>34, CopyStep DEF Cancel, Bookkeep, outside
<1>35. ASSUME WriteFails(c) PROVE SafeStep
  BY <1>35, EndStep, NamesAssumption DEF WriteFails, Return, outside
<1>36. ASSUME LedgerRead(c) PROVE SafeStep
  BY <1>36, CopyStep DEF LedgerRead, outside
<1>37. ASSUME LedgerSave(c) PROVE SafeStep
  BY <1>37, CopyStep DEF LedgerSave
<1>38. ASSUME Close(c) PROVE SafeStep
  BY <1>38, EndStep, NamesAssumption DEF Close, Return
<1> QED
  BY <1>1, <1>2, <1>3, <1>4, <1>5, <1>6, <1>7, <1>8, <1>9, <1>10, <1>11, <1>12, <1>13,
      <1>14, <1>15, <1>16, <1>17, <1>18, <1>19, <1>20, <1>21, <1>22, <1>23, <1>24, <1>25,
      <1>26, <1>27, <1>28, <1>29, <1>30, <1>31, <1>32, <1>33, <1>34, <1>35, <1>36, <1>37,
      <1>38
  DEF Step

\* So is every step of the system.
LEMMA SafeNext == TypeInv /\ LabelInv /\ StepsInv /\ [Next]_vars => SafeStep
<1> SUFFICES ASSUME TypeInv, LabelInv, StepsInv, [Next]_vars PROVE SafeStep
  OBVIOUS
<1>1. ASSUME NEW c \in Calls, Start(c) PROVE SafeStep
  BY <1>1, CopyStep
  DEF Start, LoadForExecute, LoadForRollback, LoadForValidate, LoadForCancel, Claim,
      outside
<1>2. ASSUME NEW c \in Calls, Continue(c) PROVE SafeStep
  BY <1>2, StepSafe DEF Continue
<1>3. ASSUME NEW c \in Calls, Crash(c) PROVE SafeStep
  BY <1>3, EndStep, NamesAssumption DEF Crash, outside
<1>4. CASE Decide
  <2>1. UNCHANGED << Holder, Captured, changed >>
    BY <1>4 DEF Decide, Holder, Captured
  <2>2. CASE UNCHANGED permitted
    BY <2>1, <2>2 DEF SafeStep, Abstract
  <2>3. CASE permitted' = TRUE
    <3>1. Change!Permit
      BY <2>1, <2>3 DEF Change!Permit
    <3> QED
      BY <3>1 DEF SafeStep, Change!Next
  <2>4. UNCHANGED permitted \/ permitted' = TRUE
    BY <1>4 DEF Decide, TypeInv, StoreOK
  <2> QED
    BY <2>2, <2>3, <2>4
<1>5. CASE ExpireLease
  BY <1>5, NamesAssumption
  DEF ExpireLease, SafeStep, Abstract, Holder, Captured, outside
<1>6. CASE UNCHANGED vars
  BY <1>6 DEF vars, SafeStep, Abstract, Holder, Captured, outside
<1> QED
  BY <1>1, <1>2, <1>3, <1>4, <1>5, <1>6 DEF Next

\* The initial states are initial states of SafeChange.
LEMMA SafeInit == Init => Change!Init
  BY NamesAssumption DEF Init, Change!Init, Holder, Captured

\* Seen from the resource, the four operations with all their crashes, retries and stale
\* writes are one safe change: altered only by the lock's holder, permitted and with a
\* snapshot in hand, and restored only by the holder.
THEOREM ExecutionIsSafeChange == Spec => ImplementsSafeChange
<1>1. Spec => [][Change!Next]_Abstract
  BY TypeAlways, LabelAlways, StepsAlways, SafeNext, PTL DEF Spec, SafeStep
<1> QED
  BY <1>1, SafeInit, PTL DEF Spec, ImplementsSafeChange, Change!Spec, Abstract

-------------------------------------------------------------------------------
\* PlanExecution uses the plan lock as Locker.

Protected == { c \in Calls : pc[c] \in Critical }
MutexFree == lock = NoCall
MutexStep == [Mutex!Next]_<< MutexFree, Protected >>

\* A step that lets nobody in is a step of Locker or a stutter: what the lock protects is
\* done by one call at most, and the key is not free meanwhile.
LEMMA NobodyEnters ==
  ASSUME LockDiscipline, LockDiscipline', Protected' \subseteq Protected
  PROVE  MutexStep
<1>1. MutexFree' \in BOOLEAN
  BY DEF MutexFree
<1>2. CASE Protected = {}
  <2>1. Mutex!Change
    BY <1>1, <1>2 DEF Mutex!Change, Protected, MutexFree
  <2> QED
    BY <2>1 DEF MutexStep, Mutex!Next
<1>3. CASE Protected # {}
  <2>1. PICK c \in Calls : pc[c] \in Critical /\ lock = c
    BY <1>3 DEF Protected, LockDiscipline
  <2>2. Protected = { c } /\ ~MutexFree
    BY <2>1, NamesAssumption DEF Protected, LockDiscipline, MutexFree
  <2>3. CASE Protected' = {}
    <3>1. Mutex!Leave(c)
      BY <1>1, <2>2, <2>3 DEF Mutex!Leave, Protected, MutexFree
    <3> QED
      BY <3>1 DEF MutexStep, Mutex!Next
  <2>4. CASE Protected' = { c }
    <3>1. MutexFree' = MutexFree
      BY <2>2, <2>4, NamesAssumption DEF Protected, LockDiscipline, MutexFree
    <3> QED
      BY <2>2, <2>4, <3>1 DEF MutexStep
  <2> QED
    BY <2>2, <2>3, <2>4
<1> QED
  BY <1>2, <1>3

\* A call does what the lock protects only if it did so before, or has just acquired.
LEMMA StepEnters ==
  ASSUME TypeInv, NEW c \in Calls, Step(c), ~Acquire(c), pc'[c] \in Critical
  PROVE  pc[c] \in Critical
<1> USE DEF Critical
<1>1. CASE \/ Refuse(c) \/ NotExecutable(c) \/ AcquireFails(c) \/ LookupFails(c)
           \/ AutoRollbackRefused(c) \/ FinishRollbackFailed(c) \/ ClaimWasted(c)
           \/ JudgeInconclusive(c) \/ WriteFails(c) \/ Close(c)
  BY <1>1, Moves
  DEF Refuse, NotExecutable, AcquireFails, LookupFails, AutoRollbackRefused,
      FinishRollbackFailed, ClaimWasted, JudgeInconclusive, WriteFails, Close, Return,
      Forget
<1>2. CASE \/ PreflightFails(c) \/ Finish(c) \/ AssumeFails(c) \/ FinishRolledBack(c)
           \/ JudgeHolding(c) \/ JudgeFailing(c) \/ Cancel(c)
  BY <1>2, Moves
  DEF PreflightFails, Finish, AssumeFails, FinishRolledBack, JudgeHolding, JudgeFailing,
      Cancel, Bookkeep
<1>3. CASE Reload(c) \/ Begin(c) \/ Record(c) \/ Abort(c) \/ StartRollback(c)
  BY <1>3 DEF Reload, Begin, Record, Abort, StartRollback
<1>4. CASE Reconfirm(c) \/ Promote(c) \/ AlreadyPromoted(c)
  BY <1>4, Moves DEF Reconfirm, Promote, AlreadyPromoted
<1>5. CASE ApplyOk(c) \/ ApplyFails(c) \/ ApplyRetries(c)
  BY <1>5 DEF ApplyOk, ApplyFails, ApplyRetries
<1>6. CASE LoadForRollback(c) \/ LoadForValidate(c) \/ MarkValidating(c)
           \/ JudgeAutoRollback(c)
  BY <1>6, Moves DEF LoadForRollback, LoadForValidate, MarkValidating, JudgeAutoRollback
<1>7. CASE RollbackOk(c) \/ RollbackFails(c) \/ RollbackRetries(c)
  BY <1>7 DEF RollbackOk, RollbackFails, RollbackRetries
<1>8. CASE LedgerRead(c) \/ LedgerSave(c)
  BY <1>8, Moves DEF LedgerRead, LedgerSave, TypeInv, LocalsInv, LocalsOK
<1> QED
  BY <1>1, <1>2, <1>3, <1>4, <1>5, <1>6, <1>7, <1>8 DEF Step

\* Every step of the system is a step of Locker or a stutter.
LEMMA MutexNext ==
  TypeInv /\ LockDiscipline /\ LockDiscipline' /\ [Next]_vars => MutexStep
<1> SUFFICES ASSUME TypeInv, LockDiscipline, LockDiscipline', [Next]_vars PROVE MutexStep
  OBVIOUS
<1>1. ASSUME NEW c \in Calls, Acquire(c) PROVE MutexStep
  <2>1. MutexFree = TRUE /\ Protected = {}
    BY <1>1, NamesAssumption DEF Acquire, MutexFree, Protected, LockDiscipline
  <2>2. pc'[c] \in Critical
    BY <1>1, Moves DEF Acquire, Critical
  <2>3. MutexFree' = FALSE /\ Protected' = { c }
    BY <1>1, <2>2, NamesAssumption DEF Acquire, MutexFree, Protected, LockDiscipline
  <2>4. Mutex!Enter(c)
    BY <2>1, <2>3 DEF Mutex!Enter, MutexFree, Protected
  <2> QED
    BY <2>4 DEF MutexStep, Mutex!Next
<1>2. ASSUME NEW c \in Calls, Start(c) \/ Continue(c) \/ Crash(c), ~Acquire(c)
      PROVE  MutexStep
  <2>1. pc'[c] \in Critical => pc[c] \in Critical
    <3>1. CASE Continue(c)
      BY <3>1, <1>2, StepEnters DEF Continue
    <3>2. CASE Crash(c)
      BY <3>2, Moves DEF Crash, Forget, Critical
    <3>3. CASE Start(c)
      BY <3>3, Moves
      DEF Start, LoadForExecute, LoadForRollback, LoadForValidate, LoadForCancel, Claim,
          Critical
    <3> QED
      BY <1>2, <3>1, <3>2, <3>3
  <2>2. Protected' \subseteq Protected
    BY <1>2, <2>1, CallSpares DEF Spared, Protected
  <2> QED
    BY <2>2, NobodyEnters
<1>3. CASE Decide \/ ExpireLease \/ UNCHANGED vars
  <2>1. Protected' = Protected
    BY <1>3 DEF Decide, ExpireLease, vars, loop, Protected
  <2> QED
    BY <2>1, NobodyEnters
<1> QED
  BY <1>1, <1>2, <1>3 DEF Next

\* The initial states are initial states of Locker.
LEMMA MutexInit == Init => Mutex!Init
  BY DEF Init, Mutex!Init, Critical

\* On every path of Execute and Rollback, errors and deaths included, a call works on the
\* plan's resource only between its own Acquire and its release (service.go, lockKeyForPlan).
THEOREM PlanLockIsALocker == Spec => ImplementsLocker
<1>1. Spec => []LockDiscipline
  BY LabelAlways, PTL DEF LabelInv
<1>2. Spec => [][Mutex!Next]_<< MutexFree, Protected >>
  BY <1>1, TypeAlways, MutexNext, PTL DEF Spec, MutexStep
<1> QED
  BY <1>2, MutexInit, PTL DEF Spec, ImplementsLocker, Mutex!Spec, MutexFree, Protected
===============================================================================
