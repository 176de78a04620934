----------------------------- MODULE LeaseProofs -----------------------------
(***************************************************************************)
(* Proofs about Lease, for any set of workers, any time to live and any     *)
(* limits on the cycles.                                                    *)
(***************************************************************************)
EXTENDS Lease, TLAPS

\* TypeOK is inductive: no release, death or lost answer breaks a type (Lease's Spec).
THEOREM TypeCorrect == Spec => []TypeOK
<1>1. Init => TypeOK
  BY LeaseAssumption DEF Init, TypeOK, NoLease, NoToken
<1>2. TypeOK /\ [Next]_vars => TypeOK'
  <2> SUFFICES ASSUME TypeOK, [Next]_vars PROVE TypeOK'
    OBVIOUS
  <2> USE LeaseAssumption DEF TypeOK
  <2>1. ASSUME NEW w \in Workers, Acquire(w) PROVE TypeOK'
    BY <2>1 DEF Acquire, Grant
  <2>2. ASSUME NEW w \in Workers, AcquireUnanswered(w) PROVE TypeOK'
    BY <2>2 DEF AcquireUnanswered, Grant
  <2>3. ASSUME NEW w \in Workers, Finish(w) PROVE TypeOK'
    BY <2>3 DEF Finish
  <2>4. ASSUME NEW w \in Workers, Release(w) PROVE TypeOK'
    BY <2>4 DEF Release, Leave, NoLease, NoToken
  <2>5. ASSUME NEW w \in Workers, ReleaseLost(w) PROVE TypeOK'
    BY <2>5 DEF ReleaseLost, Leave, NoToken
  <2>6. ASSUME NEW w \in Workers, Crash(w) PROVE TypeOK'
    BY <2>6 DEF Crash, Leave, NoToken
  <2>7. CASE Tick
    BY <2>7 DEF Tick
  <2>8. CASE UNCHANGED vars
    BY <2>8 DEF vars
  <2> QED
    BY <2>1, <2>2, <2>3, <2>4, <2>5, <2>6, <2>7, <2>8 DEF Next
<1> QED
  BY <1>1, <1>2, PTL DEF Spec

-------------------------------------------------------------------------------
\* LeaseHonoured is not inductive: that a running lease is still its worker's depends
\* on tokens never being drawn twice and on the stored expiry being the worker's own.

\* Workers inside hold tokens, each a different one.
TokensDiffer ==
  \A v, w \in Workers : Inside(v) /\ Inside(w) /\ token[v] = token[w] => v = w
TokensDrawn == \A w \in Workers : Inside(w) => token[w] # NoToken

\* The stored expiry is that of the lease of the worker whose token is stored.
ExpiryIsOwn ==
  \A w \in Workers : Inside(w) /\ lease.token = token[w] => lease.expires = began[w] + TTL

\* No cycle has outlasted its limit.
WithinLimit == \A w \in Workers : pc[w] = "working" => now <= began[w] + limit[w]

LeaseInv ==
  TypeOK /\ TokensDrawn /\ TokensDiffer /\ ExpiryIsOwn /\ LeaseHonoured /\ WithinLimit

\* A grant to w, answered or not, takes nothing away from the other workers: the key
\* was free, so no lease but theirs that have run out is replaced.
LEMMA GrantKeeps ==
  ASSUME LeaseInv, Grant, UNCHANGED now,
         NEW v \in Workers, Inside(v), UNCHANGED << pc[v], token[v], began[v], limit[v] >>
  PROVE  /\ token'[v] # NoToken /\ token'[v] # lease'.token
         /\ ~(now' < began'[v] + TTL)
<1> USE LeaseAssumption DEF LeaseInv, TypeOK
<1>1. token[v] \in 1 .. granted
  BY DEF TokensDrawn, NoToken
<1>2. lease'.token = granted + 1
  BY DEF Grant
<1>3. ~(now < began[v] + TTL)
  BY <1>1 DEF Grant, Free, LeaseHonoured, ExpiryIsOwn, NoToken, Inside
<1> QED
  BY <1>1, <1>2, <1>3 DEF NoToken

\* Leaving takes the lease of the worker that leaves and of no other, for Release,
\* ReleaseLost and Crash alike.
LEMMA LeaveKeeps ==
  ASSUME LeaseInv, NEW w \in Workers, Inside(w), Leave(w), TypeOK',
         \/ lease' = lease
         \/ lease' = IF lease.token = token[w] THEN NoLease ELSE lease
  PROVE  LeaseInv'
<1> USE LeaseAssumption DEF LeaseInv, TypeOK
<1>1. \A v \in Workers : Inside(v)' =>
        v # w /\ Inside(v) /\ UNCHANGED << pc[v], token[v], began[v], limit[v] >>
  BY DEF Leave, Inside
<1>2. \A v \in Workers : Inside(v)' =>
        /\ token[v] # token[w] /\ token[v] # NoToken
        /\ lease.token = token[v] => lease' = lease
        /\ lease'.token = token[v] => lease' = lease
  BY <1>1 DEF TokensDiffer, TokensDrawn, NoLease, NoToken
<1>3. TokensDrawn'
  BY <1>1, <1>2 DEF TokensDrawn
<1>4. TokensDiffer'
  BY <1>1 DEF TokensDiffer
<1>5. ExpiryIsOwn'
  BY <1>1, <1>2 DEF ExpiryIsOwn
<1>6. LeaseHonoured'
  BY <1>1, <1>2 DEF LeaseHonoured, Leave
<1>7. WithinLimit'
  BY <1>1 DEF WithinLimit, Leave, Inside
<1> QED
  BY <1>3, <1>4, <1>5, <1>6, <1>7

\* The five facts together are inductive.
LEMMA LeaseInvHolds == Spec => []LeaseInv
<1>1. Init => LeaseInv
  BY LeaseAssumption
  DEF Init, LeaseInv, TypeOK, TokensDrawn, TokensDiffer, ExpiryIsOwn, LeaseHonoured,
      WithinLimit, Inside, NoLease, NoToken
<1>2. LeaseInv /\ TypeOK' /\ [Next]_vars => LeaseInv'
  <2> SUFFICES ASSUME LeaseInv, TypeOK', [Next]_vars PROVE LeaseInv'
    OBVIOUS
  <2>1. ASSUME NEW w \in Workers, Acquire(w) PROVE LeaseInv'
    <3> USE LeaseAssumption DEF LeaseInv, TypeOK
    <3>1. /\ Grant /\ UNCHANGED now /\ lease' = [token |-> granted + 1, expires |-> now + TTL]
          /\ token'[w] = granted + 1 /\ began'[w] = now /\ limit'[w] \in WorkLimits
      BY <2>1 DEF Acquire, Grant
    <3>2. \A v \in Workers \ { w } :
            UNCHANGED << pc[v], token[v], began[v], limit[v] >> /\ Inside(v)' = Inside(v)
      BY <2>1 DEF Acquire, Inside
    <3>3. \A v \in Workers \ { w } : Inside(v)' =>
            /\ token'[v] # NoToken /\ token'[v] # lease'.token
            /\ ~(now' < began'[v] + TTL)
      BY <3>1, <3>2, GrantKeeps
    <3>4. TokensDrawn'
      BY <3>1, <3>3 DEF TokensDrawn, NoToken
    <3>5. TokensDiffer'
      BY <3>1, <3>2, <3>3 DEF TokensDiffer
    <3>6. ExpiryIsOwn'
      BY <3>1, <3>3 DEF ExpiryIsOwn
    <3>7. LeaseHonoured'
      BY <3>1, <3>3 DEF LeaseHonoured
    <3>8. WithinLimit'
      <4> SUFFICES ASSUME NEW v \in Workers, pc'[v] = "working"
                   PROVE  now' <= began'[v] + limit'[v]
        BY DEF WithinLimit
      <4>1. CASE v = w
        <5>1. limit'[v] \in Nat
          BY <3>1, <4>1
        <5> QED
          BY <3>1, <4>1, <5>1
      <4>2. CASE v # w
        BY <3>1, <3>2, <4>2 DEF WithinLimit
      <4> QED
        BY <4>1, <4>2
    <3> QED
      BY <3>4, <3>5, <3>6, <3>7, <3>8
  <2>2. ASSUME NEW w \in Workers, AcquireUnanswered(w) PROVE LeaseInv'
    <3> USE LeaseAssumption DEF LeaseInv, TypeOK
    <3>1. Grant /\ UNCHANGED << now, pc, token, began, limit >>
      BY <2>2 DEF AcquireUnanswered
    <3>2. \A v \in Workers : Inside(v)' =>
            /\ token'[v] # NoToken /\ token'[v] # lease'.token
            /\ ~(now' < began'[v] + TTL)
      BY <3>1, GrantKeeps DEF Inside
    <3> QED
      BY <3>1, <3>2
      DEF TokensDrawn, TokensDiffer, ExpiryIsOwn, LeaseHonoured, WithinLimit, Inside
  <2>3. ASSUME NEW w \in Workers, Finish(w) PROVE LeaseInv'
    <3>1. \A v \in Workers : Inside(v)' = Inside(v)
      BY <2>3 DEF Finish, Inside, LeaseInv, TypeOK
    <3> QED
      BY <2>3, <3>1
      DEF Finish, LeaseInv, TypeOK, TokensDrawn, TokensDiffer, ExpiryIsOwn,
          LeaseHonoured, WithinLimit
  <2>4. ASSUME NEW w \in Workers, Release(w) \/ ReleaseLost(w) \/ Crash(w) PROVE LeaseInv'
    <3>1. Inside(w) /\ Leave(w)
      BY <2>4 DEF Release, ReleaseLost, Crash, Inside, LeaseInv, TypeOK
    <3>2. \/ lease' = lease
          \/ lease' = IF lease.token = token[w] THEN NoLease ELSE lease
      BY <2>4 DEF Release, ReleaseLost, Crash
    <3> QED
      BY <3>1, <3>2, LeaveKeeps
  <2>5. CASE Tick
    <3>1. /\ now' = now + 1 /\ UNCHANGED << lease, granted, pc, token, began, limit >>
          /\ \A v \in Workers : pc[v] = "working" => now < began[v] + limit[v]
      BY <2>5 DEF Tick
    <3>2. now \in Nat /\ \A v \in Workers : began[v] \in Nat /\ limit[v] \in Nat
      BY LeaseAssumption DEF LeaseInv, TypeOK
    <3>3. LeaseHonoured'
      BY <3>1, <3>2, LeaseAssumption DEF LeaseInv, LeaseHonoured, Inside
    <3>4. WithinLimit'
      BY <3>1, <3>2 DEF WithinLimit
    <3> QED
      BY <3>1, <3>3, <3>4
      DEF LeaseInv, TypeOK, TokensDrawn, TokensDiffer, ExpiryIsOwn, Inside
  <2>6. CASE UNCHANGED vars
    BY <2>6
    DEF vars, LeaseInv, TokensDrawn, TokensDiffer, ExpiryIsOwn, LeaseHonoured,
        WithinLimit, Inside
  <2> QED
    BY <2>1, <2>2, <2>3, <2>4, <2>5, <2>6 DEF Next
<1> QED
  BY <1>1, <1>2, TypeCorrect, PTL DEF Spec

\* A lease that has not run out is its worker's: compare-and-delete and fresh tokens
\* are enough, however late releases come and however long cycles take (redisstore.go).
THEOREM LeasesAreHonoured == Spec => []LeaseHonoured
BY LeaseInvHolds, PTL DEF LeaseInv

\* Cycles that fit inside their lease exclude one another, although nothing stops a
\* cycle that does not fit (workers.go, leased).
THEOREM FittingCyclesAreExclusive == Spec => []FittingCyclesExclude
<1>1. LeaseInv => FittingCyclesExclude
  <2> SUFFICES ASSUME LeaseInv, NEW v \in Workers, NEW w \in Workers, Fits(v), Fits(w)
               PROVE  v = w
    BY DEF FittingCyclesExclude
  <2>1. ASSUME NEW u \in Workers, Fits(u) PROVE Inside(u) /\ lease.token = token[u]
    <3>1. now <= began[u] + limit[u] /\ limit[u] < TTL /\ Inside(u)
      BY <2>1 DEF Fits, Inside, LeaseInv, WithinLimit
    <3>2. now \in Nat /\ began[u] \in Nat /\ limit[u] \in Nat /\ TTL \in Nat
      <4>1. limit[u] \in Nat /\ began[u] \in 0 .. now /\ now \in 0 .. MaxTime
        BY DEF LeaseInv, TypeOK
      <4> QED
        BY <4>1, LeaseAssumption
    <3>3. now < began[u] + TTL
      BY <3>1, <3>2
    <3> QED
      BY <3>1, <3>3 DEF LeaseInv, LeaseHonoured
  <2>2. Inside(v) /\ Inside(w) /\ token[v] = token[w]
    BY <2>1
  <2> QED
    BY <2>2 DEF LeaseInv, TokensDiffer
<1> QED
  BY <1>1, LeaseInvHolds, PTL

-------------------------------------------------------------------------------
\* Lease implements Locker.

Owners  == { w \in Workers : Covered(w) }
KeyStep == [Key!Next]_<< Free, Owners >>

\* A worker whose lease runs has the key, nobody else could take it, and it is alone.
OwnerHolds == \A w \in Workers : Covered(w) => lease.token = token[w] /\ ~Free
OneOwner   == \A v, w \in Workers : Covered(v) /\ Covered(w) => v = w

LEMMA OwnersHold == LeaseInv => OwnerHolds /\ OneOwner
<1>1. LeaseInv => OwnerHolds
  <2> SUFFICES ASSUME LeaseInv, NEW w \in Workers, Covered(w)
               PROVE  lease.token = token[w] /\ ~Free
    BY DEF OwnerHolds
  <2>1. lease.token = token[w] /\ lease.token # NoToken
    BY DEF Covered, LeaseInv, LeaseHonoured, TokensDrawn
  <2>2. lease.expires = began[w] + TTL
    BY <2>1 DEF Covered, LeaseInv, ExpiryIsOwn
  <2>3. began[w] \in Nat /\ now \in Nat
    BY LeaseAssumption DEF LeaseInv, TypeOK
  <2> QED
    BY <2>1, <2>2, <2>3, LeaseAssumption DEF Covered, Free
<1>2. LeaseInv /\ OwnerHolds => OneOwner
  BY DEF OwnerHolds, OneOwner, Covered, LeaseInv, TokensDiffer
<1> QED
  BY <1>1, <1>2

\* Where nobody's lease starts or runs out, what happens to a key nobody's lease covers
\* is a Change or a stutter.
LEMMA NobodyCovered ==
  ASSUME Owners = {}, Owners' = {}
  PROVE  KeyStep
<1>1. Free' \in BOOLEAN
  BY DEF Free
<1>2. Key!Change
  BY <1>1 DEF Key!Change, Owners
<1> QED
  BY <1>2 DEF KeyStep, Key!Next

\* The only worker whose lease ran is no longer covered: it left, died or was too slow.
LEMMA OwnerLeaves ==
  ASSUME LeaseInv, NEW w \in Workers, Covered(w), Owners' = {}
  PROVE  KeyStep
<1>1. Owners = { w }
  BY OwnersHold DEF OneOwner, Owners
<1>2. w \in Owners /\ Owners' = Owners \ { w }
  BY <1>1
<1>3. Free' \in BOOLEAN
  BY DEF Free
<1>4. Key!Leave(w)
  BY <1>2, <1>3 DEF Key!Leave, Owners
<1> QED
  BY <1>4 DEF KeyStep, Key!Next

\* A step that adds nobody to those whose lease runs, and either leaves the one there is
\* with its key or sees it go, is a step of Locker.
LEMMA NobodyEnters ==
  ASSUME LeaseInv, LeaseInv', Owners' \subseteq Owners
  PROVE  KeyStep
<1>1. CASE Owners = {}
  BY <1>1, NobodyCovered
<1>2. CASE Owners # {} /\ Owners' = {}
  BY <1>2, OwnerLeaves DEF Owners
<1>3. CASE Owners' # {}
  <2>1. PICK w \in Workers : Covered(w) /\ Covered(w)'
    BY <1>3 DEF Owners
  <2>2. Owners = { w } /\ Owners' = { w }
    BY <2>1, OwnersHold DEF OneOwner, Owners
  <2>3. ~Free
    BY <2>1, OwnersHold DEF OwnerHolds
  <2>4. ~Free'
    <3>1. OwnerHolds'
      BY OwnersHold, PTL
    <3> QED
      BY <2>1, <3>1 DEF OwnerHolds
  <2>5. Free' = Free
    BY <2>3, <2>4 DEF Free
  <2> QED
    BY <2>2, <2>5 DEF KeyStep
<1> QED
  BY <1>1, <1>2, <1>3

\* Every step of Lease is a step of Locker or a stutter: only Acquire adds to those whose
\* lease runs, and it finds nobody there.
LEMMA KeyNext == LeaseInv /\ LeaseInv' /\ [Next]_vars => KeyStep
<1> SUFFICES ASSUME LeaseInv, LeaseInv', [Next]_vars PROVE KeyStep
  OBVIOUS
<1>1. ASSUME NEW w \in Workers, Acquire(w) PROVE KeyStep
  <2>1. Free /\ Owners = {}
    BY <1>1, OwnersHold DEF OwnerHolds, Acquire, Grant, Owners
  <2>2. Covered(w)'
    <3>1. pc'[w] = "working" /\ began'[w] = now /\ now' = now
      BY <1>1 DEF Acquire, LeaseInv, TypeOK
    <3>2. now \in Nat
      BY LeaseAssumption DEF LeaseInv, TypeOK
    <3> QED
      BY <3>1, <3>2, LeaseAssumption DEF Covered, Inside
  <2>3. ~Free' /\ Owners' = { w }
    <3>1. OwnerHolds' /\ OneOwner'
      BY OwnersHold, PTL
    <3> QED
      BY <2>2, <3>1 DEF OwnerHolds, OneOwner, Owners
  <2>4. Free' = FALSE /\ Owners' = Owners \cup { w }
    BY <2>1, <2>3 DEF Free
  <2>5. Key!Enter(w)
    BY <2>1, <2>4 DEF Key!Enter, Owners
  <2> QED
    BY <2>5 DEF KeyStep, Key!Next
<1>2. ASSUME NEW w \in Workers, AcquireUnanswered(w) PROVE KeyStep
  <2>1. Owners' \subseteq Owners
    BY <1>2 DEF AcquireUnanswered, Owners, Covered, Inside
  <2> QED
    BY <2>1, NobodyEnters
<1>3. ASSUME NEW w \in Workers, Finish(w) PROVE KeyStep
  <2>1. Owners' \subseteq Owners
    BY <1>3 DEF Finish, Owners, Covered, Inside, LeaseInv, TypeOK
  <2> QED
    BY <2>1, NobodyEnters
<1>4. ASSUME NEW w \in Workers, Release(w) \/ ReleaseLost(w) \/ Crash(w) PROVE KeyStep
  <2>1. Leave(w)
    BY <1>4 DEF Release, ReleaseLost, Crash
  <2>2. Owners' \subseteq Owners
    BY <2>1 DEF Leave, Owners, Covered, Inside, LeaseInv, TypeOK
  <2> QED
    BY <2>2, NobodyEnters
<1>5. CASE Tick
  <2>1. now \in Nat /\ \A w \in Workers : began[w] \in Nat
    BY LeaseAssumption DEF LeaseInv, TypeOK
  <2>2. Owners' \subseteq Owners
    BY <1>5, <2>1, LeaseAssumption DEF Tick, Owners, Covered, Inside
  <2> QED
    BY <2>2, NobodyEnters
<1>6. CASE UNCHANGED vars
  BY <1>6 DEF vars, KeyStep, Owners, Covered, Inside, Free
<1> QED
  BY <1>1, <1>2, <1>3, <1>4, <1>5, <1>6 DEF Next

\* Tokens, expiries, lost answers and late releases come to the mutual exclusion that
\* ports.Locker promises, for every worker while its own lease runs, and for a cycle that
\* fits its lease throughout (workers.go, leased).
THEOREM LeaseIsALocker == Spec => ImplementsLocker
<1>1. Init => Key!Init
  <2> SUFFICES ASSUME Init PROVE Key!Init
    OBVIOUS
  <2>1. Free = TRUE /\ Owners = {}
    BY DEF Init, Free, NoLease, Owners, Covered, Inside
  <2> QED
    BY <2>1 DEF Key!Init, Owners
<1>2. Spec => [][Key!Next]_<< Free, Owners >>
  BY LeaseInvHolds, KeyNext, PTL DEF Spec, KeyStep
<1> QED
  BY <1>1, <1>2, PTL DEF Spec, ImplementsLocker, Key!Spec, Owners
===============================================================================
