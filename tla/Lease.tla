-------------------------------- MODULE Lease --------------------------------
(***************************************************************************)
(* One key of ports.Locker (internal/adapters/memstore/locker.go and        *)
(* internal/adapters/redisstore) and the workers that run a cycle under it  *)
(* (internal/app/workers.go, leased).  A lease runs for TTL from the moment *)
(* it is granted and is never renewed; nothing stops a cycle when its lease *)
(* has run out.  Time is counted in whole units by now.                     *)
(***************************************************************************)
EXTENDS Integers

CONSTANTS
  Workers,     \* callers of Acquire for this key, in any replica
  TTL,         \* how long a lease lasts
  WorkLimits,  \* how long a cycle may take at most; one is drawn for each cycle
  MaxTime,     \* bound: the clock stops here
  MaxGrants,   \* bound: leases granted over a behaviour
  MaxCrashes   \* bound: workers that die during a cycle

ASSUME LeaseAssumption ==
  /\ TTL \in Nat \ {0} /\ WorkLimits \subseteq Nat
  /\ MaxTime \in Nat /\ MaxGrants \in Nat /\ MaxCrashes \in Nat

VARIABLES
  lease,    \* the stored lock: the token that owns it and when it expires
  now,      \* the clock the store judges expiry by
  granted,  \* tokens drawn so far; tokens are never drawn twice
  pc,       \* where each worker is
  token,    \* the token each worker got from Acquire
  began,    \* when each worker was granted its lease
  limit,    \* the longest each worker's present cycle can take
  crashes   \* workers that have died

vars == << lease, now, granted, pc, token, began, limit, crashes >>

NoToken == 0
NoLease == [token |-> NoToken, expires |-> 0]

Init ==
  /\ lease = NoLease
  /\ now = 0
  /\ granted = 0
  /\ pc = [w \in Workers |-> "idle"]
  /\ token = [w \in Workers |-> NoToken]
  /\ began = [w \in Workers |-> 0]
  /\ limit = [w \in Workers |-> 0]
  /\ crashes = 0

\* (mutant) the expiry is compared with a clock that runs ahead.
FreeEarly == lease.token = NoToken \/ now + 1 >= lease.expires

\* An entry past its expiry counts as absent; at the expiry it is past.
Free == lease.token = NoToken \/ now >= lease.expires

\* (mutant) SET without NX: the key is taken whoever has it.
GrantAlways ==
  /\ granted < MaxGrants
  /\ granted' = granted + 1
  /\ lease' = [token |-> granted + 1, expires |-> now + TTL]

\* A fresh token takes the key.
Grant ==
  /\ granted < MaxGrants
  /\ Free
  /\ granted' = granted + 1
  /\ lease' = [token |-> granted + 1, expires |-> now + TTL]

\* Acquire answers ErrConflict otherwise, and leased skips the cycle: no step.
Acquire(w) ==
  /\ pc[w] = "idle"
  /\ Grant
  /\ pc' = [pc EXCEPT ![w] = "working"]
  /\ token' = [token EXCEPT ![w] = granted + 1]
  /\ began' = [began EXCEPT ![w] = now]
  /\ \E l \in WorkLimits : limit' = [limit EXCEPT ![w] = l]
  /\ UNCHANGED << now, crashes >>

\* The key is set and the answer lost: the caller sees an error and runs nothing,
\* and the lease belongs to nobody until it expires.
AcquireUnanswered(w) ==
  /\ pc[w] = "idle"
  /\ Grant
  /\ UNCHANGED << now, pc, token, began, limit, crashes >>

\* The cycle is over, successfully or not; the deferred release comes later.
Finish(w) ==
  /\ pc[w] = "working"
  /\ pc' = [pc EXCEPT ![w] = "leaving"]
  /\ UNCHANGED << lease, now, granted, token, began, limit, crashes >>

Leave(w) ==
  /\ pc' = [pc EXCEPT ![w] = "idle"]
  /\ token' = [token EXCEPT ![w] = NoToken]
  /\ UNCHANGED << now, granted, began, limit >>

\* (mutant) a bare delete of the key.
ReleaseAny(w) ==
  /\ pc[w] = "leaving"
  /\ lease' = NoLease
  /\ Leave(w)
  /\ UNCHANGED crashes

\* Compare and delete: a release whose lease has passed to another is a no-op.
Release(w) ==
  /\ pc[w] = "leaving"
  /\ lease' = IF lease.token = token[w] THEN NoLease ELSE lease
  /\ Leave(w)
  /\ UNCHANGED crashes

\* The release script fails and its error is dropped: the lease is left to expire.
ReleaseLost(w) ==
  /\ pc[w] = "leaving"
  /\ Leave(w)
  /\ UNCHANGED << lease, crashes >>

Crash(w) ==
  /\ crashes < MaxCrashes
  /\ pc[w] # "idle"
  /\ crashes' = crashes + 1
  /\ Leave(w)
  /\ UNCHANGED lease

\* Time passes, but no cycle outlasts its own limit.
Tick ==
  /\ now < MaxTime
  /\ \A w \in Workers : pc[w] = "working" => now < began[w] + limit[w]
  /\ now' = now + 1
  /\ UNCHANGED << lease, granted, pc, token, began, limit, crashes >>

Next ==
  \/ \E w \in Workers :
       \/ Acquire(w) \/ AcquireUnanswered(w) \/ Finish(w)
       \/ Release(w) \/ ReleaseLost(w) \/ Crash(w)
  \/ Tick

Spec == Init /\ [][Next]_vars

-------------------------------------------------------------------------------
\* Every variable has its type.
TypeOK ==
  /\ lease \in [token : 0 .. granted, expires : 0 .. now + TTL]
  /\ now \in 0 .. MaxTime /\ granted \in 0 .. MaxGrants /\ crashes \in 0 .. MaxCrashes
  /\ pc \in [Workers -> { "idle", "working", "leaving" }]
  /\ token \in [Workers -> 0 .. granted]
  /\ began \in [Workers -> 0 .. now]
  /\ limit \in [Workers -> Nat]

Inside(w) == pc[w] \in { "working", "leaving" }

\* A lease that has not run out belongs to the worker it was granted to: no late
\* release, lost answer or death of another takes it away (redisstore/doc.go, "a
\* worker whose lease expired mid-work must not be able to delete the lock a second
\* worker has since acquired").
LeaseHonoured ==
  \A w \in Workers : Inside(w) /\ now < began[w] + TTL => lease.token = token[w]

\* Two cycles that each fit inside their lease never run at once, even while other
\* cycles of the same key overrun theirs ("still guarantees no tenant is ever worked
\* twice concurrently", workers.go:45-52, is true of these and of no others).
Fits(w) == pc[w] = "working" /\ limit[w] < TTL
FittingCyclesExclude == \A v, w \in Workers : Fits(v) /\ Fits(w) => v = w

-------------------------------------------------------------------------------
\* The abstract view: the workers whose own lease has not run out, and whether the
\* store would grant the key.
Covered(w) == Inside(w) /\ now < began[w] + TTL

Key == INSTANCE Locker
         WITH Users <- Workers, free <- Free, inside <- { w \in Workers : Covered(w) }

\* While its lease runs a worker is alone inside, and nobody else's late release, lost
\* answer, overrun or death gives the key away: for these workers, and no others, the
\* leases are the mutual exclusion ports.Locker promises (services.go, "distributed
\* mutual exclusion").
ImplementsLocker == Key!Spec
===============================================================================
