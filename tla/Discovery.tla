------------------------------ MODULE Discovery ------------------------------
(***************************************************************************)
(* Discovery of one AWS account: a scan reads the account one (service,    *)
(* region) job at a time, each of which may fail on its own, and then      *)
(* brings the resource store up to date: it upserts what was seen, replaces *)
(* the relationships of the regions it covered, and tombstones what its    *)
(* successful jobs no longer saw.  The account changes meanwhile, the lock  *)
(* that keeps scans apart may expire under a slow one, and a scan may die.  *)
(*                                                                         *)
(* A resource is its natural key.  The identifier CloudOptix gives it is    *)
(* minted by the scan that first stores it, so an identifier is a key and  *)
(* the number of a scan; 0 stands for none.                                *)
(***************************************************************************)
EXTENDS Integers

CONSTANTS
  Keys,         \* natural keys of the resources that may exist
  Accounts,     \* what the account may hold to begin with
  Links,        \* pairs of keys: the first is related to the second in AWS
  Jobs,         \* (service, region) pairs; no two discoverers share a kind
  JobOf,        \* the job that reports a key
  RegionOf,     \* the region of a job
  MaxScans,     \* bound: scans over a behaviour
  MaxChanges,   \* bound: resources created or removed in AWS
  MaxOverruns,  \* bound: times the lock expires under a scan
  MaxSkips      \* bound: resources a successful job leaves out

Regions == { RegionOf[j] : j \in Jobs }
Scans   == 1 .. MaxScans

ASSUME DiscoveryData ==
  /\ Accounts \subseteq SUBSET Keys /\ Links \subseteq Keys \X Keys /\ JobOf \in [Keys -> Jobs]
  /\ MaxScans \in Nat /\ MaxChanges \in Nat /\ MaxOverruns \in Nat /\ MaxSkips \in Nat

VARIABLES
  aws,       \* the keys that exist
  row,       \* the stored resources: "none", "live" or "deleted"
  id,        \* the scan that minted a stored resource's identifier
  edges,     \* the stored relationships
  run,       \* the record of each scan
  work,      \* what each scan holds in memory
  lock,      \* the scan that holds the account's lock, 0 when it is free
  changes, overruns, skips,   \* counted against the bounds
  loose      \* history: scans that may write relationships to unknown identifiers

store    == << row, id, edges >>
counters == << changes, overruns, skips >>
vars     == << aws, store, run, work, lock, counters, loose >>

RunState == { "none", "running", "completed", "partial", "failed" }
Outcome  == { "unasked", "pending", "ok", "failed" }

Ident == Keys \X (0 .. MaxScans)
Edge  == [ from : Ident, to : Ident, by : Scans ]

Region(k) == RegionOf[JobOf[k]]

Nothing == [k \in Keys |-> 0]

Fresh ==
  [ pc |-> "none", job |-> [j \in Jobs |-> "unasked"], known |-> Nothing,
    buried |-> {}, seen |-> {}, skipped |-> {}, gone |-> {}, errors |-> FALSE ]

Init ==
  /\ aws \in Accounts
  /\ row = [k \in Keys |-> "none"] /\ id = Nothing /\ edges = {}
  /\ run = [s \in Scans |-> "none"] /\ work = [s \in Scans |-> Fresh]
  /\ lock = 0
  /\ changes = 0 /\ overruns = 0 /\ skips = 0
  /\ loose = {}

-------------------------------------------------------------------------------
\* The account.

Appear(k) ==
  /\ k \notin aws /\ changes < MaxChanges
  /\ aws' = aws \cup {k} /\ changes' = changes + 1
  /\ UNCHANGED << store, run, work, lock, overruns, skips, loose >>

Scanning == { s \in Scans : work[s].pc \notin { "none", "done", "dead" } }
Looking  == { s \in Scanning : work[s].pc # "finish" }

Vanish(k) ==
  /\ k \in aws /\ changes < MaxChanges
  /\ aws' = aws \ {k} /\ changes' = changes + 1
  /\ work' = [s \in Scans |-> IF s \in Looking THEN [work[s] EXCEPT !.gone = @ \cup {k}]
                              ELSE work[s]]
  /\ UNCHANGED << store, run, lock, overruns, skips, loose >>

-------------------------------------------------------------------------------
\* A scan.

Set(s, w) == work' = [work EXCEPT ![s] = w]
Pc(s, label) == work[s].pc = label

Live(k)   == row[k] = "live"
Asked(s)  == { j \in Jobs : work[s].job[j] # "unasked" }
Succeeded(s) == { j \in Jobs : work[s].job[j] = "ok" }

\* Run: the record is created before anything else happens.
Start(s) ==
  /\ run[s] = "none" /\ \A t \in Scans : t < s => run[t] # "none"
  /\ run' = [run EXCEPT ![s] = "running"]
  /\ \E asked \in (SUBSET Jobs) \ { {} } :
       Set(s, [Fresh EXCEPT !.pc = "lock", !.gone = Keys \ aws,
                            !.job = [j \in Jobs |-> IF j \in asked THEN "pending" ELSE "unasked"]])
  /\ UNCHANGED << aws, store, lock, counters, loose >>

Acquire(s) ==
  /\ Pc(s, "lock")
  /\ \/ lock = 0 /\ lock' = s /\ Set(s, [work[s] EXCEPT !.pc = "assume"])
     \/ lock # 0 /\ Set(s, [Fresh EXCEPT !.pc = "finish", !.errors = TRUE]) /\ UNCHANGED lock
  /\ UNCHANGED << aws, store, run, counters, loose >>

\* release deletes the key only while it is this scan's (Lease).
Release(s) == lock' = IF lock = s THEN 0 ELSE lock

AssumeFails(s) ==
  /\ Pc(s, "assume")
  /\ Set(s, [Fresh EXCEPT !.pc = "finish", !.errors = TRUE])
  /\ Release(s)
  /\ UNCHANGED << aws, store, run, counters, loose >>

\* The inventory leaves tombstoned resources out; a failure to load it is ignored.
Load(s) ==
  /\ Pc(s, "assume")
  /\ \E loaded \in BOOLEAN :
       /\ Set(s, [work[s] EXCEPT
                    !.pc = "jobs",
                    !.known  = [k \in Keys |-> IF loaded /\ Live(k) THEN id[k] ELSE 0],
                    !.buried = { k \in Keys : row[k] = "deleted" }])
       /\ loose' = IF loaded THEN loose ELSE loose \cup {s}
  /\ UNCHANGED << aws, store, run, lock, counters >>

\* A job that cannot list its service fails; an item it cannot describe it leaves out.
Job(s, j) ==
  LET there == { k \in aws : JobOf[k] = j } IN
  /\ Pc(s, "jobs") /\ work[s].job[j] = "pending"
  /\ \/ Set(s, [work[s] EXCEPT !.job[j] = "failed", !.errors = TRUE]) /\ UNCHANGED skips
     \/ Set(s, [work[s] EXCEPT !.job[j] = "ok", !.seen = @ \cup there]) /\ UNCHANGED skips
     \/ \E k \in there :
          /\ skips < MaxSkips /\ skips' = skips + 1
          /\ Set(s, [work[s] EXCEPT !.job[j] = "ok", !.seen = @ \cup (there \ {k}),
                                    !.skipped = @ \cup {k}])
  /\ UNCHANGED << aws, store, run, lock, changes, overruns, loose >>

\* What was seen is stored under the identifier its key already has.
Upsert(s) ==
  LET w == work[s] IN
  /\ Pc(s, "jobs") /\ \A j \in Asked(s) : w.job[j] # "pending"
  /\ \/ /\ row' = [k \in Keys |-> IF k \in w.seen THEN "live" ELSE row[k]]
        /\ id'  = [k \in Keys |-> IF k \in w.seen /\ id[k] = 0 THEN s ELSE id[k]]
        /\ Set(s, [w EXCEPT !.pc = "edges"])
        /\ loose' = IF w.seen \cap w.buried # {} \/ overruns > 0 THEN loose \cup {s} ELSE loose
     \/ /\ w.seen # {}
        /\ Set(s, [w EXCEPT !.pc = "edges", !.errors = TRUE])
        /\ loose' = loose \cup {s}
        /\ UNCHANGED << row, id >>
  /\ UNCHANGED << aws, edges, run, lock, counters >>

\* (mutant) the identifiers minted by the jobs are kept.
EndAsMinted(s, k, j) == << k, IF JobOf[k] = j THEN s ELSE work[s].known[k] >>

\* The identifier an edge of job j names: one the inventory knows replaces the minted one.
End(s, k, j) == << k, IF work[s].known[k] # 0 THEN work[s].known[k] ELSE s >>

\* Both ends in one service are resolved among what the job saw, the far end of a
\* cross-service link in the inventory loaded before.
Found(s) ==
  { [ from |-> End(s, l[1], JobOf[l[1]]), to |-> End(s, l[2], JobOf[l[1]]), by |-> s ] :
      l \in { x \in Links : /\ x[1] \in work[s].seen
                            /\ IF JobOf[x[2]] = JobOf[x[1]] THEN x[2] \in work[s].seen
                               ELSE work[s].known[x[2]] # 0 } }

InScope(e, region) == id[e[1]] = e[2] /\ e[2] # 0 /\ Region(e[1]) = region

Covered(s) == { RegionOf[j] : j \in Succeeded(s) }
HomeOf(e)  == Region(e.from[1])

\* The regions are replaced one by one; one that cannot be written keeps what it has.
ReplaceRelationships(s) ==
  /\ Pc(s, "edges")
  /\ \E bad \in SUBSET Covered(s) :
       LET done == Covered(s) \ bad
       IN /\ edges' = { e \in edges : \A r \in done : ~InScope(e.from, r) /\ ~InScope(e.to, r) }
                      \cup { e \in Found(s) : HomeOf(e) \in done }
          /\ Set(s, [work[s] EXCEPT !.pc = "tombstone", !.known = Nothing, !.buried = {},
                                    !.errors = @ \/ bad # {}])
  /\ UNCHANGED << aws, row, id, run, lock, counters, loose >>

\* (mutant) every job that was asked for counts, not only those that succeeded.
UnseenByAsked(s) == { k \in Keys : Live(k) /\ JobOf[k] \in Asked(s) /\ k \notin work[s].seen }

\* Of the kinds and regions of the jobs that succeeded, what none of them saw.
Unseen(s) == { k \in Keys : Live(k) /\ JobOf[k] \in Succeeded(s) /\ k \notin work[s].seen }

\* Region by region as well.
MarkAbsent(s) ==
  /\ Pc(s, "tombstone")
  /\ \E bad \in SUBSET Covered(s) :
       /\ row' = [k \in Keys |-> IF k \in Unseen(s) /\ Region(k) \notin bad THEN "deleted"
                                 ELSE row[k]]
       /\ Set(s, [Fresh EXCEPT !.pc = "finish", !.job = work[s].job,
                               !.errors = work[s].errors \/ bad # {}])
  /\ Release(s)
  /\ UNCHANGED << aws, id, edges, run, counters, loose >>

\* (mutant) errors outside the jobs are not looked at.
VerdictOfJobs(s) ==
  IF Asked(s) # {} /\ Asked(s) = Succeeded(s) THEN "completed"
  ELSE IF Succeeded(s) = {} THEN "failed" ELSE "partial"

\* (mutant) nothing is said of a scan some of whose jobs failed.
VerdictOfAllOrNothing(s) ==
  IF Asked(s) = Succeeded(s) /\ ~work[s].errors THEN "completed"
  ELSE IF Succeeded(s) = {} THEN "failed" ELSE ""

\* A scan none of whose jobs ran has failed as well.
VerdictOf(s) ==
  IF Asked(s) = Succeeded(s) /\ ~work[s].errors THEN "completed"
  ELSE IF Succeeded(s) = {} THEN "failed" ELSE "partial"

\* Nothing is done about a last record that cannot be written.
Finish(s) ==
  /\ Pc(s, "finish")
  /\ Set(s, [Fresh EXCEPT !.pc = "done"])
  /\ run' = [run EXCEPT ![s] = VerdictOf(s)] \/ UNCHANGED run
  /\ UNCHANGED << aws, store, lock, counters, loose >>

-------------------------------------------------------------------------------
\* Failures.

Crash(s) ==
  /\ s \in Scanning
  /\ Set(s, [Fresh EXCEPT !.pc = "dead"])
  /\ UNCHANGED << aws, store, run, lock, counters, loose >>

\* The lease of a dead scan runs out, or that of one that takes too long.
ExpireLock ==
  /\ lock # 0 /\ lock' = 0
  /\ \/ lock \notin Scanning /\ UNCHANGED overruns
     \/ lock \in Scanning /\ overruns < MaxOverruns /\ overruns' = overruns + 1
  /\ UNCHANGED << aws, store, run, work, changes, skips, loose >>

Advance(s) ==
  \/ Acquire(s) \/ AssumeFails(s) \/ Load(s) \/ (\E j \in Jobs : Job(s, j))
  \/ Upsert(s) \/ ReplaceRelationships(s) \/ MarkAbsent(s) \/ Finish(s)

Next ==
  \/ \E k \in Keys : Appear(k) \/ Vanish(k)
  \/ \E s \in Scans : Start(s) \/ Advance(s) \/ Crash(s)
  \/ ExpireLock

Spec == Init /\ [][Next]_vars

-------------------------------------------------------------------------------
\* Every variable has its type.
TypeOK ==
  /\ aws \subseteq Keys
  /\ row \in [Keys -> { "none", "live", "deleted" }]
  /\ id \in [Keys -> 0 .. MaxScans] /\ edges \subseteq Edge
  /\ run \in [Scans -> RunState] /\ lock \in 0 .. MaxScans
  /\ \A s \in Scans : /\ work[s].job \in [Jobs -> Outcome]
                      /\ work[s].known \in [Keys -> 0 .. MaxScans]
                      /\ work[s].seen \subseteq Keys
  /\ loose \subseteq Scans

\* The keys a step tombstones.
Tombstoned == { k \in Keys : row[k] = "live" /\ row'[k] = "deleted" }

\* A resource is only tombstoned by a scan during which it was missing from AWS, or whose
\* job could not describe it: whatever fails or overlaps, a scan deletes nothing it did not
\* look for (discovery/scan.go:227-252, doc.go:17-25).
TombstonesAreJustified ==
  [][\A k \in Tombstoned : \E s \in Scans : k \in work[s].gone \cup work[s].skipped]_vars

\* No scan makes the model worse than it was, "even when AWS throttles it, denies it a
\* permission, or the run is cut off halfway through" (discovery/doc.go:6-9): what never
\* left AWS during a scan is not tombstoned.
NothingPresentIsTombstoned ==
  [][\A k \in Tombstoned : \E s \in Scans : k \in work[s].gone]_vars

\* A scan that lets go of the lock to be recorded as completed leaves the store exactly as
\* its jobs saw the account, whatever failed, unless the lock ever ran out under a scan: of
\* their kinds nothing unseen is live and everything seen is (discovery/scan.go:57-75, 206-252).
CompletedIsCurrent ==
  [][\A s \in Scans :
       Pc(s, "tombstone") /\ Pc(s, "finish")' /\ VerdictOf(s)' = "completed" /\ overruns = 0 =>
         \A k \in Keys : JobOf[k] \in Asked(s) => (Live(k)' <=> k \in work[s].seen)]_vars

\* Every stored relationship names stored resources, whichever scans wrote it, unless the
\* scan that did saw a resource come back from its tombstone, could not load or store the
\* inventory, or ran beside another (discovery/scan.go:160-190).
EdgesResolve ==
  \A e \in edges : e.by \notin loose =>
    id[e.from[1]] = e.from[2] /\ id[e.to[1]] = e.to[2]
==============================================================================
