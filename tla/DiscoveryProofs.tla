--------------------------- MODULE DiscoveryProofs ---------------------------
(***************************************************************************)
(* Proofs about Discovery, for any account, any set of jobs and any number *)
(* of scans.                                                               *)
(*                                                                         *)
(* The types come first.  On them rest three arguments that do not need    *)
(* each other: what a scan that looks at the account knows of what is      *)
(* missing; who holds the lock as long as it never ran out under anybody,   *)
(* and what is stored then; and which identifiers the inventory a scan      *)
(* loaded still speaks of when it writes relationships.                     *)
(***************************************************************************)
EXTENDS Discovery, TLAPS

-------------------------------------------------------------------------------
\* Types.

Labels == { "none", "lock", "assume", "jobs", "edges", "tombstone", "finish", "done", "dead" }

Work ==
  [ pc : Labels, job : [Jobs -> Outcome], known : [Keys -> 0 .. MaxScans],
    buried : SUBSET Keys, seen : SUBSET Keys, skipped : SUBSET Keys, gone : SUBSET Keys,
    errors : BOOLEAN ]

RowsOK == row \in [Keys -> { "none", "live", "deleted" }] /\ id \in [Keys -> 0 .. MaxScans]

\* TypeOK with the whole record of a scan's memory; the edges apart.
ScanTypes ==
  /\ aws \subseteq Keys /\ RowsOK
  /\ run \in [Scans -> RunState] /\ lock \in 0 .. MaxScans
  /\ work \in [Scans -> Work]
  /\ overruns \in Nat /\ loose \subseteq Scans

TypeInv == ScanTypes /\ edges \subseteq Edge

\* A scan that has returned, or died, holds nothing.
LEMMA FreshType ==
  /\ Fresh \in Work
  /\ \A l \in Labels : [Fresh EXCEPT !.pc = l] \in Work
<1>1. Fresh \in Work  BY DiscoveryData DEF Fresh, Work, Nothing, Outcome, Labels
<1> QED  BY <1>1 DEF Work

LEMMA InitTypes == Init => TypeInv
<1> SUFFICES ASSUME Init PROVE TypeInv  OBVIOUS
<1> QED  BY FreshType, DiscoveryData DEF Init, TypeInv, ScanTypes, RowsOK, RunState, Nothing

\* The fields of a scan's memory.
LEMMA WorkFields ==
  ASSUME ScanTypes, NEW s \in Scans
  PROVE  /\ work[s] \in Work
         /\ work[s].job \in [Jobs -> Outcome] /\ work[s].known \in [Keys -> 0 .. MaxScans]
         /\ work[s].seen \subseteq Keys /\ work[s].skipped \subseteq Keys
         /\ work[s].gone \subseteq Keys /\ work[s].buried \subseteq Keys
         /\ work[s].errors \in BOOLEAN /\ work[s].pc \in Labels
  BY DEF ScanTypes, Work

\* Every handler leaves its scan's memory well typed.
LEMMA NextWork ==
  ASSUME TypeInv, [Next]_vars
  PROVE  work' \in [Scans -> Work]
<1> USE DEF TypeInv
<1>0. Fresh \in Work  BY FreshType
<1>1. work \in [Scans -> Work]  BY DEF ScanTypes
<1>2. ASSUME NEW s \in Scans, NEW w \in Work, Set(s, w)  PROVE work' \in [Scans -> Work]
  BY <1>1, <1>2 DEF Set
<1>3. ASSUME NEW k \in Keys, Appear(k)  PROVE work' \in [Scans -> Work]
  BY <1>1, <1>3 DEF Appear
<1>4. ASSUME NEW k \in Keys, Vanish(k)  PROVE work' \in [Scans -> Work]
  <2>1. \A s \in Scans : [work[s] EXCEPT !.gone = @ \cup {k}] \in Work
    BY <1>1 DEF Work
  <2> QED  BY <2>1, <1>1, <1>4 DEF Vanish
<1>5. ASSUME NEW s \in Scans, Start(s)  PROVE work' \in [Scans -> Work]
  <2>1. PICK asked \in (SUBSET Jobs) \ { {} } :
          Set(s, [Fresh EXCEPT !.pc = "lock", !.gone = Keys \ aws,
                    !.job = [j \in Jobs |-> IF j \in asked THEN "pending" ELSE "unasked"]])
    BY <1>5 DEF Start
  <2>2. [Fresh EXCEPT !.pc = "lock", !.gone = Keys \ aws,
           !.job = [j \in Jobs |-> IF j \in asked THEN "pending" ELSE "unasked"]] \in Work
    BY <1>0 DEF Work, Outcome, Labels
  <2> QED  BY <2>1, <2>2, <1>2
<1>6. ASSUME NEW s \in Scans, Acquire(s) \/ AssumeFails(s)  PROVE work' \in [Scans -> Work]
  <2>1. [Fresh EXCEPT !.pc = "finish", !.errors = TRUE] \in Work
    BY <1>0 DEF Work, Labels
  <2>2. [work[s] EXCEPT !.pc = "assume"] \in Work
    BY <1>1 DEF Work, Labels
  <2> QED  BY <2>1, <2>2, <1>2, <1>6 DEF Acquire, AssumeFails
<1>7. ASSUME NEW s \in Scans, Load(s)  PROVE work' \in [Scans -> Work]
  <2>1. PICK loaded \in BOOLEAN :
          Set(s, [work[s] EXCEPT
                    !.pc = "jobs",
                    !.known  = [k \in Keys |-> IF loaded /\ Live(k) THEN id[k] ELSE 0],
                    !.buried = { k \in Keys : row[k] = "deleted" }])
    BY <1>7 DEF Load
  <2>2. [k \in Keys |-> IF loaded /\ Live(k) THEN id[k] ELSE 0] \in [Keys -> 0 .. MaxScans]
    BY DiscoveryData DEF ScanTypes, RowsOK
  <2>3. [work[s] EXCEPT
           !.pc = "jobs",
           !.known  = [k \in Keys |-> IF loaded /\ Live(k) THEN id[k] ELSE 0],
           !.buried = { k \in Keys : row[k] = "deleted" }] \in Work
    BY <2>2, <1>1 DEF Work, Labels
  <2> QED  BY <2>1, <2>3, <1>2
<1>8. ASSUME NEW s \in Scans, NEW j \in Jobs, Job(s, j)  PROVE work' \in [Scans -> Work]
  <2> DEFINE there == { k \in aws : JobOf[k] = j }
  <2>1. there \subseteq Keys  BY DEF ScanTypes
  <2>2. work[s] \in Work  BY <1>1
  <2>3. [work[s] EXCEPT !.job[j] = "failed", !.errors = TRUE] \in Work
    BY <2>2 DEF Work, Outcome
  <2>4. [work[s] EXCEPT !.job[j] = "ok", !.seen = @ \cup there] \in Work
    BY <2>1, <2>2 DEF Work, Outcome
  <2>5. \A k \in there : [work[s] EXCEPT !.job[j] = "ok", !.seen = @ \cup (there \ {k}),
                                        !.skipped = @ \cup {k}] \in Work
    <3> HIDE DEF there
    <3> TAKE k \in there
    <3>1. k \in Keys /\ there \ {k} \subseteq Keys  BY <2>1
    <3> QED  BY <3>1, <2>2 DEF Work, Outcome
  <2> HIDE DEF there
  <2> QED  BY <2>3, <2>4, <2>5, <1>2, <1>8 DEF Job, there
<1>9. ASSUME NEW s \in Scans, Upsert(s)  PROVE work' \in [Scans -> Work]
  <2>1. work[s] \in Work  BY <1>1
  <2>2. [work[s] EXCEPT !.pc = "edges"] \in Work  BY <2>1 DEF Work, Labels
  <2>3. [work[s] EXCEPT !.pc = "edges", !.errors = TRUE] \in Work  BY <2>1 DEF Work, Labels
  <2> QED  BY <2>2, <2>3, <1>2, <1>9 DEF Upsert
<1>10. ASSUME NEW s \in Scans, ReplaceRelationships(s)  PROVE work' \in [Scans -> Work]
  <2>1. work[s] \in Work  BY <1>1
  <2>2. \A bad \in SUBSET Covered(s) :
          [work[s] EXCEPT !.pc = "tombstone", !.known = Nothing, !.buried = {},
                          !.errors = @ \/ bad # {}] \in Work
    <3>1. Nothing \in [Keys -> 0 .. MaxScans]  BY DiscoveryData DEF Nothing
    <3> QED  BY <2>1, <3>1 DEF Work, Labels
  <2> QED  BY <2>2, <1>2, <1>10 DEF ReplaceRelationships
<1>11. ASSUME NEW s \in Scans, MarkAbsent(s)  PROVE work' \in [Scans -> Work]
  <2>1. work[s] \in Work  BY <1>1
  <2>2. \A bad \in SUBSET Covered(s) :
          [Fresh EXCEPT !.pc = "finish", !.job = work[s].job,
                        !.errors = work[s].errors \/ bad # {}] \in Work
    BY <2>1, <1>0 DEF Work, Labels
  <2> QED  BY <2>2, <1>2, <1>11 DEF MarkAbsent
<1>12. ASSUME NEW s \in Scans, Finish(s) \/ Crash(s)  PROVE work' \in [Scans -> Work]
  BY <1>12, <1>2, FreshType DEF Finish, Crash, Labels
<1>13. CASE ExpireLock \/ UNCHANGED vars
  BY <1>1, <1>13 DEF ExpireLock, vars
<1> QED
  BY <1>3, <1>4, <1>5, <1>6, <1>7, <1>8, <1>9, <1>10, <1>11, <1>12, <1>13 DEF Next, Advance

\* Relationships name identifiers of stored or storable resources.
LEMMA FoundType ==
  ASSUME ScanTypes, NEW s \in Scans
  PROVE  Found(s) \subseteq Edge
<1> USE DiscoveryData
<1>1. \A k \in Keys, j \in Jobs : End(s, k, j) \in Ident
  BY WorkFields DEF End, Ident, Scans
<1>2. \A l \in Links : l[1] \in Keys /\ l[2] \in Keys /\ JobOf[l[1]] \in Jobs  OBVIOUS
<1>3. \A l \in Links : [ from |-> End(s, l[1], JobOf[l[1]]), to |-> End(s, l[2], JobOf[l[1]]),
                        by |-> s ] \in Edge
  BY <1>1, <1>2 DEF Edge
<1>4. ASSUME NEW e \in Found(s)  PROVE e \in Edge
  <2>1. PICK l \in Links : e = [ from |-> End(s, l[1], JobOf[l[1]]),
                                to |-> End(s, l[2], JobOf[l[1]]), by |-> s ]
    BY DEF Found
  <2> QED  BY <2>1, <1>3
<1> QED  BY <1>4

LEMMA NextTypes == TypeInv /\ [Next]_vars => TypeInv'
<1> SUFFICES ASSUME TypeInv, [Next]_vars PROVE TypeInv'  OBVIOUS
<1> DEFINE Rest == /\ aws' \subseteq Keys /\ RowsOK' /\ run' \in [Scans -> RunState]
                   /\ lock' \in 0 .. MaxScans /\ overruns' \in Nat /\ loose' \subseteq Scans
                   /\ edges' \subseteq Edge
<1> USE DiscoveryData DEF TypeInv, ScanTypes, RowsOK, Release
<1>1. ASSUME NEW k \in Keys, Appear(k) \/ Vanish(k)  PROVE Rest
  BY <1>1 DEF Appear, Vanish, store
<1>2. ASSUME NEW s \in Scans, Start(s)  PROVE Rest
  BY <1>2 DEF Start, store, counters, RunState
<1>3. ASSUME NEW s \in Scans, Acquire(s) \/ AssumeFails(s) \/ Load(s)  PROVE Rest
  <2>1. lock' \in { lock, s, 0 }
    BY <1>3 DEF Acquire, AssumeFails, Load
  <2>2. loose' \subseteq Scans
    BY <1>3 DEF Acquire, AssumeFails, Load
  <2>3. lock' \in 0 .. MaxScans
    BY <2>1 DEF Scans
  <2>4. UNCHANGED << aws, store, run, counters >>
    BY <1>3 DEF Acquire, AssumeFails, Load
  <2> QED  BY <2>1, <2>2, <2>3, <2>4, <1>3 DEF Acquire, AssumeFails, Load, store, counters
<1>4. ASSUME NEW s \in Scans, NEW j \in Jobs, Job(s, j)  PROVE Rest
  BY <1>4 DEF Job, store
<1>5. ASSUME NEW s \in Scans, Upsert(s)  PROVE Rest
  <2>1. row' \in [Keys -> { "none", "live", "deleted" }] /\ id' \in [Keys -> 0 .. MaxScans]
    BY <1>5 DEF Upsert, Scans
  <2> QED  BY <2>1, <1>5 DEF Upsert, counters
<1>6. ASSUME NEW s \in Scans, ReplaceRelationships(s)  PROVE Rest
  <2>1. edges' \subseteq edges \cup Found(s)  BY <1>6 DEF ReplaceRelationships
  <2>2. Found(s) \subseteq Edge  BY FoundType
  <2> QED  BY <2>1, <2>2, <1>6 DEF ReplaceRelationships, counters
<1>7. ASSUME NEW s \in Scans, MarkAbsent(s)  PROVE Rest
  <2>1. row' \in [Keys -> { "none", "live", "deleted" }]  BY <1>7 DEF MarkAbsent
  <2> QED  BY <2>1, <1>7 DEF MarkAbsent, counters
<1>8. ASSUME NEW s \in Scans, Finish(s) \/ Crash(s)  PROVE Rest
  BY <1>8 DEF Finish, Crash, VerdictOf, RunState, store, counters
<1>9. CASE ExpireLock \/ UNCHANGED vars
  BY <1>9 DEF ExpireLock, vars, store, counters
<1>10. Rest
  BY <1>1, <1>2, <1>3, <1>4, <1>5, <1>6, <1>7, <1>8, <1>9 DEF Next, Advance
<1> QED  BY <1>10, NextWork

LEMMA TypeInvariant == Spec => []TypeInv
  BY InitTypes, NextTypes, PTL DEF Spec

\* Every variable has its type, whatever fails, overlaps or dies.
THEOREM DiscoveryTypes == Spec => []TypeOK
<1>1. TypeInv => TypeOK  BY WorkFields DEF TypeInv, ScanTypes, RowsOK, TypeOK
<1> QED  BY TypeInvariant, <1>1, PTL

\* The memory of the other scans is their own.
LEMMA SetWork ==
  ASSUME ScanTypes, NEW s \in Scans, NEW w, Set(s, w)
  PROVE  /\ work'[s] = w
         /\ \A t \in Scans : t # s => work'[t] = work[t]
  BY DEF Set, ScanTypes

\* The label each step of a scan leaves it at.
LEMMA StepLabels ==
  ASSUME ScanTypes, NEW s \in Scans
  PROVE  /\ Start(s) => work'[s].pc = "lock"
         /\ Acquire(s) => work'[s].pc = IF lock = 0 THEN "assume" ELSE "finish"
         /\ AssumeFails(s) \/ MarkAbsent(s) => work'[s].pc = "finish"
         /\ Load(s) => work'[s].pc = "jobs"
         /\ \A j \in Jobs : Job(s, j) => work'[s].pc = "jobs"
         /\ Upsert(s) => work'[s].pc = "edges"
         /\ ReplaceRelationships(s) => work'[s].pc = "tombstone"
         /\ Finish(s) => work'[s].pc = "done"
         /\ Crash(s) => work'[s].pc = "dead"
<1>1. work[s] \in Work /\ Fresh \in Work /\ work \in [Scans -> Work]
  BY WorkFields, FreshType DEF ScanTypes
<1>2. Start(s) => work'[s].pc = "lock"  BY <1>1 DEF Start, Set, Work
<1>2a. ASSUME NEW w \in Work, Set(s, w)  PROVE work'[s].pc = w.pc
  BY <1>1, <1>2a DEF Set
<1>3. Acquire(s) => work'[s].pc = IF lock = 0 THEN "assume" ELSE "finish"
  <2> DEFINE w1 == [work[s] EXCEPT !.pc = "assume"]
             w2 == [Fresh EXCEPT !.pc = "finish", !.errors = TRUE]
  <2>1. w1 \in Work /\ w1.pc = "assume" /\ w2 \in Work /\ w2.pc = "finish"
    BY <1>1 DEF Work, Labels
  <2>2. Acquire(s) => (lock = 0 /\ Set(s, w1)) \/ (lock # 0 /\ Set(s, w2))  BY DEF Acquire
  <2> HIDE DEF w1, w2
  <2> QED  BY <2>1, <2>2, <1>2a
<1>4. AssumeFails(s) \/ MarkAbsent(s) => work'[s].pc = "finish"
  <2> DEFINE w1 == [Fresh EXCEPT !.pc = "finish", !.errors = TRUE]
             w2(bad) == [Fresh EXCEPT !.pc = "finish", !.job = work[s].job,
                                      !.errors = work[s].errors \/ bad # {}]
  <2>1. w1 \in Work /\ w1.pc = "finish"  BY <1>1 DEF Work, Labels
  <2>2. \A bad : w2(bad) \in Work /\ w2(bad).pc = "finish"  BY <1>1 DEF Work, Labels
  <2>3. AssumeFails(s) => Set(s, w1)  BY DEF AssumeFails
  <2>4. MarkAbsent(s) => \E bad : Set(s, w2(bad))  BY DEF MarkAbsent
  <2> HIDE DEF w1, w2
  <2> QED  BY <2>1, <2>2, <2>3, <2>4, <1>2a
<1>5. Load(s) => work'[s].pc = "jobs"  BY <1>1 DEF Load, Set, Work
<1>6. ASSUME NEW j \in Jobs, Job(s, j)  PROVE work'[s].pc = "jobs"
  <2> DEFINE there == { k \in aws : JobOf[k] = j }
             w0    == [work[s] EXCEPT !.job[j] = "failed", !.errors = TRUE]
             w1    == [work[s] EXCEPT !.job[j] = "ok", !.seen = @ \cup there]
             w2(k) == [work[s] EXCEPT !.job[j] = "ok", !.seen = @ \cup (there \ {k}),
                                      !.skipped = @ \cup {k}]
  <2>1. w0.pc = work[s].pc /\ w1.pc = work[s].pc /\ \A k : w2(k).pc = work[s].pc
    BY <1>1 DEF Work
  <2>2. Set(s, w0) \/ Set(s, w1) \/ \E k \in there : Set(s, w2(k))  BY <1>6 DEF Job
  <2> HIDE DEF there, w0, w1, w2
  <2>3. work'[s].pc = work[s].pc  BY <1>1, <2>1, <2>2 DEF Set
  <2> QED  BY <2>3, <1>6 DEF Job, Pc
<1>7. Upsert(s) => work'[s].pc = "edges"
  <2> DEFINE w1 == [work[s] EXCEPT !.pc = "edges"]
             w2 == [work[s] EXCEPT !.pc = "edges", !.errors = TRUE]
  <2>1. w1 \in Work /\ w1.pc = "edges" /\ w2 \in Work /\ w2.pc = "edges"
    BY <1>1 DEF Work, Labels
  <2>2. Upsert(s) => Set(s, w1) \/ Set(s, w2)  BY DEF Upsert
  <2> HIDE DEF w1, w2
  <2> QED  BY <2>1, <2>2, <1>2a
<1>8. ReplaceRelationships(s) => work'[s].pc = "tombstone"
  <2> DEFINE w(bad) == [work[s] EXCEPT !.pc = "tombstone", !.known = Nothing, !.buried = {},
                                       !.errors = @ \/ bad # {}]
  <2>1. \A bad : w(bad).pc = "tombstone"  BY <1>1 DEF Work
  <2>2. ReplaceRelationships(s) => \E bad : Set(s, w(bad))  BY DEF ReplaceRelationships
  <2> HIDE DEF w
  <2> QED  BY <1>1, <2>1, <2>2 DEF Set
<1>9. (Finish(s) => work'[s].pc = "done") /\ (Crash(s) => work'[s].pc = "dead")
  BY <1>1 DEF Finish, Crash, Set, Work
<1> QED  BY <1>2, <1>3, <1>4, <1>5, <1>6, <1>7, <1>8, <1>9

-------------------------------------------------------------------------------
\* What is missing.  A scan that looks at the account knows of every key that is not there
\* that it was gone at some time, and a job that succeeded has seen, skipped or missed each
\* of its keys.

Lookers == Labels \ { "none", "done", "dead", "finish" }

Watched(w, here) ==
  w.pc \in Lookers =>
    /\ Keys \ here \subseteq w.gone
    /\ \A k \in Keys : w.job[JobOf[k]] = "ok" => k \in w.seen \cup w.gone \cup w.skipped

WatchInv == \A s \in Scans : Watched(work[s], aws)

LEMMA InitWatch == Init => WatchInv
  BY DEF Init, WatchInv, Watched, Lookers, Fresh

\* A scan's own step keeps the others' knowledge.
LEMMA WatchStep ==
  ASSUME ScanTypes, WatchInv, NEW s \in Scans, NEW w, Set(s, w), aws' = aws,
         Watched(w, aws)
  PROVE  WatchInv'
  BY SetWork DEF WatchInv

LEMMA NextWatch == TypeInv /\ WatchInv /\ [Next]_vars => WatchInv'
<1> SUFFICES ASSUME TypeInv, WatchInv, [Next]_vars PROVE WatchInv'  OBVIOUS
<1>1. ScanTypes  BY DEF TypeInv
<1>2. ASSUME NEW k \in Keys, Appear(k)  PROVE WatchInv'
  BY <1>2 DEF Appear, WatchInv, Watched
<1>3. ASSUME NEW k \in Keys, Vanish(k)  PROVE WatchInv'
  <2> SUFFICES ASSUME NEW s \in Scans, work'[s].pc \in Lookers
               PROVE  Watched(work'[s], aws')
    BY DEF WatchInv, Watched
  <2>1. work[s] \in Work  BY <1>1, WorkFields
  <2>2. s \in Looking
    BY <1>3, <2>1 DEF Vanish, Looking, Scanning, Lookers, Labels, Work
  <2>3. work'[s] = [work[s] EXCEPT !.gone = @ \cup {k}] /\ aws' = aws \ {k}
    BY <1>3, <2>2 DEF Vanish
  <2>4. work[s].pc \in Lookers /\ Watched(work[s], aws)
    BY <2>1, <2>3 DEF WatchInv, Work
  <2>5. /\ work'[s].pc = work[s].pc /\ work'[s].gone = work[s].gone \cup {k}
        /\ work'[s].job = work[s].job /\ work'[s].seen = work[s].seen
        /\ work'[s].skipped = work[s].skipped
    BY <2>1, <2>3 DEF Work
  <2> QED  BY <2>3, <2>4, <2>5 DEF Watched
<1>4. ASSUME NEW s \in Scans, Start(s)  PROVE WatchInv'
  <2>1. PICK asked \in (SUBSET Jobs) \ { {} } :
          Set(s, [Fresh EXCEPT !.pc = "lock", !.gone = Keys \ aws,
                    !.job = [j \in Jobs |-> IF j \in asked THEN "pending" ELSE "unasked"]])
    BY <1>4 DEF Start
  <2>2. Watched([Fresh EXCEPT !.pc = "lock", !.gone = Keys \ aws,
                   !.job = [j \in Jobs |-> IF j \in asked THEN "pending" ELSE "unasked"]], aws)
    BY DiscoveryData DEF Watched, Fresh
  <2> QED  BY <1>1, <1>4, <2>1, <2>2, WatchStep DEF Start
<1>5. ASSUME NEW s \in Scans, NEW l \in { "finish", "dead", "done" }, NEW w \in Work,
             w.pc = l, Set(s, w), aws' = aws
      PROVE  WatchInv'
  <2>1. Watched(w, aws)  BY <1>5 DEF Watched, Lookers
  <2> QED  BY <1>1, <1>5, <2>1, WatchStep
<1>6. ASSUME NEW s \in Scans, NEW w, Set(s, w), aws' = aws, work[s].pc \in Lookers,
             w.gone = work[s].gone, w.job = work[s].job, w.seen = work[s].seen,
             w.skipped = work[s].skipped
      PROVE  WatchInv'
  <2>1. Watched(w, aws)  BY <1>6 DEF WatchInv, Watched
  <2> QED  BY <1>1, <1>6, <2>1, WatchStep
<1>7. ASSUME NEW s \in Scans, Acquire(s) \/ AssumeFails(s)  PROVE WatchInv'
  <2>1. work[s] \in Work /\ Fresh \in Work  BY <1>1, WorkFields, FreshType
  <2> DEFINE w1 == [work[s] EXCEPT !.pc = "assume"]
             w2 == [Fresh EXCEPT !.pc = "finish", !.errors = TRUE]
  <2>2. /\ w1.gone = work[s].gone /\ w1.job = work[s].job /\ w1.seen = work[s].seen
        /\ w1.skipped = work[s].skipped
    BY <2>1 DEF Work
  <2>3. w2 \in Work /\ w2.pc = "finish"  BY <2>1 DEF Work, Labels
  <2>4. aws' = aws /\ (Set(s, w1) \/ Set(s, w2))  BY <1>7 DEF Acquire, AssumeFails
  <2>5. work[s].pc \in Lookers  BY <1>7 DEF Acquire, AssumeFails, Pc, Lookers, Labels
  <2> HIDE DEF w1, w2
  <2> QED  BY <2>2, <2>3, <2>4, <2>5, <1>5, <1>6
<1>8. ASSUME NEW s \in Scans, Load(s)  PROVE WatchInv'
  <2>1. PICK loaded \in BOOLEAN :
          Set(s, [work[s] EXCEPT
                    !.pc = "jobs",
                    !.known  = [k \in Keys |-> IF loaded /\ Live(k) THEN id[k] ELSE 0],
                    !.buried = { k \in Keys : row[k] = "deleted" }])
    BY <1>8 DEF Load
  <2>2. work[s] \in Work /\ aws' = aws /\ work[s].pc \in Lookers
    BY <1>1, <1>8, WorkFields DEF Load, Pc, Lookers, Labels
  <2> DEFINE w == [work[s] EXCEPT
                     !.pc = "jobs",
                     !.known  = [k \in Keys |-> IF loaded /\ Live(k) THEN id[k] ELSE 0],
                     !.buried = { k \in Keys : row[k] = "deleted" }]
  <2>3. /\ w.gone = work[s].gone /\ w.job = work[s].job /\ w.seen = work[s].seen
        /\ w.skipped = work[s].skipped
    BY <2>2 DEF Work
  <2> HIDE DEF w
  <2> QED  BY <2>1, <2>2, <2>3, <1>6 DEF w
<1>9. ASSUME NEW s \in Scans, NEW j \in Jobs, Job(s, j)  PROVE WatchInv'
  <2> DEFINE there == { k \in aws : JobOf[k] = j }
             w0    == [work[s] EXCEPT !.job[j] = "failed", !.errors = TRUE]
             w1    == [work[s] EXCEPT !.job[j] = "ok", !.seen = @ \cup there]
             w2(k) == [work[s] EXCEPT !.job[j] = "ok", !.seen = @ \cup (there \ {k}),
                                      !.skipped = @ \cup {k}]
  <2>1. work[s] \in Work /\ aws' = aws /\ work[s].pc \in Lookers /\ Watched(work[s], aws)
    BY <1>1, <1>9, WorkFields DEF Job, Pc, Lookers, Labels, WatchInv
  <2>2. Watched(w0, aws)
    BY <2>1, DiscoveryData DEF Work, Watched
  <2>3. Watched(w1, aws)
    BY <2>1, DiscoveryData DEF Work, Watched
  <2>4. ASSUME NEW k \in there  PROVE Watched(w2(k), aws)
    BY <2>1, DiscoveryData DEF Work, Watched
  <2>5. Set(s, w0) \/ Set(s, w1) \/ \E k \in there : Set(s, w2(k))
    BY <1>9 DEF Job
  <2> HIDE DEF there, w0, w1, w2
  <2> QED  BY <1>1, <2>1, <2>2, <2>3, <2>4, <2>5, WatchStep
<1>10. ASSUME NEW s \in Scans, Upsert(s)  PROVE WatchInv'
  <2> DEFINE w1 == [work[s] EXCEPT !.pc = "edges"]
             w2 == [work[s] EXCEPT !.pc = "edges", !.errors = TRUE]
  <2>1. work[s] \in Work /\ aws' = aws /\ work[s].pc \in Lookers
    BY <1>1, <1>10, WorkFields DEF Upsert, Pc, Lookers, Labels
  <2>2. /\ w1.gone = work[s].gone /\ w1.job = work[s].job /\ w1.seen = work[s].seen
        /\ w1.skipped = work[s].skipped
        /\ w2.gone = work[s].gone /\ w2.job = work[s].job /\ w2.seen = work[s].seen
        /\ w2.skipped = work[s].skipped
    BY <2>1 DEF Work
  <2>3. Set(s, w1) \/ Set(s, w2)  BY <1>10 DEF Upsert
  <2> HIDE DEF w1, w2
  <2> QED  BY <2>1, <2>2, <2>3, <1>6
<1>11. ASSUME NEW s \in Scans, ReplaceRelationships(s)  PROVE WatchInv'
  <2> DEFINE w(bad) == [work[s] EXCEPT !.pc = "tombstone", !.known = Nothing, !.buried = {},
                                       !.errors = @ \/ bad # {}]
  <2>1. PICK bad \in SUBSET Covered(s) : Set(s, w(bad))
    BY <1>11 DEF ReplaceRelationships
  <2>2. work[s] \in Work /\ aws' = aws /\ work[s].pc \in Lookers
    BY <1>1, <1>11, WorkFields DEF ReplaceRelationships, Pc, Lookers, Labels
  <2>3. /\ w(bad).gone = work[s].gone /\ w(bad).job = work[s].job /\ w(bad).seen = work[s].seen
        /\ w(bad).skipped = work[s].skipped
    BY <2>2 DEF Work
  <2> HIDE DEF w
  <2> QED  BY <2>1, <2>2, <2>3, <1>6
<1>12. ASSUME NEW s \in Scans, MarkAbsent(s)  PROVE WatchInv'
  <2> DEFINE w(bad) == [Fresh EXCEPT !.pc = "finish", !.job = work[s].job,
                                     !.errors = work[s].errors \/ bad # {}]
  <2>1. PICK bad \in SUBSET Covered(s) : Set(s, w(bad))  BY <1>12 DEF MarkAbsent
  <2>2. work[s] \in Work /\ Fresh \in Work  BY <1>1, WorkFields, FreshType
  <2>3. w(bad) \in Work /\ w(bad).pc = "finish"  BY <2>2 DEF Work, Labels
  <2> HIDE DEF w
  <2> QED  BY <2>1, <2>3, <1>5, <1>12 DEF MarkAbsent
<1>13. ASSUME NEW s \in Scans, Finish(s) \/ Crash(s)  PROVE WatchInv'
  <2>1. Fresh \in Work  BY FreshType
  <2>2. /\ [Fresh EXCEPT !.pc = "done"] \in Work /\ [Fresh EXCEPT !.pc = "done"].pc = "done"
        /\ [Fresh EXCEPT !.pc = "dead"] \in Work /\ [Fresh EXCEPT !.pc = "dead"].pc = "dead"
    BY <2>1 DEF Work, Labels
  <2> QED  BY <2>2, <1>5, <1>13 DEF Finish, Crash
<1>14. CASE ExpireLock \/ UNCHANGED vars
  BY <1>14 DEF ExpireLock, vars, WatchInv
<1> QED
  BY <1>2, <1>3, <1>4, <1>7, <1>8, <1>9, <1>10, <1>11, <1>12, <1>13, <1>14 DEF Next, Advance

\* Only MarkAbsent buries a resource.
LEMMA OnlyMarkAbsentBuries ==
  ASSUME TypeInv, [Next]_vars, NEW k \in Tombstoned
  PROVE  \E s \in Scans : MarkAbsent(s) /\ k \in Unseen(s)
<1>1. k \in Keys /\ row[k] = "live" /\ row'[k] = "deleted"  BY DEF Tombstoned
<1>2. row' # row  BY <1>1
<1>3. \E s \in Scans : Upsert(s) \/ MarkAbsent(s)
  BY <1>2 DEF Next, Advance, Appear, Vanish, Start, Acquire, AssumeFails, Load, Job,
              ReplaceRelationships, Finish, Crash, ExpireLock, vars, store
<1>4. \A s \in Scans : ~Upsert(s)  BY <1>1 DEF Upsert, TypeInv, ScanTypes, RowsOK
<1> QED  BY <1>1, <1>3, <1>4 DEF MarkAbsent

\* A scan deletes nothing it did not look for: what it tombstones was missing from AWS at
\* some time during it, or its job could not describe it (MarkAbsent, scan.go:227-252).
THEOREM OnlyTheMissingIsTombstoned == Spec => TombstonesAreJustified
<1>1. TypeInv /\ WatchInv /\ [Next]_vars =>
        \A k \in Tombstoned : \E s \in Scans : k \in work[s].gone \cup work[s].skipped
  <2> SUFFICES ASSUME TypeInv, WatchInv, [Next]_vars, NEW k \in Tombstoned
               PROVE  \E s \in Scans : k \in work[s].gone \cup work[s].skipped
    OBVIOUS
  <2>1. PICK s \in Scans : MarkAbsent(s) /\ k \in Unseen(s)  BY OnlyMarkAbsentBuries
  <2>2. work[s].pc \in Lookers  BY <2>1 DEF MarkAbsent, Pc, Lookers, Labels
  <2>3. k \in Keys /\ k \notin work[s].seen /\ work[s].job[JobOf[k]] = "ok"
    BY <2>1 DEF Unseen, Succeeded
  <2> QED  BY <2>2, <2>3 DEF WatchInv, Watched
<1>2. Spec => []WatchInv
  BY InitTypes, NextTypes, InitWatch, NextWatch, PTL DEF Spec
<1> QED  BY TypeInvariant, <1>1, <1>2, PTL DEF Spec, TombstonesAreJustified

-------------------------------------------------------------------------------
\* Who is inside, and what is stored.  As long as the lock never ran out under a scan, a
\* scan between its lock and its release holds it; what such a scan has stored without an
\* error is live until it lets go.

Inside == { "assume", "jobs", "edges", "tombstone" }

LockInv == overruns = 0 => \A s \in Scans : work[s].pc \in Inside => lock = s

StoredInv ==
  overruns = 0 =>
    \A s \in Scans : work[s].pc \in { "edges", "tombstone" } /\ ~work[s].errors =>
      \A k \in work[s].seen : Live(k)

LEMMA InitExclusion == Init => LockInv /\ StoredInv
  BY DEF Init, LockInv, StoredInv, Inside, Fresh

\* What the steps of one scan do to its label, to the lock and to the count of overruns.
LEMMA NextLock == TypeInv /\ LockInv /\ [Next]_vars => LockInv'
<1> SUFFICES ASSUME TypeInv, LockInv, [Next]_vars, overruns' = 0,
                    NEW t \in Scans, work'[t].pc \in Inside
             PROVE  lock' = t
  BY DEF LockInv
<1>1. ScanTypes /\ work[t] \in Work  BY WorkFields DEF TypeInv
<1>2. overruns = 0 => \A s \in Scans : work[s].pc \in Inside => lock = s  BY DEF LockInv
<1>3. ASSUME NEW k \in Keys, Appear(k) \/ Vanish(k)  PROVE lock' = t
  <2>1. work'[t].pc = work[t].pc  BY <1>1, <1>3 DEF Appear, Vanish, Work
  <2> QED  BY <2>1, <1>2, <1>3 DEF Appear, Vanish
<1>4. ASSUME NEW s \in Scans, Start(s) \/ Finish(s) \/ Crash(s)  PROVE lock' = t
  <2>1. work'[s].pc \notin Inside
    BY <1>1, <1>4, StepLabels DEF Inside
  <2>2. t # s  BY <2>1
  <2>3. work'[t] = work[t]  BY <2>2, <1>1, <1>4, SetWork DEF Start, Finish, Crash
  <2> QED  BY <2>3, <1>2, <1>4 DEF Start, Finish, Crash, counters
<1>5. ASSUME NEW s \in Scans, Acquire(s)  PROVE lock' = t
  <2>1. overruns = 0  BY <1>5 DEF Acquire, counters
  <2>2. \A u \in Scans : u # s => work'[u] = work[u]  BY <1>1, <1>5, SetWork DEF Acquire
  <2>3. CASE t = s
    <3>1. lock # 0 => work'[s].pc = "finish"  BY <1>1, <1>5, StepLabels
    <3> QED  BY <3>1, <2>3, <1>5 DEF Acquire, Inside
  <2>4. CASE t # s
    <3>1. lock = t  BY <2>1, <2>2, <2>4, <1>2
    <3> QED  BY <3>1, <1>5, DiscoveryData DEF Acquire, Scans
  <2> QED  BY <2>3, <2>4
<1>6. ASSUME NEW s \in Scans, AssumeFails(s) \/ MarkAbsent(s)  PROVE lock' = t
  <2>1. overruns = 0  BY <1>6 DEF AssumeFails, MarkAbsent, counters
  <2>2. work'[s].pc = "finish"  BY <1>1, <1>6, StepLabels
  <2>3. t # s  BY <2>2 DEF Inside
  <2>4. work'[t] = work[t]  BY <2>3, <1>1, <1>6, SetWork DEF AssumeFails, MarkAbsent
  <2>5. lock = t  BY <2>1, <2>4, <1>2
  <2> QED  BY <2>3, <2>5, <1>6 DEF AssumeFails, MarkAbsent, Release
<1>7. ASSUME NEW s \in Scans,
             Load(s) \/ (\E j \in Jobs : Job(s, j)) \/ Upsert(s) \/ ReplaceRelationships(s)
      PROVE  lock' = t
  <2>1. work[s].pc \in Inside  BY <1>7 DEF Load, Job, Upsert, ReplaceRelationships, Pc, Inside
  <2>2. overruns = 0 /\ lock' = lock
    BY <1>7 DEF Load, Job, Upsert, ReplaceRelationships, counters
  <2>3. \A u \in Scans : u # s => work'[u] = work[u]
    BY <1>1, <1>7, SetWork DEF Load, Job, Upsert, ReplaceRelationships
  <2> QED  BY <2>1, <2>2, <2>3, <1>2
<1>8. CASE ExpireLock
  <2>1. overruns = 0 /\ lock \notin Scanning
    BY <1>8 DEF ExpireLock, TypeInv, ScanTypes
  <2>2. lock = t  BY <2>1, <1>2, <1>8 DEF ExpireLock
  <2>3. t \in Scanning  BY <2>2, <1>8 DEF ExpireLock, Scanning, Inside
  <2> QED  BY <2>1, <2>2, <2>3
<1>9. CASE UNCHANGED vars
  BY <1>2, <1>9 DEF vars, counters
<1> QED
  BY <1>3, <1>4, <1>5, <1>6, <1>7, <1>8, <1>9 DEF Next, Advance

\* While the lock never ran out, no two scans are inside.
LEMMA OneInside ==
  ASSUME LockInv, overruns = 0, NEW s \in Scans, NEW t \in Scans,
         work[s].pc \in Inside, work[t].pc \in Inside
  PROVE  s = t
  BY DEF LockInv

LEMMA NextStored == TypeInv /\ LockInv /\ StoredInv /\ [Next]_vars => StoredInv'
<1> SUFFICES ASSUME TypeInv, LockInv, StoredInv, [Next]_vars, overruns' = 0,
                    NEW t \in Scans, work'[t].pc \in { "edges", "tombstone" },
                    ~work'[t].errors, NEW k \in work'[t].seen
             PROVE  row'[k] = "live"
  BY DEF StoredInv, Live
<1>1. ScanTypes /\ work[t] \in Work /\ Fresh \in Work  BY WorkFields, FreshType DEF TypeInv
<1>2. overruns = 0 =>
        \A s \in Scans : work[s].pc \in { "edges", "tombstone" } /\ ~work[s].errors =>
          \A x \in work[s].seen : row[x] = "live"
  BY DEF StoredInv, Live
<1>3. ASSUME NEW x \in Keys, Appear(x) \/ Vanish(x)  PROVE row'[k] = "live"
  <2>1. /\ work'[t].pc = work[t].pc /\ work'[t].errors = work[t].errors
        /\ work'[t].seen = work[t].seen
    BY <1>1, <1>3 DEF Appear, Vanish, Work
  <2> QED  BY <2>1, <1>2, <1>3 DEF Appear, Vanish, store
<1>4. ASSUME NEW s \in Scans, Start(s) \/ Acquire(s) \/ AssumeFails(s) \/ Load(s)
                              \/ (\E j \in Jobs : Job(s, j)) \/ Finish(s) \/ Crash(s)
      PROVE  row'[k] = "live"
  <2>1. row' = row /\ overruns' = overruns
    BY <1>4 DEF Start, Acquire, AssumeFails, Load, Job, Finish, Crash, store, counters
  <2>2. \A u \in Scans : u # s => work'[u] = work[u]
    BY <1>1, <1>4, SetWork DEF Start, Acquire, AssumeFails, Load, Job, Finish, Crash
  <2>3. work'[s].pc \notin { "edges", "tombstone" }
    BY <1>1, <1>4, StepLabels
  <2> QED  BY <2>1, <2>2, <2>3, <1>2
<1>5. ASSUME NEW s \in Scans, Upsert(s)  PROVE row'[k] = "live"
  <2>1. work[s] \in Work /\ overruns = 0  BY <1>1, <1>5, WorkFields DEF Upsert, counters
  <2>2. CASE t = s
    <3> DEFINE w2 == [work[s] EXCEPT !.pc = "edges", !.errors = TRUE]
    <3>1. w2.errors = TRUE  BY <2>1 DEF Work
    <3>2. ~Set(s, w2)  BY <1>1, <2>2, <3>1, SetWork
    <3>3. Set(s, [work[s] EXCEPT !.pc = "edges"]) /\
          row' = [x \in Keys |-> IF x \in work[s].seen THEN "live" ELSE row[x]]
      BY <1>5, <3>2 DEF Upsert
    <3>4. work'[s].seen = work[s].seen /\ work[s].seen \subseteq Keys
      BY <1>1, <2>1, <3>3, SetWork DEF Work
    <3> QED  BY <2>2, <3>3, <3>4
  <2>3. CASE t # s
    <3>1. work'[t] = work[t]  BY <1>1, <1>5, <2>3, SetWork DEF Upsert
    <3>2. row[k] = "live"  BY <3>1, <2>1, <1>2
    <3>3. k \in Keys  BY <3>1, <1>1 DEF Work
    <3> QED  BY <3>2, <3>3, <1>5 DEF Upsert
  <2> QED  BY <2>2, <2>3
<1>6. ASSUME NEW s \in Scans, ReplaceRelationships(s)  PROVE row'[k] = "live"
  <2>1. work[s] \in Work /\ overruns = 0 /\ row' = row
    BY <1>1, <1>6, WorkFields DEF ReplaceRelationships, counters
  <2>2. CASE t = s
    <3>1. PICK bad \in SUBSET Covered(s) :
            Set(s, [work[s] EXCEPT !.pc = "tombstone", !.known = Nothing, !.buried = {},
                                   !.errors = @ \/ bad # {}])
      BY <1>6 DEF ReplaceRelationships
    <3>2. work'[s].seen = work[s].seen /\ work'[s].errors = (work[s].errors \/ bad # {})
      <4> DEFINE w == [work[s] EXCEPT !.pc = "tombstone", !.known = Nothing, !.buried = {},
                                      !.errors = @ \/ bad # {}]
      <4>1. work'[s] = w  BY <1>1, <3>1, SetWork
      <4>2. w.seen = work[s].seen /\ w.errors = (work[s].errors \/ bad # {})
        BY <2>1 DEF Work
      <4> QED  BY <4>1, <4>2
    <3>3. work[s].pc = "edges"  BY <1>6 DEF ReplaceRelationships, Pc
    <3> QED  BY <2>1, <2>2, <3>2, <3>3, <1>2
  <2>3. CASE t # s
    <3>1. work'[t] = work[t]  BY <1>1, <1>6, <2>3, SetWork DEF ReplaceRelationships
    <3> QED  BY <3>1, <2>1, <1>2
  <2> QED  BY <2>2, <2>3
<1>7. ASSUME NEW s \in Scans, MarkAbsent(s)  PROVE row'[k] = "live"
  <2>1. work'[s].pc = "finish"  BY <1>1, <1>7, StepLabels
  <2>2. t # s  BY <2>1
  <2>3. work'[t] = work[t]  BY <1>1, <1>7, <2>2, SetWork DEF MarkAbsent
  <2>4. overruns = 0 /\ work[s].pc \in Inside /\ work[t].pc \in Inside
    BY <2>3, <1>7 DEF MarkAbsent, counters, Pc, Inside
  <2> QED  BY <2>2, <2>4, OneInside
<1>8. CASE ExpireLock
  <2>1. overruns = 0 /\ work' = work /\ row' = row
    BY <1>8 DEF ExpireLock, TypeInv, ScanTypes, store
  <2> QED  BY <2>1, <1>2
<1>9. CASE UNCHANGED vars
  BY <1>2, <1>9 DEF vars, store, counters
<1> QED
  BY <1>3, <1>4, <1>5, <1>6, <1>7, <1>8, <1>9 DEF Next, Advance

\* The step in which a scan lets go of the lock.
LEMMA LetsGo ==
  ASSUME TypeInv, [Next]_vars, NEW s \in Scans,
         work[s].pc = "tombstone", work'[s].pc = "finish"
  PROVE  MarkAbsent(s)
<1>1. ScanTypes /\ work[s] \in Work /\ Fresh \in Work  BY WorkFields, FreshType DEF TypeInv
<1>2. ~UNCHANGED vars /\ ~ExpireLock  BY DEF vars, ExpireLock
<1>3. \A k \in Keys : ~Appear(k) /\ ~Vanish(k)
  BY <1>1 DEF Appear, Vanish, Work
<1>4. \A t \in Scans : t # s => ~(Start(t) \/ Advance(t) \/ Crash(t))
  BY <1>1, SetWork DEF Start, Advance, Crash, Acquire, AssumeFails, Load, Job, Upsert,
                       ReplaceRelationships, MarkAbsent, Finish
<1>5. ~Start(s) /\ ~Crash(s)
  BY <1>1, StepLabels
<1>6. Advance(s) => MarkAbsent(s)
  BY DEF Advance, Acquire, AssumeFails, Load, Job, Upsert, ReplaceRelationships, Finish, Pc
<1> QED  BY <1>2, <1>3, <1>4, <1>5, <1>6 DEF Next

\* A scan recorded as completed leaves the store as its jobs saw the account, unless the
\* lock ever ran out under one (Run, finalStatus, scan.go:57-75, 206-252).
THEOREM CompletedScansAreCurrent == Spec => CompletedIsCurrent
<1>1. TypeInv /\ StoredInv /\ [Next]_vars =>
        \A s \in Scans :
          Pc(s, "tombstone") /\ Pc(s, "finish")' /\ VerdictOf(s)' = "completed" /\ overruns = 0 =>
            \A k \in Keys : JobOf[k] \in Asked(s) => (Live(k)' <=> k \in work[s].seen)
  <2> SUFFICES ASSUME TypeInv, StoredInv, [Next]_vars, NEW s \in Scans,
                      Pc(s, "tombstone"), Pc(s, "finish")', VerdictOf(s)' = "completed",
                      overruns = 0, NEW k \in Keys, JobOf[k] \in Asked(s)
               PROVE  row'[k] = "live" <=> k \in work[s].seen
    BY DEF Live
  <2>1. ScanTypes /\ work[s] \in Work /\ Fresh \in Work  BY WorkFields, FreshType DEF TypeInv
  <2>2. MarkAbsent(s)  BY LetsGo DEF Pc
  <2> DEFINE w(bad) == [Fresh EXCEPT !.pc = "finish", !.job = work[s].job,
                                     !.errors = work[s].errors \/ bad # {}]
  <2>3. PICK bad \in SUBSET Covered(s) :
          /\ row' = [x \in Keys |-> IF x \in Unseen(s) /\ Region(x) \notin bad THEN "deleted"
                                    ELSE row[x]]
          /\ Set(s, w(bad))
    BY <2>2 DEF MarkAbsent
  <2>4. work'[s].job = work[s].job /\ work'[s].errors = (work[s].errors \/ bad # {})
    <3>1. work'[s] = w(bad)  BY <2>1, <2>3, SetWork
    <3> QED  BY <3>1, <2>1 DEF Work
  <2>5. Asked(s)' = Asked(s) /\ Succeeded(s)' = Succeeded(s)
    BY <2>4 DEF Asked, Succeeded
  <2>6. Asked(s) = Succeeded(s) /\ ~work'[s].errors
    BY <2>5 DEF VerdictOf
  <2>7. bad = {} /\ ~work[s].errors  BY <2>4, <2>6
  <2>8. k \in work[s].seen => row[k] = "live"
    BY <2>7 DEF StoredInv, Live, Pc
  <2>9. k \in Unseen(s) <=> row[k] = "live" /\ k \notin work[s].seen
    BY <2>6 DEF Unseen, Live
  <2> QED  BY <2>3, <2>7, <2>8, <2>9
<1>2. Spec => [](LockInv /\ StoredInv)
  BY TypeInvariant, InitExclusion, NextLock, NextStored, PTL DEF Spec
<1> QED  BY TypeInvariant, <1>1, <1>2, PTL DEF Spec, CompletedIsCurrent

-------------------------------------------------------------------------------
\* Identifiers.  One that was minted stays; the inventory a scan has loaded is never wrong
\* about what it knows, and what it does not know has no identifier until the scan mints it.

RowIdInv == \A k \in Keys : row[k] = "none" <=> id[k] = 0

KnownInv ==
  \A s \in Scans : work[s].pc \in { "jobs", "edges" } =>
    \A k \in Keys : work[s].known[k] # 0 => id[k] = work[s].known[k]

UnknownInv ==
  overruns = 0 =>
    \A s \in Scans \ loose : work[s].pc = "jobs" =>
      \A k \in Keys \ work[s].buried : work[s].known[k] = 0 => id[k] = 0

MintedInv ==
  \A s \in Scans \ loose : work[s].pc = "edges" =>
    \A k \in work[s].seen : work[s].known[k] = 0 => id[k] = s

Resolved(e) == e[2] # 0 /\ id[e[1]] = e[2]

EdgeInv == \A e \in edges : e.by \notin loose => Resolved(e.from) /\ Resolved(e.to)

IdInv == RowIdInv /\ KnownInv /\ UnknownInv /\ MintedInv /\ EdgeInv

LEMMA InitIds == Init => IdInv
  BY DEF Init, IdInv, RowIdInv, KnownInv, UnknownInv, MintedInv, EdgeInv, Nothing, Fresh

\* Upsert mints identifiers, and no identifier is changed or taken back.
LEMMA IdsStay ==
  ASSUME TypeInv, [Next]_vars
  PROVE  /\ \A k \in Keys : id[k] # 0 => id'[k] = id[k]
         /\ id' # id => \E s \in Scans : Upsert(s)
         /\ loose \subseteq loose'
         /\ overruns' = 0 => overruns = 0
<1>1. id' # id => \E s \in Scans : Upsert(s)
  BY DEF Next, Advance, Appear, Vanish, Start, Acquire, AssumeFails, Load, Job,
         ReplaceRelationships, MarkAbsent, Finish, Crash, ExpireLock, vars, store
<1>2. \A k \in Keys : id[k] # 0 => id'[k] = id[k]
  <2>1. ASSUME NEW s \in Scans, Upsert(s), NEW k \in Keys, id[k] # 0  PROVE id'[k] = id[k]
    BY <2>1 DEF Upsert
  <2> QED  BY <1>1, <2>1
<1>3. loose \subseteq loose'
  BY DEF Next, Advance, Appear, Vanish, Start, Acquire, AssumeFails, Load, Job, Upsert,
         ReplaceRelationships, MarkAbsent, Finish, Crash, ExpireLock, vars
<1>4. overruns' = 0 => overruns = 0
  <2>1. overruns' = overruns \/ ExpireLock
    BY DEF Next, Advance, Appear, Vanish, Start, Acquire, AssumeFails, Load, Job, Upsert,
           ReplaceRelationships, MarkAbsent, Finish, Crash, vars, counters
  <2>2. ExpireLock => overruns' \in { overruns, overruns + 1 }  BY DEF ExpireLock
  <2> QED  BY <2>1, <2>2 DEF TypeInv, ScanTypes
<1> QED  BY <1>1, <1>2, <1>3, <1>4

\* What becomes of the inventory a scan holds, as long as it needs it.
LEMMA InventoryStep ==
  ASSUME TypeInv, [Next]_vars, NEW t \in Scans, work'[t].pc \in { "jobs", "edges" }
  PROVE  \/ Load(t) /\ work'[t].pc = "jobs"
         \/ /\ work'[t].known = work[t].known /\ work'[t].buried = work[t].buried
            /\ work[t].pc = "jobs" /\ work'[t].pc = "jobs"
         \/ /\ work'[t].known = work[t].known /\ work'[t].seen = work[t].seen
            /\ \/ Upsert(t) /\ work[t].pc = "jobs" /\ work'[t].pc = "edges"
               \/ work[t].pc = "edges" /\ work'[t].pc = "edges"
<1> DEFINE Same == /\ work'[t].known = work[t].known /\ work'[t].buried = work[t].buried
                   /\ work'[t].seen = work[t].seen /\ work'[t].pc = work[t].pc
<1>1. ScanTypes /\ work[t] \in Work  BY WorkFields DEF TypeInv
<1>2. ASSUME NEW k \in Keys, Appear(k) \/ Vanish(k)  PROVE Same
  BY <1>1, <1>2 DEF Appear, Vanish, Work
<1>3. CASE ExpireLock \/ UNCHANGED vars
  BY <1>3 DEF ExpireLock, vars
<1>4. ASSUME NEW s \in Scans, s # t, Start(s) \/ Advance(s) \/ Crash(s)  PROVE Same
  BY <1>1, <1>4, SetWork DEF Start, Advance, Crash, Acquire, AssumeFails, Load, Job, Upsert,
                             ReplaceRelationships, MarkAbsent, Finish
<1>5. ~(Start(t) \/ Acquire(t) \/ AssumeFails(t) \/ ReplaceRelationships(t) \/ MarkAbsent(t)
        \/ Finish(t) \/ Crash(t))
  BY <1>1, StepLabels
<1>6. CASE Load(t)
  BY <1>1, <1>6, StepLabels
<1>7. ASSUME NEW j \in Jobs, Job(t, j)
      PROVE  /\ work'[t].known = work[t].known /\ work'[t].buried = work[t].buried
             /\ work[t].pc = "jobs" /\ work'[t].pc = "jobs"
  <2> DEFINE there == { k \in aws : JobOf[k] = j }
             w0    == [work[t] EXCEPT !.job[j] = "failed", !.errors = TRUE]
             w1    == [work[t] EXCEPT !.job[j] = "ok", !.seen = @ \cup there]
             w2(k) == [work[t] EXCEPT !.job[j] = "ok", !.seen = @ \cup (there \ {k}),
                                      !.skipped = @ \cup {k}]
  <2>1. /\ w0.known = work[t].known /\ w0.buried = work[t].buried
        /\ w1.known = work[t].known /\ w1.buried = work[t].buried
        /\ \A k : w2(k).known = work[t].known /\ w2(k).buried = work[t].buried
    BY <1>1 DEF Work
  <2>2. Set(t, w0) \/ Set(t, w1) \/ \E k \in there : Set(t, w2(k))  BY <1>7 DEF Job
  <2> HIDE DEF there, w0, w1, w2
  <2>3. work'[t].known = work[t].known /\ work'[t].buried = work[t].buried
    BY <1>1, <2>1, <2>2, SetWork
  <2> QED  BY <2>3, <1>1, <1>7, StepLabels DEF Job, Pc
<1>8. CASE Upsert(t)
  <2> DEFINE w1 == [work[t] EXCEPT !.pc = "edges"]
             w2 == [work[t] EXCEPT !.pc = "edges", !.errors = TRUE]
  <2>1. /\ w1.known = work[t].known /\ w1.seen = work[t].seen
        /\ w2.known = work[t].known /\ w2.seen = work[t].seen
    BY <1>1 DEF Work
  <2>2. Set(t, w1) \/ Set(t, w2)  BY <1>8 DEF Upsert
  <2> HIDE DEF w1, w2
  <2>3. work'[t].known = work[t].known /\ work'[t].seen = work[t].seen
    BY <1>1, <2>1, <2>2, SetWork
  <2> QED  BY <2>3, <1>1, <1>8, StepLabels DEF Upsert, Pc
<1> QED
  BY <1>2, <1>3, <1>4, <1>5, <1>6, <1>7, <1>8 DEF Next, Advance

LEMMA NextRowId == TypeInv /\ RowIdInv /\ [Next]_vars => RowIdInv'
<1> SUFFICES ASSUME TypeInv, RowIdInv, [Next]_vars, NEW k \in Keys
             PROVE  row'[k] = "none" <=> id'[k] = 0
  BY DEF RowIdInv
<1>1. row[k] = "none" <=> id[k] = 0  BY DEF RowIdInv
<1>2. ASSUME NEW s \in Scans, Upsert(s)  PROVE row'[k] = "none" <=> id'[k] = 0
  BY <1>1, <1>2 DEF Upsert, Scans
<1>3. ASSUME NEW s \in Scans, MarkAbsent(s)  PROVE row'[k] = "none" <=> id'[k] = 0
  BY <1>1, <1>3 DEF MarkAbsent, Unseen, Live
<1>4. CASE row' = row /\ id' = id
  BY <1>1, <1>4
<1> QED
  BY <1>2, <1>3, <1>4 DEF Next, Advance, Appear, Vanish, Start, Acquire, AssumeFails, Load, Job,
         ReplaceRelationships, Finish, Crash, ExpireLock, vars, store

\* What Load puts into a scan's memory.
LEMMA LoadStep ==
  ASSUME ScanTypes, NEW t \in Scans, Load(t)
  PROVE  \E loaded \in BOOLEAN :
           /\ \A k \in Keys : work'[t].known[k] = IF loaded /\ Live(k) THEN id[k] ELSE 0
           /\ work'[t].buried = { k \in Keys : row[k] = "deleted" }
           /\ ~loaded => t \in loose'
           /\ UNCHANGED << row, id >>
<1>1. work[t] \in Work  BY WorkFields
<1> DEFINE w(loaded) == [work[t] EXCEPT
                           !.pc = "jobs",
                           !.known  = [k \in Keys |-> IF loaded /\ Live(k) THEN id[k] ELSE 0],
                           !.buried = { k \in Keys : row[k] = "deleted" }]
<1>2. PICK loaded \in BOOLEAN :
        Set(t, w(loaded)) /\ loose' = IF loaded THEN loose ELSE loose \cup {t}
  BY DEF Load
<1>3. /\ w(loaded).known = [k \in Keys |-> IF loaded /\ Live(k) THEN id[k] ELSE 0]
      /\ w(loaded).buried = { k \in Keys : row[k] = "deleted" }
  BY <1>1 DEF Work
<1>4. work'[t] = w(loaded)  BY <1>2, SetWork
<1> HIDE DEF w
<1>5. UNCHANGED << row, id >>  BY DEF Load, store
<1> QED  BY <1>2, <1>3, <1>4, <1>5

LEMMA NextKnown == TypeInv /\ KnownInv /\ [Next]_vars => KnownInv'
<1> SUFFICES ASSUME TypeInv, KnownInv, [Next]_vars, NEW t \in Scans,
                    work'[t].pc \in { "jobs", "edges" }, NEW k \in Keys, work'[t].known[k] # 0
             PROVE  id'[k] = work'[t].known[k]
  BY DEF KnownInv
<1>1. CASE Load(t)
  BY <1>1, LoadStep DEF TypeInv
<1>2. CASE work'[t].known = work[t].known /\ work[t].pc \in { "jobs", "edges" }
  BY <1>2, IdsStay DEF KnownInv
<1> QED  BY <1>1, <1>2, InventoryStep

LEMMA NextUnknown == TypeInv /\ LockInv /\ RowIdInv /\ UnknownInv /\ [Next]_vars => UnknownInv'
<1> SUFFICES ASSUME TypeInv, LockInv, RowIdInv, UnknownInv, [Next]_vars, overruns' = 0,
                    NEW t \in Scans, t \notin loose', work'[t].pc = "jobs",
                    NEW k \in Keys, k \notin work'[t].buried, work'[t].known[k] = 0
             PROVE  id'[k] = 0
  BY DEF UnknownInv
<1>1. overruns = 0 /\ t \notin loose  BY IdsStay
<1>2. CASE Load(t)
  BY <1>2, LoadStep DEF TypeInv, ScanTypes, RowsOK, RowIdInv, Live
<1>3. CASE /\ work'[t].known = work[t].known /\ work'[t].buried = work[t].buried
           /\ work[t].pc = "jobs"
  <2>1. id[k] = 0  BY <1>1, <1>3 DEF UnknownInv
  <2>2. ASSUME NEW s \in Scans, Upsert(s)  PROVE FALSE
    <3>1. work[s].pc = "jobs" /\ work'[s].pc = "edges"
      BY <2>2, StepLabels DEF TypeInv, Upsert, Pc
    <3>2. s = t  BY <3>1, <1>1, <1>3, OneInside DEF Inside
    <3> QED  BY <3>1, <3>2
  <2> QED  BY <2>1, <2>2, IdsStay
<1> QED  BY <1>2, <1>3, InventoryStep

LEMMA NextMinted == TypeInv /\ UnknownInv /\ MintedInv /\ [Next]_vars => MintedInv'
<1> SUFFICES ASSUME TypeInv, UnknownInv, MintedInv, [Next]_vars,
                    NEW t \in Scans, t \notin loose', work'[t].pc = "edges",
                    NEW k \in work'[t].seen, work'[t].known[k] = 0
             PROVE  id'[k] = t
  BY DEF MintedInv
<1>1. work[t] \in Work /\ t \notin loose /\ t # 0
  BY WorkFields, IdsStay DEF TypeInv, Scans
<1>2. CASE work[t].pc = "edges" /\ work'[t].known = work[t].known /\ work'[t].seen = work[t].seen
  <2>1. k \in Keys /\ id[k] = t  BY <1>1, <1>2 DEF MintedInv, Work
  <2> QED  BY <2>1, <1>1, IdsStay
<1>3. CASE Upsert(t) /\ work'[t].known = work[t].known /\ work'[t].seen = work[t].seen
  <2>1. /\ id' = [x \in Keys |-> IF x \in work[t].seen /\ id[x] = 0 THEN t ELSE id[x]]
        /\ work[t].seen \cap work[t].buried = {} /\ overruns = 0 /\ work[t].pc = "jobs"
    BY <1>3 DEF Upsert, Pc, TypeInv, ScanTypes
  <2>2. k \in Keys /\ k \in work[t].seen /\ k \notin work[t].buried /\ work[t].known[k] = 0
    BY <1>1, <1>3, <2>1 DEF Work
  <2>3. id[k] = 0  BY <1>1, <2>1, <2>2 DEF UnknownInv
  <2> QED  BY <2>1, <2>2, <2>3
<1> QED  BY <1>2, <1>3, InventoryStep

\* What a scan finds names stored resources by the identifiers they have.
LEMMA FoundResolves ==
  ASSUME TypeInv, KnownInv, MintedInv, NEW s \in Scans \ loose, work[s].pc = "edges",
         NEW e \in Found(s)
  PROVE  Resolved(e.from) /\ Resolved(e.to)
<1>1. ASSUME NEW k \in Keys, NEW j, k \in work[s].seen \/ work[s].known[k] # 0
      PROVE  Resolved(End(s, k, j))
  BY <1>1 DEF Resolved, End, KnownInv, MintedInv, Scans
<1>2. PICK l \in Links :
        /\ e = [ from |-> End(s, l[1], JobOf[l[1]]), to |-> End(s, l[2], JobOf[l[1]]), by |-> s ]
        /\ l[1] \in work[s].seen
        /\ l[2] \in work[s].seen \/ work[s].known[l[2]] # 0
  BY DEF Found
<1>3. l[1] \in Keys /\ l[2] \in Keys  BY DiscoveryData
<1>4. e.from = End(s, l[1], JobOf[l[1]]) /\ e.to = End(s, l[2], JobOf[l[1]])
  BY <1>2
<1> QED  BY <1>1, <1>2, <1>3, <1>4

LEMMA NextEdges == TypeInv /\ KnownInv /\ MintedInv /\ EdgeInv /\ [Next]_vars => EdgeInv'
<1> SUFFICES ASSUME TypeInv, KnownInv, MintedInv, EdgeInv, [Next]_vars,
                    NEW e \in edges', e.by \notin loose'
             PROVE  Resolved(e.from)' /\ Resolved(e.to)'
  BY DEF EdgeInv
<1>1. e.by \notin loose  BY IdsStay
<1>2. Resolved(e.from) /\ Resolved(e.to) /\ e \in Edge
  <2>1. CASE e \in edges
    BY <2>1, <1>1 DEF EdgeInv, TypeInv
  <2>2. CASE e \notin edges
    <3>1. PICK s \in Scans : ReplaceRelationships(s)
      BY <2>2 DEF Next, Advance, Appear, Vanish, Start, Acquire, AssumeFails, Load, Job, Upsert,
                  MarkAbsent, Finish, Crash, ExpireLock, vars, store
    <3>2. e \in Found(s) /\ work[s].pc = "edges"
      BY <2>2, <3>1 DEF ReplaceRelationships, Pc
    <3>3. e.by = s /\ e \in Edge  BY <3>2, FoundType DEF Found, TypeInv
    <3> QED  BY <1>1, <3>2, <3>3, FoundResolves
  <2> QED  BY <2>1, <2>2
<1>3. e.from[1] \in Keys /\ e.to[1] \in Keys  BY <1>2 DEF Edge, Ident
<1> QED  BY <1>2, <1>3, IdsStay DEF Resolved

\* Every stored relationship names stored resources by the identifiers they have, whichever
\* scans wrote them and however they failed or overlapped, with the exceptions EdgesResolve
\* names (resolveRelationships, scan.go:160-190).
THEOREM RelationshipsResolve == Spec => []EdgesResolve
<1>1. TypeInv /\ LockInv /\ IdInv /\ [Next]_vars => IdInv'
  BY NextRowId, NextKnown, NextUnknown, NextMinted, NextEdges DEF IdInv
<1>2. Spec => []LockInv
  BY TypeInvariant, InitExclusion, NextLock, PTL DEF Spec
<1>3. IdInv => EdgesResolve  BY DEF IdInv, EdgeInv, EdgesResolve, Resolved
<1> QED  BY TypeInvariant, InitIds, <1>1, <1>2, <1>3, PTL DEF Spec

===============================================================================
