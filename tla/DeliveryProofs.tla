--------------------------- MODULE DeliveryProofs ---------------------------
(***************************************************************************)
(* Proofs about Delivery, for any events, channels, workers and messages.  *)
(*                                                                         *)
(* The three parts are proved about on their own, as invariants of their   *)
(* own actions, and brought together at the end: what an SQS message was   *)
(* deleted for, what Close waits for, and which notifications there are    *)
(* and how often each is sent.                                             *)
(***************************************************************************)
EXTENDS Delivery, FiniteSetTheorems, TLAPS

-------------------------------------------------------------------------------
\* Sets of numbers and their order.

LEMMA Positions ==
  ASSUME NEW n \in Nat, NEW S \in SUBSET (1 .. n)
  PROVE  IsFiniteSet(S) /\ S \in SUBSET Int /\ Cardinality(S) \in Nat
<1>1. IsFiniteSet(1 .. n)  BY FS_Interval
<1>2. IsFiniteSet(S)  BY <1>1, FS_Subset
<1> QED  BY <1>2, FS_CardinalityType

\* How many members of S are not above i.
Rank(S, i) == Cardinality({ j \in S : j <= i })

LEMMA RankType ==
  ASSUME NEW S \in SUBSET Int, IsFiniteSet(S), NEW i \in S
  PROVE  Rank(S, i) \in 1 .. Cardinality(S)
<1> DEFINE low == { j \in S : j <= i }
<1>1. IsFiniteSet(low) /\ Cardinality(low) <= Cardinality(S)  BY FS_Subset
<1>2. Cardinality(low) \in Nat /\ Cardinality(S) \in Nat  BY <1>1, FS_CardinalityType
<1>3. i \in low  OBVIOUS
<1>4. Cardinality(low) # 0  BY <1>1, <1>3, FS_EmptySet
<1> QED  BY <1>1, <1>2, <1>4 DEF Rank

LEMMA RankGrows ==
  ASSUME NEW S \in SUBSET Int, IsFiniteSet(S), NEW i \in S, NEW k \in S, i < k
  PROVE  Rank(S, i) < Rank(S, k)
<1> DEFINE low == { j \in S : j <= i }  high == { j \in S : j <= k }
<1>1. IsFiniteSet(low) /\ IsFiniteSet(high)  BY FS_Subset
<1>2. low \in SUBSET high
  <2> SUFFICES ASSUME NEW j \in S, j <= i PROVE j <= k  OBVIOUS
  <2>1. i \in Int /\ j \in Int /\ k \in Int  OBVIOUS
  <2> QED  BY <2>1
<1>3. k \in high /\ k \notin low  OBVIOUS
<1>4. Cardinality(low) <= Cardinality(high) /\ Cardinality(low) # Cardinality(high)
  BY <1>1, <1>2, <1>3, FS_Subset
<1>5. Cardinality(low) \in Nat /\ Cardinality(high) \in Nat  BY <1>1, FS_CardinalityType
<1> QED  BY <1>4, <1>5 DEF Rank

\* Every rank up to the size of the set is some member's.
LEMMA RankOnto ==
  ASSUME NEW S \in SUBSET Int, IsFiniteSet(S), NEW k \in 1 .. Cardinality(S)
  PROVE  \E i \in S : Rank(S, i) = k
<1> DEFINE f == [i \in S |-> Rank(S, i)]  T == 1 .. Cardinality(S)
<1>1. Cardinality(S) \in Nat  BY FS_CardinalityType
<1>2. f \in [S -> T]  BY RankType
<1>3. \A i, j \in S : f[i] = f[j] => i = j
  <2> SUFFICES ASSUME NEW i \in S, NEW j \in S, i # j PROVE f[i] # f[j]  OBVIOUS
  <2>1. f[i] \in Int /\ f[j] \in Int  BY <1>2, <1>1
  <2>2. i < j => f[i] < f[j]  BY RankGrows
  <2>3. j < i => f[j] < f[i]  BY RankGrows
  <2> HIDE DEF f
  <2> QED  BY <2>1, <2>2, <2>3
<1>4. f \in Injection(S, T)
  <2> HIDE DEF f, T
  <2> QED  BY <1>2, <1>3 DEF Injection, IsInjective
<1>5. IsFiniteSet(T) /\ Cardinality(T) = Cardinality(S)  BY <1>1, FS_Interval
<1>6. f \in Surjection(S, T)  BY <1>4, <1>5, FS_Injection
<1>7. \A y \in T : \E x \in S : f[x] = y
  <2> HIDE DEF f, T
  <2> QED  BY <1>6 DEF Surjection
<1> QED  BY <1>7

LEMMA InOrderIsOrder ==
  ASSUME NEW S \in SUBSET Int, IsFiniteSet(S)
  PROVE  /\ InOrder(S) \in [1 .. Cardinality(S) -> S]
         /\ \A k, l \in 1 .. Cardinality(S) : InOrder(S)[k] = InOrder(S)[l] => k = l
         /\ \A i \in S : \E k \in 1 .. Cardinality(S) : InOrder(S)[k] = i
<1> DEFINE f == InOrder(S)  T == 1 .. Cardinality(S)
<1>1. \A k \in T : f[k] \in S /\ Rank(S, f[k]) = k
  BY RankOnto DEF Rank, InOrder
<1>2. f = [k \in T |-> f[k]]  BY DEF InOrder
<1>3. \A i \in S : Rank(S, i) \in T  BY RankType
<1>4. \A i, j \in S : Rank(S, i) = Rank(S, j) => i = j
  <2> SUFFICES ASSUME NEW i \in S, NEW j \in S, i # j PROVE Rank(S, i) # Rank(S, j)  OBVIOUS
  <2>1. Cardinality(S) \in Nat  BY FS_CardinalityType
  <2>2. Rank(S, i) \in Int /\ Rank(S, j) \in Int  BY <1>3, <2>1
  <2>3. (i < j => Rank(S, i) < Rank(S, j)) /\ (j < i => Rank(S, j) < Rank(S, i))  BY RankGrows
  <2> QED  BY <2>2, <2>3
<1> HIDE DEF f
<1>5. f \in [T -> S]  BY <1>1, <1>2
<1>6. \A i \in S : f[Rank(S, i)] = i  BY <1>1, <1>3, <1>4
<1> QED  BY <1>1, <1>3, <1>5, <1>6 DEF f

\* The least member.
LEMMA Least ==
  ASSUME NEW S \in SUBSET Int, IsFiniteSet(S), S # {}
  PROVE  \E i \in S : \A j \in S : i <= j
<1>1. 1 \in 1 .. Cardinality(S)  BY FS_CardinalityType, FS_EmptySet
<1>2. PICK i \in S : Rank(S, i) = 1  BY <1>1, RankOnto
<1>3. ASSUME NEW j \in S, j < i PROVE FALSE
  BY <1>2, <1>3, RankGrows, RankType, FS_CardinalityType
<1> QED  BY <1>3

-------------------------------------------------------------------------------
\* The SQS queue.

QueueStep ==
  \/ \E m \in Messages : Route(m) \/ Reappear(m) \/ Redrive(m)
  \/ \E c \in Consumers : Receive(c) \/ Restart(c)
  \/ \E c \in Consumers, m \in Messages :
       Leave(c, m) \/ Duplicate(c, m) \/ Begin(c, m) \/ Succeed(c, m) \/ Fail(c, m)

\* The events a handler was called for, or is about to return for.
Tried == consumed \cup failed \cup Underway

\* A key is recorded only when the handler is about to run.
CacheInv == \A c \in Consumers : cache[c] \subseteq Tried

QueueInv ==
  /\ QueueTypeOK /\ cache \in [Consumers -> SUBSET Tried] /\ CacheInv /\ DeletedWasTried

LEMMA QueueTypes ==
  ASSUME QueueTypeOK, QueueStep \/ UNCHANGED queueVars
  PROVE  QueueTypeOK'
<1> USE DEF QueueTypeOK
<1>1. ASSUME NEW m \in Messages, Route(m) \/ Reappear(m) \/ Redrive(m)  PROVE QueueTypeOK'
  BY <1>1 DEF Route, Reappear, Redrive, Put
<1>2. ASSUME NEW c \in Consumers, Receive(c)  PROVE QueueTypeOK'
  <2>1. PICK batch1 \in (SUBSET { m \in Messages : msg[m] = "visible" /\ receives[m] < MaxReceives }) \ {{}} :
       /\ msg' = [m \in Messages |-> IF m \in batch1 THEN "hidden" ELSE msg[m]]
       /\ receives' = [m \in Messages |-> IF m \in batch1 THEN receives[m] + 1 ELSE receives[m]]
       /\ work' = [work EXCEPT ![c] = [m \in Messages |-> IF m \in batch1 THEN "fetched" ELSE "none"]]
    BY <1>2 DEF Receive
  <2>2. \A m \in batch1 : receives[m] + 1 \in 0 .. MaxReceives  BY QueueData
  <2>3. receives' \in [Messages -> 0 .. MaxReceives]  BY <2>1, <2>2
  <2> QED  BY <2>1, <2>3
<1>3. ASSUME NEW c \in Consumers, Restart(c)  PROVE QueueTypeOK'
  BY <1>3 DEF Restart, NoWork
<1>4. ASSUME NEW c \in Consumers, NEW m \in Messages,
             Leave(c, m) \/ Duplicate(c, m) \/ Begin(c, m) \/ Succeed(c, m) \/ Fail(c, m)
      PROVE  QueueTypeOK'
  <2>1. receives' = receives  BY <1>4 DEF Leave, Duplicate, Begin, Succeed, Fail
  <2>2. msg' = msg \/ msg' = [msg EXCEPT ![m] = "deleted"]
    BY <1>4 DEF Leave, Duplicate, Begin, Succeed, Fail, Delete, Put
  <2>3. \/ work' = [work EXCEPT ![c][m] = "none"]
        \/ m \notin Unreadable /\ work' = [work EXCEPT ![c][m] = "handling"]
    BY <1>4 DEF Leave, Duplicate, Begin, Succeed, Fail, Do
  <2> QED  BY <2>1, <2>2, <2>3
<1>5. CASE UNCHANGED queueVars  BY <1>5 DEF queueVars
<1> QED  BY <1>1, <1>2, <1>3, <1>4, <1>5 DEF QueueStep

\* What was tried stays tried: a handler that returns, or is cut off, is recorded.
LEMMA TriedGrows ==
  ASSUME QueueTypeOK, QueueStep \/ UNCHANGED queueVars
  PROVE  Tried \subseteq Tried'
<1> USE DEF QueueTypeOK
<1>0. \A x : x \in Underway <=> \E m \in Messages, c \in Consumers :
                                   x = EventOf[m] /\ work[c][m] = "handling"
  BY DEF Underway, Handling
<1>a. \A x : x \in Underway' <=> \E m \in Messages, c \in Consumers :
                                   x = EventOf[m] /\ work'[c][m] = "handling"
  BY DEF Underway, Handling
<1>1. consumed \subseteq consumed' /\ failed \subseteq failed'
  BY DEF QueueStep, Route, Reappear, Redrive, Receive, Restart, Leave, Duplicate, Begin, Succeed, Fail, queueVars
<1> SUFFICES ASSUME NEW n \in Messages, NEW d \in Consumers, work[d][n] = "handling"
             PROVE  EventOf[n] \in Tried'
  BY <1>0, <1>1 DEF Tried
<1>b. work'[d][n] = "handling" => EventOf[n] \in Tried'  BY <1>a DEF Tried
<1>c. EventOf[n] \in consumed' \cup failed' => EventOf[n] \in Tried'  BY DEF Tried
<1>2. CASE work' = work  BY <1>2, <1>b
<1>3. ASSUME NEW c \in Consumers, Receive(c)  PROVE EventOf[n] \in Tried'
  BY <1>3, <1>b DEF Receive, NoWork
<1>4. ASSUME NEW c \in Consumers, Restart(c)  PROVE EventOf[n] \in Tried'
  BY <1>4, <1>b, <1>c DEF Restart
<1>5. ASSUME NEW c \in Consumers, NEW m \in Messages,
             Leave(c, m) \/ Duplicate(c, m) \/ Begin(c, m) \/ Succeed(c, m) \/ Fail(c, m)
      PROVE  EventOf[n] \in Tried'
  <2>1. CASE Leave(c, m) \/ Duplicate(c, m) \/ Begin(c, m)
    BY <2>1, <1>b DEF Leave, Duplicate, Begin, Do
  <2>2. CASE Succeed(c, m) \/ Fail(c, m)
    BY <2>2, <1>b, <1>c DEF Succeed, Fail, Do
  <2> QED  BY <1>5, <2>1, <2>2
<1> QED  BY <1>2, <1>3, <1>4, <1>5 DEF QueueStep, Route, Reappear, Redrive, queueVars

LEMMA QueueStepInv ==
  ASSUME QueueInv, QueueStep \/ UNCHANGED queueVars
  PROVE  QueueInv'
<1> USE DEF QueueInv
<1>1. QueueTypeOK'  BY QueueTypes
<1>2. Tried \subseteq Tried'  BY TriedGrows
<1>3. ASSUME NEW c \in Consumers, NEW m \in Messages, Begin(c, m)
      PROVE  EventOf[m] \in Tried'
  <2>1. work'[c][m] = "handling"  BY <1>3 DEF Begin, Do, QueueTypeOK
  <2> QED  BY <2>1 DEF Tried, Underway, Handling
<1>4. cache' \in [Consumers -> SUBSET Tried']
  <2>1. cache \in [Consumers -> SUBSET Tried']  BY <1>2
  <2>2. ASSUME NEW c \in Consumers, NEW m \in Messages, Begin(c, m)
        PROVE  cache' \in [Consumers -> SUBSET Tried']
    BY <2>1, <2>2, <1>3 DEF Begin
  <2>3. ASSUME NEW c \in Consumers, Restart(c)
        PROVE  cache' \in [Consumers -> SUBSET Tried']
    BY <2>1, <2>3 DEF Restart
  <2>4. CASE cache' = cache  BY <2>1, <2>4
  <2> QED
    BY <2>2, <2>3, <2>4
    DEF QueueStep, Route, Reappear, Redrive, Receive, Leave, Duplicate, Succeed, Fail, queueVars
<1>5. ASSUME NEW n \in Messages, msg'[n] = "deleted"
      PROVE  n \notin Unreadable /\ EventOf[n] \in Tried'
  <2>1. CASE msg[n] = "deleted"  BY <2>1, <1>2 DEF DeletedWasTried, Tried
  <2>2. ASSUME NEW c \in Consumers, NEW m \in Messages, Duplicate(c, m), msg'[n] # msg[n]
        PROVE  n \notin Unreadable /\ EventOf[n] \in Tried'
    <3>1. n = m  BY <2>2, <1>5 DEF Duplicate, Delete, Put, QueueTypeOK
    <3> QED  BY <3>1, <2>2, <1>2 DEF Duplicate, CacheInv
  <2>3. ASSUME NEW c \in Consumers, NEW m \in Messages, Succeed(c, m), msg'[n] # msg[n]
        PROVE  n \notin Unreadable /\ EventOf[n] \in Tried'
    <3>1. n = m  BY <2>3, <1>5 DEF Succeed, Delete, Put, QueueTypeOK
    <3> QED  BY <3>1, <2>3 DEF Succeed, QueueTypeOK, Tried
  <2>4. ASSUME NEW m \in Messages, Route(m) \/ Reappear(m) \/ Redrive(m)
        PROVE  msg[n] = "deleted"
    BY <2>4, <1>5 DEF Route, Reappear, Redrive, Put, QueueTypeOK
  <2>5. ASSUME NEW c \in Consumers, Receive(c)  PROVE msg[n] = "deleted"
    BY <2>5, <1>5 DEF Receive, QueueTypeOK
  <2>6. CASE msg'[n] = msg[n]  BY <2>6, <1>5, <2>1
  <2>7. CASE msg'[n] # msg[n]
    <3>1. msg' # msg  BY <2>7
    <3>2. \/ \E m \in Messages : Route(m) \/ Reappear(m) \/ Redrive(m)
          \/ \E c \in Consumers : Receive(c)
          \/ \E c \in Consumers, m \in Messages : Duplicate(c, m) \/ Succeed(c, m)
      BY <3>1 DEF QueueStep, Restart, Leave, Begin, Fail, queueVars
    <3> QED  BY <3>2, <2>1, <2>2, <2>3, <2>4, <2>5, <2>7
  <2> QED  BY <2>6, <2>7
<1>6. CacheInv'  BY <1>4 DEF CacheInv
<1>7. DeletedWasTried'  BY <1>5 DEF DeletedWasTried, Tried
<1> QED  BY <1>1, <1>4, <1>6, <1>7

LEMMA QueueInitInv == QueueInit => QueueInv
<1> SUFFICES ASSUME QueueInit PROVE QueueInv  OBVIOUS
<1>1. QueueTypeOK  BY QueueData DEF QueueInit, QueueTypeOK, NoWork
<1> QED  BY <1>1 DEF QueueInit, QueueInv, CacheInv, DeletedWasTried

-------------------------------------------------------------------------------
\* The in-process bus.

BusStep ==
  \/ \E e \in Events : Counted(e) \/ Accepted(e) \/ Refused(e)
  \/ \E w \in Workers : Take(w) \/ Quit(w) \/ Handled(w) \/ HandlerFails(w)
  \/ Close

Deliveries == [event : Events, sub : Subscribers, attempt : 1 .. MaxAttempts]

BusTypes ==
  /\ BusTypeOK /\ worker \in [Workers -> Deliveries \cup { Idle, Gone }] /\ owed \subseteq Events

Queued == { queue[k] : k \in 1 .. Len(queue) }
Carried(e) == \E w \in Busy : worker[w].event = e
Outstanding == { e \in Events : pub[e] = "counted" }

NoRepeats == \A k, l \in 1 .. Len(queue) : queue[k] = queue[l] => k = l

\* Where an accepted event is: on the queue, with one worker, or done with.
PlaceInv ==
  /\ NoRepeats /\ \A e \in Queued : pub[e] = "accepted" /\ ~Carried(e)
  /\ \A w \in Busy : pub[worker[w].event] = "accepted"
  /\ \A w, x \in Busy : worker[w].event = worker[x].event => w = x

\* The wait group counts exactly these.
CountInv ==
  /\ IsFiniteSet(Outstanding) /\ IsFiniteSet(Busy)
  /\ inFlight = Cardinality(Outstanding) + Len(queue) + Cardinality(Busy)

Settled(e, i) == (<< e, i >> \in handled) # (<< e, i >> \in letters)
Untouched(e, i) == << e, i >> \notin handled /\ << e, i >> \notin letters

\* What has become of the subscribers before the one a worker is at, and of the others.
TurnInv ==
  \A w \in Busy, e \in Events, i \in Subscribers :
    worker[w].event = e =>
      /\ i < worker[w].sub /\ e \in Wants[i] => Settled(e, i)
      /\ i >= worker[w].sub => Untouched(e, i)

\* No subscriber has met an event that no worker took, each has settled one that is done with.
EventInv ==
  \A e \in Events, i \in Subscribers :
    /\ pub[e] # "accepted" \/ e \in Queued => Untouched(e, i)
    /\ pub[e] = "accepted" /\ e \notin Queued /\ ~Carried(e) /\ e \in Wants[i] => Settled(e, i)

\* Once the count was zero, no event Close waits for is in the bus.
CloseInv ==
  /\ \A e \in owed : pub[e] = "accepted"
  /\ closer \in { "drained", "closed" } => \A e \in owed : e \notin Queued /\ ~Carried(e)

BusInv == BusTypes /\ PlaceInv /\ CountInv /\ TurnInv /\ EventInv /\ CloseInv

LEMMA BusDrains == BusInv => CloseDrains
  BY DEF BusInv, BusTypes, EventInv, CloseInv, CloseDrains, Settled

LEMMA BusInitInv == BusInit => BusInv
<1> SUFFICES ASSUME BusInit PROVE BusInv  OBVIOUS
<1> USE DEF BusInit
<1>1. BusTypes  BY BusData DEF BusTypes, BusTypeOK
<1>2. Queued = {} /\ Busy = {} /\ Outstanding = {} /\ Len(queue) = 0
  BY DEF Queued, Busy, Outstanding
<1>3. CountInv  BY <1>2, FS_EmptySet DEF CountInv
<1>4. PlaceInv  BY <1>2 DEF PlaceInv, NoRepeats
<1> QED  BY <1>1, <1>2, <1>3, <1>4 DEF BusInv, TurnInv, EventInv, CloseInv, Untouched

\* What a worker that moves on does next.
LEMMA NextForIsNext ==
  ASSUME NEW e \in Events, NEW i \in 0 .. Subs
  PROVE  /\ \A j \in NextFor(e, i) : /\ j \in Subscribers /\ j > i
                                     /\ \A k \in Subscribers : i < k /\ k < j => e \notin Wants[k]
         /\ NextFor(e, i) = {} => \A k \in Subscribers : k > i => e \notin Wants[k]
<1> DEFINE later == { k \in Subscribers : k > i /\ e \in Wants[k] }
<1>1. \A j \in NextFor(e, i) : /\ j \in Subscribers /\ j > i
                               /\ \A k \in Subscribers : i < k /\ k < j => e \notin Wants[k]
  BY BusData DEF NextFor, Subscribers
<1>2. ASSUME later # {}  PROVE NextFor(e, i) # {}
  <2>1. IsFiniteSet(later) /\ later \in SUBSET Int
    <3>1. IsFiniteSet(Subscribers)  BY BusData, FS_Interval DEF Subscribers
    <3>2. later \in SUBSET Subscribers /\ later \in SUBSET Int  BY BusData DEF Subscribers
    <3> HIDE DEF later
    <3> QED  BY <3>1, <3>2, FS_Subset
  <2>2. PICK j \in later : \A k \in later : j <= k  BY <1>2, <2>1, Least
  <2>3. j \in NextFor(e, i)  BY <2>2, BusData DEF NextFor, Subscribers
  <2> QED  BY <2>3
<1> QED  BY <1>1, <1>2

LEMMA QueueFacts ==
  ASSUME BusTypes
  PROVE  /\ Len(queue) \in Nat /\ Queued \subseteq Events
         /\ \A w \in Busy : worker[w] \in Deliveries
         /\ \A w \in Workers : w \notin Busy => worker[w] \in { Idle, Gone }
<1>1. queue \in Seq(Events)  BY DEF BusTypes, BusTypeOK
<1>2. Len(queue) \in Nat /\ \A k \in 1 .. Len(queue) : queue[k] \in Events
  BY <1>1
<1> QED  BY <1>2 DEF Queued, BusTypes, Busy

LEMMA Appended ==
  ASSUME BusTypes, NEW e \in Events, queue' = Append(queue, e)
  PROVE  /\ queue' \in Seq(Events) /\ Len(queue') = Len(queue) + 1
         /\ Queued' = Queued \cup {e}
         /\ NoRepeats /\ e \notin Queued => NoRepeats'
<1>1. queue \in Seq(Events)  BY DEF BusTypes, BusTypeOK
<1>2. Len(queue) \in Nat  BY <1>1
<1>3. /\ queue' \in Seq(Events) /\ Len(queue') = Len(queue) + 1
      /\ \A k \in 1 .. Len(queue) : queue'[k] = queue[k]
      /\ queue'[Len(queue) + 1] = e
  BY <1>1
<1>4. \A k \in 1 .. Len(queue') : k \in 1 .. Len(queue) \/ k = Len(queue) + 1
  BY <1>2, <1>3
<1>5. Queued' = Queued \cup {e}
  <2>1. \A x \in Queued' : x \in Queued \/ x = e  BY <1>3, <1>4 DEF Queued
  <2>2. Len(queue) + 1 \in 1 .. Len(queue')  BY <1>2, <1>3
  <2>3. 1 .. Len(queue) \subseteq 1 .. Len(queue')  BY <1>2, <1>3
  <2>4. \A x \in Queued : x \in Queued'  BY <1>3, <2>3 DEF Queued
  <2>5. e \in Queued'  BY <1>3, <2>2 DEF Queued
  <2> QED  BY <2>1, <2>4, <2>5
<1>6. ASSUME NoRepeats, e \notin Queued  PROVE NoRepeats'
  <2>1. \A k \in 1 .. Len(queue) : queue[k] # e  BY <1>6 DEF Queued
  <2> SUFFICES ASSUME NEW k \in 1 .. Len(queue'), NEW l \in 1 .. Len(queue'), queue'[k] = queue'[l]
               PROVE  k = l
    BY DEF NoRepeats
  <2> QED  BY <2>1, <1>3, <1>4, <1>6 DEF NoRepeats
<1> QED  BY <1>3, <1>5, <1>6

LEMMA Dequeued ==
  ASSUME BusTypes, NoRepeats, queue # << >>, queue' = Tail(queue)
  PROVE  /\ queue' \in Seq(Events) /\ Len(queue') = Len(queue) - 1 /\ Len(queue) > 0
         /\ Head(queue) \in Queued /\ Queued' = Queued \ { Head(queue) }
         /\ NoRepeats'
<1>1. queue \in Seq(Events)  BY DEF BusTypes, BusTypeOK
<1>2. Len(queue) \in Nat /\ Len(queue) > 0  BY <1>1
<1>3. /\ queue' \in Seq(Events) /\ Len(queue') = Len(queue) - 1 /\ Head(queue) = queue[1]
      /\ \A k \in 1 .. Len(queue') : queue'[k] = queue[k + 1]
  BY <1>1, <1>2
<1>4. \A k \in 1 .. Len(queue') : k + 1 \in 1 .. Len(queue) /\ k + 1 # 1
  BY <1>2, <1>3
<1>5. \A k \in 1 .. Len(queue) : k # 1 => k - 1 \in 1 .. Len(queue') /\ queue'[k - 1] = queue[k]
  BY <1>2, <1>3
<1>6. 1 \in 1 .. Len(queue)  BY <1>2
<1>7. Queued' = Queued \ { queue[1] }
  <2>1. \A x \in Queued' : x \in Queued \ { queue[1] }
    BY <1>3, <1>4, <1>6 DEF Queued, NoRepeats
  <2>2. \A x \in Queued \ { queue[1] } : x \in Queued'  BY <1>5 DEF Queued
  <2> QED  BY <2>1, <2>2
<1>8. NoRepeats'
  <2> SUFFICES ASSUME NEW k \in 1 .. Len(queue'), NEW l \in 1 .. Len(queue'), queue'[k] = queue'[l]
               PROVE  k = l
    BY DEF NoRepeats
  <2>1. queue[k + 1] = queue[l + 1]  BY <1>3
  <2>2. k + 1 = l + 1  BY <2>1, <1>4 DEF NoRepeats
  <2> QED  BY <2>2, <1>2, <1>3
<1> QED  BY <1>2, <1>3, <1>6, <1>7, <1>8 DEF Queued

LEMMA MovedOn ==
  ASSUME BusTypes, NEW w \in Workers, NEW e \in Events, NEW i \in 0 .. Subs, MoveOn(w, e, i)
  PROVE  /\ worker' \in [Workers -> Deliveries \cup { Idle, Gone }]
         /\ \A x \in Workers \ {w} : worker'[x] = worker[x]
         /\ \/ /\ Busy' = Busy \cup {w} /\ inFlight' = inFlight
               /\ worker'[w].event = e /\ worker'[w].sub \in NextFor(e, i)
            \/ Busy' = Busy \ {w} /\ inFlight' = inFlight - 1 /\ NextFor(e, i) = {}
<1>1. worker \in [Workers -> Deliveries \cup { Idle, Gone }]  BY DEF BusTypes
<1>2. ASSUME NEW j \in NextFor(e, i),
             worker' = [worker EXCEPT ![w] = [event |-> e, sub |-> j, attempt |-> 1]],
             UNCHANGED inFlight
      PROVE  /\ worker' \in [Workers -> Deliveries \cup { Idle, Gone }]
             /\ Busy' = Busy \cup {w} /\ worker'[w].event = e /\ worker'[w].sub = j
  <2>1. j \in Subscribers /\ j > 0  BY NextForIsNext, BusData DEF Subscribers
  <2> DEFINE d == [event |-> e, sub |-> j, attempt |-> 1]
  <2>2. d \in Deliveries  BY <2>1, BusData DEF Deliveries
  <2>3. d # Idle /\ d # Gone
    <3>1. d.sub # 0 /\ Idle.sub = 0 /\ Gone.sub = 0  BY <2>1, BusData DEF Idle, Gone, Subscribers
    <3> QED  BY <3>1
  <2>4. d.event = e /\ d.sub = j  OBVIOUS
  <2> HIDE DEF d
  <2>5. worker' = [worker EXCEPT ![w] = d]  BY <1>2 DEF d
  <2> QED  BY <1>1, <2>2, <2>3, <2>4, <2>5 DEF Busy
<1>3. ASSUME worker' = [worker EXCEPT ![w] = Idle]
      PROVE  /\ worker' \in [Workers -> Deliveries \cup { Idle, Gone }]
             /\ Busy' = Busy \ {w}
  BY <1>1, <1>3 DEF Busy
<1> QED  BY <1>1, <1>2, <1>3 DEF MoveOn

\* A worker w that holds e, having dealt with it up to subscriber i, moves on: whatever of
\* the state tells apart a worker that just took the event from one that was at i before.
LEMMA MoveKeeps ==
  ASSUME BusInv, NEW w \in Workers, NEW e \in Events, NEW i \in 0 .. Subs, MoveOn(w, e, i),
         pub' = pub, closer' = closer, owed' = owed,
         queue' \in Seq(Events), Len(queue') <= Capacity, NoRepeats', Queued' = Queued \ {e},
         handled' \subseteq Events \X Subscribers, letters' \subseteq Events \X Subscribers,
         w \in Busy => worker[w].event = e /\ Len(queue') = Len(queue),
         w \notin Busy => e \in Queued /\ Len(queue') = Len(queue) - 1 /\ Len(queue) > 0,
         \A f \in Events \ {e}, k \in Subscribers :
           (Settled(f, k)' <=> Settled(f, k)) /\ (Untouched(f, k)' <=> Untouched(f, k)),
         \A k \in Subscribers : /\ k <= i /\ e \in Wants[k] => Settled(e, k)'
                                /\ k > i => Untouched(e, k)'
  PROVE  BusInv'
<1> USE DEF BusInv
<1> DEFINE moves == /\ Busy' = Busy \cup {w} /\ inFlight' = inFlight
                    /\ worker'[w].event = e /\ worker'[w].sub \in NextFor(e, i)
           ends  == Busy' = Busy \ {w} /\ inFlight' = inFlight - 1 /\ NextFor(e, i) = {}
<1>1. /\ worker' \in [Workers -> Deliveries \cup { Idle, Gone }]
      /\ \A x \in Workers \ {w} : worker'[x] = worker[x]
      /\ moves \/ ends
  BY MovedOn
<1>2. /\ \A x \in Busy : worker[x] \in Deliveries /\ x \in Workers
      /\ Queued \subseteq Events /\ Len(queue) \in Nat
  BY QueueFacts DEF Busy
<1>3. pub[e] = "accepted" /\ \A x \in Busy \ {w} : worker[x].event # e
  <2>1. CASE w \in Busy  BY <2>1 DEF PlaceInv
  <2>2. CASE w \notin Busy  BY <2>2 DEF PlaceInv, Carried
  <2> QED  BY <2>1, <2>2
<1>4. CountInv'
  <2>1. Outstanding' = Outstanding  BY DEF Outstanding
  <2>2. IsFiniteSet(Busy) /\ IsFiniteSet(Outstanding)  BY DEF CountInv
  <2>3. /\ IsFiniteSet(Busy \cup {w}) /\ IsFiniteSet(Busy \ {w})
        /\ Cardinality(Busy \cup {w}) = IF w \in Busy THEN Cardinality(Busy) ELSE Cardinality(Busy) + 1
        /\ Cardinality(Busy \ {w}) = IF w \in Busy THEN Cardinality(Busy) - 1 ELSE Cardinality(Busy)
    BY <2>2, FS_AddElement, FS_RemoveElement
  <2>4. /\ Cardinality(Busy) \in Nat /\ Cardinality(Outstanding) \in Nat
        /\ inFlight = Cardinality(Outstanding) + Len(queue) + Cardinality(Busy)
    BY <2>2, FS_CardinalityType DEF CountInv
  <2>5. IsFiniteSet(Busy') /\ inFlight' = Cardinality(Outstanding) + Len(queue') + Cardinality(Busy')
    <3>1. CASE moves /\ w \in Busy  BY <3>1, <1>2, <2>2, <2>3, <2>4
    <3>2. CASE moves /\ w \notin Busy
      <4>1. Busy' = Busy \cup {w} /\ inFlight' = inFlight /\ Len(queue') = Len(queue) - 1
        BY <3>2
      <4> QED  BY <3>2, <4>1, <1>2, <2>3, <2>4
    <3>3. CASE ends /\ w \in Busy
      <4>1. Busy' = Busy \ {w} /\ inFlight' = inFlight - 1 /\ Len(queue') = Len(queue)
        BY <3>3
      <4> QED  BY <3>3, <4>1, <1>2, <2>3, <2>4
    <3>4. CASE ends /\ w \notin Busy
      <4>1. Busy' = Busy \ {w} /\ inFlight' = inFlight - 1 /\ Len(queue') = Len(queue) - 1
        BY <3>4
      <4> QED  BY <3>4, <4>1, <1>2, <2>3, <2>4
    <3> QED  BY <1>1, <3>1, <3>2, <3>3, <3>4
  <2> QED  BY <2>1, <2>2, <2>5 DEF CountInv
<1>5. BusTypes'
  <2>1. inFlight' \in Nat
    <3>1. Cardinality(Busy)' \in Nat /\ Cardinality(Outstanding)' \in Nat
      BY <1>4, FS_CardinalityType DEF CountInv
    <3>2. Len(queue)' \in Nat  OBVIOUS
    <3> QED  BY <1>4, <3>1, <3>2 DEF CountInv
  <2>2. \A x \in Workers : worker'[x] \in { Idle, Gone } \/ worker'[x].attempt \in 1 .. MaxAttempts
    BY <1>1 DEF Deliveries
  <2> QED  BY <1>1, <2>1, <2>2 DEF BusTypes, BusTypeOK
<1>6. \A x \in Busy' : (x = w /\ moves) \/ (x # w /\ x \in Busy /\ worker'[x] = worker[x])
  BY <1>1, <1>2
<1>7. \A x \in Busy' : worker'[x].event = e <=> x = w  BY <1>6, <1>3
<1>8. \A f \in Events \ {e} : Carried(f)' <=> Carried(f)
  <2> SUFFICES ASSUME NEW f \in Events \ {e}  PROVE Carried(f)' <=> Carried(f)  OBVIOUS
  <2>1. ASSUME NEW x \in Busy', worker'[x].event = f  PROVE x \in Busy /\ worker[x].event = f
    BY <2>1, <1>6, <1>7
  <2>2. ASSUME NEW x \in Busy, worker[x].event = f  PROVE x \in Busy' /\ worker'[x].event = f
    <3>1. x # w  BY <2>2
    <3> QED  BY <3>1, <2>2, <1>1, <1>2
  <2> QED  BY <2>1, <2>2 DEF Carried
<1>9. PlaceInv'
  <2>1. \A f \in Queued' : pub'[f] = "accepted" /\ ~Carried(f)'
    BY <1>2, <1>8 DEF PlaceInv
  <2>2. \A x \in Busy' : pub'[worker'[x].event] = "accepted"
    BY <1>3, <1>6, <1>7 DEF PlaceInv
  <2>3. \A x, y \in Busy' : worker'[x].event = worker'[y].event => x = y
    BY <1>6, <1>7 DEF PlaceInv
  <2> QED  BY <2>1, <2>2, <2>3 DEF PlaceInv
<1>10. TurnInv'
  <2> SUFFICES ASSUME NEW x \in Busy', NEW f \in Events, NEW k \in Subscribers, worker'[x].event = f
               PROVE  /\ k < worker'[x].sub /\ f \in Wants[k] => Settled(f, k)'
                      /\ k >= worker'[x].sub => Untouched(f, k)'
    BY DEF TurnInv
  <2>1. CASE x = w
    <3>1. f = e /\ worker'[w].sub \in NextFor(e, i)  BY <2>1, <1>6
    <3>2. /\ worker'[w].sub \in Subscribers /\ worker'[w].sub > i
          /\ \A l \in Subscribers : i < l /\ l < worker'[w].sub => e \notin Wants[l]
      BY <3>1, NextForIsNext
    <3>3. k \in Int /\ worker'[w].sub \in Int /\ i \in Int  BY <3>2, BusData DEF Subscribers
    <3>4. k < worker'[w].sub /\ e \in Wants[k] => k <= i  BY <3>2, <3>3
    <3>5. k >= worker'[w].sub => k > i  BY <3>2, <3>3
    <3> QED  BY <2>1, <3>1, <3>4, <3>5
  <2>2. CASE x # w
    <3>1. x \in Busy /\ worker'[x] = worker[x]  BY <2>2, <1>6
    <3>2. f \in Events \ {e}  BY <3>1, <2>2, <1>2, <1>3
    <3>3. /\ k < worker[x].sub /\ f \in Wants[k] => Settled(f, k)
          /\ k >= worker[x].sub => Untouched(f, k)
      BY <3>1 DEF TurnInv
    <3> QED  BY <3>1, <3>2, <3>3
  <2> QED  BY <2>1, <2>2
<1>11. EventInv'
  <2> SUFFICES ASSUME NEW f \in Events, NEW k \in Subscribers
               PROVE  /\ pub'[f] # "accepted" \/ f \in Queued' => Untouched(f, k)'
                      /\ pub'[f] = "accepted" /\ f \notin Queued' /\ ~Carried(f)' /\ f \in Wants[k]
                           => Settled(f, k)'
    BY DEF EventInv
  <2>1. CASE f # e  BY <2>1, <1>8 DEF EventInv
  <2>2. CASE f = e
    <3>1. ASSUME ~Carried(e)', e \in Wants[k]  PROVE Settled(e, k)'
      <4>1. w \notin Busy'  BY <3>1, <1>7 DEF Carried
      <4>2. NextFor(e, i) = {}  BY <4>1, <1>1
      <4>3. ~(k > i)  BY <4>2, <3>1, NextForIsNext
      <4>4. k <= i  BY <4>3, BusData DEF Subscribers
      <4> QED  BY <4>4, <3>1
    <3> QED  BY <2>2, <3>1, <1>3
  <2> QED  BY <2>1, <2>2
<1>12. CloseInv'
  <2>1. closer \in { "drained", "closed" } => e \notin owed
    BY <1>3 DEF CloseInv, Carried
  <2>2. \A f \in owed : f \in Events  BY DEF BusTypes
  <2> QED  BY <2>1, <2>2, <1>8 DEF CloseInv
<1> QED  BY <1>4, <1>5, <1>9, <1>10, <1>11, <1>12

LEMMA TakeKeeps ==
  ASSUME BusInv, NEW w \in Workers, Take(w)
  PROVE  BusInv'
<1>0. Head(queue) \in Events
  BY Dequeued, QueueFacts DEF Take, BusInv, PlaceInv
<1> PICK e \in Events : e = Head(queue)  BY <1>0
<1>1. w \notin Busy  BY DEF Take, Busy
<1>2. /\ queue # << >> /\ queue' = Tail(queue) /\ MoveOn(w, e, 0)
      /\ pub' = pub /\ closer' = closer /\ owed' = owed /\ handled' = handled /\ letters' = letters
  BY DEF Take
<1>3. /\ queue' \in Seq(Events) /\ Len(queue') = Len(queue) - 1 /\ Len(queue) > 0
      /\ e \in Queued /\ Queued' = Queued \ {e} /\ NoRepeats'
  BY <1>2, Dequeued DEF BusInv, PlaceInv
<1>4. e \in Events /\ Len(queue) \in Nat  BY <1>3, QueueFacts DEF BusInv
<1>5. Len(queue') <= Capacity  BY <1>3, <1>4, BusData DEF BusInv, BusTypes, BusTypeOK
<1>6. \A f \in Events, k \in Subscribers :
        (Settled(f, k)' <=> Settled(f, k)) /\ (Untouched(f, k)' <=> Untouched(f, k))
  BY <1>2 DEF Settled, Untouched
<1>7. \A k \in Subscribers : Untouched(e, k)'  BY <1>3, <1>4, <1>6 DEF BusInv, EventInv
<1>8. \A k \in Subscribers : ~(k <= 0)  BY BusData DEF Subscribers
<1>9. /\ handled' \subseteq Events \X Subscribers /\ letters' \subseteq Events \X Subscribers
      /\ 0 \in 0 .. Subs
  BY <1>2, BusData DEF BusInv, BusTypes, BusTypeOK
<1> QED  BY <1>1, <1>2, <1>3, <1>4, <1>5, <1>6, <1>7, <1>8, <1>9, MoveKeeps

\* A worker is done with the subscriber it is at: the handler succeeded or the event is given up.
LEMMA TurnKeeps ==
  ASSUME BusInv, NEW w \in Busy, NEW e, NEW i, worker[w].event = e, worker[w].sub = i,
         MoveOn(w, e, i), UNCHANGED << pub, queue, closer, owed >>,
         \/ handled' = handled \cup { << e, i >> } /\ letters' = letters
         \/ letters' = letters \cup { << e, i >> } /\ handled' = handled
  PROVE  BusInv'
<1>1. w \in Workers /\ e \in Events /\ i \in Subscribers
  BY QueueFacts DEF BusInv, Busy, Deliveries
<1>2. i \in 0 .. Subs /\ i \in Int  BY <1>1, BusData DEF Subscribers
<1>3. \A k \in Subscribers : k \in Int  BY DEF Subscribers
<1>4. MoveOn(w, e, i)  OBVIOUS
<1>5. \/ handled' = handled \cup { << e, i >> } /\ letters' = letters
      \/ letters' = letters \cup { << e, i >> } /\ handled' = handled
  OBVIOUS
<1>6. \A k \in Subscribers : /\ k < i /\ e \in Wants[k] => Settled(e, k)
                             /\ k >= i => Untouched(e, k)
  BY <1>1 DEF BusInv, TurnInv
<1>7. e \notin Queued  BY DEF BusInv, PlaceInv, Carried
<1>8. queue \in Seq(Events) /\ Len(queue) <= Capacity /\ NoRepeats
  BY DEF BusInv, BusTypes, BusTypeOK, PlaceInv
<1>9. Queued' = Queued \ {e} /\ NoRepeats'  BY <1>7, <1>8 DEF Queued, NoRepeats
<1>10. handled' \subseteq Events \X Subscribers /\ letters' \subseteq Events \X Subscribers
  BY <1>1, <1>5 DEF BusInv, BusTypes, BusTypeOK
<1>11. \A f \in Events \ {e}, k \in Subscribers :
        (Settled(f, k)' <=> Settled(f, k)) /\ (Untouched(f, k)' <=> Untouched(f, k))
  BY <1>5 DEF Settled, Untouched
<1>12. ASSUME NEW k \in Subscribers, k # i
       PROVE  (Settled(e, k)' <=> Settled(e, k)) /\ (Untouched(e, k)' <=> Untouched(e, k))
  BY <1>12, <1>5 DEF Settled, Untouched
<1>13. Settled(e, i)'
  <2>1. Untouched(e, i)  BY <1>1, <1>2, <1>6
  <2> QED  BY <2>1, <1>5 DEF Settled, Untouched
<1>14. ASSUME NEW k \in Subscribers
       PROVE  (k <= i /\ e \in Wants[k] => Settled(e, k)') /\ (k > i => Untouched(e, k)')
  <2>1. CASE k = i  BY <2>1, <1>2, <1>13
  <2>2. CASE k < i
    <3>1. k # i /\ ~(k > i)  BY <2>2, <1>2, <1>3
    <3> QED  BY <3>1, <2>2, <1>6, <1>12
  <2>3. CASE k > i
    <3>1. k # i /\ ~(k <= i) /\ k >= i  BY <2>3, <1>2, <1>3
    <3> QED  BY <3>1, <1>6, <1>12
  <2> QED  BY <2>1, <2>2, <2>3, <1>2, <1>3
<1>15. w \in Busy => worker[w].event = e /\ Len(queue') = Len(queue)  OBVIOUS
<1> QED  BY <1>1, <1>2, <1>4, <1>8, <1>9, <1>10, <1>11, <1>14, <1>15, MoveKeeps

\* A worker that tries again is where it was.
LEMMA RetryKeeps ==
  ASSUME BusInv, NEW w \in Busy, worker[w].attempt < MaxAttempts,
         worker' = [worker EXCEPT ![w].attempt = @ + 1],
         UNCHANGED << pub, queue, inFlight, closer, handled, letters, owed >>
  PROVE  BusInv'
<1> DEFINE d == [worker[w] EXCEPT !.attempt = @ + 1]
<1>1. worker[w] \in Deliveries /\ w \in Workers  BY QueueFacts DEF BusInv, Busy
<1>2. d \in Deliveries /\ d.event = worker[w].event /\ d.sub = worker[w].sub
  BY <1>1, BusData DEF Deliveries
<1>3. d \notin { Idle, Gone }
  <2>1. d.sub # 0  BY <1>2 DEF Deliveries, Subscribers
  <2> QED  BY <2>1 DEF Idle, Gone
<1>4. worker' = [worker EXCEPT ![w] = d]  OBVIOUS
<1> HIDE DEF d
<1>5. worker' \in [Workers -> Deliveries \cup { Idle, Gone }]
  BY <1>2, <1>4 DEF BusInv, BusTypes
<1>6. Busy' = Busy  BY <1>1, <1>3, <1>4 DEF Busy, BusInv, BusTypes
<1>7. \A x \in Busy : worker'[x].event = worker[x].event /\ worker'[x].sub = worker[x].sub
  BY <1>2, <1>4 DEF Busy, BusInv, BusTypes
<1>8. Queued' = Queued /\ Outstanding' = Outstanding /\ (NoRepeats' <=> NoRepeats)
  BY DEF Queued, Outstanding, NoRepeats
<1>9. \A f : Carried(f)' <=> Carried(f)  BY <1>6, <1>7 DEF Carried
<1>10. \A f, k : (Settled(f, k)' <=> Settled(f, k)) /\ (Untouched(f, k)' <=> Untouched(f, k))
  BY DEF Settled, Untouched
<1>11. BusTypes'
  <2>1. \A x \in Workers : worker'[x] \in { Idle, Gone } \/ worker'[x].attempt \in 1 .. MaxAttempts
    BY <1>5 DEF Deliveries
  <2> QED  BY <1>5, <2>1 DEF BusInv, BusTypes, BusTypeOK
<1>12. PlaceInv'  BY <1>6, <1>7, <1>8, <1>9 DEF BusInv, PlaceInv
<1>13. CountInv'  BY <1>6, <1>8 DEF BusInv, CountInv
<1>14. TurnInv'  BY <1>6, <1>7, <1>10 DEF BusInv, TurnInv
<1>15. EventInv'  BY <1>8, <1>9, <1>10 DEF BusInv, EventInv
<1>16. CloseInv'  BY <1>8, <1>9 DEF BusInv, CloseInv
<1> QED  BY <1>11, <1>12, <1>13, <1>14, <1>15, <1>16 DEF BusInv

\* What a publisher and Close do leaves the workers alone.
LEMMA PublishKeeps ==
  ASSUME BusInv, NEW e \in Events, Counted(e) \/ Accepted(e) \/ Refused(e)
  PROVE  BusInv'
<1> USE DEF BusInv
<1>1. /\ worker' = worker /\ closer' = closer /\ handled' = handled /\ letters' = letters
      /\ Busy' = Busy /\ \A f : Carried(f)' <=> Carried(f)
  BY DEF Counted, Accepted, Refused, Busy, Carried
<1>2. \A f, k : (Settled(f, k)' <=> Settled(f, k)) /\ (Untouched(f, k)' <=> Untouched(f, k))
  BY <1>1 DEF Settled, Untouched
<1>3. pub[e] # "accepted" /\ e \notin Queued /\ ~Carried(e) /\ e \notin owed
  <2>1. pub[e] # "accepted"  BY DEF Counted, Accepted, Refused
  <2> QED  BY <2>1 DEF PlaceInv, Carried, CloseInv
<1>4. /\ IsFiniteSet(Outstanding) /\ IsFiniteSet(Outstanding \cup {e}) /\ IsFiniteSet(Outstanding \ {e})
      /\ Cardinality(Outstanding) \in Nat /\ Cardinality(Busy) \in Nat /\ Len(queue) \in Nat
      /\ Cardinality(Outstanding \cup {e}) =
           IF e \in Outstanding THEN Cardinality(Outstanding) ELSE Cardinality(Outstanding) + 1
      /\ Cardinality(Outstanding \ {e}) =
           IF e \in Outstanding THEN Cardinality(Outstanding) - 1 ELSE Cardinality(Outstanding)
      /\ inFlight = Cardinality(Outstanding) + Len(queue) + Cardinality(Busy)
  BY FS_AddElement, FS_RemoveElement, FS_CardinalityType, QueueFacts DEF CountInv
<1>5. pub \in [Events -> { "unpublished", "counted", "accepted", "refused" }]
  BY DEF BusTypes, BusTypeOK
<1>6. CASE Counted(e) \/ Refused(e)
  <2>1. Queued' = Queued /\ (NoRepeats' <=> NoRepeats) /\ queue' = queue /\ owed' = owed
    BY <1>6 DEF Counted, Refused, Queued, NoRepeats
  <2>2. \A f \in Events : pub'[f] = "accepted" <=> pub[f] = "accepted"
    BY <1>5, <1>6 DEF Counted, Refused
  <2>3. IsFiniteSet(Outstanding') /\ inFlight' = Cardinality(Outstanding') + Len(queue) + Cardinality(Busy)
    <3>1. CASE Counted(e)
      <4>1. Outstanding' = Outstanding \cup {e} /\ e \notin Outstanding /\ inFlight' = inFlight + 1
        BY <1>5, <3>1 DEF Counted, Outstanding
      <4> QED  BY <4>1, <1>4
    <3>2. CASE Refused(e)
      <4>1. Outstanding' = Outstanding \ {e} /\ e \in Outstanding /\ inFlight' = inFlight - 1
        BY <1>5, <3>2 DEF Refused, Outstanding
      <4> QED  BY <4>1, <1>4
    <3> QED  BY <1>6, <3>1, <3>2
  <2>4. CountInv'  BY <2>1, <2>3, <1>1 DEF CountInv
  <2>5. BusTypes'
    <3>1. inFlight' \in Nat  BY <2>3, <1>4, FS_CardinalityType
    <3>2. pub' \in [Events -> { "unpublished", "counted", "accepted", "refused" }]
      BY <1>5, <1>6 DEF Counted, Refused
    <3> QED  BY <3>1, <3>2, <2>1, <1>1 DEF BusTypes, BusTypeOK
  <2>6. \A x \in Busy : worker[x].event \in Events  BY QueueFacts DEF Deliveries
  <2>7. \A f \in Queued : f \in Events  BY QueueFacts
  <2>8. \A f \in owed : f \in Events  BY DEF BusTypes
  <2>9. PlaceInv'  BY <2>1, <2>2, <2>6, <2>7, <1>1 DEF PlaceInv
  <2>10. TurnInv'  BY <1>1, <1>2 DEF TurnInv
  <2>11. EventInv'  BY <2>1, <2>2, <1>1, <1>2 DEF EventInv
  <2>12. CloseInv'  BY <2>1, <2>2, <2>8, <1>1 DEF CloseInv
  <2> QED  BY <2>4, <2>5, <2>9, <2>10, <2>11, <2>12
<1>7. CASE Accepted(e)
  <2>1. /\ queue' = Append(queue, e) /\ pub[e] = "counted" /\ pub' = [pub EXCEPT ![e] = "accepted"]
        /\ Len(queue) < Capacity /\ inFlight' = inFlight
        /\ owed' = IF closer = "open" THEN owed \cup {e} ELSE owed
    BY <1>7 DEF Accepted
  <2>2. /\ queue' \in Seq(Events) /\ Len(queue') = Len(queue) + 1
        /\ Queued' = Queued \cup {e} /\ NoRepeats'
    BY <2>1, <1>3, Appended DEF PlaceInv
  <2>3. pub'[e] = "accepted" /\ \A f \in Events \ {e} : pub'[f] = pub[f]  BY <2>1, <1>5
  <2>4. Outstanding' = Outstanding \ {e} /\ e \in Outstanding  BY <2>1, <1>5 DEF Outstanding
  <2>5. CountInv'  BY <2>1, <2>2, <2>4, <1>1, <1>4 DEF CountInv
  <2>6. BusTypes'
    <3>1. pub' \in [Events -> { "unpublished", "counted", "accepted", "refused" }]  BY <2>1, <1>5
    <3>2. Len(queue') <= Capacity  BY <2>1, <2>2, <1>4, BusData
    <3> QED  BY <3>1, <3>2, <2>1, <2>2, <1>1 DEF BusTypes, BusTypeOK
  <2>7. PlaceInv'
    <3>1. \A x \in Busy : worker[x].event \in Events \ {e}
      BY <1>3, QueueFacts DEF Deliveries, Carried
    <3>2. \A f \in Queued' : pub'[f] = "accepted" /\ ~Carried(f)'
      BY <2>2, <2>3, <1>1, <1>3, QueueFacts DEF PlaceInv
    <3> QED  BY <3>1, <3>2, <2>2, <2>3, <1>1 DEF PlaceInv
  <2>8. TurnInv'  BY <1>1, <1>2 DEF TurnInv
  <2>9. EventInv'
    <3> SUFFICES ASSUME NEW f \in Events, NEW k \in Subscribers
                 PROVE  /\ pub'[f] # "accepted" \/ f \in Queued' => Untouched(f, k)'
                        /\ pub'[f] = "accepted" /\ f \notin Queued' /\ ~Carried(f)' /\ f \in Wants[k]
                             => Settled(f, k)'
      BY DEF EventInv
    <3>1. CASE f = e  BY <3>1, <2>2, <1>2, <1>3 DEF EventInv
    <3>2. CASE f # e  BY <3>2, <2>2, <2>3, <1>1, <1>2 DEF EventInv
    <3> QED  BY <3>1, <3>2
  <2>10. CloseInv'
    <3>1. \A f \in owed : f \in Events \ {e}  BY <1>3 DEF BusTypes
    <3>2. \A f \in owed' : pub'[f] = "accepted"  BY <3>1, <2>1, <2>3 DEF CloseInv
    <3>3. closer \in { "drained", "closed" } => owed' = owed  BY <2>1
    <3> QED  BY <3>1, <3>2, <3>3, <2>2, <1>1 DEF CloseInv
  <2> QED  BY <2>5, <2>6, <2>7, <2>8, <2>9, <2>10
<1> QED  BY <1>6, <1>7

LEMMA CloseKeeps ==
  ASSUME BusInv, Close
  PROVE  BusInv'
<1> USE DEF BusInv
<1>1. UNCHANGED << pub, queue, worker, inFlight, handled, letters, owed >>  BY DEF Close
<1>2. /\ Busy' = Busy /\ Queued' = Queued /\ Outstanding' = Outstanding /\ (NoRepeats' <=> NoRepeats)
      /\ \A f : Carried(f)' <=> Carried(f)
      /\ \A f, k : (Settled(f, k)' <=> Settled(f, k)) /\ (Untouched(f, k)' <=> Untouched(f, k))
  BY <1>1 DEF Busy, Queued, Outstanding, NoRepeats, Carried, Settled, Untouched
<1>3. CloseInv'
  <2>1. CASE closer = "waiting" /\ inFlight = 0 /\ closer' = "drained"
    <3>1. Cardinality(Outstanding) \in Nat /\ Cardinality(Busy) \in Nat /\ Len(queue) \in Nat
      BY FS_CardinalityType, QueueFacts DEF CountInv
    <3>2. Len(queue) = 0 /\ Cardinality(Busy) = 0  BY <2>1, <3>1 DEF CountInv
    <3>3. Queued = {} /\ Busy = {}  BY <3>2, FS_EmptySet DEF Queued, CountInv
    <3> QED  BY <3>3, <1>1, <1>2 DEF CloseInv, Carried
  <2>2. CASE closer' = "waiting"  BY <2>2, <1>1 DEF CloseInv
  <2>3. CASE closer = "drained"  BY <2>3, <1>1, <1>2 DEF CloseInv
  <2> QED  BY <2>1, <2>2, <2>3 DEF Close
<1>4. BusTypes'  BY <1>1 DEF BusTypes, BusTypeOK, Close
<1>5. PlaceInv' /\ CountInv' /\ TurnInv' /\ EventInv'
  BY <1>1, <1>2 DEF PlaceInv, CountInv, TurnInv, EventInv
<1> QED  BY <1>3, <1>4, <1>5

LEMMA QuitKeeps ==
  ASSUME BusInv, NEW w \in Workers, Quit(w)
  PROVE  BusInv'
<1> USE DEF BusInv
<1>1. /\ worker[w] = Idle /\ worker' = [worker EXCEPT ![w] = Gone]
      /\ UNCHANGED << pub, queue, inFlight, closer, handled, letters, owed >>
  BY DEF Quit
<1>2. worker' \in [Workers -> Deliveries \cup { Idle, Gone }]  BY <1>1 DEF BusTypes
<1>3. Busy' = Busy /\ \A x \in Busy : worker'[x] = worker[x]
  BY <1>1 DEF Busy, BusTypes
<1>4. /\ Queued' = Queued /\ Outstanding' = Outstanding /\ (NoRepeats' <=> NoRepeats)
      /\ \A f : Carried(f)' <=> Carried(f)
      /\ \A f, k : (Settled(f, k)' <=> Settled(f, k)) /\ (Untouched(f, k)' <=> Untouched(f, k))
  BY <1>1, <1>3 DEF Queued, Outstanding, NoRepeats, Carried, Settled, Untouched
<1>5. BusTypes'
  <2>1. \A x \in Workers : worker'[x] \in { Idle, Gone } \/ worker'[x].attempt \in 1 .. MaxAttempts
    BY <1>2 DEF Deliveries
  <2> QED  BY <1>1, <1>2, <2>1 DEF BusTypes, BusTypeOK
<1>6. PlaceInv' /\ CountInv' /\ TurnInv' /\ EventInv' /\ CloseInv'
  BY <1>1, <1>3, <1>4 DEF PlaceInv, CountInv, TurnInv, EventInv, CloseInv
<1> QED  BY <1>5, <1>6

LEMMA BusStepInv ==
  ASSUME BusInv, BusStep \/ UNCHANGED busVars
  PROVE  BusInv'
<1>1. ASSUME NEW w \in Workers, Handled(w)  PROVE BusInv'
  <2>1. PICK e, i : worker[w].event = e /\ worker[w].sub = i  OBVIOUS
  <2>2. /\ w \in Busy /\ MoveOn(w, e, i) /\ UNCHANGED << pub, queue, closer, owed >>
        /\ handled' = handled \cup { << e, i >> } /\ letters' = letters
    BY <1>1, <2>1 DEF Handled
  <2> QED  BY <2>1, <2>2, TurnKeeps
<1>2. ASSUME NEW w \in Workers, HandlerFails(w)  PROVE BusInv'
  <2>1. PICK e, i : worker[w].event = e /\ worker[w].sub = i  OBVIOUS
  <2>2. CASE worker[w].attempt < MaxAttempts /\ worker' = [worker EXCEPT ![w].attempt = @ + 1]
                                              /\ UNCHANGED << letters, inFlight >>
    BY <1>2, <2>2, RetryKeeps DEF HandlerFails
  <2>3. CASE letters' = letters \cup { << e, i >> } /\ MoveOn(w, e, i)
    <3>1. w \in Busy /\ UNCHANGED << pub, queue, closer, owed >> /\ handled' = handled
      BY <1>2 DEF HandlerFails
    <3> QED  BY <2>1, <2>3, <3>1, TurnKeeps
  <2> QED  BY <1>2, <2>1, <2>2, <2>3 DEF HandlerFails
<1>3. CASE UNCHANGED busVars
  <2>1. /\ Busy' = Busy /\ Queued' = Queued /\ Outstanding' = Outstanding /\ (NoRepeats' <=> NoRepeats)
        /\ \A f : Carried(f)' <=> Carried(f)
        /\ \A f, k : (Settled(f, k)' <=> Settled(f, k)) /\ (Untouched(f, k)' <=> Untouched(f, k))
    BY <1>3 DEF busVars, Busy, Queued, Outstanding, NoRepeats, Carried, Settled, Untouched
  <2> QED
    BY <2>1, <1>3
    DEF BusInv, BusTypes, BusTypeOK, PlaceInv, CountInv, TurnInv, EventInv, CloseInv, busVars
<1> QED  BY <1>1, <1>2, <1>3, TakeKeeps, QuitKeeps, PublishKeeps, CloseKeeps DEF BusStep

-------------------------------------------------------------------------------
\* Notifications: the types, and what a claim and a new notification are.

NoteType ==
  [ event : Alerts, channel : Range(Channels), state : { "pending", "sent", "failed" },
    attempts : Nat, sends : Nat, shared : BOOLEAN ]

Held == [note : Nat, attempts : Nat]

NoteTypes ==
  /\ NoteTypeOK /\ batch \in [Senders -> Seq(Held)]

\* The sequences Dispatch and Claim build.
LEMMA SeqOf ==
  ASSUME NEW n \in Nat, NEW S, NEW f \in [1 .. n -> S]
  PROVE  f \in Seq(S) /\ Len(f) = n /\ DOMAIN f = 1 .. n
  OBVIOUS

LEMMA ChannelFacts ==
  /\ Len(Channels) \in Nat /\ DOMAIN Channels = 1 .. Len(Channels)
  /\ \A i \in 1 .. Len(Channels) : Channels[i] \in Range(Channels)
  /\ \A c \in Range(Channels) : \E i \in 1 .. Len(Channels) : Channels[i] = c
<1>1. Channels \in Seq(DOMAIN Admits)  BY NotificationData
<1>2. Len(Channels) \in Nat /\ DOMAIN Channels = 1 .. Len(Channels)  BY <1>1
<1> QED  BY <1>2 DEF Range

LEMMA NewNotesFacts ==
  ASSUME NEW e \in Alerts, NEW S \in SUBSET (1 .. Len(Channels))
  PROVE  /\ NewNotes(e, S) \in Seq(NoteType)
         /\ \A k \in 1 .. Len(NewNotes(e, S)) :
              /\ NewNotes(e, S)[k].state = "pending" /\ NewNotes(e, S)[k].sends = 0
              /\ ~NewNotes(e, S)[k].shared
         /\ \A i \in S : \E k \in 1 .. Len(NewNotes(e, S)) :
              NewNotes(e, S)[k].channel = Channels[i] /\ NewNotes(e, S)[k].event = e
<1> DEFINE n == Cardinality(S)  f == NewNotes(e, S)
<1>1. Len(Channels) \in Nat  BY ChannelFacts
<1>2. IsFiniteSet(S) /\ S \in SUBSET Int  BY <1>1, Positions
<1>3. n \in Nat  BY <1>1, Positions
<1>4. /\ InOrder(S) \in [1 .. n -> S]
      /\ \A i \in S : \E k \in 1 .. n : InOrder(S)[k] = i
  BY <1>2, InOrderIsOrder
<1>5. \A i \in S : /\ Note(e, Channels[i]) \in NoteType /\ Note(e, Channels[i]).event = e
                   /\ Note(e, Channels[i]).channel = Channels[i]
                   /\ Note(e, Channels[i]).state = "pending" /\ Note(e, Channels[i]).sends = 0
                   /\ ~Note(e, Channels[i]).shared
  BY ChannelFacts DEF Note, NoteType
<1>6. f = [k \in 1 .. n |-> Note(e, Channels[InOrder(S)[k]])]  BY DEF NewNotes
<1> HIDE DEF f, n
<1>7. f \in [1 .. n -> NoteType]  BY <1>4, <1>5, <1>6
<1>8. f \in Seq(NoteType) /\ Len(f) = n  BY <1>3, <1>7, SeqOf
<1>9. \A k \in 1 .. n : f[k] = Note(e, Channels[InOrder(S)[k]]) /\ InOrder(S)[k] \in S
  BY <1>4, <1>6
<1>10. \A k \in 1 .. Len(f) : f[k].state = "pending" /\ f[k].sends = 0 /\ ~f[k].shared
  <2> SUFFICES ASSUME NEW k \in 1 .. n
               PROVE  f[k].state = "pending" /\ f[k].sends = 0 /\ ~f[k].shared
    BY <1>8
  <2>1. f[k] = Note(e, Channels[InOrder(S)[k]]) /\ InOrder(S)[k] \in S  BY <1>9
  <2> QED  BY <2>1, <1>5
<1>11. ASSUME NEW i \in S
       PROVE  \E k \in 1 .. Len(f) : f[k].channel = Channels[i] /\ f[k].event = e
  <2>1. PICK k \in 1 .. n : InOrder(S)[k] = i  BY <1>4
  <2>2. f[k].channel = Channels[i] /\ f[k].event = e  BY <2>1, <1>5, <1>9
  <2> QED  BY <2>2, <1>8
<1> QED  BY <1>8, <1>10, <1>11 DEF f

LEMMA NoteFacts ==
  ASSUME NoteTypes
  PROVE  /\ Len(notes) \in Nat /\ DOMAIN notes = 1 .. Len(notes) /\ notes \in Seq(NoteType)
         /\ \A i \in 1 .. Len(notes) : notes[i] \in NoteType
         /\ Pending \in SUBSET (1 .. Len(notes)) /\ Oldest \in SUBSET Pending
         /\ IsFiniteSet(Oldest) /\ Oldest \in SUBSET Int /\ Cardinality(Oldest) \in Nat
<1>1. notes \in Seq(NoteType)  BY DEF NoteTypes, NoteTypeOK, NoteType
<1>2. /\ Len(notes) \in Nat /\ DOMAIN notes = 1 .. Len(notes)
      /\ \A i \in 1 .. Len(notes) : notes[i] \in NoteType
  BY <1>1
<1>3. Pending \in SUBSET (1 .. Len(notes)) /\ Oldest \in SUBSET Pending
  BY DEF Pending, Oldest
<1>4. IsFiniteSet(Oldest) /\ Oldest \in SUBSET Int /\ Cardinality(Oldest) \in Nat
  <2>1. Oldest \in SUBSET (1 .. Len(notes))  BY <1>3
  <2> HIDE DEF Oldest
  <2> QED  BY <1>2, <2>1, Positions
<1> QED  BY <1>1, <1>2, <1>3, <1>4

-------------------------------------------------------------------------------
\* Notifications: what is remembered has a notification, and what is claimed is one sender's.

NoteStep ==
  \/ \E p \in Processes, e \in Alerts : Dispatched(p, e) \/ DispatchFails(p, e)
  \/ \E p \in Processes : Wiped(p)
  \/ \E s \in Senders : Claim(s) \/ Sends(s) \/ SendFails(s) \/ SenderDies(s)

Noted(x, c) == \E i \in 1 .. Len(notes) : notes[i].channel = c /\ SubjectOf[notes[i].event] = x

\* What a process remembers was noted, or its notification could not be stored.
NotedInv ==
  \A p \in Processes : \A x, c : << x, c >> \in recent[p] => Noted(x, c) \/ << x, c >> \in stumbled

\* A notification that is not shared is pending while it is held, at one place only.
HeldInv ==
  \A s \in Senders : \A k \in DOMAIN batch[s] :
    ~notes[batch[s][k].note].shared =>
      /\ notes[batch[s][k].note].state = "pending"
      /\ \A t \in Senders : \A l \in DOMAIN batch[t] :
           batch[t][l].note = batch[s][k].note => t = s /\ l = k

\* One that is not shared was not sent as long as it is pending.
SentInv ==
  \A i \in 1 .. Len(notes) :
    ~notes[i].shared => notes[i].sends <= 1 /\ (notes[i].state = "pending" => notes[i].sends = 0)

NoteInv == NoteTypes /\ NotedInv /\ HeldInv /\ SentInv

\* Notifications keep their place, their event and their channel.
Kept ==
  /\ Len(notes') \in Nat /\ Len(notes) <= Len(notes')
  /\ \A i \in 1 .. Len(notes) : notes'[i].event = notes[i].event /\ notes'[i].channel = notes[i].channel

LEMMA KeptNotes ==
  ASSUME NoteTypes, Kept
  PROVE  \A x, c : Noted(x, c) => Noted(x, c)'
<1> SUFFICES ASSUME NEW x, NEW c, NEW i \in 1 .. Len(notes),
                    notes[i].channel = c, SubjectOf[notes[i].event] = x
             PROVE  Noted(x, c)'
  BY DEF Noted
<1>1. i \in 1 .. Len(notes')  BY NoteFacts DEF Kept
<1> QED  BY <1>1 DEF Noted, Kept

LEMMA HeldTypes ==
  ASSUME NoteTypes, NEW s \in Senders, NEW k \in DOMAIN batch[s]
  PROVE  batch[s][k] \in Held /\ batch[s][k].note \in 1 .. Len(notes)
<1>1. batch[s] \in Seq(Held)  BY DEF NoteTypes
<1> QED  BY <1>1 DEF NoteTypes, NoteTypeOK

\* New notifications disturb nothing about the others.
LEMMA Added ==
  ASSUME NoteTypes, HeldInv, SentInv, NEW N \in Seq(NoteType),
         \A k \in 1 .. Len(N) : N[k].state = "pending" /\ N[k].sends = 0 /\ ~N[k].shared,
         notes' = notes \o N, batch' = batch
  PROVE  /\ notes' \in Seq(NoteType) /\ Kept /\ HeldInv' /\ SentInv'
         /\ \A s \in Senders : \A k \in DOMAIN batch'[s] : batch'[s][k].note \in 1 .. Len(notes')
         /\ \A k \in 1 .. Len(N) : Noted(SubjectOf[N[k].event], N[k].channel)'
<1>1. notes \in Seq(NoteType) /\ Len(notes) \in Nat /\ Len(N) \in Nat  BY NoteFacts
<1>2. /\ notes' \in Seq(NoteType) /\ Len(notes') = Len(notes) + Len(N)
      /\ \A i \in 1 .. Len(notes) : notes'[i] = notes[i]
      /\ \A k \in 1 .. Len(N) : notes'[Len(notes) + k] = N[k]
  BY <1>1
<1>3. Kept  BY <1>1, <1>2 DEF Kept
<1>4. \A i \in 1 .. Len(notes') :
        \/ i \in 1 .. Len(notes) /\ notes'[i] = notes[i]
        \/ notes'[i].state = "pending" /\ notes'[i].sends = 0 /\ ~notes'[i].shared
  <2> SUFFICES ASSUME NEW i \in 1 .. Len(notes'), i \notin 1 .. Len(notes)
               PROVE  notes'[i].state = "pending" /\ notes'[i].sends = 0 /\ ~notes'[i].shared
    BY <1>2
  <2>1. i - Len(notes) \in 1 .. Len(N) /\ i = Len(notes) + (i - Len(notes))  BY <1>1, <1>2
  <2> QED  BY <2>1, <1>2
<1>5. \A s \in Senders : \A k \in DOMAIN batch[s] :
        /\ batch[s][k].note \in 1 .. Len(notes) /\ batch[s][k].note \in 1 .. Len(notes')
        /\ notes'[batch[s][k].note] = notes[batch[s][k].note]
  <2> SUFFICES ASSUME NEW s \in Senders, NEW k \in DOMAIN batch[s]
               PROVE  /\ batch[s][k].note \in 1 .. Len(notes) /\ batch[s][k].note \in 1 .. Len(notes')
                      /\ notes'[batch[s][k].note] = notes[batch[s][k].note]
    OBVIOUS
  <2>1. batch[s][k].note \in 1 .. Len(notes)  BY HeldTypes
  <2> QED  BY <2>1, <1>1, <1>2
<1>6. HeldInv'  BY <1>5 DEF HeldInv
<1>7. SentInv'  BY <1>4 DEF SentInv
<1>8. \A k \in 1 .. Len(N) : Noted(SubjectOf[N[k].event], N[k].channel)'
  <2> SUFFICES ASSUME NEW k \in 1 .. Len(N)  PROVE Noted(SubjectOf[N[k].event], N[k].channel)'
    OBVIOUS
  <2>1. Len(notes) + k \in 1 .. Len(notes')  BY <1>1, <1>2
  <2> QED  BY <2>1, <1>2 DEF Noted
<1> QED  BY <1>2, <1>3, <1>5, <1>6, <1>7, <1>8

\* A sender turns to the next one it holds.
LEMMA TurnFacts ==
  ASSUME NoteTypes, NEW s \in Senders, Turn(s)
  PROVE  /\ batch' \in [Senders -> Seq(Held)]
         /\ 1 \in DOMAIN batch[s] /\ Head(batch[s]) = batch[s][1]
         /\ \A t \in Senders \ {s} : batch'[t] = batch[t]
         /\ \A k \in DOMAIN batch'[s] :
              k \in Int /\ k + 1 \in DOMAIN batch[s] /\ k + 1 # 1 /\ batch'[s][k] = batch[s][k + 1]
<1>1. batch[s] \in Seq(Held) /\ batch[s] # << >> /\ batch' = [batch EXCEPT ![s] = Tail(@)]
  BY DEF NoteTypes, Turn
<1>2. /\ Tail(batch[s]) \in Seq(Held) /\ 1 \in DOMAIN batch[s] /\ Head(batch[s]) = batch[s][1]
      /\ \A k \in DOMAIN Tail(batch[s]) :
           k \in Int /\ k + 1 \in DOMAIN batch[s] /\ k + 1 # 1 /\ Tail(batch[s])[k] = batch[s][k + 1]
  BY <1>1
<1>3. batch \in [Senders -> Seq(Held)]  BY DEF NoteTypes
<1> QED  BY <1>1, <1>2, <1>3

\* ... and with it goes the last hold on one that is not shared.
LEMMA TurnHolds ==
  ASSUME NoteTypes, HeldInv, NEW s \in Senders, Turn(s), NEW n, n = Head(batch[s]).note
  PROVE  /\ n \in 1 .. Len(notes)
         /\ ~notes[n].shared => notes[n].state = "pending"
         /\ \A t \in Senders : \A k \in DOMAIN batch'[t] :
              /\ batch'[t][k].note \in 1 .. Len(notes)
              /\ ~notes[batch'[t][k].note].shared =>
                   /\ batch'[t][k].note # n
                   /\ notes[batch'[t][k].note].state = "pending"
                   /\ \A u \in Senders : \A l \in DOMAIN batch'[u] :
                        batch'[u][l].note = batch'[t][k].note => u = t /\ l = k
<1>1. /\ 1 \in DOMAIN batch[s] /\ n = batch[s][1].note
      /\ \A t \in Senders \ {s} : batch'[t] = batch[t]
      /\ \A k \in DOMAIN batch'[s] :
           k \in Int /\ k + 1 \in DOMAIN batch[s] /\ k + 1 # 1 /\ batch'[s][k] = batch[s][k + 1]
  BY TurnFacts
<1>2. n \in 1 .. Len(notes) /\ (~notes[n].shared => notes[n].state = "pending")
  BY <1>1, HeldTypes DEF HeldInv
<1>3. \A t \in Senders : \A k \in DOMAIN batch'[t] :
        \E j \in DOMAIN batch[t] : /\ batch'[t][k] = batch[t][j]
                                   /\ (t = s => k \in Int /\ j = k + 1 /\ j # 1) /\ (t # s => j = k)
  BY <1>1
<1> SUFFICES ASSUME NEW t \in Senders, NEW k \in DOMAIN batch'[t]
             PROVE  /\ batch'[t][k].note \in 1 .. Len(notes)
                    /\ ~notes[batch'[t][k].note].shared =>
                         /\ batch'[t][k].note # n
                         /\ notes[batch'[t][k].note].state = "pending"
                         /\ \A u \in Senders : \A l \in DOMAIN batch'[u] :
                              batch'[u][l].note = batch'[t][k].note => u = t /\ l = k
  BY <1>2
<1>4. PICK j \in DOMAIN batch[t] : /\ batch'[t][k] = batch[t][j]
                                   /\ (t = s => k \in Int /\ j = k + 1 /\ j # 1) /\ (t # s => j = k)
  BY <1>3
<1>5. batch'[t][k].note \in 1 .. Len(notes)  BY <1>4, HeldTypes
<1>6. ASSUME ~notes[batch'[t][k].note].shared
      PROVE  /\ batch'[t][k].note # n /\ notes[batch'[t][k].note].state = "pending"
             /\ \A u \in Senders : \A l \in DOMAIN batch'[u] :
                  batch'[u][l].note = batch'[t][k].note => u = t /\ l = k
  <2>1. ~notes[batch[t][j].note].shared  BY <1>4, <1>6
  <2>2. /\ notes[batch[t][j].note].state = "pending"
        /\ \A u \in Senders : \A l \in DOMAIN batch[u] :
             batch[u][l].note = batch[t][j].note => u = t /\ l = j
    BY <2>1 DEF HeldInv
  <2>3. batch'[t][k].note # n  BY <2>2, <1>1, <1>4
  <2>4. ASSUME NEW u \in Senders, NEW l \in DOMAIN batch'[u], batch'[u][l].note = batch'[t][k].note
        PROVE  u = t /\ l = k
    <3>1. PICK m \in DOMAIN batch[u] : /\ batch'[u][l] = batch[u][m]
                                       /\ (u = s => l \in Int /\ m = l + 1) /\ (u # s => m = l)
      BY <1>3
    <3>2. u = t /\ m = j  BY <3>1, <2>2, <2>4, <1>4
    <3> QED  BY <3>1, <3>2, <1>4
  <2> QED  BY <2>2, <2>3, <2>4, <1>4
<1> QED  BY <1>5, <1>6

\* What a dispatch stores and remembers, of the channels that are due.
LEMMA StoredKeeps ==
  ASSUME NoteInv, NEW p \in Processes, NEW e \in Alerts,
         NEW S \in SUBSET (1 .. Len(Channels)), NEW R \in SUBSET (1 .. Len(Channels)),
         notes' = notes \o NewNotes(e, S), Remember(p, e, R), UNCHANGED << batch, mishaps >>,
         stumbled \subseteq stumbled',
         \A i \in R : i \in S \/ << SubjectOf[e], Channels[i] >> \in stumbled'
  PROVE  NoteInv' /\ Kept /\ \A i \in S : Noted(SubjectOf[e], Channels[i])'
<1> DEFINE N == NewNotes(e, S)
<1>0. NoteTypes /\ HeldInv /\ SentInv  BY DEF NoteInv
<1>1. /\ N \in Seq(NoteType)
      /\ \A k \in 1 .. Len(N) : N[k].state = "pending" /\ N[k].sends = 0 /\ ~N[k].shared
      /\ \A i \in S : \E k \in 1 .. Len(N) : N[k].channel = Channels[i] /\ N[k].event = e
  BY NewNotesFacts
<1> HIDE DEF N
<1>2. notes' = notes \o N /\ batch' = batch  BY DEF N
<1>3. /\ notes' \in Seq(NoteType) /\ Kept /\ HeldInv' /\ SentInv'
      /\ \A s \in Senders : \A k \in DOMAIN batch'[s] : batch'[s][k].note \in 1 .. Len(notes')
      /\ \A k \in 1 .. Len(N) : Noted(SubjectOf[N[k].event], N[k].channel)'
  BY <1>0, <1>1, <1>2, Added
<1>4. \A i \in S : Noted(SubjectOf[e], Channels[i])'
  <2> SUFFICES ASSUME NEW i \in S  PROVE Noted(SubjectOf[e], Channels[i])'
    OBVIOUS
  <2>1. PICK k \in 1 .. Len(N) : N[k].channel = Channels[i] /\ N[k].event = e  BY <1>1
  <2>2. Noted(SubjectOf[N[k].event], N[k].channel)'  BY <1>3
  <2> QED  BY <2>1, <2>2
<1>5. recent' = [recent EXCEPT ![p] = @ \cup { << SubjectOf[e], Channels[i] >> : i \in R }]
  BY DEF Remember
<1>6. recent \in [Processes -> SUBSET (Range(SubjectOf) \X Range(Channels))]
  BY <1>0 DEF NoteTypes, NoteTypeOK
<1>7. recent' \in [Processes -> SUBSET (Range(SubjectOf) \X Range(Channels))]
  <2>1. SubjectOf[e] \in Range(SubjectOf)  BY NotificationData DEF Range
  <2>2. \A i \in R : Channels[i] \in Range(Channels)  BY ChannelFacts
  <2>3. { << SubjectOf[e], Channels[i] >> : i \in R } \subseteq Range(SubjectOf) \X Range(Channels)
    BY <2>1, <2>2
  <2> QED  BY <1>5, <1>6, <2>3
<1>8. NoteTypes'  BY <1>0, <1>2, <1>3, <1>7 DEF NoteTypes, NoteTypeOK, NoteType
<1>9. NotedInv'
  <2> SUFFICES ASSUME NEW q \in Processes, NEW x, NEW c, << x, c >> \in recent'[q]
               PROVE  Noted(x, c)' \/ << x, c >> \in stumbled'
    BY DEF NotedInv
  <2>1. CASE << x, c >> \in recent[q]
    <3>1. Noted(x, c) \/ << x, c >> \in stumbled  BY <2>1 DEF NoteInv, NotedInv
    <3>2. Noted(x, c) => Noted(x, c)'  BY <1>0, <1>3, KeptNotes
    <3> QED  BY <3>1, <3>2
  <2>2. CASE << x, c >> \notin recent[q]
    <3>1. PICK i \in R : << x, c >> = << SubjectOf[e], Channels[i] >>  BY <2>2, <1>5, <1>6
    <3>2. x = SubjectOf[e] /\ c = Channels[i]  BY <3>1
    <3> QED  BY <3>1, <3>2, <1>4
  <2> QED  BY <2>1, <2>2
<1> QED  BY <1>3, <1>4, <1>8, <1>9 DEF NoteInv

LEMMA DueFacts ==
  ASSUME NEW p, NEW e, NEW due \in Due(p, e)
  PROVE  /\ due \in SUBSET (1 .. Len(Channels))
         /\ e \in Critical => \A i \in 1 .. Len(Channels) :
              e \in Admits[Channels[i]] => i \in due \/ << SubjectOf[e], Channels[i] >> \in recent[p]
<1> DEFINE D(quiet, aged) ==
             { i \in 1 .. Len(Channels) :
                 /\ e \in Admits[Channels[i]] /\ ~Silenced(e, quiet)
                 /\ << SubjectOf[e], Channels[i] >> \notin recent[p] \ aged }
<1>0. Due(p, e) = { D(quiet, aged) : quiet \in BOOLEAN, aged \in SUBSET recent[p] }  BY DEF Due
<1> HIDE DEF D
<1>1. PICK quiet \in BOOLEAN, aged \in SUBSET recent[p] : due = D(quiet, aged)  BY <1>0
<1> USE DEF D
<1>2. due \in SUBSET (1 .. Len(Channels))  BY <1>1
<1>3. ASSUME e \in Critical, NEW i \in 1 .. Len(Channels), e \in Admits[Channels[i]]
      PROVE  i \in due \/ << SubjectOf[e], Channels[i] >> \in recent[p]
  <2>1. ~Silenced(e, quiet)  BY <1>3 DEF Silenced
  <2> QED  BY <1>1, <1>3, <2>1
<1> QED  BY <1>2, <1>3

LEMMA DispatchKeeps ==
  ASSUME NoteInv, NEW p \in Processes, NEW e \in Alerts, Dispatched(p, e)
  PROVE  /\ NoteInv' /\ Kept /\ stumbled' = stumbled
         /\ e \in Critical => \A c \in Range(Channels) : e \in Admits[c] =>
              Noted(SubjectOf[e], c)' \/ << SubjectOf[e], c >> \in stumbled'
<1>1. PICK due \in Due(p, e) : notes' = notes \o NewNotes(e, due) /\ Remember(p, e, due)
  BY DEF Dispatched
<1>2. UNCHANGED << batch, stumbled, mishaps >>  BY DEF Dispatched
<1>3. due \in SUBSET (1 .. Len(Channels))  BY DueFacts
<1>4. NoteInv' /\ Kept /\ \A i \in due : Noted(SubjectOf[e], Channels[i])'
  BY <1>1, <1>2, <1>3, StoredKeeps
<1>5. ASSUME e \in Critical, NEW c \in Range(Channels), e \in Admits[c]
      PROVE  Noted(SubjectOf[e], c)' \/ << SubjectOf[e], c >> \in stumbled'
  <2>1. PICK i \in 1 .. Len(Channels) : Channels[i] = c  BY ChannelFacts
  <2>2. i \in due \/ << SubjectOf[e], c >> \in recent[p]  BY <2>1, <1>5, DueFacts
  <2>3. CASE i \in due  BY <2>1, <2>3, <1>4
  <2>4. CASE << SubjectOf[e], c >> \in recent[p]
    <3>1. Noted(SubjectOf[e], c) \/ << SubjectOf[e], c >> \in stumbled
      BY <2>4 DEF NoteInv, NotedInv
    <3>2. Noted(SubjectOf[e], c) => Noted(SubjectOf[e], c)'  BY <1>4, KeptNotes DEF NoteInv
    <3> QED  BY <3>1, <3>2, <1>2
  <2> QED  BY <2>2, <2>3, <2>4
<1> QED  BY <1>2, <1>4, <1>5

LEMMA UnchangedNotes ==
  ASSUME NoteInv, UNCHANGED noteVars
  PROVE  NoteInv' /\ Kept /\ stumbled' = stumbled
<1>1. UNCHANGED << recent, notes, batch, stumbled, mishaps >>  BY DEF noteVars
<1>2. Len(notes) \in Nat  BY NoteFacts DEF NoteInv
<1>3. \A x, c : Noted(x, c)' <=> Noted(x, c)  BY <1>1 DEF Noted
<1> QED  BY <1>1, <1>2, <1>3 DEF NoteInv, NoteTypes, NoteTypeOK, NotedInv, HeldInv, SentInv, Kept

LEMMA DispatchFailKeeps ==
  ASSUME NoteInv, NEW p \in Processes, NEW e \in Alerts, DispatchFails(p, e)
  PROVE  NoteInv' /\ Kept /\ stumbled \subseteq stumbled'
<1>1. CASE UNCHANGED noteVars  BY <1>1, UnchangedNotes
<1>2. ASSUME NEW due \in Due(p, e), NEW i \in due,
             notes' = notes \o NewNotes(e, { j \in due : j < i }),
             Remember(p, e, { j \in due : j <= i }),
             stumbled' = stumbled \cup { << SubjectOf[e], Channels[i] >> },
             UNCHANGED << batch, mishaps >>
      PROVE  NoteInv' /\ Kept /\ stumbled \subseteq stumbled'
  <2> DEFINE S == { j \in due : j < i }  R == { j \in due : j <= i }
  <2>1. due \in SUBSET (1 .. Len(Channels))  BY DueFacts
  <2>2. S \in SUBSET (1 .. Len(Channels)) /\ R \in SUBSET (1 .. Len(Channels))  BY <2>1
  <2>3. \A j \in R : j \in S \/ j = i  BY <2>1
  <2>4. notes' = notes \o NewNotes(e, S) /\ Remember(p, e, R)  BY <1>2
  <2> HIDE DEF S, R
  <2>5. \A j \in R : j \in S \/ << SubjectOf[e], Channels[j] >> \in stumbled'  BY <2>3, <1>2
  <2>6. stumbled \subseteq stumbled'  BY <1>2
  <2> QED  BY <2>2, <2>4, <2>5, <2>6, <1>2, StoredKeeps
<1> QED  BY <1>1, <1>2 DEF DispatchFails

LEMMA WipeKeeps ==
  ASSUME NoteInv, NEW p \in Processes, Wiped(p)
  PROVE  NoteInv' /\ Kept /\ stumbled' = stumbled
<1>1. recent' = [recent EXCEPT ![p] = {}] /\ UNCHANGED << notes, batch, stumbled, mishaps >>
  BY DEF Wiped
<1>2. Len(notes) \in Nat  BY NoteFacts DEF NoteInv
<1>3. \A x, c : Noted(x, c)' <=> Noted(x, c)  BY <1>1 DEF Noted
<1>4. \A q \in Processes : recent'[q] \subseteq recent[q]
  BY <1>1 DEF NoteInv, NoteTypes, NoteTypeOK
<1>5. NotedInv'  BY <1>1, <1>3, <1>4 DEF NoteInv, NotedInv
<1>6. NoteTypes'  BY <1>1 DEF NoteInv, NoteTypes, NoteTypeOK
<1> QED  BY <1>1, <1>2, <1>5, <1>6 DEF NoteInv, HeldInv, SentInv, Kept

\* What remembers nothing new and keeps the notifications keeps NotedInv.
LEMMA NotedKept ==
  ASSUME NoteInv, Kept, UNCHANGED << recent, stumbled >>
  PROVE  NotedInv'
<1>1. \A x, c : Noted(x, c) => Noted(x, c)'  BY KeptNotes DEF NoteInv
<1> QED  BY <1>1 DEF NoteInv, NotedInv

\* The notification a sender is at, once it is marked, or the mark is lost.
LEMMA Marked ==
  ASSUME NoteInv, NEW s \in Senders, NEW n, n = Head(batch[s]).note, n \in 1 .. Len(notes),
         NEW state \in { "sent", "failed" }, NEW sent \in { 0, 1 }, Mark(s, state, sent)
  PROVE  /\ notes' \in Seq(NoteType) /\ Len(notes') = Len(notes) /\ Kept
         /\ \A i \in 1 .. Len(notes) : i # n => notes'[i] = notes[i]
         /\ ~notes'[n].shared =>
              ~notes[n].shared /\ notes'[n].state = state /\ notes'[n].sends = notes[n].sends + sent
<1>1. notes \in Seq(NoteType) /\ Len(notes) \in Nat /\ notes[n] \in NoteType
  BY NoteFacts DEF NoteInv
<1> DEFINE m == [notes[n] EXCEPT !.state = state, !.sends = @ + sent]
           l == [notes[n] EXCEPT !.sends = @ + sent, !.shared = TRUE]
<1>2. /\ m \in NoteType /\ l \in NoteType /\ l.shared
      /\ m.event = notes[n].event /\ m.channel = notes[n].channel
      /\ l.event = notes[n].event /\ l.channel = notes[n].channel
      /\ m.shared = notes[n].shared /\ m.state = state /\ m.sends = notes[n].sends + sent
  <2>1. notes[n].sends + sent \in Nat  BY <1>1 DEF NoteType
  <2>2. m \in NoteType /\ l \in NoteType  BY <1>1, <2>1 DEF NoteType
  <2> QED  BY <1>1, <2>2 DEF NoteType
<1>3. \/ notes' = [notes EXCEPT ![n] = m]
      \/ notes' = [notes EXCEPT ![n] = l]
  <2>1. \/ notes' = [notes EXCEPT ![n].state = state, ![n].sends = @ + sent]
        \/ notes' = [notes EXCEPT ![n].sends = @ + sent, ![n].shared = TRUE]
    BY DEF Mark
  <2>2. n \in DOMAIN notes  BY NoteFacts DEF NoteInv
  <2>3. [notes EXCEPT ![n].state = state, ![n].sends = @ + sent] = [notes EXCEPT ![n] = m]
    BY <2>2
  <2>4. [notes EXCEPT ![n].sends = @ + sent, ![n].shared = TRUE] = [notes EXCEPT ![n] = l]
    BY <2>2
  <2> QED  BY <2>1, <2>3, <2>4
<1> HIDE DEF m, l
<1>4. /\ notes' \in Seq(NoteType) /\ Len(notes') = Len(notes)
      /\ \A i \in 1 .. Len(notes) : i # n => notes'[i] = notes[i]
      /\ notes'[n] = m \/ notes'[n] = l
  BY <1>1, <1>2, <1>3
<1>5. Kept  BY <1>1, <1>2, <1>4 DEF Kept
<1> QED  BY <1>2, <1>4, <1>5

\* A sender is done with a notification: it is marked, or it is left as it was.
LEMMA SendKeeps ==
  ASSUME NoteInv, NEW s \in Senders, Turn(s), UNCHANGED << recent, stumbled >>,
         \/ notes' = notes
         \/ Mark(s, "sent", 1)
         \/ Mark(s, "failed", 0)
  PROVE  NoteInv' /\ Kept
<1>0. NoteTypes /\ HeldInv /\ SentInv  BY DEF NoteInv
<1>1. PICK n : n = Head(batch[s]).note  OBVIOUS
<1>2. /\ n \in 1 .. Len(notes)
      /\ ~notes[n].shared => notes[n].state = "pending"
      /\ \A t \in Senders : \A k \in DOMAIN batch'[t] :
           /\ batch'[t][k].note \in 1 .. Len(notes)
           /\ ~notes[batch'[t][k].note].shared =>
                /\ batch'[t][k].note # n
                /\ notes[batch'[t][k].note].state = "pending"
                /\ \A u \in Senders : \A l \in DOMAIN batch'[u] :
                     batch'[u][l].note = batch'[t][k].note => u = t /\ l = k
  BY <1>0, <1>1, TurnHolds
<1>3. batch' \in [Senders -> Seq(Held)]  BY <1>0, TurnFacts
<1>4. notes \in Seq(NoteType) /\ Len(notes) \in Nat /\ notes[n] \in NoteType
  BY <1>0, <1>2, NoteFacts
<1>5. /\ notes' \in Seq(NoteType) /\ Len(notes') = Len(notes) /\ Kept
      /\ \A i \in 1 .. Len(notes) : i # n => notes'[i] = notes[i]
      /\ ~notes'[n].shared => ~notes[n].shared
      /\ ~notes'[n].shared =>
           \/ notes'[n] = notes[n]
           \/ notes'[n].state # "pending" /\ notes'[n].sends \in { notes[n].sends, notes[n].sends + 1 }
  <2>1. CASE notes' = notes  BY <2>1, <1>4 DEF Kept
  <2>2. CASE Mark(s, "sent", 1)
    <3>1. 1 \in { 0, 1 } /\ "sent" \in { "sent", "failed" }  OBVIOUS
    <3>2. /\ notes' \in Seq(NoteType) /\ Len(notes') = Len(notes) /\ Kept
          /\ \A i \in 1 .. Len(notes) : i # n => notes'[i] = notes[i]
          /\ ~notes'[n].shared =>
               ~notes[n].shared /\ notes'[n].state = "sent" /\ notes'[n].sends = notes[n].sends + 1
      BY <2>2, <3>1, <1>1, <1>2, Marked
    <3> QED  BY <3>2
  <2>3. CASE Mark(s, "failed", 0)
    <3>1. 0 \in { 0, 1 } /\ "failed" \in { "sent", "failed" }  OBVIOUS
    <3>2. /\ notes' \in Seq(NoteType) /\ Len(notes') = Len(notes) /\ Kept
          /\ \A i \in 1 .. Len(notes) : i # n => notes'[i] = notes[i]
          /\ ~notes'[n].shared =>
               ~notes[n].shared /\ notes'[n].state = "failed" /\ notes'[n].sends = notes[n].sends + 0
      BY <2>3, <3>1, <1>1, <1>2, Marked
    <3>3. notes[n].sends + 0 = notes[n].sends  BY <1>4 DEF NoteType
    <3> QED  BY <3>2, <3>3
  <2> QED  BY <2>1, <2>2, <2>3
<1>6. NoteTypes'
  <2>1. \A t \in Senders : \A k \in DOMAIN batch'[t] : batch'[t][k].note \in 1 .. Len(notes')
    BY <1>2, <1>5
  <2>2. recent' = recent  OBVIOUS
  <2> QED  BY <2>1, <2>2, <1>0, <1>3, <1>5 DEF NoteTypes, NoteTypeOK, NoteType
<1>7. HeldInv'
  <2> SUFFICES ASSUME NEW t \in Senders, NEW k \in DOMAIN batch'[t],
                      ~notes'[batch'[t][k].note].shared
               PROVE  /\ notes'[batch'[t][k].note].state = "pending"
                      /\ \A u \in Senders : \A l \in DOMAIN batch'[u] :
                           batch'[u][l].note = batch'[t][k].note => u = t /\ l = k
    BY DEF HeldInv
  <2>1. batch'[t][k].note \in 1 .. Len(notes)  BY <1>2
  <2>2. ~notes[batch'[t][k].note].shared  BY <2>1, <1>5
  <2>3. batch'[t][k].note # n  BY <2>2, <1>2
  <2>4. notes'[batch'[t][k].note] = notes[batch'[t][k].note]  BY <2>1, <2>3, <1>5
  <2> QED  BY <2>2, <2>4, <1>2
<1>8. SentInv'
  <2> SUFFICES ASSUME NEW i \in 1 .. Len(notes'), ~notes'[i].shared
               PROVE  notes'[i].sends <= 1 /\ (notes'[i].state = "pending" => notes'[i].sends = 0)
    BY DEF SentInv
  <2>1. CASE i # n  BY <2>1, <1>0, <1>5 DEF SentInv
  <2>2. CASE i = n
    <3>1. ~notes[n].shared /\ notes[n].state = "pending"  BY <2>2, <1>2, <1>5
    <3>2. notes[n].sends = 0  BY <3>1, <1>0, <1>2 DEF SentInv
    <3> QED  BY <2>2, <3>1, <3>2, <1>5
  <2> QED  BY <2>1, <2>2
<1>9. NotedInv'  BY <1>5, NotedKept
<1> QED  BY <1>5, <1>6, <1>7, <1>8, <1>9 DEF NoteInv

LEMMA DieKeeps ==
  ASSUME NoteInv, NEW s \in Senders, SenderDies(s)
  PROVE  NoteInv' /\ Kept
<1>1. batch' = [batch EXCEPT ![s] = << >>] /\ UNCHANGED << recent, notes, stumbled >>
  BY DEF SenderDies
<1>2. batch \in [Senders -> Seq(Held)] /\ Len(notes) \in Nat
  BY NoteFacts DEF NoteInv, NoteTypes
<1>3. Kept  BY <1>1, <1>2 DEF Kept
<1>4. /\ batch' \in [Senders -> Seq(Held)] /\ DOMAIN batch'[s] = {}
      /\ \A t \in Senders \ {s} : batch'[t] = batch[t]
  BY <1>1, <1>2
<1>5. \A t \in Senders : \A k \in DOMAIN batch'[t] : k \in DOMAIN batch[t] /\ batch'[t][k] = batch[t][k]
  BY <1>4
<1>6. NoteTypes'  BY <1>1, <1>4, <1>5 DEF NoteInv, NoteTypes, NoteTypeOK
<1>7. HeldInv'  BY <1>1, <1>5 DEF NoteInv, HeldInv
<1>8. SentInv'  BY <1>1 DEF NoteInv, SentInv
<1>9. NotedInv'  BY <1>1, <1>3, NotedKept
<1> QED  BY <1>3, <1>6, <1>7, <1>8, <1>9 DEF NoteInv

\* A claim takes what is pending; what another sender holds is shared from then on.
LEMMA ClaimKeeps ==
  ASSUME NoteInv, NEW s \in Senders, Claim(s)
  PROVE  NoteInv' /\ Kept
<1>0. NoteTypes /\ HeldInv /\ SentInv  BY DEF NoteInv
<1> DEFINE taken == InOrder(Oldest)  size == Cardinality(Oldest)
           mine == [ k \in 1 .. size |-> [note |-> taken[k], attempts |-> notes[taken[k]].attempts + 1] ]
           claimed(i) == [notes[i] EXCEPT !.attempts = @ + 1, !.shared = @ \/ i \in Claimed]
<1>1. /\ batch' = [batch EXCEPT ![s] = mine] /\ UNCHANGED << recent, stumbled >>
      /\ notes' = [ i \in 1 .. Len(notes) |-> IF i \in Oldest THEN claimed(i) ELSE notes[i] ]
  BY DEF Claim
<1>2. /\ Len(notes) \in Nat /\ notes \in Seq(NoteType) /\ \A i \in 1 .. Len(notes) : notes[i] \in NoteType
      /\ Oldest \in SUBSET Pending /\ Oldest \in SUBSET (1 .. Len(notes)) /\ size \in Nat
  BY <1>0, NoteFacts
<1>3. /\ taken \in [1 .. size -> Oldest]
      /\ \A k, l \in 1 .. size : taken[k] = taken[l] => k = l
  BY <1>0, NoteFacts, InOrderIsOrder
<1> HIDE DEF taken, size
<1>4. /\ mine \in Seq(Held) /\ DOMAIN mine = 1 .. size
      /\ \A k \in 1 .. size : mine[k].note = taken[k] /\ mine[k].note \in Oldest
  <2>1. \A k \in 1 .. size : notes[taken[k]].attempts + 1 \in Nat /\ taken[k] \in Nat
    <3> SUFFICES ASSUME NEW k \in 1 .. size
                 PROVE  notes[taken[k]].attempts + 1 \in Nat /\ taken[k] \in Nat
      OBVIOUS
    <3>1. taken[k] \in 1 .. Len(notes)  BY <1>2, <1>3
    <3>2. notes[taken[k]] \in NoteType  BY <3>1, <1>2
    <3> QED  BY <3>1, <3>2, <1>2 DEF NoteType
  <2>2. mine \in [1 .. size -> Held]  BY <2>1 DEF Held
  <2> QED  BY <2>2, <1>2, <1>3, SeqOf
<1>5. ASSUME NEW i \in 1 .. Len(notes)
      PROVE  /\ claimed(i) \in NoteType
             /\ claimed(i).event = notes[i].event /\ claimed(i).channel = notes[i].channel
             /\ claimed(i).state = notes[i].state /\ claimed(i).sends = notes[i].sends
             /\ claimed(i).shared = (notes[i].shared \/ i \in Claimed)
  <2>1. notes[i] \in NoteType  BY <1>2
  <2>2. notes[i].attempts + 1 \in Nat /\ (notes[i].shared \/ i \in Claimed) \in BOOLEAN
    BY <2>1 DEF NoteType
  <2> QED  BY <2>1, <2>2 DEF NoteType
<1> HIDE DEF mine, claimed
<1>6. \A i \in 1 .. Len(notes) :
        /\ notes'[i] \in NoteType
        /\ notes'[i].event = notes[i].event /\ notes'[i].channel = notes[i].channel
        /\ notes'[i].state = notes[i].state /\ notes'[i].sends = notes[i].sends
        /\ i \in Oldest => notes'[i].shared = (notes[i].shared \/ i \in Claimed)
        /\ i \notin Oldest => notes'[i] = notes[i]
  <2> SUFFICES ASSUME NEW i \in 1 .. Len(notes)
               PROVE  /\ notes'[i] \in NoteType
                      /\ notes'[i].event = notes[i].event /\ notes'[i].channel = notes[i].channel
                      /\ notes'[i].state = notes[i].state /\ notes'[i].sends = notes[i].sends
                      /\ i \in Oldest => notes'[i].shared = (notes[i].shared \/ i \in Claimed)
                      /\ i \notin Oldest => notes'[i] = notes[i]
    OBVIOUS
  <2>1. notes'[i] = IF i \in Oldest THEN claimed(i) ELSE notes[i]  BY <1>1
  <2> QED  BY <2>1, <1>2, <1>5
<1>7. notes' \in Seq(NoteType) /\ Len(notes') = Len(notes)
  <2>1. notes' \in [1 .. Len(notes) -> NoteType]  BY <1>1, <1>6
  <2> QED  BY <2>1, <1>2, SeqOf
<1>8. Kept  BY <1>2, <1>6, <1>7 DEF Kept
<1>9. /\ batch' \in [Senders -> Seq(Held)] /\ batch'[s] = mine
      /\ \A t \in Senders \ {s} : batch'[t] = batch[t]
  BY <1>0, <1>1, <1>4 DEF NoteTypes
<1>10. NoteTypes'
  <2>1. ASSUME NEW t \in Senders, NEW k \in DOMAIN batch'[t]
        PROVE  batch'[t][k].note \in 1 .. Len(notes')
    <3>1. CASE t = s  BY <3>1, <1>2, <1>4, <1>7, <1>9
    <3>2. CASE t # s  BY <3>2, <1>0, <1>7, <1>9, HeldTypes
    <3> QED  BY <3>1, <3>2
  <2> QED  BY <2>1, <1>0, <1>1, <1>7, <1>9 DEF NoteTypes, NoteTypeOK, NoteType
<1>11. SentInv'
  <2> SUFFICES ASSUME NEW i \in 1 .. Len(notes), ~notes'[i].shared
               PROVE  notes'[i].sends <= 1 /\ (notes'[i].state = "pending" => notes'[i].sends = 0)
    BY <1>7 DEF SentInv
  <2>1. ~notes[i].shared  BY <1>6
  <2> QED  BY <2>1, <1>0, <1>6 DEF SentInv
<1>12. HeldInv'
  <2> SUFFICES ASSUME NEW t \in Senders, NEW k \in DOMAIN batch'[t],
                      ~notes'[batch'[t][k].note].shared
               PROVE  /\ notes'[batch'[t][k].note].state = "pending"
                      /\ \A u \in Senders : \A l \in DOMAIN batch'[u] :
                           batch'[u][l].note = batch'[t][k].note => u = t /\ l = k
    BY DEF HeldInv
  <2>1. PICK m : m = batch'[t][k].note  OBVIOUS
  <2>2. \A u \in Senders \ {s} : \A l \in DOMAIN batch[u] : batch[u][l].note \in Claimed
    BY DEF Claimed
  <2>3. CASE t = s
    <3>1. k \in 1 .. size /\ m = taken[k] /\ m \in Oldest  BY <2>1, <2>3, <1>4, <1>9
    <3>2. m \in Pending /\ m \in 1 .. Len(notes)  BY <3>1, <1>2
    <3>3. notes[m].state = "pending"  BY <3>2 DEF Pending
    <3>4. m \notin Claimed  BY <2>1, <3>1, <3>2, <1>6
    <3>5. ASSUME NEW u \in Senders, NEW l \in DOMAIN batch'[u], batch'[u][l].note = m
          PROVE  u = t /\ l = k
      <4>1. u = s  BY <3>4, <3>5, <2>2, <1>9
      <4>2. l \in 1 .. size /\ taken[l] = taken[k]  BY <4>1, <3>1, <3>5, <1>4, <1>9
      <4> QED  BY <4>1, <4>2, <3>1, <2>3, <1>3
    <3> QED  BY <2>1, <3>2, <3>3, <3>5, <1>6
  <2>4. CASE t # s
    <3>1. k \in DOMAIN batch[t] /\ batch[t][k].note = m  BY <2>1, <2>4, <1>9
    <3>2. m \in 1 .. Len(notes) /\ m \in Claimed  BY <3>1, <2>2, <2>4, <1>0, HeldTypes
    <3>3. m \notin Oldest  BY <2>1, <3>2, <1>6
    <3>4. ~notes[m].shared /\ notes'[m] = notes[m]  BY <2>1, <3>2, <3>3, <1>6
    <3>5. /\ notes[m].state = "pending"
          /\ \A u \in Senders : \A l \in DOMAIN batch[u] : batch[u][l].note = m => u = t /\ l = k
      BY <3>1, <3>4, <1>0 DEF HeldInv
    <3>6. ASSUME NEW u \in Senders, NEW l \in DOMAIN batch'[u], batch'[u][l].note = m
          PROVE  u = t /\ l = k
      <4>1. u # s  BY <3>3, <3>6, <1>4, <1>9
      <4> QED  BY <4>1, <3>5, <3>6, <1>9
    <3> QED  BY <2>1, <3>4, <3>5, <3>6
  <2> QED  BY <2>3, <2>4
<1>13. NotedInv'  BY <1>1, <1>8, NotedKept
<1> QED  BY <1>8, <1>10, <1>11, <1>12, <1>13 DEF NoteInv

LEMMA NoteStepInv ==
  ASSUME NoteInv, NoteStep \/ UNCHANGED noteVars
  PROVE  NoteInv' /\ Kept /\ stumbled \subseteq stumbled'
<1>1. ASSUME NEW p \in Processes, NEW e \in Alerts, Dispatched(p, e) \/ DispatchFails(p, e)
      PROVE  NoteInv' /\ Kept /\ stumbled \subseteq stumbled'
  BY <1>1, DispatchKeeps, DispatchFailKeeps
<1>2. ASSUME NEW s \in Senders, Claim(s) \/ SenderDies(s)
      PROVE  NoteInv' /\ Kept /\ stumbled \subseteq stumbled'
  <2>1. stumbled' = stumbled  BY <1>2 DEF Claim, SenderDies
  <2> QED  BY <1>2, <2>1, ClaimKeeps, DieKeeps
<1>3. ASSUME NEW s \in Senders, Sends(s) \/ SendFails(s)
      PROVE  NoteInv' /\ Kept /\ stumbled \subseteq stumbled'
  <2>1. /\ Turn(s) /\ UNCHANGED << recent, stumbled >>
        /\ notes' = notes \/ Mark(s, "sent", 1) \/ Mark(s, "failed", 0)
    BY <1>3 DEF Sends, SendFails
  <2> QED  BY <2>1, SendKeeps
<1> QED  BY <1>1, <1>2, <1>3, WipeKeeps, UnchangedNotes DEF NoteStep

-------------------------------------------------------------------------------
\* The parts together.

DeliveryInv == QueueInv /\ BusInv /\ NoteInv /\ CriticalIsEnqueued

LEMMA NoteInitInv ==
  ASSUME NEW left \in Seq([event : Alerts, channel : Range(Channels)]), NoteInit(left)
  PROVE  NoteInv
<1>1. Len(left) \in Nat /\ \A i \in 1 .. Len(left) : left[i].event \in Alerts /\ left[i].channel \in Range(Channels)
  <2> DEFINE Left == [event : Alerts, channel : Range(Channels)]
  <2>1. left \in Seq(Left)  OBVIOUS
  <2>2. \A r \in Left : r.event \in Alerts /\ r.channel \in Range(Channels)  OBVIOUS
  <2> HIDE DEF Left
  <2>3. Len(left) \in Nat /\ \A i \in 1 .. Len(left) : left[i] \in Left  BY <2>1
  <2> QED  BY <2>2, <2>3
<1>2. notes = [ i \in 1 .. Len(left) |-> Note(left[i].event, left[i].channel) ]  BY DEF NoteInit
<1>3. \A i \in 1 .. Len(left) :
        /\ notes[i] \in NoteType /\ notes[i].sends = 0
  <2> SUFFICES ASSUME NEW i \in 1 .. Len(left)  PROVE notes[i] \in NoteType /\ notes[i].sends = 0
    OBVIOUS
  <2>1. notes[i] = Note(left[i].event, left[i].channel)  BY <1>2
  <2> QED  BY <2>1, <1>1 DEF Note, NoteType
<1>4. notes \in Seq(NoteType) /\ Len(notes) = Len(left)
  <2>1. notes \in [1 .. Len(left) -> NoteType]  BY <1>2, <1>3
  <2> QED  BY <2>1, <1>1, SeqOf
<1>5. /\ recent = [p \in Processes |-> {}] /\ batch = [s \in Senders |-> << >>] /\ stumbled = {}
  BY DEF NoteInit
<1>6. batch \in [Senders -> Seq(Held)] /\ \A s \in Senders : DOMAIN batch[s] = {}  BY <1>5
<1>7. NoteTypes  BY <1>4, <1>5, <1>6 DEF NoteTypes, NoteTypeOK, NoteType
<1>8. HeldInv  BY <1>6 DEF HeldInv
<1>9. SentInv  BY <1>3, <1>4 DEF SentInv
<1>10. NotedInv  BY <1>5 DEF NotedInv
<1> QED  BY <1>7, <1>8, <1>9, <1>10 DEF NoteInv

LEMMA InitInv == Init => DeliveryInv
<1> SUFFICES ASSUME Init PROVE DeliveryInv  OBVIOUS
<1>1. QueueInv /\ BusInv  BY QueueInitInv, BusInitInv DEF Init
<1>2. NoteInv
  <2>1. NoteInit(Backlog) \/ NoteInit(<< >>)  BY DEF Init
  <2>2. /\ Backlog \in Seq([event : Alerts, channel : Range(Channels)])
        /\ << >> \in Seq([event : Alerts, channel : Range(Channels)])
    BY NotificationData
  <2> QED  BY <2>1, <2>2, NoteInitInv
<1>3. HandledEvents = {}  BY DEF Init, BusInit, QueueInit, HandledEvents
<1> QED  BY <1>1, <1>2, <1>3 DEF DeliveryInv, CriticalIsEnqueued

\* Each step is a step of each part, or leaves it alone.
LEMMA NextParts ==
  ASSUME QueueInv, BusInv, [Next]_vars
  PROVE  /\ QueueStep \/ UNCHANGED queueVars
         /\ BusStep \/ UNCHANGED busVars
         /\ NoteStep \/ UNCHANGED noteVars
<1> USE Wiring
<1>1. ASSUME NEW w \in Busy  PROVE worker[w].event \in Alerts
  BY QueueFacts DEF BusInv, Deliveries
<1>2. ASSUME NEW c \in Consumers, NEW m \in Messages, work[c][m] = "handling"
      PROVE  EventOf[m] \in Alerts
  BY <1>2 DEF QueueInv, QueueTypeOK
<1>3. CASE UNCHANGED vars  BY <1>3 DEF vars
<1>4. ASSUME NEW e \in Events, Publishes(e)
      PROVE  UNCHANGED queueVars /\ BusStep /\ UNCHANGED noteVars
  BY <1>4 DEF Publishes, InProcess, BusStep
<1>5. ASSUME NEW w \in Workers, Works(w)
      PROVE  UNCHANGED queueVars /\ BusStep /\ (NoteStep \/ UNCHANGED noteVars)
  <2>1. UNCHANGED queueVars  BY <1>5 DEF Works, InProcess
  <2>2. Take(w) \/ Quit(w) \/ Handled(w) \/ HandlerFails(w)  BY <1>5 DEF Works
  <2>3. \/ UNCHANGED noteVars
        \/ w \in Busy /\ Dispatched(Local, worker[w].event)
        \/ w \in Busy /\ DispatchFails(Local, worker[w].event)
    BY <1>5 DEF Works, Handled, HandlerFails
  <2>4. NoteStep \/ UNCHANGED noteVars  BY <2>3, <1>1 DEF NoteStep
  <2> QED  BY <2>1, <2>2, <2>4 DEF BusStep
<1>6. CASE Closes  BY <1>6 DEF Closes, InProcess, BusStep
<1>7. CASE Queue  BY <1>7 DEF Queue, OverSQS, QueueStep
<1>8. ASSUME NEW c \in Consumers, Polls(c)
      PROVE  UNCHANGED busVars /\ QueueStep /\ (NoteStep \/ UNCHANGED noteVars)
  <2>1. UNCHANGED busVars  BY <1>8 DEF Polls, OverSQS
  <2>2. QueueStep  BY <1>8 DEF Polls, QueueStep
  <2>3. \/ UNCHANGED noteVars
        \/ \E m \in Messages : /\ work[c][m] = "handling"
                               /\ Dispatched(c, EventOf[m]) \/ DispatchFails(c, EventOf[m])
    BY <1>8 DEF Polls, Succeed, Fail
  <2>4. NoteStep \/ UNCHANGED noteVars  BY <2>3, <1>2 DEF NoteStep
  <2> QED  BY <2>1, <2>2, <2>4
<1>9. ASSUME NEW c \in Consumers, Restarts(c)
      PROVE  UNCHANGED busVars /\ QueueStep /\ NoteStep
  BY <1>9 DEF Restarts, OverSQS, QueueStep, NoteStep
<1>10. ASSUME NEW s \in Senders, Drains(s) \/ Dies(s)
       PROVE  UNCHANGED busVars /\ UNCHANGED queueVars /\ NoteStep
  BY <1>10 DEF Drains, Dies, Elsewhere, NoteStep
<1> QED
  BY <1>3, <1>4, <1>5, <1>6, <1>7, <1>8, <1>9, <1>10 DEF Next

\* An event is handled by a dispatch of it.
LEMMA HandledBy ==
  ASSUME QueueInv, BusInv, [Next]_vars
  PROVE  \/ HandledEvents' \subseteq HandledEvents
         \/ \E p \in Processes, e \in Alerts :
              Dispatched(p, e) /\ HandledEvents' \subseteq HandledEvents \cup {e}
<1> USE Wiring
<1>1. CASE consumed' = consumed /\ handled' = handled  BY <1>1 DEF HandledEvents
<1>2. ASSUME NEW w \in Workers, Works(w), Handled(w)
      PROVE  \/ HandledEvents' \subseteq HandledEvents
             \/ \E p \in Processes, e \in Alerts :
                  Dispatched(p, e) /\ HandledEvents' \subseteq HandledEvents \cup {e}
  <2>1. PICK e, i : worker[w].event = e /\ worker[w].sub = i  OBVIOUS
  <2>2. handled' = handled \cup { << e, i >> } /\ w \in Busy /\ consumed' = consumed
    BY <1>2, <2>1 DEF Handled, Works, InProcess, queueVars
  <2>3. e \in Alerts  BY <2>1, <2>2, QueueFacts DEF BusInv, Deliveries
  <2>4. HandledEvents' \subseteq HandledEvents \cup {e}  BY <2>2 DEF HandledEvents
  <2>5. CASE i # Dispatcher  BY <2>2, <2>5 DEF HandledEvents
  <2>6. CASE i = Dispatcher
    <3>1. Dispatched(Local, e) \/ handled' = handled
      <4>1. \/ Take(w) \/ Quit(w) \/ HandlerFails(w)
            \/ Dispatched(Local, e)
        BY <1>2, <2>1, <2>6 DEF Works
      <4> QED  BY <4>1 DEF Take, Quit, HandlerFails
    <3>2. CASE handled' = handled  BY <3>2, <2>2 DEF HandledEvents
    <3> QED  BY <3>1, <3>2, <2>3, <2>4
  <2> QED  BY <2>5, <2>6
<1>3. ASSUME NEW w \in Workers, Works(w), ~Handled(w)
      PROVE  consumed' = consumed /\ handled' = handled
  BY <1>3 DEF Works, InProcess, queueVars, Take, Quit, HandlerFails
<1>4. ASSUME NEW c \in Consumers, NEW m \in Messages, Succeed(c, m), Dispatched(c, EventOf[m]), OverSQS
      PROVE  \E p \in Processes, e \in Alerts :
               Dispatched(p, e) /\ HandledEvents' \subseteq HandledEvents \cup {e}
  <2>1. EventOf[m] \in Alerts  BY <1>4 DEF Succeed, QueueInv, QueueTypeOK
  <2>2. HandledEvents' \subseteq HandledEvents \cup { EventOf[m] }
    BY <1>4 DEF HandledEvents, Succeed, OverSQS, busVars
  <2> QED  BY <2>1, <2>2, <1>4
<1>5. ASSUME NEW c \in Consumers, Polls(c)
      PROVE  \/ consumed' = consumed /\ handled' = handled
             \/ \E m \in Messages : Succeed(c, m) /\ Dispatched(c, EventOf[m]) /\ OverSQS
  BY <1>5 DEF Polls, OverSQS, busVars, Receive, Leave, Duplicate, Begin, Fail
<1>6. CASE UNCHANGED vars \/ Closes \/ Queue \/ \E e \in Events : Publishes(e)
  <2>1. consumed' = consumed /\ handled' = handled
    BY <1>6 DEF vars, busVars, queueVars, Closes, InProcess, Close, Queue, OverSQS, Route, Reappear,
                Redrive, Publishes, Counted, Accepted, Refused
  <2> QED  BY <1>1, <2>1
<1>7. ASSUME NEW c \in Consumers, Restarts(c)  PROVE consumed' = consumed /\ handled' = handled
  BY <1>7 DEF Restarts, OverSQS, busVars, Restart
<1>8. ASSUME NEW s \in Senders, Drains(s) \/ Dies(s)  PROVE consumed' = consumed /\ handled' = handled
  BY <1>8 DEF Drains, Dies, Elsewhere, busVars, queueVars
<1>9. \/ consumed' = consumed /\ handled' = handled
      \/ \E w \in Workers : Works(w) /\ Handled(w)
      \/ \E c \in Consumers, m \in Messages : Succeed(c, m) /\ Dispatched(c, EventOf[m]) /\ OverSQS
      \/ UNCHANGED vars \/ Closes \/ Queue \/ \E e \in Events : Publishes(e)
  BY <1>3, <1>5, <1>7, <1>8 DEF Next
<1> QED  BY <1>1, <1>2, <1>4, <1>6, <1>9

LEMMA StepInv == DeliveryInv /\ [Next]_vars => DeliveryInv'
<1> SUFFICES ASSUME DeliveryInv, [Next]_vars PROVE DeliveryInv'  OBVIOUS
<1> USE DEF DeliveryInv
<1>1. QueueInv'  BY NextParts, QueueStepInv
<1>2. BusInv'  BY NextParts, BusStepInv
<1>3. NoteInv' /\ Kept /\ stumbled \subseteq stumbled'  BY NextParts, NoteStepInv
<1>4. CriticalIsEnqueued'
  <2> SUFFICES ASSUME NEW e \in HandledEvents' \cap Critical, NEW c \in Range(Channels), e \in Admits[c]
               PROVE  Noted(SubjectOf[e], c)' \/ << SubjectOf[e], c >> \in stumbled'
    BY DEF CriticalIsEnqueued, Noted
  <2>1. CASE e \in HandledEvents
    <3>1. Noted(SubjectOf[e], c) \/ << SubjectOf[e], c >> \in stumbled
      BY <2>1 DEF CriticalIsEnqueued, Noted
    <3>2. Noted(SubjectOf[e], c) => Noted(SubjectOf[e], c)'  BY <1>3, KeptNotes DEF NoteInv
    <3> QED  BY <3>1, <3>2, <1>3
  <2>2. CASE e \notin HandledEvents
    <3>1. PICK p \in Processes, f \in Alerts :
            Dispatched(p, f) /\ HandledEvents' \subseteq HandledEvents \cup {f}
      BY <2>2, HandledBy
    <3>2. f = e  BY <3>1, <2>2
    <3>3. \A d \in Range(Channels) : e \in Admits[d] =>
            Noted(SubjectOf[e], d)' \/ << SubjectOf[e], d >> \in stumbled'
      BY <3>1, <3>2, DispatchKeeps
    <3> QED  BY <3>3
  <2> QED  BY <2>1, <2>2
<1> QED  BY <1>1, <1>2, <1>3, <1>4

LEMMA DeliveryInvariant == Spec => []DeliveryInv
BY InitInv, StepInv, PTL DEF Spec

-------------------------------------------------------------------------------
\* Theorems.

\* The variables of the bus, of the queue and of the dispatcher keep their types; the queue of
\* the bus stays within its capacity and its count of what is in flight never goes below zero.
THEOREM DeliveryTypes == Spec => []TypeOK
<1>1. DeliveryInv => TypeOK
  BY DEF DeliveryInv, QueueInv, BusInv, BusTypes, NoteInv, NoteTypes, TypeOK
<1> QED  BY <1>1, DeliveryInvariant, PTL

\* A message is deleted from the SQS queue only for the sake of its event, whatever lapses and
\* restarts there are (events/sqs.go:128-164).
THEOREM DeletedMessagesWereTried == Spec => []DeletedWasTried
<1>1. DeliveryInv => DeletedWasTried  BY DEF DeliveryInv, QueueInv
<1> QED  BY <1>1, DeliveryInvariant, PTL

\* Close returns when every event accepted before it is settled with every subscriber that
\* wants it, exactly one way (events/inprocess.go:124-135).
THEOREM ClosingDrains == Spec => []CloseDrains
<1>1. DeliveryInv => CloseDrains  BY BusDrains DEF DeliveryInv
<1> QED  BY <1>1, DeliveryInvariant, PTL

\* Every critical event that was handled has its notifications, by whichever bus it came and
\* whatever was remembered, forgotten or silenced (notify/dispatcher.go:75-128).
THEOREM CriticalAlertsAreEnqueued == Spec => []CriticalIsEnqueued
<1>1. DeliveryInv => CriticalIsEnqueued  BY DEF DeliveryInv
<1> QED  BY <1>1, DeliveryInvariant, PTL

\* No notification is sent twice whose sends were all recorded and which one sender held at a
\* time (notify/dispatcher.go:155-190).
THEOREM NotificationsSentOnce == Spec => []SentOnce
<1>1. DeliveryInv => SentOnce
  <2> SUFFICES ASSUME DeliveryInv, NEW i \in 1 .. Len(notes), notes[i].sends > 1, ~notes[i].shared
               PROVE  FALSE
    BY NoteFacts DEF SentOnce, DeliveryInv, NoteInv, NoteType
  <2>1. notes[i].sends \in Nat /\ notes[i].sends <= 1
    BY NoteFacts DEF DeliveryInv, NoteInv, SentInv, NoteType
  <2> QED  BY <2>1
<1> QED  BY <1>1, DeliveryInvariant, PTL
==============================================================================
