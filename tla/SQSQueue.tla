------------------------------ MODULE SQSQueue ------------------------------
(***************************************************************************)
(* The SQS side of the event bus.  The queue, external, hands a message to *)
(* a consumer, hides it for the visibility timeout, shows it again unless   *)
(* it was deleted, and moves it to its dead-letter queue when it was       *)
(* received too often.  A consumer leaves what it cannot read, deletes what *)
(* it takes for a redelivery, and otherwise runs the handler and deletes   *)
(* the message if that succeeds.  What it takes for a redelivery is what    *)
(* this process has seen within the window, whatever became of it.         *)
(***************************************************************************)
EXTENDS Integers

CONSTANTS
  Consumers,    \* processes that poll the queue
  Messages,     \* messages that may be on it
  EventOf,      \* the event in a message; several may carry one
  Keyed,        \* the events that carry an idempotency key
  Unreadable,   \* the messages with no event, with no tenant, or of another type
  MaxReceives,  \* the queue's redrive limit
  MaxLapses,    \* bound: messages shown again while their handler runs
  MaxRestarts   \* bound: restarts of consumers

ASSUME QueueData ==
  /\ Unreadable \subseteq Messages
  /\ MaxReceives \in Nat \ {0} /\ MaxLapses \in Nat /\ MaxRestarts \in Nat

VARIABLES
  msg,       \* where each message is
  receives,  \* how often it was received
  work,      \* what each consumer does with each message
  cache,     \* the idempotency keys each consumer has seen
  consumed,  \* history: the events whose handler succeeded
  failed,    \* history: the events whose handler failed or was cut off
  lapses, restarts

queueVars == << msg, receives, work, cache, consumed, failed, lapses, restarts >>

NoWork == [m \in Messages |-> "none"]

QueueInit ==
  /\ msg = [m \in Messages |-> "unsent"] /\ receives = [m \in Messages |-> 0]
  /\ work = [c \in Consumers |-> NoWork] /\ cache = [c \in Consumers |-> {}]
  /\ consumed = {} /\ failed = {} /\ lapses = 0 /\ restarts = 0

Put(m, place) == msg' = [msg EXCEPT ![m] = place]
Do(c, m, what) == work' = [work EXCEPT ![c][m] = what]
Handling(m) == { c \in Consumers : work[c][m] = "handling" }

\* EventBridge, external, routes a published event to the queue.
Route(m) ==
  /\ msg[m] = "unsent" /\ Put(m, "visible")
  /\ UNCHANGED << receives, work, cache, consumed, failed, lapses, restarts >>

\* A consumer polls again only when it has dealt with the whole batch.
Receive(c) ==
  /\ work[c] = NoWork
  /\ \E batch \in (SUBSET { m \in Messages : msg[m] = "visible" /\ receives[m] < MaxReceives }) \ {{}} :
       /\ msg' = [m \in Messages |-> IF m \in batch THEN "hidden" ELSE msg[m]]
       /\ receives' = [m \in Messages |-> IF m \in batch THEN receives[m] + 1 ELSE receives[m]]
       /\ work' = [work EXCEPT ![c] = [m \in Messages |-> IF m \in batch THEN "fetched" ELSE "none"]]
  /\ UNCHANGED << cache, consumed, failed, lapses, restarts >>

\* Deleting may fail, which is only logged.
Delete(m) == Put(m, "deleted") \/ UNCHANGED msg

\* (mutant) a message that cannot be read is acknowledged.
LeaveNothing(c, m) ==
  /\ work[c][m] = "fetched" /\ m \in Unreadable /\ Do(c, m, "none") /\ Delete(m)
  /\ UNCHANGED << receives, cache, consumed, failed, lapses, restarts >>

\* Unparsable, without a tenant, or for somebody else: left to the queue.
Leave(c, m) ==
  /\ work[c][m] = "fetched" /\ m \in Unreadable /\ Do(c, m, "none")
  /\ UNCHANGED << msg, receives, cache, consumed, failed, lapses, restarts >>

Duplicate(c, m) ==
  /\ work[c][m] = "fetched" /\ m \notin Unreadable /\ EventOf[m] \in cache[c]
  /\ Do(c, m, "none") /\ Delete(m)
  /\ UNCHANGED << receives, cache, consumed, failed, lapses, restarts >>

\* A key that is not there, or whose window has passed.  Looking it up is what records it,
\* before the handler runs.
Begin(c, m) ==
  /\ work[c][m] = "fetched" /\ m \notin Unreadable
  /\ cache' = [cache EXCEPT ![c] = @ \cup ({ EventOf[m] } \cap Keyed)] /\ Do(c, m, "handling")
  /\ UNCHANGED << msg, receives, consumed, failed, lapses, restarts >>

\* The handler has returned.
Succeed(c, m) ==
  /\ work[c][m] = "handling" /\ Do(c, m, "none") /\ Delete(m)
  /\ consumed' = consumed \cup { EventOf[m] }
  /\ UNCHANGED << receives, cache, failed, lapses, restarts >>

Fail(c, m) ==
  /\ work[c][m] = "handling" /\ Do(c, m, "none")
  /\ failed' = failed \cup { EventOf[m] }
  /\ UNCHANGED << msg, receives, cache, consumed, lapses, restarts >>

\* The visibility timeout: of a message nobody deals with any more, or of one whose
\* extension failed while its handler runs.
Reappear(m) ==
  /\ msg[m] = "hidden" /\ Put(m, "visible")
  /\ \/ (\A c \in Consumers : work[c][m] = "none") /\ UNCHANGED lapses
     \/ Handling(m) # {} /\ lapses < MaxLapses /\ lapses' = lapses + 1
  /\ UNCHANGED << receives, work, cache, consumed, failed, restarts >>

Redrive(m) ==
  /\ msg[m] = "visible" /\ receives[m] = MaxReceives /\ Put(m, "dead")
  /\ UNCHANGED << receives, work, cache, consumed, failed, lapses, restarts >>

Restart(c) ==
  /\ restarts < MaxRestarts /\ restarts' = restarts + 1
  /\ cache' = [cache EXCEPT ![c] = {}] /\ work' = [work EXCEPT ![c] = NoWork]
  /\ failed' = failed \cup { EventOf[m] : m \in { x \in Messages : work[c][x] = "handling" } }
  /\ UNCHANGED << msg, receives, consumed, lapses >>

QueueTypeOK ==
  /\ msg \in [Messages -> { "unsent", "visible", "hidden", "deleted", "dead" }]
  /\ receives \in [Messages -> 0 .. MaxReceives]
  /\ work \in [Consumers -> [Messages -> { "none", "fetched", "handling" }]]
  /\ \A c \in Consumers : \A m \in Messages : work[c][m] = "handling" => m \notin Unreadable

\* The events some consumer is handling.
Underway == { EventOf[m] : m \in { x \in Messages : Handling(x) # {} } }

\* A message leaves the queue only for the sake of its event: what cannot be read is never
\* deleted, and what was deleted has been handled, is being handled, or was handled without
\* success (events/sqs.go:128-164).
DeletedWasTried ==
  \A m \in Messages : msg[m] = "deleted" =>
    m \notin Unreadable /\ EventOf[m] \in consumed \cup failed \cup Underway
==============================================================================
