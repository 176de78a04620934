---------------------------- MODULE InProcessBus ----------------------------
(***************************************************************************)
(* The in-process event bus: publishers put events on a bounded queue, a   *)
(* pool of workers delivers each to every subscriber that wants it, one    *)
(* after the other, each with a retry budget of its own, and Close waits   *)
(* for what is in flight before it stops the pool.  What a handler does is *)
(* left to the module that composes the bus with one.                      *)
(***************************************************************************)
EXTENDS Integers, Sequences

CONSTANTS
  Events,         \* events that may be published
  Workers,        \* the worker pool
  Subs,           \* number of subscribers, in the order they registered
  Wants,          \* the events each subscriber takes
  Capacity,       \* capacity of the queue
  MaxAttempts     \* deliveries of one event to one subscriber

Subscribers == 1 .. Subs

ASSUME BusData ==
  /\ Subs \in Nat /\ Wants \in [Subscribers -> SUBSET Events]
  /\ Capacity \in Nat \ {0} /\ MaxAttempts \in Nat \ {0}

VARIABLES
  pub,       \* what Publish has come to for each event
  queue,     \* the channel
  worker,    \* what each worker delivers
  inFlight,  \* the wait group
  closer,    \* how far Close has come
  handled,   \* pairs of an event and a subscriber whose handler succeeded
  letters,   \* the dead letters
  owed       \* history: events accepted before Close was called

busVars == << pub, queue, worker, inFlight, closer, handled, letters, owed >>

Idle == [event |-> "none", sub |-> 0, attempt |-> 0]
Gone == [event |-> "gone", sub |-> 0, attempt |-> 0]
Busy == { w \in Workers : worker[w] \notin { Idle, Gone } }

BusInit ==
  /\ pub = [e \in Events |-> "unpublished"] /\ queue = << >>
  /\ worker = [w \in Workers |-> Idle] /\ inFlight = 0 /\ closer = "open"
  /\ handled = {} /\ letters = {} /\ owed = {}

\* (mutant) the event is only counted once it is on the queue.
CountedLate(e) ==
  /\ pub[e] = "unpublished" /\ pub' = [pub EXCEPT ![e] = "counted"]
  /\ UNCHANGED << queue, worker, inFlight, closer, handled, letters, owed >>

\* Publish counts the event before it offers it.
Counted(e) ==
  /\ pub[e] = "unpublished" /\ pub' = [pub EXCEPT ![e] = "counted"]
  /\ inFlight' = inFlight + 1
  /\ UNCHANGED << queue, worker, closer, handled, letters, owed >>

\* (mutant) the queue is not bounded.
AcceptedUnbounded(e) ==
  /\ pub[e] = "counted"
  /\ queue' = Append(queue, e) /\ pub' = [pub EXCEPT ![e] = "accepted"]
  /\ owed' = IF closer = "open" THEN owed \cup {e} ELSE owed
  /\ UNCHANGED << worker, inFlight, closer, handled, letters >>

\* A bus that is closed may still take the event: the select has two ready cases.
Accepted(e) ==
  /\ pub[e] = "counted" /\ Len(queue) < Capacity
  /\ queue' = Append(queue, e) /\ pub' = [pub EXCEPT ![e] = "accepted"]
  /\ owed' = IF closer = "open" THEN owed \cup {e} ELSE owed
  /\ UNCHANGED << worker, inFlight, closer, handled, letters >>

\* The publisher's context ends, or the bus is closed.
Refused(e) ==
  /\ pub[e] = "counted" /\ pub' = [pub EXCEPT ![e] = "refused"]
  /\ inFlight' = inFlight - 1
  /\ UNCHANGED << queue, worker, closer, handled, letters, owed >>

\* The next subscriber after i that wants e, none when there is no other.
NextFor(e, i) == { j \in Subscribers : j > i /\ e \in Wants[j] /\
                                       \A k \in (i + 1) .. (j - 1) : e \notin Wants[k] }

\* The worker turns to the next subscriber; after the last the event is done.
MoveOn(w, e, i) ==
  \/ \E j \in NextFor(e, i) :
       /\ worker' = [worker EXCEPT ![w] = [event |-> e, sub |-> j, attempt |-> 1]]
       /\ UNCHANGED inFlight
  \/ /\ NextFor(e, i) = {}
     /\ worker' = [worker EXCEPT ![w] = Idle] /\ inFlight' = inFlight - 1

Take(w) ==
  /\ worker[w] = Idle /\ queue # << >>
  /\ queue' = Tail(queue) /\ MoveOn(w, Head(queue), 0)
  /\ UNCHANGED << pub, closer, handled, letters, owed >>

\* One call of the handler of the subscriber the worker is at.
Handled(w) ==
  LET d == worker[w] IN
  /\ w \in Busy /\ handled' = handled \cup { << d.event, d.sub >> }
  /\ MoveOn(w, d.event, d.sub)
  /\ UNCHANGED << pub, queue, closer, letters, owed >>

HandlerFails(w) ==
  LET d == worker[w] IN
  /\ w \in Busy
  /\ \/ /\ d.attempt < MaxAttempts
        /\ worker' = [worker EXCEPT ![w].attempt = @ + 1] /\ UNCHANGED << letters, inFlight >>
     \/ /\ d.attempt = MaxAttempts /\ letters' = letters \cup { << d.event, d.sub >> }
        /\ MoveOn(w, d.event, d.sub)
  /\ UNCHANGED << pub, queue, closer, handled, owed >>

Quit(w) ==
  /\ worker[w] = Idle /\ closer = "closed" /\ worker' = [worker EXCEPT ![w] = Gone]
  /\ UNCHANGED << pub, queue, inFlight, closer, handled, letters, owed >>

\* Close waits for the count to reach zero, and only then closes the stop channel.
Close ==
  /\ \/ closer = "open" /\ closer' = "waiting"
     \/ closer = "waiting" /\ inFlight = 0 /\ closer' = "drained"
     \/ closer = "drained" /\ closer' = "closed"
  /\ UNCHANGED << pub, queue, worker, inFlight, handled, letters, owed >>

BusTypeOK ==
  /\ pub \in [Events -> { "unpublished", "counted", "accepted", "refused" }]
  /\ queue \in Seq(Events) /\ Len(queue) <= Capacity /\ inFlight \in Nat
  /\ closer \in { "open", "waiting", "drained", "closed" }
  /\ \A w \in Workers : worker[w] \in { Idle, Gone } \/ worker[w].attempt \in 1 .. MaxAttempts
  /\ handled \subseteq Events \X Subscribers /\ letters \subseteq Events \X Subscribers

\* Close drains what was queued when it was called: once the stop channel is closed, each
\* event accepted before is handled or dead-lettered for every subscriber that wants it, and
\* for none of them both (events/inprocess.go:124-135).
CloseDrains ==
  closer = "closed" =>
    \A e \in owed, i \in Subscribers :
      e \in Wants[i] => (<< e, i >> \in handled) # (<< e, i >> \in letters)
==============================================================================
