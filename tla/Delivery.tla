------------------------------ MODULE Delivery ------------------------------
(***************************************************************************)
(* From an event to what is sent about it: the bus the deployment is       *)
(* configured with, in process or SQS, delivers events to the notification *)
(* dispatcher; a worker process drains the notifications that are left.    *)
(* The two meet in the repository alone, where each call is atomic and new *)
(* notifications come last, so a behaviour is one of the processes'.  A    *)
(* second subscriber of the in-process bus does what it likes.             *)
(***************************************************************************)
EXTENDS InProcessBus, SQSQueue, Notifications

CONSTANT Local   \* the process the in-process bus lives in

ASSUME Wiring ==
  /\ Alerts = Events /\ Processes = Consumers /\ Local \in Processes
  /\ \A m \in Messages \ Unreadable : EventOf[m] \in Alerts

VARIABLE bus     \* the bus of the process, "none" for the worker

vars == << bus, busVars, queueVars, noteVars >>

Dispatcher == 1

Init ==
  /\ bus \in { "inprocess", "aws", "none" } /\ BusInit /\ QueueInit
  /\ NoteInit(IF bus = "none" THEN Backlog ELSE << >>)

-------------------------------------------------------------------------------
InProcess == bus = "inprocess" /\ UNCHANGED << bus, queueVars >>

Publishes(e) == InProcess /\ (Counted(e) \/ Accepted(e) \/ Refused(e)) /\ UNCHANGED noteVars

Works(w) ==
  LET d == worker[w] IN
  /\ InProcess
  /\ \/ Take(w) /\ UNCHANGED noteVars
     \/ Quit(w) /\ UNCHANGED noteVars
     \/ d.sub = Dispatcher /\ Handled(w) /\ Dispatched(Local, d.event)
     \/ d.sub = Dispatcher /\ HandlerFails(w) /\ DispatchFails(Local, d.event)
     \/ d.sub # Dispatcher /\ (Handled(w) \/ HandlerFails(w)) /\ UNCHANGED noteVars

Closes == InProcess /\ Close /\ UNCHANGED noteVars

-------------------------------------------------------------------------------
OverSQS == bus = "aws" /\ UNCHANGED << bus, busVars >>

Queue ==
  /\ OverSQS /\ UNCHANGED noteVars
  /\ \E m \in Messages : Route(m) \/ Reappear(m) \/ Redrive(m)

Polls(c) ==
  /\ OverSQS
  /\ \/ Receive(c) /\ UNCHANGED noteVars
     \/ \E m \in Messages : (Leave(c, m) \/ Duplicate(c, m) \/ Begin(c, m)) /\ UNCHANGED noteVars
     \/ \E m \in Messages : Succeed(c, m) /\ Dispatched(c, EventOf[m])
     \/ \E m \in Messages : Fail(c, m) /\ DispatchFails(c, EventOf[m])

Restarts(c) == OverSQS /\ Restart(c) /\ Wiped(c)

-------------------------------------------------------------------------------
Elsewhere == bus = "none" /\ UNCHANGED << bus, busVars, queueVars >>

Drains(s) == Elsewhere /\ (Claim(s) \/ Sends(s) \/ SendFails(s))

Dies(s) == Elsewhere /\ SenderDies(s)

Next ==
  \/ \E e \in Events : Publishes(e)
  \/ \E w \in Workers : Works(w)
  \/ Closes \/ Queue
  \/ \E c \in Consumers : Polls(c) \/ Restarts(c)
  \/ \E s \in Senders : Drains(s) \/ Dies(s)

\* The worker's ticker keeps calling SendPending, which goes through what it claimed;
\* nothing else is sure to happen.
Spec == Init /\ [][Next]_vars /\ \A s \in Senders : WF_vars(Drains(s))

-------------------------------------------------------------------------------
\* Every variable of the three parts has its type.
TypeOK == BusTypeOK /\ QueueTypeOK /\ NoteTypeOK

HandledEvents == { e \in Events : << e, Dispatcher >> \in handled } \cup consumed

\* "A critical alert always gets through" (notify/doc.go:54-56): once the dispatcher has
\* returned success for a critical event there is a notification on each channel that admits
\* it, for it or for a repetition, unless an attempt before failed to store that channel's.
CriticalIsEnqueued ==
  \A e \in HandledEvents \cap Critical, c \in Range(Channels) :
    e \in Admits[c] =>
      \/ \E i \in 1 .. Len(notes) : notes[i].channel = c /\ SubjectOf[notes[i].event] = SubjectOf[e]
      \/ << SubjectOf[e], c >> \in stumbled

Waiting(i) == bus = "none" /\ i <= Len(notes) /\ notes[i].state = "pending"

\* The queue of notifications starves nobody: each one is sent or given up, though a sweep
\* takes only the oldest and leaves what may still succeed (notify/dispatcher.go:155-190).
NoticesSettle == \A i \in 1 .. Cardinality(Events) * Len(Channels) : Waiting(i) ~> ~Waiting(i)
==============================================================================
