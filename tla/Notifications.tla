--------------------------- MODULE Notifications ---------------------------
(***************************************************************************)
(* The notification dispatcher: Dispatch turns an event into one           *)
(* notification for each channel that is due one, SendPending drains the   *)
(* queue of notifications oldest first.  What was dispatched within the    *)
(* last minutes is remembered by each process; how often a notification    *)
(* was claimed is all the repository keeps of a send that did not end.     *)
(***************************************************************************)
EXTENDS Integers, Sequences, FiniteSets, Functions

CONSTANTS
  Alerts,        \* the events that may be dispatched
  SubjectOf,     \* an event's type and subject, as far as repetitions are concerned
  Critical,      \* the events rendered as critical
  Channels,      \* the channels subscribed to them, in the specification's order
  Admits,        \* the events each channel's severity filter lets through
  Processes,     \* processes that dispatch
  Senders,       \* workers that drain the queue
  BatchSize,     \* notifications a claim takes
  Backlog,       \* events and channels of the notifications left to be sent, oldest first
  MaxSends,      \* attempts after which a failure is final
  MaxMishaps     \* bound: sends whose outcome was not recorded, and senders that died

ASSUME NotificationData ==
  /\ Channels \in Seq(DOMAIN Admits) /\ DOMAIN SubjectOf = Alerts
  /\ Backlog \in Seq([event : Alerts, channel : Range(Channels)])
  /\ BatchSize \in Nat \ {0} /\ MaxSends \in Nat \ {0} /\ MaxMishaps \in Nat

VARIABLES
  recent,    \* the subjects and channels each process remembers
  notes,     \* the notifications, oldest first
  batch,     \* what each sender has claimed and not yet sent
  stumbled,  \* history: subjects and channels remembered without a notification
  mishaps   \* counted against its bound

noteVars == << recent, notes, batch, stumbled, mishaps >>

-------------------------------------------------------------------------------
\* Dispatch.

\* (mutant) quiet hours silence everything.
SilencedAll(e, quiet) == quiet

\* Quiet hours silence everything that is not critical.
Silenced(e, quiet) == quiet /\ e \notin Critical

\* The positions of the channels an event is due on: what is remembered may have aged.
Due(p, e) ==
  { { i \in 1 .. Len(Channels) : /\ e \in Admits[Channels[i]] /\ ~Silenced(e, quiet)
                                 /\ << SubjectOf[e], Channels[i] >> \notin recent[p] \ aged } :
      quiet \in BOOLEAN, aged \in SUBSET recent[p] }

Note(e, c) ==
  [ event |-> e, channel |-> c, state |-> "pending", attempts |-> 0, sends |-> 0, shared |-> FALSE ]

\* The positions of a set, in their order.
InOrder(positions) ==
  [ k \in 1 .. Cardinality(positions) |->
      CHOOSE i \in positions : Cardinality({ j \in positions : j <= i }) = k ]

NewNotes(e, positions) ==
  [ k \in 1 .. Cardinality(positions) |-> Note(e, Channels[InOrder(positions)[k]]) ]

NoteInit(left) ==
  /\ recent = [p \in Processes |-> {}]
  /\ notes = [ i \in 1 .. Len(left) |-> Note(left[i].event, left[i].channel) ]
  /\ batch = [s \in Senders |-> << >>] /\ stumbled = {} /\ mishaps = 0

Remember(p, e, positions) ==
  recent' = [recent EXCEPT ![p] = @ \cup { << SubjectOf[e], Channels[i] >> : i \in positions }]

Dispatched(p, e) ==
  /\ \E due \in Due(p, e) :
       notes' = notes \o NewNotes(e, due) /\ Remember(p, e, due)
  /\ UNCHANGED << batch, stumbled, mishaps >>

\* The specification cannot be loaded, or a channel's notification cannot be stored: the
\* channel is remembered by then, and the ones after it are not looked at.
DispatchFails(p, e) ==
  \/ UNCHANGED noteVars
  \/ \E due \in Due(p, e) : \E i \in due :
       /\ notes' = notes \o NewNotes(e, { j \in due : j < i })
       /\ Remember(p, e, { j \in due : j <= i })
       /\ stumbled' = stumbled \cup { << SubjectOf[e], Channels[i] >> }
       /\ UNCHANGED << batch, mishaps >>

\* A restart wipes what the process remembers.
Wiped(p) ==
  recent' = [recent EXCEPT ![p] = {}] /\ UNCHANGED << notes, batch, stumbled, mishaps >>

-------------------------------------------------------------------------------
\* SendPending.

\* (mutant) what was tried once is not taken again.
PendingUntried == { i \in 1 .. Len(notes) : notes[i].state = "pending" /\ notes[i].attempts = 0 }

Pending == { i \in 1 .. Len(notes) : notes[i].state = "pending" }

\* What one claim takes.
Oldest == { i \in Pending : Cardinality({ j \in Pending : j <= i }) <= BatchSize }

Claimed == UNION { { batch[s][k].note : k \in DOMAIN batch[s] } : s \in Senders }

\* The oldest are taken, with nothing but the count of attempts to show for it.
Claim(s) ==
  LET taken == InOrder(Oldest) IN
  /\ batch[s] = << >> /\ Pending # {}
  /\ batch' = [batch EXCEPT ![s] = [ k \in 1 .. Cardinality(Oldest) |->
                 [note |-> taken[k], attempts |-> notes[taken[k]].attempts + 1] ]]
  /\ notes' = [ i \in 1 .. Len(notes) |->
                  IF i \in Oldest
                  THEN [notes[i] EXCEPT !.attempts = @ + 1, !.shared = @ \/ i \in Claimed]
                  ELSE notes[i] ]
  /\ UNCHANGED << recent, stumbled, mishaps >>

Turn(s) == batch[s] # << >> /\ batch' = [batch EXCEPT ![s] = Tail(@)]

\* A mark that is refused, or that its worker did not live to make, leaves no trace.
Mark(s, state, sent) ==
  LET n == Head(batch[s]).note IN
  \/ notes' = [notes EXCEPT ![n].state = state, ![n].sends = @ + sent] /\ UNCHANGED mishaps
  \/ /\ mishaps < MaxMishaps /\ mishaps' = mishaps + 1
     /\ notes' = [notes EXCEPT ![n].sends = @ + sent, ![n].shared = TRUE]

\* (mutant) what was sent is left for the next sweep as well.
SendsUnmarked(s) ==
  /\ Turn(s) /\ notes' = [notes EXCEPT ![Head(batch[s]).note].sends = @ + 1]
  /\ UNCHANGED << recent, stumbled, mishaps >>

Sends(s) == Turn(s) /\ Mark(s, "sent", 1) /\ UNCHANGED << recent, stumbled >>

\* A failure that may pass is left for the next sweep, until the attempts this sender
\* claimed with are used up; one that may not pass is final.
SendFails(s) ==
  /\ Turn(s) /\ UNCHANGED << recent, stumbled >>
  /\ \/ Head(batch[s]).attempts < MaxSends /\ UNCHANGED << notes, mishaps >>
     \/ Mark(s, "failed", 0)

SenderDies(s) ==
  /\ batch[s] # << >> /\ batch' = [batch EXCEPT ![s] = << >>]
  /\ mishaps < MaxMishaps /\ mishaps' = mishaps + 1
  /\ UNCHANGED << recent, notes, stumbled >>

NoteTypeOK ==
  /\ recent \in [Processes -> SUBSET (Range(SubjectOf) \X Range(Channels))]
  /\ notes \in Seq([ event : Alerts, channel : Range(Channels), state : { "pending", "sent", "failed" },
                     attempts : Nat, sends : Nat, shared : BOOLEAN ])
  /\ \A s \in Senders : \A k \in DOMAIN batch[s] : batch[s][k].note \in 1 .. Len(notes)

\* A notification is sent once, unless a send could not be recorded or two senders had
\* claimed it (notify/dispatcher.go:155-190, memstore/notification.go:41-82).
SentOnce == \A i \in 1 .. Len(notes) : notes[i].sends > 1 => notes[i].shared
==============================================================================
