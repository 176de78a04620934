-------------------------------- MODULE Locker --------------------------------
(***************************************************************************)
(* What ports.Locker promises for one key: distributed mutual exclusion,    *)
(* with no tokens, leases or clocks.  A user enters only when the key is    *)
(* free and takes it by entering; the key may pass out of use, or be held   *)
(* by nobody inside, only while nobody is inside.                           *)
(***************************************************************************)
CONSTANT Users

VARIABLES
  free,   \* Acquire would succeed
  inside  \* users doing what the lock protects

Init ==
  /\ free = TRUE
  /\ inside = {}

Enter(u) ==
  /\ free
  /\ free' = FALSE
  /\ inside' = inside \cup { u }

\* A user that leaves may release the key at once, later or never.
Leave(u) ==
  /\ u \in inside
  /\ inside' = inside \ { u }
  /\ free' \in BOOLEAN

\* A late release, an expiry, or an answer that was lost.
Change ==
  /\ inside = {}
  /\ free' \in BOOLEAN
  /\ UNCHANGED inside

Next ==
  \/ \E u \in Users : Enter(u) \/ Leave(u)
  \/ Change

Spec == Init /\ [][Next]_<< free, inside >>
===============================================================================
