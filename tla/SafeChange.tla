------------------------------ MODULE SafeChange ------------------------------
(***************************************************************************)
(* What the automation package promises about one AWS resource, with no     *)
(* plans, steps or stores: the resource is changed by whoever holds the     *)
(* change lock, once the change has been permitted and the state to return  *)
(* to has been captured, and only the holder may undo it.                   *)
(***************************************************************************)
CONSTANTS Actors, Nobody

VARIABLES
  holder,     \* who holds the right to change the resource
  permitted,  \* the change has been authorised
  captured,   \* the holder has the resource's prior state
  altered     \* the resource differs from its prior state

Init ==
  /\ holder = Nobody
  /\ permitted \in BOOLEAN
  /\ captured = FALSE
  /\ altered = FALSE

\* The holder may arrive with the state captured by an earlier attempt.
Take ==
  /\ holder = Nobody
  /\ holder' \in Actors
  /\ captured' \in BOOLEAN
  /\ UNCHANGED << permitted, altered >>

Permit ==
  /\ permitted' = TRUE
  /\ UNCHANGED << holder, captured, altered >>

Capture ==
  /\ holder \in Actors
  /\ captured' = TRUE
  /\ UNCHANGED << holder, permitted, altered >>

Alter ==
  /\ holder \in Actors
  /\ permitted
  /\ captured
  /\ altered' = TRUE
  /\ UNCHANGED << holder, permitted, captured >>

Undo ==
  /\ holder \in Actors
  /\ altered' = FALSE
  /\ UNCHANGED << holder, permitted, captured >>

\* The holder drops its copy of the prior state, and may then leave or die.
Drop ==
  /\ captured' = FALSE
  /\ holder' \in { holder, Nobody }
  /\ UNCHANGED << permitted, altered >>

Next == Take \/ Permit \/ Capture \/ Alter \/ Undo \/ Drop

Spec == Init /\ [][Next]_<< holder, permitted, captured, altered >>
===============================================================================
