----------------------------- MODULE MCDiscovery -----------------------------
(***************************************************************************)
(* A model-checking instance of Discovery: two services of one region, the *)
(* first with two related resources, one of which is also related to the   *)
(* resource of the second.                                                 *)
(***************************************************************************)
EXTENDS Discovery, TLC

CONSTANTS a1, a2, b1, ja, jb, r1, r2

MCKeys     == { a1, a2, b1 }
MCAccounts == { MCKeys, { a1, b1 } }
MCLinks    == { << a1, a2 >>, << a1, b1 >> }
MCJobs     == { ja, jb }
MCJobOf    == (a1 :> ja) @@ (a2 :> ja) @@ (b1 :> jb)
MCRegionOf == (ja :> r1) @@ (jb :> r2)
==============================================================================
