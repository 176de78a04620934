-------------------------- MODULE MCRecommendations --------------------------
(***************************************************************************)
(* Model-checking instances of Recommendations: the findings and their     *)
(* data.                                                                   *)
(***************************************************************************)
EXTENDS Recommendations, TLC

CONSTANTS f1, f2, r1, r2   \* two findings; r1 = r2 makes them alternatives

MCFindings   == { f1, f2 }
MCResourceOf == (f1 :> r1) @@ (f2 :> r2)
MCPriority   == (f1 :> 2) @@ (f2 :> 1)
MCSaving     == (f1 :> 2) @@ (f2 :> 1)

CallerSymmetry == Permutations(Callers)
==============================================================================
