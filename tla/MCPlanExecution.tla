--------------------------- MODULE MCPlanExecution ---------------------------
(***************************************************************************)
(* Model-checking instances of PlanExecution.                              *)
(***************************************************************************)
EXTENDS PlanExecution, TLC

\* Calls are interchangeable.  Used only by runs without a liveness property.
CallSymmetry == Permutations(Calls)
===============================================================================
