--------------------------- MODULE MCAutonomousLoop ---------------------------
(***************************************************************************)
(* Model-checking instances of AutonomousLoop, over the findings of         *)
(* MCRecommendations.                                                       *)
(***************************************************************************)
EXTENDS AutonomousLoop, MCRecommendations

\* Without an analysis to come nobody reads the estate, so states that differ in nothing
\* else are one.
LoopView ==
  << recs, [k \in DOMAIN plans |-> [plans[k] EXCEPT !.captured = "lean"]], ledger, proc,
     limits, losses, past, cycles >>
===============================================================================
