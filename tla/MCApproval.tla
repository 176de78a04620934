----------------------------- MODULE MCApproval -----------------------------
(***************************************************************************)
(* Model-checking instance of Approval: two calls at a time, three          *)
(* principals of whom one asked for the change, two approvals demanded.     *)
(***************************************************************************)
EXTENDS Approval, TLC

\* Calls are interchangeable.
CallSymmetry == Permutations(Calls)
===============================================================================
