------------------------------- MODULE MCLease -------------------------------
(***************************************************************************)
(* Model-checking instance of Lease: a lease of two units, cycles that fit  *)
(* into it and cycles that overrun it.                                      *)
(***************************************************************************)
EXTENDS Lease, TLC

\* Workers are interchangeable.
WorkerSymmetry == Permutations(Workers)
===============================================================================
