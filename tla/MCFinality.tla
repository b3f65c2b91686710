----------------------------- MODULE MCFinality -----------------------------
(***************************************************************************)
(* Finality on a small instance.                                           *)
(***************************************************************************)
EXTENDS Finality, TLC

CONSTANTS watchdog, governance, k1

Symmetry == Permutations({watchdog, governance})
=============================================================================
