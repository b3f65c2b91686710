-------------------------- MODULE MCCircuitBreaker --------------------------
(***************************************************************************)
(* The breaker of the governance process: an oversight call, and inside    *)
(* it the governance call it escalates to, pass the same breaker; a third  *)
(* call stands for what is still in flight after its timeout.              *)
(***************************************************************************)
EXTENDS CircuitBreaker, TLC

CONSTANTS c1, c2, c3

Symmetry == Permutations(Callers)
=============================================================================
