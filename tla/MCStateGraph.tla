---------------------------- MODULE MCStateGraph ----------------------------
(***************************************************************************)
(* StateGraph on small instances, and the mutants of its actions.          *)
(***************************************************************************)
EXTENDS StateGraph, TLC

CONSTANTS c1, c2

CalmAndHigh == {"none", "high"}
HeadOfCycle == {"ContextIngested"}
Symmetry == Permutations(Callers)
=============================================================================
