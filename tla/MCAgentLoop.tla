---------------------------- MODULE MCAgentLoop ----------------------------
(***************************************************************************)
(* Which loop plays which role.                                            *)
(***************************************************************************)
EXTENDS AgentLoop

CONSTANTS f1, f2, drifter, propagator, deltaer

MCrole == [l \in Loops |-> IF l \in {f1, f2} THEN "facts" ELSE
                           IF l = drifter THEN "drift" ELSE
                           IF l = propagator THEN "propagation" ELSE "deltas"]
=============================================================================
