----------------------------- MODULE MCHatchery -----------------------------
(***************************************************************************)
(* One agent at least and two at most, as for the default roles            *)
(* (src/hatcheryConfig.ts), and two requests at a time, so that a pause    *)
(* overlaps a rebind.                                                      *)
(***************************************************************************)
EXTENDS Hatchery

CONSTANTS s1, s2, r1, r2

TwoAgents == 1..2
=============================================================================
