---------------------------- MODULE MCOversight -----------------------------
(***************************************************************************)
(* The code allows 3 steps, 8 steps and 3 deliveries; a governance model   *)
(* decides or is refused an approval in a step, and three steps let it do  *)
(* so in any order.                                                        *)
(***************************************************************************)
EXTENDS Oversight
=============================================================================
