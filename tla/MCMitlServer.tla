---------------------------- MODULE MCMitlServer ----------------------------
(***************************************************************************)
(* The queue with two requests in flight.                                  *)
(***************************************************************************)
EXTENDS MitlServer, TLC

CONSTANTS r1, r2

OwnPrefix == {<<s, s>> : s \in Scopes}
=============================================================================
