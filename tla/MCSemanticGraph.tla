-------------------------- MODULE MCSemanticGraph ---------------------------
(***************************************************************************)
(* Two extractions at a time, one resolution and one evaluation of goals,  *)
(* over one claim and one goal.  Wordings w1 and w2 are taken for one text *)
(* but are stored as two when two extractions miss each other's.           *)
(***************************************************************************)
EXTENDS SemanticGraph, TLC

CONSTANTS a, g, w1, w2, s1, s2, r1, e1

All   == Wordings \X Wordings
About == (w1 :> <<a>>) @@ (w2 :> <<>>)

Likely   == [claims |-> {a}, goals |-> {}, contradictions |-> {w1}, confidence |-> 2]
Other    == [claims |-> {a}, goals |-> {}, contradictions |-> {w2}, confidence |-> 1]
Unlikely == [claims |-> {}, goals |-> {g}, contradictions |-> {}, confidence |-> 0]
Sayings  == {Likely, Other, Unlikely}

Symmetry == Permutations({s1, s2})
=============================================================================
