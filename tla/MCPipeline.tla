----------------------------- MODULE MCPipeline -----------------------------
(***************************************************************************)
(* The pipeline on small instances.  Which edge a rule blocks is a matter  *)
(* of configuration; the first edge keeps the runs short.                  *)
(***************************************************************************)
EXTENDS Pipeline, TLC

CONSTANTS g1, g2, x1, x2

FirstEdge   == {[from |-> "ContextIngested", to |-> "FactsExtracted",
                 block_when |-> {"high", "critical"}]}
CalmAndHigh == {"none", "high"}
Symmetry    == Permutations({g1, g2}) \cup Permutations({x1, x2})
=============================================================================
