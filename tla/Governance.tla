----------------------------- MODULE Governance -----------------------------
(***************************************************************************)
(* The vocabulary of governance decisions and the pure functions that take *)
(* them: the five phases of the cycle, drift levels, governance levels,    *)
(* the product lattice of governance level and convergence rank, and the   *)
(* reduction kernel of sgrs-core.                                          *)
(*                                                                         *)
(* Reasons and suggested actions are carried only as far as a caller tells *)
(* them apart (the policy block, the lattice block, the mode).             *)
(***************************************************************************)
EXTENDS Integers

(***************************************************************************)
(* The cycle of src/stateGraph.ts, in the order it is walked.              *)
(***************************************************************************)
Nodes == {"ContextIngested", "FactsExtracted", "DriftChecked",
          "EvidencePropagated", "DeltasExtracted"}

transitions ==
  [n \in Nodes |->
     IF n = "ContextIngested"    THEN "FactsExtracted"     ELSE
     IF n = "FactsExtracted"     THEN "DriftChecked"       ELSE
     IF n = "DriftChecked"       THEN "EvidencePropagated" ELSE
     IF n = "EvidencePropagated" THEN "DeltasExtracted"
                                 ELSE "ContextIngested"]

(***************************************************************************)
(* The node n steps into the cycle.                                        *)
(***************************************************************************)
Phases == <<"ContextIngested", "FactsExtracted", "DriftChecked",
            "EvidencePropagated", "DeltasExtracted">>
NodeAt(n) == Phases[(n % 5) + 1]

-----------------------------------------------------------------------------
(***************************************************************************)
(* Drift levels, in order of severity.  An unknown string parses to        *)
(* "none".                                                                 *)
(***************************************************************************)
DriftLevels == {"none", "low", "medium", "high", "critical"}

severity(d) ==
  IF d = "critical" THEN 4 ELSE IF d = "high" THEN 3 ELSE
  IF d = "medium"   THEN 2 ELSE IF d = "low"  THEN 1 ELSE 0

(***************************************************************************)
(* Governance levels, in order of permissiveness.                          *)
(***************************************************************************)
Modes == {"MASTER", "MITL", "YOLO"}

permissiveness(m) == IF m = "YOLO" THEN 2 ELSE IF m = "MITL" THEN 1 ELSE 0

-----------------------------------------------------------------------------
(***************************************************************************)
(* Rules.  A transition rule blocks one edge at some drift levels.  The    *)
(* order of the rules decides only which reason is reported, so a rule     *)
(* base is a set.                                                          *)
(***************************************************************************)
TransitionRule == [from : Nodes, to : Nodes, block_when : SUBSET DriftLevels]

\* Mutant: a rule blocks the levels it does not name.
can_transition_Inverted(from, to, drift, rules) ==
  ~ \E r \in rules : r.from = from /\ r.to = to /\ drift \notin r.block_when

can_transition(from, to, drift, rules) ==
  ~ \E r \in rules : r.from = from /\ r.to = to /\ drift \in r.block_when

(***************************************************************************)
(* The transition rules of governance.yaml.                                *)
(***************************************************************************)
ShippedRules ==
  {[from |-> "DriftChecked", to |-> "EvidencePropagated",
    block_when |-> {"high", "critical"}],
   [from |-> "EvidencePropagated", to |-> "DeltasExtracted",
    block_when |-> {"high", "critical"}],
   [from |-> "DriftChecked", to |-> "ContextIngested",
    block_when |-> {"high", "critical"}]}

-----------------------------------------------------------------------------
(***************************************************************************)
(* The product lattice M = L x A.  A rank gives each dimension a number;   *)
(* Eps is the tolerance of its comparisons, in the same unit.              *)
(***************************************************************************)
dominates(a, b, Eps) == \A i \in DOMAIN a : a[i] >= b[i] - Eps

improves(before, after, Eps) == \E i \in DOMAIN before : after[i] - before[i] > Eps

Admissibility == {"Unchecked", "Admissible", "GovernanceViolation",
                  "ConvergenceViolation", "Incomparable", "BothViolated"}

\* Mutant: any dimension that gained makes up for those that lost.
check_transition_Tradeoff(before, after, same_epoch, Eps) ==
  LET gov_ok == permissiveness(after.governance) <= permissiveness(before.governance)
      falls  == same_epoch /\ ~ dominates(after.rank, before.rank, Eps)
                           /\ ~ improves(before.rank, after.rank, Eps)
  IN  IF falls THEN (IF gov_ok THEN "ConvergenceViolation" ELSE "BothViolated")
               ELSE (IF gov_ok THEN "Admissible" ELSE "GovernanceViolation")

\* Mutant: the level is compared only when the rank falls.
check_transition_NoLevel(before, after, same_epoch, Eps) ==
  LET gov_ok == permissiveness(after.governance) <= permissiveness(before.governance)
      falls  == same_epoch /\ ~ dominates(after.rank, before.rank, Eps)
  IN  IF falls /\ ~ gov_ok THEN "BothViolated" ELSE
      IF falls THEN (IF improves(before.rank, after.rank, Eps)
                       THEN "Incomparable" ELSE "ConvergenceViolation")
               ELSE "Admissible"

(***************************************************************************)
(* Governance may not ascend; within an epoch no dimension may fall.       *)
(***************************************************************************)
check_transition(before, after, same_epoch, Eps) ==
  LET gov_ok == permissiveness(after.governance) <= permissiveness(before.governance)
      falls  == same_epoch /\ ~ dominates(after.rank, before.rank, Eps)
  IN  IF falls /\ ~ gov_ok THEN "BothViolated" ELSE
      IF falls THEN (IF improves(before.rank, after.rank, Eps)
                       THEN "Incomparable" ELSE "ConvergenceViolation")
               ELSE (IF gov_ok THEN "Admissible" ELSE "GovernanceViolation")

(***************************************************************************)
(* The reduction kernel.  `allowed' is can_transition's answer and         *)
(* `lattice' the admissibility of the step, "Unchecked" when the input     *)
(* carries no lattice points.                                              *)
(***************************************************************************)
Verdicts == {"accept", "reject", "escalate"}

ByMode(mode) ==
  IF mode = "MASTER" THEN "reject" ELSE IF mode = "MITL" THEN "escalate" ELSE "accept"

\* Mutant: what the policy passes is accepted, whatever the mode.
evaluate_kernel_NoRouting(allowed, lattice, mode) ==
  IF ~ allowed THEN [verdict |-> ByMode(mode), reason |-> "policy_block"]
  ELSE IF lattice \in {"GovernanceViolation", "BothViolated"}
       THEN [verdict |-> "reject", reason |-> "lattice_violation"]
  ELSE IF lattice \in {"ConvergenceViolation", "Incomparable"}
       THEN [verdict |-> ByMode(mode), reason |-> "lattice_regression"]
  ELSE [verdict |-> "accept", reason |-> "policy_passed"]

evaluate_kernel(allowed, lattice, mode) ==
  IF ~ allowed THEN [verdict |-> ByMode(mode), reason |-> "policy_block"]
  ELSE IF lattice \in {"GovernanceViolation", "BothViolated"}
       THEN [verdict |-> "reject", reason |-> "lattice_violation"]
  ELSE IF lattice \in {"ConvergenceViolation", "Incomparable"}
       THEN [verdict |-> ByMode(mode), reason |-> "lattice_regression"]
  ELSE IF mode = "MITL" THEN [verdict |-> "escalate", reason |-> "mitl_required"]
                        ELSE [verdict |-> "accept", reason |-> "policy_passed"]
=============================================================================
