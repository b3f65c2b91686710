---------------------------- MODULE Convergence ----------------------------
(***************************************************************************)
(* The arithmetic of finality: dimension scores of a snapshot, the goal    *)
(* score, the Lyapunov function V, the analysis of a history of points     *)
(* (sgrs-core/src/convergence) and the vector predicate                    *)
(* (sgrs-core/src/finality/vector.rs).                                     *)
(*                                                                         *)
(* Scores are percentages.  Claims, goals and risk are one dimension,      *)
(* "quality", that carries their three weights.  Autocorrelation is not    *)
(* computed: `swings' names the dimensions where it is below its           *)
(* threshold, which only a history with a fall in it can reach.            *)
(***************************************************************************)
EXTENDS Integers, Sequences, FiniteSets

CONSTANTS
  Beta,             \* points that may not fall before an automatic resolution
  Depth             \* points that are loaded

ASSUME HistoryAssumption == Beta \in Nat \ {0} /\ Depth \in Nat /\ Beta <= Depth

Dimensions == {"contradictions", "quality"}
Percent    == 0..100
Point      == [contradictions : Percent, quality : Percent]

weight    == [contradictions |-> 30, quality |-> 70]
threshold == [contradictions |-> 95, quality |-> 85]
epsilon   == [contradictions |-> 1,  quality |-> 2]
required  == Dimensions
veto      == {"contradictions"}

\* In hundredths of a percent, as goal_score is.
AutoThreshold == 9200
NearThreshold == 4000
Tolerance     == 10

-----------------------------------------------------------------------------
dimension_scores(open, total, quality) ==
  [contradictions |-> IF total = 0 THEN 100 ELSE 100 - (100 * open) \div total,
   quality |-> quality]

goal_score(p) == weight["contradictions"] * p["contradictions"] + weight["quality"] * p["quality"]

lyapunov_v(p) ==
  LET gap(d) == 100 - p[d]
  IN  weight["contradictions"] * gap("contradictions") * gap("contradictions")
        + weight["quality"] * gap("quality") * gap("quality")

-----------------------------------------------------------------------------
LastOf(h, n) == SubSeq(h, IF Len(h) > n THEN Len(h) - n + 1 ELSE 1, Len(h))

Scores(h, d)  == [i \in DOMAIN h |-> h[i][d]]
Goals(h)      == [i \in DOMAIN h |-> goal_score(h[i])]

(***************************************************************************)
(* Gate A, on goal scores and per dimension.                               *)
(***************************************************************************)
NonDecreasing(s, beta, slack) ==
  LET w == LastOf(s, beta)
  IN  Len(s) >= beta /\ \A i \in 2..Len(w) : w[i] >= w[i - 1] - slack

\* Mutant: a history shorter than Beta is taken for a monotone one.
per_dimension_monotonic_Short(h) ==
  {d \in Dimensions : Len(h) < Beta \/ NonDecreasing(Scores(h, d), Beta, 0)}

per_dimension_monotonic(h) ==
  {d \in Dimensions : NonDecreasing(Scores(h, d), Beta, 0)}

direction_changes(s) ==
  Cardinality({i \in 3..Len(s) : (s[i - 1] - s[i - 2]) * (s[i] - s[i - 1]) < 0})

(***************************************************************************)
(* Gate C: a quality of 0.7 survives two changes of direction, not three,  *)
(* and no oscillation that the autocorrelation shows.                      *)
(***************************************************************************)
trajectory_ok(s, swings) ==
  LET w == LastOf(s, 10)
  IN  direction_changes(w) <= 2 /\ ~ (swings /\ \E i \in 2..Len(w) : w[i] < w[i - 1])

per_dimension_trajectory(h, swings) ==
  {d \in Dimensions : trajectory_ok(Scores(h, d), d \in swings)}

(***************************************************************************)
(* The mean of -ln(V(t) / V(t-1)) over the last five points is below       *)
(* -0.05.  A step from V = 0 has no ratio; a step to V = 0 counts as 23    *)
(* and outweighs the rest; otherwise the sum telescopes.                   *)
(***************************************************************************)
e_to_5_percent == <<1051, 1105, 1162, 1221, 1284>>

diverges(h) ==
  LET n      == Len(h)
      v(i)   == lyapunov_v(h[i])
      ratios == {i \in 2..n : i > n - 5 /\ v(i - 1) > 0}
  IN  /\ n >= 3 /\ ratios # {}
      /\ \A i \in ratios : v(i) > 0
      /\ LET first == CHOOSE i \in ratios : \A j \in ratios : i <= j
         IN  1000 * v(n) > e_to_5_percent[Cardinality(ratios)] * v(first - 1)

-----------------------------------------------------------------------------
dimension_final(p, d) == threshold[d] - p[d] <= epsilon[d]

passed(p, monotonic, trajectory) ==
  {d \in Dimensions : dimension_final(p, d) /\ d \in monotonic /\ d \in trajectory}

(***************************************************************************)
(* Every required dimension passes, none with a veto fails, and the        *)
(* global gates: evidence (no contradiction open), quiescence (switched    *)
(* off in finality.yaml) and content.                                      *)
(***************************************************************************)
vector_final(p, monotonic, trajectory, content) ==
  /\ required \cup veto \subseteq passed(p, monotonic, trajectory)
  /\ p["contradictions"] = 100
  /\ content
=============================================================================
