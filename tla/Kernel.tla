------------------------------- MODULE Kernel -------------------------------
(***************************************************************************)
(* The reduction kernel of sgrs-core used step after step: a scope stands  *)
(* at a point of the lattice M = L x A, each proposal names an edge of the *)
(* cycle, a drift level, a mode and the point the scope would move to, and *)
(* the scope moves there when the kernel accepts.  evaluate_kernel itself  *)
(* is pure; the walk is how its callers use it (bridge.rs, and the driver  *)
(* of experiment 9), and shows what many accepted steps add up to.         *)
(*                                                                         *)
(* Ranks are integers and Eps the tolerance in the same unit; the code's   *)
(* are floats in [0,1] with EPSILON = 0.001.  Not modelled: the Eliminate  *)
(* verdict, which no path of evaluate_kernel produces.  The names of the   *)
(* parts leave room for another component in a module of proofs.           *)
(***************************************************************************)
EXTENDS Governance

CONSTANTS
  Dims,             \* dimensions of the convergence rank
  MaxScore,         \* a score is in 0..MaxScore
  Eps,              \* tolerance of the comparisons
  Rules,            \* transition rules
  ModesUsed,        \* the modes proposals carry
  MaxSteps          \* bound: accepted steps within one epoch

ASSUME ScoreAssumption == MaxScore \in Nat /\ Eps \in Nat /\ MaxSteps \in Nat
ASSUME ModesAssumption == ModesUsed \subseteq Modes
ASSUME RulesAssumption == Rules \subseteq TransitionRule

Ranks  == [Dims -> 0..MaxScore]
Points == [governance : Modes, rank : Ranks]

VARIABLES point,    \* where the scope stands
          start,    \* its rank when the epoch began
          steps     \* steps accepted since

walk == <<point, start, steps>>

(***************************************************************************)
(* What the kernel answers to a proposal.                                  *)
(***************************************************************************)
Verdict(p, same_epoch, n, d, mode) ==
  evaluate_kernel(can_transition(n, transitions[n], d, Rules),
                  check_transition(point, p, same_epoch, Eps), mode).verdict

KernelInit == \E p \in Points : point = p /\ start = p.rank /\ steps = 0

(***************************************************************************)
(* A proposal within the epoch is accepted.                                *)
(***************************************************************************)
Advance(p, n, d, mode) ==
  /\ steps < MaxSteps
  /\ Verdict(p, TRUE, n, d, mode) = "accept"
  /\ point' = p
  /\ steps' = steps + 1
  /\ UNCHANGED start

(***************************************************************************)
(* New context opens an epoch: the rank may spike.                         *)
(***************************************************************************)
NewEpoch(p, n, d, mode) ==
  /\ Verdict(p, FALSE, n, d, mode) = "accept"
  /\ point' = p
  /\ start' = p.rank
  /\ steps' = 0

KernelNext == \E p \in Points, n \in Nodes, d \in DriftLevels, mode \in ModesUsed :
          Advance(p, n, d, mode) \/ NewEpoch(p, n, d, mode)

KernelSpec == KernelInit /\ [][KernelNext]_walk

-----------------------------------------------------------------------------
(***************************************************************************)
(* Types, and the baseline of an epoch is the rank it began with.          *)
(***************************************************************************)
KernelTypeOK ==
  /\ point \in Points /\ start \in Ranks /\ steps \in 0..MaxSteps
  /\ steps = 0 => start = point.rank

(***************************************************************************)
(* "De-escalation (toward permissiveness) is ascent and always rejected"   *)
(* (sgrs-core/src/types/mod.rs:58): the scope's level never becomes more   *)
(* permissive, within an epoch or across epochs.                           *)
(***************************************************************************)
NeverDeescalates ==
  [][permissiveness(point'.governance) <= permissiveness(point.governance)]_walk

(***************************************************************************)
(* The tolerance is granted at every step, so it adds up: after n accepted *)
(* steps of an epoch no dimension is more than n tolerances below where    *)
(* the epoch began, and never more.                                        *)
(***************************************************************************)
LossBounded == \A i \in Dims : point.rank[i] >= start[i] - steps * Eps

(***************************************************************************)
(* Under MASTER worse drift never turns a step the kernel refuses into one *)
(* it accepts, whatever the step does to the lattice point.  (Under MITL   *)
(* and YOLO it can: the policy block answers before the lattice is asked.) *)
(***************************************************************************)
WorseDriftNoBetter ==
  \A p \in Points, n \in Nodes, same \in BOOLEAN :
    \A d, e \in DriftLevels :
      /\ severity(d) <= severity(e)
      /\ Verdict(p, same, n, e, "MASTER") = "accept"
      => Verdict(p, same, n, d, "MASTER") = "accept"
=============================================================================
