----------------------------- MODULE PhaseCycle -----------------------------
(***************************************************************************)
(* What the state graph promises: one scope is a single atomic cell that   *)
(* walks the cycle one edge at a time.  Each step is recorded in the audit *)
(* log by the very same step, with the node the scope really left.  The    *)
(* cell may be wiped, seeded, or restarted under a run it never had.       *)
(*                                                                         *)
(* StateGraph implements this with reads, checks and transactions of       *)
(* several processes that interleave.                                      *)
(***************************************************************************)
EXTENDS Governance, Sequences

CONSTANT NoRow            \* the scope has no row in swarm_state

VARIABLES row,            \* the committed row of the scope, or NoRow
          audit,          \* committed state_transition events, oldest first
          runs            \* how many run ids were handed out

vars == <<row, audit, runs>>

Fresh == [run |-> runs + 1, node |-> "ContextIngested", epoch |-> 0]

Init == row = NoRow /\ audit = <<>> /\ runs = 0

(***************************************************************************)
(* The scope leaves its node for the next one.                             *)
(***************************************************************************)
Step ==
  /\ row # NoRow
  /\ row' = [row EXCEPT !.node = transitions[row.node], !.epoch = @ + 1]
  /\ audit' = Append(audit, [from |-> row.node, to |-> transitions[row.node],
                             epoch |-> row.epoch + 1, run |-> row.run])
  /\ UNCHANGED runs

(***************************************************************************)
(* The scope starts over at the head of the cycle, with a new run id.      *)
(***************************************************************************)
Restart == row' = Fresh /\ runs' = runs + 1 /\ UNCHANGED audit

Wipe == row' = NoRow /\ UNCHANGED <<audit, runs>>

Next == Step \/ Restart \/ Wipe

Spec == Init /\ [][Next]_vars
=============================================================================
