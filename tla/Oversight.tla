----------------------------- MODULE Oversight ------------------------------
(***************************************************************************)
(* One proposal in YOLO mode in the hands of language models               *)
(* (src/agents/governanceAgent.ts).  The rules are evaluated first; an     *)
(* oversight model then calls tools that accept the result, park the       *)
(* proposal for a human, or hand it to a governance model with tools of    *)
(* its own, and the rules decide where a model does not.  The models are   *)
(* free to call any tool, in any order, as often as their steps allow, and *)
(* calls of one step run concurrently.  A tool that throws tells its model *)
(* so; a generation that throws does so between tool calls.                *)
(*                                                                         *)
(* Publications fail, the process dies, and other proposals move the scope *)
(* on meanwhile.  In YOLO mode the kernel accepts; the governance tools    *)
(* ask it in the scope's mode of the moment, which may reject.  Left out:  *)
(* obligations, records, and reading tools, which decide nothing.          *)
(* Bounds (guards only): MaxFailures.                                      *)
(***************************************************************************)
EXTENDS Naturals

CONSTANTS
  OversightSteps,   \* maxSteps of the oversight model
  GovernorSteps,    \* maxSteps of the governance model
  MaxDeliver,       \* deliveries before the bus gives up
  MaxFailures       \* bound: publications that fail

ASSUME StepsAssumption ==
  {OversightSteps, GovernorSteps, MaxDeliver, MaxFailures} \subseteq Nat

VARIABLES
  world,            \* is the epoch current, the agent permitted, the kernel rejecting
  seen,             \* ghost: what was so at some moment so far
  at,               \* where the handler is
  caller,           \* who evaluates the rules: the loop or the governance model
  result,           \* what the rules say, to each of them
  steps,            \* what each model has left
  chosen, decided,  \* flags of the two tool sets
  approval,         \* how far a publishApproval has come
  decisions, deliveries, failures

models == <<caller, result, steps, chosen, decided, approval>>
vars   == <<world, seen, at, models, decisions, deliveries, failures>>

World     == [current : BOOLEAN, permitted : BOOLEAN, rejecting : BOOLEAN]
Callers   == {"loop", "governor"}
Decisions == {"approve", "reject", "pending"}
Handling  == {"epoch", "permission", "oversight", "governor", "rules", "finish"}

Init ==
  /\ world \in World /\ seen = world
  /\ at = "waiting" /\ caller = "loop"
  /\ result = [c \in Callers |-> [outcome |-> "reject", payload |-> FALSE]]
  /\ steps = [loop |-> 0, governor |-> 0]
  /\ chosen = FALSE /\ decided = FALSE /\ approval = "none"
  /\ decisions = {} /\ deliveries = 0 /\ failures = 0

-----------------------------------------------------------------------------
(***************************************************************************)
(* Publishing a decision: it is done, or it throws before or after it was  *)
(* done (the event that reports it is appended afterwards).                *)
(***************************************************************************)
Ways == {"done", "late", "lost"}

Publish(d, how) ==
  /\ how # "done" => failures < MaxFailures
  /\ failures' = IF how = "done" THEN failures ELSE failures + 1
  /\ decisions' = IF how = "lost" THEN decisions ELSE decisions \cup {d}

Silent == UNCHANGED <<decisions, failures>>

\* The handler throws: the message is delivered again, or was too often.
Refused == IF deliveries < MaxDeliver THEN "waiting" ELSE "dead"

Receive ==
  /\ at = "waiting" /\ deliveries < MaxDeliver
  /\ deliveries' = deliveries + 1
  /\ at' = "epoch" /\ caller' = "loop"
  /\ steps' = [loop |-> OversightSteps, governor |-> 0]
  /\ chosen' = FALSE /\ decided' = FALSE /\ approval' = "none"
  /\ UNCHANGED <<world, seen, result>> /\ Silent

(***************************************************************************)
(* evaluateProposalDeterministic reads the row, and later the permission.  *)
(***************************************************************************)
Evaluated(r) ==
  /\ result' = [result EXCEPT ![caller] = r]
  /\ at' = IF caller = "loop" THEN "oversight" ELSE "rules"

CheckEpoch ==
  /\ at = "epoch"
  /\ IF world.current
       THEN at' = "permission" /\ UNCHANGED result
       ELSE Evaluated([outcome |-> "reject", payload |-> FALSE])
  /\ UNCHANGED <<world, seen, caller, steps, chosen, decided, approval, deliveries>>
  /\ Silent

CheckPermission ==
  /\ at = "permission"
  /\ Evaluated([outcome |-> IF world.permitted THEN "approve" ELSE "reject",
                payload |-> TRUE])
  /\ UNCHANGED <<world, seen, caller, steps, chosen, decided, approval, deliveries>>
  /\ Silent

-----------------------------------------------------------------------------
(***************************************************************************)
(* The tools of the oversight model, createOversightTools.                 *)
(***************************************************************************)
Oversees ==
  /\ at = "oversight" /\ steps.loop > 0
  /\ steps' = [steps EXCEPT !.loop = @ - 1]
  /\ chosen' = TRUE
  /\ UNCHANGED <<world, seen, caller, result, approval, deliveries>>

acceptDeterministic(how) ==
  /\ Oversees
  /\ Publish(result["loop"].outcome, how)
  /\ UNCHANGED <<at, decided>>

escalateToHuman(how) ==
  /\ Oversees
  /\ Publish(IF result["loop"].payload THEN "pending" ELSE result["loop"].outcome, how)
  /\ UNCHANGED <<at, decided>>

escalateToLLM ==
  /\ at = "oversight" /\ steps.loop > 0
  /\ steps' = [loop |-> steps.loop - 1, governor |-> GovernorSteps]
  /\ chosen' = TRUE
  /\ at' = "governor" /\ decided' = FALSE /\ approval' = "none"
  /\ UNCHANGED <<world, seen, caller, result, deliveries>> /\ Silent

(***************************************************************************)
(* runOversightAgent after the generation, which returned or threw.  What  *)
(* no tool was called for is committed as the rules have it.               *)
(***************************************************************************)
\* Mutant: a generation that returns is taken to have called a tool.
OversightEnds_TrustsModel(throws, how) ==
  /\ at = "oversight"
  /\ IF chosen \/ ~ throws
       THEN at' = (IF throws THEN Refused ELSE "finish") /\ Silent
       ELSE /\ Publish(result["loop"].outcome, how)
            /\ at' = IF how = "done" THEN "finish" ELSE Refused
  /\ UNCHANGED <<world, seen, models, deliveries>>

OversightEnds(throws, how) ==
  /\ at = "oversight"
  /\ IF chosen
       THEN at' = (IF throws THEN Refused ELSE "finish") /\ Silent
       ELSE /\ Publish(result["loop"].outcome, how)
            /\ at' = IF how = "done" THEN "finish" ELSE Refused
  /\ UNCHANGED <<world, seen, models, deliveries>>

-----------------------------------------------------------------------------
(***************************************************************************)
(* The tools of the governance model, createGovernanceTools.  An approval  *)
(* looks at `decided' once, and then awaits the row, the drift and the     *)
(* permission.                                                             *)
(***************************************************************************)
Governs == at = "governor" /\ UNCHANGED <<world, seen, at, caller, result, chosen, deliveries>>
Steps   == steps.governor > 0 /\ steps' = [steps EXCEPT !.governor = @ - 1]

publishApproval ==
  /\ Governs /\ Steps
  /\ approval = "none" /\ ~ decided
  /\ approval' = "epoch"
  /\ UNCHANGED decided /\ Silent

ApprovalEpoch ==
  /\ Governs /\ approval = "epoch"
  /\ approval' = IF world.current THEN "checks" ELSE "none"
  /\ UNCHANGED <<steps, decided>> /\ Silent

\* Mutant: the permission is not asked for again.
ApprovalChecks_NoPermission(how) ==
  /\ Governs /\ approval = "checks"
  /\ approval' = "none"
  /\ IF ~ world.rejecting
       THEN decided' = TRUE /\ Publish("approve", how)
       ELSE UNCHANGED decided /\ Silent
  /\ UNCHANGED steps

ApprovalChecks(how) ==
  /\ Governs /\ approval = "checks"
  /\ approval' = "none"
  /\ IF ~ world.rejecting /\ world.permitted
       THEN decided' = TRUE /\ Publish("approve", how)
       ELSE UNCHANGED decided /\ Silent
  /\ UNCHANGED steps

publishRejection(how) ==
  /\ Governs /\ Steps
  /\ ~ decided /\ decided' = TRUE
  /\ Publish("reject", how)
  /\ UNCHANGED approval

(***************************************************************************)
(* processProposalWithAgent after the generation: the rules decide what is *)
(* undecided, otherwise it returns to the oversight model or throws there, *)
(* which that model is told.                                               *)
(***************************************************************************)
\* Mutant: it does not wait for the approval that is under way.
GovernorEnds_Hasty ==
  /\ at = "governor"
  /\ IF decided THEN at' = "oversight" /\ UNCHANGED caller
                ELSE at' = "epoch" /\ caller' = "governor"
  /\ UNCHANGED <<world, seen, result, steps, chosen, decided, approval, deliveries>>
  /\ Silent

\* Mutant: an undecided model is asked again.
GovernorEnds_Again ==
  /\ at = "governor" /\ approval = "none"
  /\ IF decided THEN at' = "oversight" /\ UNCHANGED steps
                ELSE at' = at /\ steps' = [steps EXCEPT !.governor = GovernorSteps]
  /\ UNCHANGED <<world, seen, caller, result, chosen, decided, approval, deliveries>>
  /\ Silent

GovernorEnds ==
  /\ at = "governor" /\ approval = "none"
  /\ IF decided THEN at' = "oversight" /\ UNCHANGED caller
                ELSE at' = "epoch" /\ caller' = "governor"
  /\ UNCHANGED <<world, seen, result, steps, chosen, decided, approval, deliveries>>
  /\ Silent

Rules(how) ==
  /\ at = "rules"
  /\ Publish(result["governor"].outcome, how)
  /\ at' = "oversight" /\ caller' = "loop"
  /\ UNCHANGED <<world, seen, result, steps, chosen, decided, approval, deliveries>>

-----------------------------------------------------------------------------
\* Finality is asked for and the message marked.
Finish ==
  /\ at = "finish"
  /\ \/ at' = "processed" /\ UNCHANGED failures
     \/ at' = Refused /\ failures < MaxFailures /\ failures' = failures + 1
  /\ UNCHANGED <<world, seen, models, decisions, deliveries>>

Crash ==
  /\ at \in Handling
  /\ at' = Refused
  /\ UNCHANGED <<world, seen, models, deliveries>> /\ Silent

\* Others advance the scope, grant and revoke permissions, and change drift.
Elsewhere(w) ==
  /\ w # world /\ (w.current => world.current)
  /\ world' = w
  /\ seen' = [f \in DOMAIN seen |-> seen[f] \/ w[f]]
  /\ UNCHANGED <<at, models, decisions, deliveries, failures>>

Handle ==
  \/ Receive \/ CheckEpoch \/ CheckPermission \/ escalateToLLM
  \/ publishApproval \/ ApprovalEpoch \/ GovernorEnds \/ Finish
  \/ \E how \in Ways : \/ acceptDeterministic(how) \/ escalateToHuman(how)
                       \/ ApprovalChecks(how) \/ publishRejection(how) \/ Rules(how)
                       \/ \E throws \in BOOLEAN : OversightEnds(throws, how)

Next == Handle \/ Crash \/ \E w \in World : Elsewhere(w)
Spec == Init /\ [][Next]_vars

\* Generations end, by their timeout if need be, and refused messages return.
FairSpec == Spec /\ WF_vars(Handle)

-----------------------------------------------------------------------------
\* Types; an approval is under way only while the governance model runs.
TypeOK ==
  /\ {world, seen} \subseteq World
  /\ at \in Handling \cup {"waiting", "processed", "dead"} /\ caller \in Callers
  /\ result \in [Callers -> [outcome : Decisions, payload : BOOLEAN]]
  /\ steps \in [loop : 0..OversightSteps, governor : 0..GovernorSteps]
  /\ chosen \in BOOLEAN /\ decided \in BOOLEAN
  /\ approval \in {"none", "epoch", "checks"}
  /\ at \in Handling /\ approval # "none" => at = "governor"
  /\ decisions \subseteq Decisions
  /\ deliveries \in 0..MaxDeliver /\ failures \in 0..MaxFailures

(***************************************************************************)
(* No sequence of tool calls gets an approval for a proposal that was      *)
(* never permitted, nor an approval or a review for one that was stale     *)
(* from the beginning.                                                     *)
(***************************************************************************)
ActsOnAdmissible ==
  /\ "approve" \in decisions => seen.current /\ seen.permitted
  /\ "pending" \in decisions => seen.current

(***************************************************************************)
(* Whatever the models call or fail to call: a proposal marked as          *)
(* processed is decided, unless a publication failed.                      *)
(***************************************************************************)
DecidedUnlessFailed == at = "processed" /\ failures = 0 => decisions # {}

(***************************************************************************)
(* Models that talk to no end, crashes and refusals: a delivered proposal  *)
(* is processed or given up.                                               *)
(***************************************************************************)
DeliveryEnds == deliveries > 0 ~> at \in {"processed", "dead"}
=============================================================================
