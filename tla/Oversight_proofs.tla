-------------------------- MODULE Oversight_proofs ---------------------------
(***************************************************************************)
(* What the tools guarantee whatever language models do with them, for any *)
(* number of steps, deliveries and failed publications.                    *)
(***************************************************************************)
EXTENDS Oversight, TLAPS

LEMMA Limits ==
  OversightSteps \in Nat /\ GovernorSteps \in Nat /\ MaxDeliver \in Nat /\ MaxFailures \in Nat
<1>1. {OversightSteps, GovernorSteps, MaxDeliver, MaxFailures} \subseteq Nat
  BY StepsAssumption
<1> QED BY <1>1

-----------------------------------------------------------------------------
(***************************************************************************)
(* What is admitted was admissible at some moment, at each place where a   *)
(* proposal is held before it is decided.                                  *)
(***************************************************************************)
Was(w, s) == /\ w.current => s.current
             /\ w.permitted => s.permitted

Held ==
  /\ at = "permission" => seen.current
  /\ \A c \in Callers :
       /\ result[c].payload => seen.current
       /\ result[c].outcome = "approve" => seen.current /\ seen.permitted
       /\ result[c].outcome # "pending"
  /\ approval = "checks" => seen.current

AdmissibleInv == TypeOK /\ Was(world, seen) /\ Held /\ ActsOnAdmissible

LEMMA Types ==
  ASSUME TypeOK
  PROVE  /\ world \in World /\ seen \in World
         /\ at \in Handling \cup {"waiting", "processed", "dead"} /\ caller \in Callers
         /\ result \in [Callers -> [outcome : Decisions, payload : BOOLEAN]]
         /\ steps.loop \in 0..OversightSteps /\ steps.governor \in 0..GovernorSteps
         /\ chosen \in BOOLEAN /\ decided \in BOOLEAN
         /\ approval \in {"none", "epoch", "checks"}
         /\ decisions \subseteq Decisions
         /\ deliveries \in Nat /\ deliveries <= MaxDeliver /\ failures \in 0..MaxFailures
BY DEF TypeOK

\* A publication keeps the types and adds at most the decision.
LEMMA Published ==
  ASSUME TypeOK, NEW d \in Decisions, NEW how, Publish(d, how)
  PROVE  /\ failures' \in 0..MaxFailures
         /\ decisions \subseteq decisions' /\ decisions' \subseteq decisions \cup {d}
         /\ decisions' \subseteq Decisions
<1>1. failures \in 0..MaxFailures /\ MaxFailures \in Nat BY Limits DEF TypeOK
<1>2. failures' \in 0..MaxFailures BY <1>1 DEF Publish
<1> QED BY <1>2 DEF TypeOK, Publish

LEMMA AdmissibleInit == Init => AdmissibleInv
<1> SUFFICES ASSUME Init PROVE AdmissibleInv OBVIOUS
<1>1. /\ steps \in [loop : 0..OversightSteps, governor : 0..GovernorSteps]
      /\ deliveries \in 0..MaxDeliver /\ failures \in 0..MaxFailures
  BY Limits DEF Init
<1>2. {world, seen} \subseteq World BY DEF Init
<1>3. result \in [Callers -> [outcome : Decisions, payload : BOOLEAN]]
      /\ \A c \in Callers : result[c] = [outcome |-> "reject", payload |-> FALSE]
  BY DEF Init, Decisions
<1>4. TypeOK BY <1>1, <1>2, <1>3 DEF Init, TypeOK, Callers, Decisions
<1> QED BY <1>3, <1>4 DEF Init, AdmissibleInv, Was, Held, ActsOnAdmissible

\* The rules' verdict, of either caller.
LEMMA EvaluatedStep ==
  ASSUME AdmissibleInv, NEW r \in [outcome : {"approve", "reject"}, payload : BOOLEAN],
         Evaluated(r), r.payload => seen.current,
         r.outcome = "approve" => seen.current /\ seen.permitted,
         at \in {"epoch", "permission"},
         UNCHANGED <<world, seen, caller, steps, chosen, decided, approval, deliveries,
                     decisions, failures>>
  PROVE  AdmissibleInv'
<1>0. TypeOK /\ Was(world, seen) /\ Held /\ ActsOnAdmissible BY DEF AdmissibleInv
<1>1. r \in [outcome : Decisions, payload : BOOLEAN] /\ r.outcome # "pending"
  BY DEF Decisions
<1>2. result' \in [Callers -> [outcome : Decisions, payload : BOOLEAN]]
      /\ result'[caller] = r
      /\ \A c \in Callers : c # caller => result'[c] = result[c]
  BY <1>0, <1>1 DEF Evaluated, TypeOK
<1>3. at' \in {"oversight", "rules"} BY DEF Evaluated
<1>4. approval = "none" BY <1>0 DEF TypeOK, Handling
<1>5. TypeOK' BY <1>0, <1>2, <1>3, <1>4 DEF TypeOK, Handling
<1>6. Held' BY <1>0, <1>1, <1>2, <1>3, <1>4 DEF Held, TypeOK
<1>7. Was(world, seen)' /\ ActsOnAdmissible' BY <1>0 DEF Was, ActsOnAdmissible
<1> QED BY <1>5, <1>6, <1>7 DEF AdmissibleInv

\* A step that may publish d, and changes neither the world nor the rules' verdict.
LEMMA PublishingStep ==
  ASSUME AdmissibleInv, NEW d \in Decisions, NEW how, Publish(d, how) \/ Silent,
         d = "approve" => seen.current /\ seen.permitted,
         d = "pending" => seen.current,
         UNCHANGED <<world, seen, result, deliveries>>,
         at' \in {"waiting", "dead", "processed", "oversight", "governor", "epoch", "finish"},
         caller' \in Callers, chosen' \in BOOLEAN, decided' \in BOOLEAN,
         steps' \in [loop : 0..OversightSteps, governor : 0..GovernorSteps],
         approval' \in {"none", "epoch", "checks"},
         at' \in {"oversight", "epoch", "finish"} => approval' = "none",
         approval' = "checks" => seen.current
  PROVE  AdmissibleInv'
<1>0. TypeOK /\ Was(world, seen) /\ Held /\ ActsOnAdmissible BY DEF AdmissibleInv
<1>1. /\ failures' \in 0..MaxFailures /\ decisions' \subseteq Decisions
      /\ decisions' \subseteq decisions \cup {d}
  BY <1>0, Published DEF Silent, TypeOK
<1>2. TypeOK' BY <1>0, <1>1 DEF TypeOK, Handling
<1>3. Was(world, seen)' /\ Held' BY <1>0 DEF Was, Held
<1>4. ActsOnAdmissible' BY <1>0, <1>1 DEF ActsOnAdmissible
<1> QED BY <1>2, <1>3, <1>4 DEF AdmissibleInv

LEMMA AdmissibleLoop ==
  ASSUME AdmissibleInv, NEW how,
         \/ CheckEpoch \/ CheckPermission \/ escalateToLLM
         \/ acceptDeterministic(how) \/ escalateToHuman(how)
         \/ \E throws \in BOOLEAN : OversightEnds(throws, how)
  PROVE  AdmissibleInv'
<1>0. TypeOK /\ Was(world, seen) /\ Held /\ ActsOnAdmissible BY DEF AdmissibleInv
<1> USE Limits
<1>a. /\ steps = [loop |-> steps.loop, governor |-> steps.governor]
      /\ steps.loop \in 0..OversightSteps /\ steps.governor \in 0..GovernorSteps
      /\ world \in World /\ seen \in World /\ caller \in Callers
      /\ chosen \in BOOLEAN /\ decided \in BOOLEAN /\ approval \in {"none", "epoch", "checks"}
  BY <1>0 DEF TypeOK
<1>b. Refused \in {"waiting", "dead"} BY DEF Refused
<1>c. ASSUME at = "oversight" PROVE approval = "none" BY <1>0, <1>c DEF TypeOK, Handling
\* What the rules came to is a decision that was admissible.
<1>d. /\ result["loop"].outcome \in Decisions
      /\ result["loop"].outcome # "pending"
      /\ result["loop"].outcome = "approve" => seen.current /\ seen.permitted
      /\ result["loop"].payload => seen.current
  BY <1>0 DEF TypeOK, Held, Callers
<1>1. CASE CheckEpoch
  <2>1. CASE world.current
    <3>1. at' = "permission" /\ seen.current /\ at = "epoch"
          /\ UNCHANGED <<world, seen, models, decisions, deliveries, failures>>
      BY <1>0, <1>1, <2>1 DEF CheckEpoch, Was, models, Silent
    <3>2. approval = "none" BY <1>0, <3>1 DEF TypeOK, Handling
    <3> QED BY <1>0, <3>1, <3>2
        DEF AdmissibleInv, TypeOK, Handling, Was, Held, ActsOnAdmissible, models
  <2>2. CASE ~ world.current
    <3> DEFINE r == [outcome |-> "reject", payload |-> FALSE]
    <3>1. r \in [outcome : {"approve", "reject"}, payload : BOOLEAN]
          /\ r.outcome # "approve" /\ ~ r.payload
      OBVIOUS
    <3>2. Evaluated(r) BY <1>1, <2>2 DEF CheckEpoch
    <3> HIDE DEF r
    <3> QED BY <1>1, <3>1, <3>2, EvaluatedStep DEF CheckEpoch, Silent
  <2> QED BY <2>1, <2>2
<1>2. CASE CheckPermission
  <2> DEFINE r == [outcome |-> IF world.permitted THEN "approve" ELSE "reject",
                   payload |-> TRUE]
  <2>1. r \in [outcome : {"approve", "reject"}, payload : BOOLEAN]
        /\ (r.outcome = "approve" => world.permitted)
    OBVIOUS
  <2>2. seen.current /\ (world.permitted => seen.permitted)
    BY <1>0, <1>2 DEF CheckPermission, Held, Was
  <2>3. Evaluated(r) BY <1>2 DEF CheckPermission
  <2> HIDE DEF r
  <2> QED BY <1>2, <2>1, <2>2, <2>3, EvaluatedStep DEF CheckPermission, Silent
<1>3. CASE escalateToLLM
  <2>1. steps' \in [loop : 0..OversightSteps, governor : 0..GovernorSteps]
    BY <1>a, <1>3 DEF escalateToLLM
  <2> QED BY <1>a, <1>d, <1>3, <2>1, PublishingStep DEF escalateToLLM
<1>4. ASSUME Oversees, UNCHANGED <<at, decided>>
      PROVE  /\ steps' \in [loop : 0..OversightSteps, governor : 0..GovernorSteps]
             /\ approval' = "none" /\ at' = "oversight" /\ chosen' \in BOOLEAN
             /\ caller' \in Callers /\ decided' \in BOOLEAN
             /\ UNCHANGED <<world, seen, result, deliveries>>
  <2>1. steps.loop - 1 \in 0..OversightSteps BY <1>a, <1>4 DEF Oversees
  <2>2. steps' = [loop |-> steps.loop - 1, governor |-> steps.governor]
    BY <1>a, <1>4 DEF Oversees
  <2> QED BY <1>a, <1>c, <1>4, <2>1, <2>2 DEF Oversees
<1>5. CASE acceptDeterministic(how)
  <2>1. Oversees /\ UNCHANGED <<at, decided>> /\ Publish(result["loop"].outcome, how)
    BY <1>5 DEF acceptDeterministic
  <2> QED BY <1>d, <1>4, <2>1, PublishingStep
<1>6. CASE escalateToHuman(how)
  <2> DEFINE d == IF result["loop"].payload THEN "pending" ELSE result["loop"].outcome
  <2>1. Oversees /\ UNCHANGED <<at, decided>> /\ Publish(d, how)
    BY <1>6 DEF escalateToHuman
  <2>2. /\ d \in Decisions
        /\ d = "pending" => seen.current
        /\ d = "approve" => seen.current /\ seen.permitted
    BY <1>d DEF Decisions
  <2> HIDE DEF d
  <2> QED BY <1>4, <2>1, <2>2, PublishingStep
<1>7. ASSUME NEW throws \in BOOLEAN, OversightEnds(throws, how) PROVE AdmissibleInv'
  <2>1. /\ at' \in {"waiting", "dead", "finish"} /\ approval' = "none"
        /\ UNCHANGED <<world, seen, models, deliveries>>
        /\ Publish(result["loop"].outcome, how) \/ Silent
    BY <1>b, <1>c, <1>7 DEF OversightEnds, models
  <2>2. UNCHANGED <<caller, result, steps, chosen, decided>> BY <2>1 DEF models
  <2>3. steps \in [loop : 0..OversightSteps, governor : 0..GovernorSteps]
    BY <1>0 DEF TypeOK
  <2> QED BY <1>a, <1>d, <2>1, <2>2, <2>3, PublishingStep
<1> QED BY <1>1, <1>2, <1>3, <1>5, <1>6, <1>7

LEMMA AdmissibleGovernor ==
  ASSUME AdmissibleInv, NEW how,
         \/ publishApproval \/ ApprovalEpoch \/ GovernorEnds
         \/ ApprovalChecks(how) \/ publishRejection(how) \/ Rules(how)
  PROVE  AdmissibleInv'
<1>0. TypeOK /\ Was(world, seen) /\ Held /\ ActsOnAdmissible BY DEF AdmissibleInv
<1> USE Limits
<1>a. /\ steps = [loop |-> steps.loop, governor |-> steps.governor]
      /\ steps.loop \in 0..OversightSteps /\ steps.governor \in 0..GovernorSteps
      /\ steps \in [loop : 0..OversightSteps, governor : 0..GovernorSteps]
      /\ world \in World /\ seen \in World /\ caller \in Callers
      /\ chosen \in BOOLEAN /\ decided \in BOOLEAN /\ approval \in {"none", "epoch", "checks"}
      /\ approval = "checks" => seen.current
  BY <1>0 DEF TypeOK, Held
<1>b. {"approve", "reject"} \subseteq Decisions BY DEF Decisions
<1>c. Steps => steps' \in [loop : 0..OversightSteps, governor : 0..GovernorSteps]
  <2> SUFFICES ASSUME Steps
               PROVE  steps' \in [loop : 0..OversightSteps, governor : 0..GovernorSteps]
    OBVIOUS
  <2>1. steps' = [loop |-> steps.loop, governor |-> steps.governor - 1]
        /\ steps.governor - 1 \in 0..GovernorSteps
    BY <1>a DEF Steps
  <2> QED BY <1>a, <2>1
<1>1. CASE publishApproval
  BY <1>a, <1>b, <1>c, <1>1, PublishingStep DEF publishApproval, Governs
<1>2. CASE ApprovalEpoch
  <2>1. approval' \in {"none", "checks"} /\ (approval' = "checks" => seen.current)
    BY <1>0, <1>2 DEF ApprovalEpoch, Was
  <2> QED BY <1>a, <1>b, <1>2, <2>1, PublishingStep DEF ApprovalEpoch, Governs
<1>3. CASE ApprovalChecks(how)
  <2>1. /\ at' = "governor" /\ approval' = "none" /\ decided' \in BOOLEAN
        /\ UNCHANGED <<world, seen, at, caller, result, chosen, deliveries, steps>>
    BY <1>a, <1>3 DEF ApprovalChecks, Governs
  <2>2. CASE ~ world.rejecting /\ world.permitted
    <3>1. seen.current /\ seen.permitted /\ Publish("approve", how)
      BY <1>0, <1>a, <1>3, <2>2 DEF ApprovalChecks, Was
    <3> QED BY <1>a, <1>b, <2>1, <3>1, PublishingStep
  <2>3. CASE ~ (~ world.rejecting /\ world.permitted)
    <3>1. Silent BY <1>3, <2>3 DEF ApprovalChecks
    <3> QED BY <1>a, <1>b, <2>1, <3>1, PublishingStep
  <2> QED BY <2>2, <2>3
<1>4. CASE publishRejection(how)
  <2>1. /\ at' = "governor" /\ approval' = approval /\ decided' \in BOOLEAN
        /\ UNCHANGED <<world, seen, at, caller, result, chosen, deliveries>>
        /\ Publish("reject", how) /\ Steps
    BY <1>4 DEF publishRejection, Governs
  <2> QED BY <1>a, <1>b, <1>c, <2>1, PublishingStep
<1>5. CASE GovernorEnds
  BY <1>a, <1>b, <1>5, PublishingStep DEF GovernorEnds, Callers
<1>6. CASE Rules(how)
  <2> DEFINE d == result["governor"].outcome
  <2>1. /\ d \in Decisions /\ d # "pending"
        /\ d = "approve" => seen.current /\ seen.permitted
    BY <1>0 DEF TypeOK, Held, Callers
  <2>2. approval = "none" BY <1>0, <1>6 DEF Rules, TypeOK, Handling
  <2>3. Publish(d, how) BY <1>6 DEF Rules
  <2> HIDE DEF d
  <2> QED BY <1>a, <1>6, <2>1, <2>2, <2>3, PublishingStep DEF Rules, Callers
<1> QED BY <1>1, <1>2, <1>3, <1>4, <1>5, <1>6

LEMMA AdmissibleRest ==
  ASSUME AdmissibleInv,
         Receive \/ Finish \/ Crash \/ \E w \in World : Elsewhere(w)
  PROVE  AdmissibleInv'
<1>0. TypeOK /\ Was(world, seen) /\ Held /\ ActsOnAdmissible BY DEF AdmissibleInv
<1> USE Limits
<1>a. Refused \in {"waiting", "dead"} BY DEF Refused
<1>1. CASE Receive
  <2>1. /\ at' = "epoch" /\ caller' = "loop" /\ approval' = "none"
        /\ chosen' = FALSE /\ decided' = FALSE
        /\ steps' = [loop |-> OversightSteps, governor |-> 0]
        /\ deliveries' = deliveries + 1 /\ deliveries < MaxDeliver
        /\ UNCHANGED <<world, seen, result, decisions, failures>>
    BY <1>1 DEF Receive, Silent
  <2>2. steps' \in [loop : 0..OversightSteps, governor : 0..GovernorSteps] BY <2>1
  <2>3. deliveries' \in 0..MaxDeliver BY <1>0, <2>1 DEF TypeOK
  <2>4. TypeOK' BY <1>0, <2>1, <2>2, <2>3 DEF TypeOK, Callers, Handling
  <2> QED BY <1>0, <2>1, <2>4 DEF AdmissibleInv, Was, Held, ActsOnAdmissible
<1>2. CASE Finish
  <2>1. /\ at' \in {"processed", "waiting", "dead"} /\ failures' \in 0..MaxFailures
        /\ UNCHANGED <<world, seen, models, decisions, deliveries>>
    <3>1. failures \in 0..MaxFailures BY <1>0 DEF TypeOK
    <3> QED BY <1>a, <1>2, <3>1 DEF Finish
  <2>2. TypeOK' BY <1>0, <2>1 DEF TypeOK, models, Handling
  <2> QED BY <1>0, <2>1, <2>2 DEF AdmissibleInv, Was, Held, ActsOnAdmissible, models
<1>3. CASE Crash
  <2>1. /\ at' \in {"waiting", "dead"}
        /\ UNCHANGED <<world, seen, models, decisions, deliveries, failures>>
    BY <1>a, <1>3 DEF Crash, Silent
  <2>2. TypeOK' BY <1>0, <2>1 DEF TypeOK, models, Handling
  <2> QED BY <1>0, <2>1, <2>2 DEF AdmissibleInv, Was, Held, ActsOnAdmissible, models
<1>4. ASSUME NEW w \in World, Elsewhere(w) PROVE AdmissibleInv'
  <2>1. /\ world' = w /\ seen' = [f \in DOMAIN seen |-> seen[f] \/ w[f]]
        /\ UNCHANGED <<at, models, decisions, deliveries, failures>>
    BY <1>4 DEF Elsewhere
  <2>2. /\ seen \in World /\ w \in World BY <1>0 DEF TypeOK
  <2>3. DOMAIN seen = {"current", "permitted", "rejecting"} BY <2>2 DEF World
  <2>4. seen' = [current |-> seen.current \/ w.current,
                 permitted |-> seen.permitted \/ w.permitted,
                 rejecting |-> seen.rejecting \/ w.rejecting]
    BY <2>1, <2>3
  <2>5. /\ seen.current \in BOOLEAN /\ seen.permitted \in BOOLEAN /\ seen.rejecting \in BOOLEAN
        /\ w.current \in BOOLEAN /\ w.permitted \in BOOLEAN /\ w.rejecting \in BOOLEAN
    BY <2>2 DEF World
  <2>6. /\ seen' \in World
        /\ seen'.current = (seen.current \/ w.current)
        /\ seen'.permitted = (seen.permitted \/ w.permitted)
    BY <2>4, <2>5 DEF World
  <2>7. {world', seen'} \subseteq World BY <2>1, <2>2, <2>6
  <2>8. TypeOK' BY <1>0, <2>1, <2>7 DEF TypeOK, models
  <2> QED BY <1>0, <2>1, <2>6, <2>8 DEF AdmissibleInv, Was, Held, ActsOnAdmissible, models
<1> QED BY <1>1, <1>2, <1>3, <1>4

LEMMA AdmissibleInvariant == Spec => []AdmissibleInv
<1>1. AdmissibleInv /\ [Next]_vars => AdmissibleInv'
  <2> SUFFICES ASSUME AdmissibleInv, [Next]_vars PROVE AdmissibleInv' OBVIOUS
  <2>1. CASE Next
    BY <2>1, AdmissibleLoop, AdmissibleGovernor, AdmissibleRest DEF Next, Handle
  <2>2. CASE UNCHANGED vars
    BY <2>2 DEF vars, models, AdmissibleInv, TypeOK, Was, Held, ActsOnAdmissible
  <2> QED BY <2>1, <2>2
<1> QED BY <1>1, AdmissibleInit, PTL DEF Spec

(***************************************************************************)
(* Every variable keeps its type, and an approval is under way only while  *)
(* the governance model runs.                                              *)
(***************************************************************************)
THEOREM TypeCorrect == Spec => []TypeOK
<1>1. AdmissibleInv => TypeOK BY DEF AdmissibleInv
<1> QED BY <1>1, AdmissibleInvariant, PTL

(***************************************************************************)
(* No sequence of tool calls, of any length, gets an approval for what was *)
(* never permitted or anything but a rejection for what was always stale.  *)
(***************************************************************************)
THEOREM OnlyAdmissible == Spec => []ActsOnAdmissible
<1>1. AdmissibleInv => ActsOnAdmissible BY DEF AdmissibleInv
<1> QED BY <1>1, AdmissibleInvariant, PTL

-----------------------------------------------------------------------------
(***************************************************************************)
(* As long as nothing failed, the flags of the tool sets do not lie: where *)
(* one is set, or the handler is past the models, a decision is out.       *)
(***************************************************************************)
DecidedInv ==
  /\ at \in {"epoch", "permission"} /\ caller = "loop" => ~ chosen
  /\ failures = 0 =>
       /\ at \in {"finish", "processed"} => decisions # {}
       /\ at = "oversight" /\ chosen => decisions # {}
       /\ at = "governor" /\ decided => decisions # {}

LEMMA PublishedUnlessFailed ==
  ASSUME TypeOK, NEW d, NEW how, Publish(d, how), failures' = 0
  PROVE  failures = 0 /\ how = "done" /\ d \in decisions'
<1>1. failures \in Nat BY Limits DEF TypeOK
<1> QED BY <1>1 DEF Publish

LEMMA DecidedStep ==
  ASSUME TypeOK, DecidedInv, [Next]_vars
  PROVE  DecidedInv'
<1>1. CASE Receive BY <1>1 DEF Receive, DecidedInv
<1>2. CASE CheckEpoch \/ CheckPermission
  BY <1>2 DEF CheckEpoch, CheckPermission, Evaluated, Silent, DecidedInv, TypeOK, Callers
<1>3. CASE escalateToLLM BY <1>3 DEF escalateToLLM, Silent, DecidedInv
<1>4. CASE publishApproval \/ ApprovalEpoch
  BY <1>4 DEF publishApproval, ApprovalEpoch, Governs, Silent, DecidedInv
<1>5. CASE GovernorEnds
  BY <1>5 DEF GovernorEnds, Silent, DecidedInv
<1>6. CASE Finish
  <2>1. failures \in Nat BY Limits DEF TypeOK
  <2> QED BY <1>6, <2>1 DEF Finish, Refused, models, DecidedInv
<1>7. ASSUME NEW how, acceptDeterministic(how) \/ escalateToHuman(how) PROVE DecidedInv'
  <2>1. /\ at' = "oversight" /\ \E d : Publish(d, how)
    BY <1>7 DEF acceptDeterministic, escalateToHuman, Oversees
  <2> QED BY <2>1, PublishedUnlessFailed DEF DecidedInv
<1>8. ASSUME NEW how, ApprovalChecks(how) PROVE DecidedInv'
  <2>1. at' = "governor" /\ at = "governor" /\ UNCHANGED caller
    BY <1>8 DEF ApprovalChecks, Governs
  <2>2. \/ Publish("approve", how)
        \/ UNCHANGED <<decided, decisions, failures>>
    BY <1>8 DEF ApprovalChecks, Silent
  <2> QED BY <2>1, <2>2, PublishedUnlessFailed DEF DecidedInv
<1>9. ASSUME NEW how, publishRejection(how) PROVE DecidedInv'
  <2>1. at' = "governor" /\ Publish("reject", how)
    BY <1>9 DEF publishRejection, Governs
  <2> QED BY <2>1, PublishedUnlessFailed DEF DecidedInv
<1>10. ASSUME NEW how, Rules(how) PROVE DecidedInv'
  <2>1. at' = "oversight" /\ Publish(result["governor"].outcome, how)
    BY <1>10 DEF Rules
  <2> QED BY <2>1, PublishedUnlessFailed DEF DecidedInv
<1>11. ASSUME NEW how, NEW throws \in BOOLEAN, OversightEnds(throws, how) PROVE DecidedInv'
  <2>1. at = "oversight" /\ at' \in {"finish", "waiting", "dead"}
    BY <1>11 DEF OversightEnds, Refused
  <2>2. CASE chosen
    BY <1>11, <2>1, <2>2 DEF OversightEnds, Silent, DecidedInv
  <2>3. CASE ~ chosen
    <3>1. Publish(result["loop"].outcome, how) BY <1>11, <2>3 DEF OversightEnds
    <3> QED BY <2>1, <3>1, PublishedUnlessFailed DEF DecidedInv
  <2> QED BY <2>2, <2>3
<1>12. CASE Crash BY <1>12 DEF Crash, Refused, Silent, DecidedInv
<1>13. CASE \E w \in World : Elsewhere(w)
  BY <1>13 DEF Elsewhere, models, DecidedInv
<1>14. CASE UNCHANGED vars BY <1>14 DEF vars, models, DecidedInv
<1> QED BY <1>1, <1>2, <1>3, <1>4, <1>5, <1>6, <1>7, <1>8, <1>9, <1>10, <1>11, <1>12,
           <1>13, <1>14 DEF Next, Handle

(***************************************************************************)
(* A proposal marked as processed is decided unless a publication failed,  *)
(* whatever the models call or fail to call.                               *)
(***************************************************************************)
THEOREM ProcessedIsDecided == Spec => []DecidedUnlessFailed
<1>1. Init => DecidedInv BY DEF Init, DecidedInv
<1>2. TypeOK /\ DecidedInv /\ [Next]_vars => DecidedInv' BY DecidedStep
<1>3. DecidedInv => DecidedUnlessFailed BY DEF DecidedInv, DecidedUnlessFailed
<1> QED BY <1>1, <1>2, <1>3, TypeCorrect, PTL DEF Spec
=============================================================================
