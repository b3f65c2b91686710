------------------------------ MODULE Finality ------------------------------
(***************************************************************************)
(* Finality of one scope: evaluators (the watchdog, the governance agent   *)
(* after each proposal, the feed) each run src/finality/evaluator.ts from  *)
(* its reads to a certificate or a review, while facts, resolutions and    *)
(* the other evaluators change what was read; a human answers the reviews, *)
(* and the executor records the answers (src/actionExecutor.ts,            *)
(* src/finality/decisions.ts), which later evaluations obey.               *)
(*                                                                         *)
(* Abstracted: the epoch to whether it is at least 2, the node and the     *)
(* drift file to whether they call for a human, the propagation history to *)
(* its two verdicts; each is a free choice when it is read.  Goals, claims *)
(* and risk are one quality.  The cooldown is a flag a timer clears.       *)
(* Bounds (guards only): MaxAnswers, MaxDeliver, MaxFailures.              *)
(***************************************************************************)
EXTENDS Convergence

CONSTANTS
  Evaluators,
  Contradictions,   \* pairs of statements that may contradict each other
  Qualities,        \* levels of quality the graph goes through
  Claims,           \* numbers of active claims it goes through
  Options,          \* what the human may answer
  MaxAnswers,       \* bound: answers the human gives
  MaxDeliver,       \* deliveries of an answer before the bus gives up
  Faults,           \* what may fail
  MaxFailures       \* bound: how often something fails

ASSUME OptionsAssumption ==
  Options \subseteq {"approve_finality", "provide_resolution", "escalate", "defer"}
ASSUME FaultsAssumption ==
  Faults \subseteq {"decision", "snapshot", "history", "insert", "executor"}
ASSUME GraphAssumption == Qualities \subseteq Percent /\ Claims \subseteq Nat
ASSUME FinalityBounds ==
  /\ IsFiniteSet(Contradictions)
  /\ {MaxAnswers, MaxFailures} \subseteq Nat /\ MaxDeliver \in Nat \ {0}

VARIABLES
  open, closed,     \* contradictions active, and resolved
  claims, quality,  \* the rest of the semantic graph
  points,           \* convergence_history, its newest Depth rows
  eval,             \* each evaluator
  review,           \* a finality review is in mitl_pending
  answers,          \* answers published, in order
  queue,            \* for each, deliveries left; 0 once acknowledged
  handling,         \* the answer the executor is handling, or 0
  decisions,        \* rows of scope_finality_decisions, in order
  cooldown,         \* the latest row is younger than the cooldown
  certificates,     \* on what grounds certificates were issued
  failures          \* failures so far

graph  == <<open, closed, claims, quality>>
human  == <<review, answers>>
record == <<queue, handling, decisions, cooldown>>
vars   == <<graph, points, eval, human, record, certificates, failures>>

(***************************************************************************)
(* History: `throughout', the contradictions that have been open ever      *)
(* since the evaluation began, and `window', how the goal score went in    *)
(* the points it saw when it resolved.                                     *)
(***************************************************************************)
Evaluator ==
  [at : {"idle", "contradictions", "record", "judge", "unavailable",
         "certify", "submit"},
   claims : Nat, quality : Percent, open : SUBSET Contradictions, total : Nat,
   grounds : {"none", "human", "gates"}, window : {"unseen", "falling", "monotone"},
   throughout : SUBSET Contradictions]

Vacuous == [at |-> "idle", claims |-> 0, quality |-> 0, open |-> {}, total |-> 0,
            grounds |-> "none", window |-> "unseen", throughout |-> {}]

Init ==
  /\ open = {} /\ closed = {}
  /\ claims \in Claims /\ quality \in Qualities
  /\ points = <<>>
  /\ eval = [e \in Evaluators |-> Vacuous]
  /\ review = FALSE /\ answers = <<>>
  /\ queue = <<>> /\ handling = 0 /\ decisions = <<>> /\ cooldown = FALSE
  /\ certificates = {}
  /\ failures = 0

-----------------------------------------------------------------------------
(***************************************************************************)
(* The graph moves under the evaluations.  A contradiction raised anew is  *)
(* another node.                                                           *)
(***************************************************************************)
Raise(k) ==
  /\ k \notin open \cup closed
  /\ open' = open \cup {k}
  /\ UNCHANGED <<closed, claims, quality, points, eval, human, record, certificates, failures>>

Resolve(k) ==
  /\ k \in open
  /\ open' = open \ {k} /\ closed' = closed \cup {k}
  /\ eval' = [e \in Evaluators |-> [eval[e] EXCEPT !.throughout = @ \ {k}]]
  /\ UNCHANGED <<claims, quality, points, human, record, certificates, failures>>

Learn(n, q) ==
  /\ claims' = n /\ quality' = q /\ <<n, q>> # <<claims, quality>>
  /\ UNCHANGED <<open, closed, points, eval, human, record, certificates, failures>>

-----------------------------------------------------------------------------
Latest == IF decisions = <<>> THEN "none" ELSE decisions[Len(decisions)]

Fails(what) == what \in Faults /\ failures < MaxFailures /\ failures' = failures + 1

Goto(e, step) == eval' = [eval EXCEPT ![e].at = step]

(***************************************************************************)
(* loadFinalitySnapshot, first part: claims, goals and risk.  Without      *)
(* claims contradictions are not even counted.                             *)
(***************************************************************************)
ClaimsRead ==
  IF claims = 0
    THEN [Vacuous EXCEPT !.at = "record", !.throughout = open]
    ELSE [Vacuous EXCEPT !.at = "contradictions", !.throughout = open,
                         !.claims = claims, !.quality = quality]

\* Mutant: any answer of a human ends the evaluation as an approval does.
Begin_AnyDecision(e) ==
  /\ eval[e].at = "idle"
  /\ eval' = [eval EXCEPT ![e] =
       IF Latest # "none" THEN [Vacuous EXCEPT !.at = "certify", !.grounds = "human"]
       ELSE ClaimsRead]
  /\ UNCHANGED <<graph, points, human, record, certificates, failures>>

(***************************************************************************)
(* The latest decision short-cuts the evaluation: an approval resolves the *)
(* scope, and a resolution to come or a deferral silences it for a while.  *)
(* Otherwise the claims are read next; no process writes both tables, so   *)
(* the two queries are one step.                                           *)
(***************************************************************************)
Begin(e) ==
  /\ eval[e].at = "idle"
  /\ eval' = [eval EXCEPT ![e] =
       IF Latest = "approve_finality"
         THEN [Vacuous EXCEPT !.at = "certify", !.grounds = "human"] ELSE
       IF Latest \in {"provide_resolution", "defer"} /\ cooldown
         THEN Vacuous
         ELSE ClaimsRead]
  /\ UNCHANGED <<graph, points, human, record, certificates, failures>>

(***************************************************************************)
(* The query for the decision fails: the evaluation goes on without one.   *)
(***************************************************************************)
BeginBlind(e) ==
  /\ eval[e].at = "idle" /\ Fails("decision")
  /\ eval' = [eval EXCEPT ![e] = ClaimsRead]
  /\ UNCHANGED <<graph, points, human, record, certificates>>

\* Mutant: the filters on the status are swapped.
ReadContradictions_Swapped(e) ==
  /\ eval[e].at = "contradictions"
  /\ eval' = [eval EXCEPT ![e].at = "record", ![e].open = closed,
                          ![e].total = Cardinality(open \cup closed)]
  /\ UNCHANGED <<graph, points, human, record, certificates, failures>>

(***************************************************************************)
(* ... and the contradictions last, by a query of their own.               *)
(***************************************************************************)
ReadContradictions(e) ==
  /\ eval[e].at = "contradictions"
  /\ eval' = [eval EXCEPT ![e].at = "record", ![e].open = open,
                          ![e].total = Cardinality(open \cup closed)]
  /\ UNCHANGED <<graph, points, human, record, certificates, failures>>

(***************************************************************************)
(* A query fails: the empty snapshot stands in.                            *)
(***************************************************************************)
ReadFails(e) ==
  /\ eval[e].at = "contradictions" /\ Fails("snapshot")
  /\ eval' = [eval EXCEPT ![e] = [Vacuous EXCEPT !.at = "record",
                                                 !.throughout = eval[e].throughout]]
  /\ UNCHANGED <<graph, points, human, record, certificates>>

Snapshot(e) ==
  dimension_scores(Cardinality(eval[e].open), eval[e].total, eval[e].quality)

\* Mutant: the history is loaded without a limit.
Record_Unlimited(e) ==
  /\ eval[e].at = "record"
  /\ points' = Append(points, Snapshot(e))
  /\ Goto(e, "judge")
  /\ UNCHANGED <<graph, human, record, certificates, failures>>

(***************************************************************************)
(* recordConvergencePoint: every evaluation, whoever asked for it, adds a  *)
(* point to the history that the gates are judged by.                      *)
(***************************************************************************)
Record(e) ==
  /\ eval[e].at = "record"
  /\ points' = LastOf(Append(points, Snapshot(e)), Depth)
  /\ Goto(e, "judge")
  /\ UNCHANGED <<graph, human, record, certificates, failures>>

(***************************************************************************)
(* The history cannot be written or read: convergenceData is undefined.    *)
(***************************************************************************)
StoreFails(e) ==
  /\ eval[e].at \in {"record", "judge"} /\ Fails("history")
  /\ Goto(e, "unavailable")
  /\ UNCHANGED <<graph, points, human, record, certificates>>

-----------------------------------------------------------------------------
(***************************************************************************)
(* The propagation history: no energy left (or no history), some, or a     *)
(* cascade that is not stable, which escalates.                            *)
(***************************************************************************)
Propagation == {"settled", "unsettled", "unstable"}

hasContent(e, mature) ==
  /\ eval[e].claims >= 3
  /\ eval[e].total > 0 \/ eval[e].claims >= 5 \/ mature

(***************************************************************************)
(* finality.RESOLVED of finality.yaml.                                     *)
(***************************************************************************)
allMet(e) == eval[e].open = {} /\ eval[e].quality >= 90

(***************************************************************************)
(* Path A.  Without convergence data the scalar test stands in for the     *)
(* vector one, and its gates A and C pass by default.                      *)
(***************************************************************************)
ResolvesByGates(e, mature, propagation, swings) ==
  /\ allMet(e) /\ propagation = "settled"
  /\ IF eval[e].at = "judge"
       THEN vector_final(Snapshot(e), per_dimension_monotonic(points),
                         per_dimension_trajectory(points, swings), hasContent(e, mature))
       ELSE goal_score(Snapshot(e)) >= AutoThreshold

(***************************************************************************)
(* Path B: a human is asked when a contradiction keeps the score from the  *)
(* threshold.                                                              *)
(***************************************************************************)
NeedsReview(e) ==
  LET score == goal_score(Snapshot(e))
  IN  eval[e].open # {} /\ NearThreshold <= score /\ score < AutoThreshold

(***************************************************************************)
(* Drift on file, at a node it blocks, with contradictions to solve.       *)
(***************************************************************************)
DriftNeedsHuman(e, blocked) == blocked /\ eval[e].open # {}

(***************************************************************************)
(* What an evaluation comes to, in the order of the code: drift,           *)
(* divergence, content, the ISS cascade, the gates (path A), the band      *)
(* (path B).  The rest is a status that is only reported.                  *)
(***************************************************************************)
Outcome(e, blocked, diverging, mature, propagation, swings) ==
  IF DriftNeedsHuman(e, blocked) THEN "review" ELSE
  IF diverging THEN "report" ELSE
  IF ~ hasContent(e, mature) \/ propagation = "unstable" THEN "report" ELSE
  IF ResolvesByGates(e, mature, propagation, swings) THEN "resolve" ELSE
  IF NeedsReview(e) THEN "review" ELSE "report"

Outcomes(e) ==
  LET diverging == eval[e].at = "judge" /\ diverges(points)
  IN  {Outcome(e, blocked, diverging, mature, propagation, swings) :
         blocked \in BOOLEAN, mature \in BOOLEAN, propagation \in Propagation,
         swings \in SUBSET Dimensions}

Window(e) == IF eval[e].at # "judge" THEN "unseen" ELSE
             IF NonDecreasing(Goals(points), Beta, Tolerance) THEN "monotone" ELSE "falling"

(***************************************************************************)
(* getConvergenceState and the rest of evaluateFinality.                   *)
(***************************************************************************)
Judge(e) ==
  /\ eval[e].at \in {"judge", "unavailable"}
  /\ \E outcome \in Outcomes(e) :
       eval' = [eval EXCEPT ![e] =
         IF outcome = "resolve"
           THEN [Vacuous EXCEPT !.at = "certify", !.grounds = "gates",
                   !.throughout = eval[e].throughout,
                   !.window = Window(e)] ELSE
         IF outcome = "review" THEN [Vacuous EXCEPT !.at = "submit"] ELSE Vacuous]
  /\ UNCHANGED <<graph, points, human, record, certificates, failures>>

(***************************************************************************)
(* emitSessionFinalized and emitFinalityCertificate.                       *)
(***************************************************************************)
Certify(e) ==
  /\ eval[e].at = "certify"
  /\ certificates' = certificates \cup {eval[e].grounds}
  /\ eval' = [eval EXCEPT ![e] = Vacuous]
  /\ UNCHANGED <<graph, points, human, record, failures>>

(***************************************************************************)
(* submitFinalityReviewForScope, as one step: what two of them do to each  *)
(* other is a matter for MitlServer.                                       *)
(***************************************************************************)
Submit(e) ==
  /\ eval[e].at = "submit"
  /\ review' = TRUE
  /\ eval' = [eval EXCEPT ![e] = Vacuous]
  /\ UNCHANGED <<graph, points, answers, record, certificates, failures>>

-----------------------------------------------------------------------------
(***************************************************************************)
(* resolveFinalityPending: the answer is published and the review removed. *)
(***************************************************************************)
Answer(option) ==
  /\ review /\ Len(answers) < MaxAnswers
  /\ answers' = Append(answers, option)
  /\ queue' = Append(queue, MaxDeliver)
  /\ review' = FALSE
  /\ UNCHANGED <<graph, points, eval, handling, decisions, cooldown, certificates, failures>>

(***************************************************************************)
(* One consumer: answers come in order, but one that is to be repeated may *)
(* come after later ones.                                                  *)
(***************************************************************************)
Deliver(i) ==
  /\ handling = 0 /\ queue[i] > 0
  /\ \A j \in 1..(i - 1) : queue[j] < MaxDeliver
  /\ handling' = i
  /\ queue' = [queue EXCEPT ![i] = @ - 1]
  /\ UNCHANGED <<graph, points, eval, human, decisions, cooldown, certificates, failures>>

\* Mutant: the answer is acknowledged and only logged.
recordFinalityDecision_Drops ==
  /\ handling # 0
  /\ queue' = [queue EXCEPT ![handling] = 0]
  /\ handling' = 0
  /\ UNCHANGED <<graph, points, eval, human, decisions, cooldown, certificates, failures>>

(***************************************************************************)
(* recordFinalityDecision, and the acknowledgement.                        *)
(***************************************************************************)
recordFinalityDecision ==
  /\ handling # 0
  /\ decisions' = Append(decisions, answers[handling])
  /\ cooldown' = TRUE
  /\ queue' = [queue EXCEPT ![handling] = 0]
  /\ handling' = 0
  /\ UNCHANGED <<graph, points, eval, human, certificates, failures>>

(***************************************************************************)
(* The insert fails: the error is logged and the answer acknowledged.      *)
(***************************************************************************)
RecordFails ==
  /\ handling # 0 /\ Fails("insert")
  /\ queue' = [queue EXCEPT ![handling] = 0]
  /\ handling' = 0
  /\ UNCHANGED <<graph, points, eval, human, decisions, cooldown, certificates>>

(***************************************************************************)
(* The executor dies before the acknowledgement, the row being inserted or *)
(* not.                                                                    *)
(***************************************************************************)
Crash ==
  /\ handling # 0 /\ Fails("executor")
  /\ handling' = 0
  /\ \/ UNCHANGED <<decisions, cooldown>>
     \/ decisions' = Append(decisions, answers[handling]) /\ cooldown' = TRUE
  /\ UNCHANGED <<graph, points, eval, human, queue, certificates>>

CooldownOver ==
  /\ cooldown /\ cooldown' = FALSE
  /\ UNCHANGED <<graph, points, eval, human, queue, handling, decisions, certificates, failures>>

-----------------------------------------------------------------------------
evaluate(e) ==
  \/ Begin(e) \/ ReadContradictions(e) \/ Record(e) \/ Judge(e)
  \/ Certify(e) \/ Submit(e)

execute == (\E i \in DOMAIN queue : Deliver(i)) \/ recordFinalityDecision

Next ==
  \/ \E k \in Contradictions : Raise(k) \/ Resolve(k)
  \/ \E n \in Claims, q \in Qualities : Learn(n, q)
  \/ \E e \in Evaluators :
       evaluate(e) \/ BeginBlind(e) \/ ReadFails(e) \/ StoreFails(e)
  \/ \E option \in Options : Answer(option)
  \/ execute \/ RecordFails \/ Crash
  \/ CooldownOver

Spec == Init /\ [][Next]_vars

-----------------------------------------------------------------------------
(***************************************************************************)
(* Types; and the history never grows beyond what is loaded.               *)
(***************************************************************************)
TypeOK ==
  /\ open \subseteq Contradictions /\ closed \subseteq Contradictions
  /\ open \cap closed = {}
  /\ claims \in Claims /\ quality \in Qualities
  /\ points \in Seq(Point) /\ Len(points) <= Depth
  /\ eval \in [Evaluators -> Evaluator]
  /\ review \in BOOLEAN
  /\ answers \in Seq(Options) /\ queue \in Seq(0..MaxDeliver)
  /\ Len(queue) = Len(answers) /\ handling \in {0} \cup DOMAIN answers
  /\ decisions \in Seq(Options) /\ cooldown \in BOOLEAN
  /\ certificates \subseteq {"human", "gates"} /\ failures \in 0..MaxFailures

Certifying(e, grounds) == eval[e].at = "certify" /\ eval[e].grounds = grounds

(***************************************************************************)
(* The snapshot is several queries, the history is shared by everybody who *)
(* evaluates, and any of it may fail; still no automatic resolution passes *)
(* over a contradiction that was open the whole time it was worked out.    *)
(***************************************************************************)
OpenThroughoutBlocks ==
  \A e \in Evaluators : Certifying(e, "gates") => eval[e].throughout = {}

(***************************************************************************)
(* "Monotonicity gate - score must be non-decreasing for beta rounds       *)
(* before auto-resolve" (src/convergenceTracker.ts:7).  The vector         *)
(* predicate asks it of each dimension and never of the goal score; still  *)
(* no history that was seen to fall is resolved.                           *)
(***************************************************************************)
NeverResolvedFalling ==
  \A e \in Evaluators : Certifying(e, "gates") => eval[e].window # "falling"

(***************************************************************************)
(* A certificate on a human's word has that word behind it, through the    *)
(* bus, the executor, the table and a later evaluation.                    *)
(***************************************************************************)
WordBehindCertificate ==
  (\E e \in Evaluators : Certifying(e, "human")) \/ "human" \in certificates
    => \E i \in DOMAIN answers : answers[i] = "approve_finality"

(***************************************************************************)
(* An answer leaves the bus recorded, once, but for as many as failures.   *)
(***************************************************************************)
Settled == {i \in DOMAIN queue : queue[i] = 0 /\ handling # i}

RecordedUnlessFailed ==
  /\ Len(decisions) + failures >= Cardinality(Settled)
  /\ Len(decisions) <= Len(answers) + failures
=============================================================================
