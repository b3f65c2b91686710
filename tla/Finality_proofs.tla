--------------------------- MODULE Finality_proofs ---------------------------
(***************************************************************************)
(* What finality promises for any number of evaluators, contradictions,    *)
(* answers and failures: no automatic resolution over a contradiction that *)
(* was open throughout or over a history that was seen to fall, no         *)
(* certificate on a human's word without that word, and no answer lost but *)
(* to a failure.                                                           *)
(***************************************************************************)
EXTENDS Finality, FiniteSetTheorems, SequenceTheorems, TLAPS

USE HistoryAssumption, OptionsAssumption, FaultsAssumption, GraphAssumption, FinalityBounds

-----------------------------------------------------------------------------
(***************************************************************************)
(* Arithmetic of scores.                                                   *)
(***************************************************************************)
LEMMA ShareIsPercent ==
  ASSUME NEW o \in Nat, NEW t \in Nat, o <= t, t # 0
  PROVE  100 - (100 * o) \div t \in Percent
<1> DEFINE q == (100 * o) \div t
<1>1. q \in Int /\ t * q <= 100 * o BY SMT
<1>2. q >= 0 BY SMT
<1>3. q <= 100
  <2> HIDE DEF q
  <2> SUFFICES ASSUME q >= 101 PROVE FALSE BY <1>1
  <2>1. t * 101 <= t * q BY <1>1
  <2> QED BY <1>1, <2>1
<1> QED BY <1>1, <1>2, <1>3 DEF Percent

LEMMA SnapshotIsPoint ==
  ASSUME NEW e \in Evaluators, eval[e] \in Evaluator,
         Cardinality(eval[e].open) \in Nat,
         Cardinality(eval[e].open) <= eval[e].total
  PROVE  Snapshot(e) \in Point
<1>1. eval[e].total \in Nat /\ eval[e].quality \in Percent BY DEF Evaluator
<1>2. 100 \in Percent BY DEF Percent
<1> QED BY <1>1, <1>2, ShareIsPercent DEF Snapshot, dimension_scores, Point

LEMMA PointDimensions ==
  ASSUME NEW p \in Point, NEW d \in Dimensions
  PROVE  p[d] \in Int
<1>1. CASE d = "contradictions" BY <1>1 DEF Point, Percent
<1>2. CASE d = "quality" BY <1>2 DEF Point, Percent
<1> QED BY <1>1, <1>2 DEF Dimensions

\* A point that is no worse in any dimension has no lower goal score.
LEMMA GoalScoreMonotone ==
  ASSUME NEW p \in Point, NEW r \in Point, \A d \in Dimensions : p[d] >= r[d] - 0
  PROVE  goal_score(p) >= goal_score(r) - Tolerance
<1>1. /\ p["contradictions"] \in Int /\ p["quality"] \in Int
      /\ r["contradictions"] \in Int /\ r["quality"] \in Int
  BY PointDimensions DEF Dimensions
<1>2. p["contradictions"] >= r["contradictions"] /\ p["quality"] >= r["quality"]
  BY <1>1 DEF Dimensions
<1>3. weight["contradictions"] = 30 /\ weight["quality"] = 70 BY DEF weight
<1>4. /\ goal_score(p) = 30 * p["contradictions"] + 70 * p["quality"]
      /\ goal_score(r) = 30 * r["contradictions"] + 70 * r["quality"]
  BY <1>3 DEF goal_score
<1> QED BY <1>1, <1>2, <1>4 DEF Tolerance

LEMMA LastOfPoints ==
  ASSUME NEW S, NEW h \in Seq(S), NEW n \in Nat
  PROVE  LastOf(h, n) \in Seq(S) /\ Len(LastOf(h, n)) <= n
<1> DEFINE m == IF Len(h) > n THEN Len(h) - n + 1 ELSE 1
<1>1. Len(h) \in Nat BY LenProperties
<1>2. CASE Len(h) > n BY <1>1, <1>2, SubSeqProperties DEF LastOf
<1>3. CASE ~ (Len(h) > n) BY <1>1, <1>3, SubSeqProperties DEF LastOf
<1> QED BY <1>2, <1>3

LEMMA Appended ==
  ASSUME NEW S, NEW h \in Seq(S), NEW x \in S
  PROVE  Append(h, x) \in Seq(S) /\ Len(Append(h, x)) = Len(h) + 1
BY AppendProperties

LEMMA EvaluatorFields ==
  ASSUME NEW r \in Evaluator
  PROVE  /\ r.at \in {"idle", "contradictions", "record", "judge", "unavailable",
                      "certify", "submit"}
         /\ r.claims \in Nat /\ r.quality \in Percent
         /\ r.open \subseteq Contradictions /\ r.total \in Nat
         /\ r.grounds \in {"none", "human", "gates"}
         /\ r.window \in {"unseen", "falling", "monotone"}
         /\ r.throughout \subseteq Contradictions
BY DEF Evaluator

LEMMA VacuousIsEvaluator ==
  /\ Vacuous \in Evaluator /\ Vacuous.at = "idle"
  /\ Cardinality(Vacuous.open) = 0 /\ Vacuous.total = 0
<1>1. Vacuous \in Evaluator BY DEF Vacuous, Evaluator, Percent
<1> QED BY <1>1, FS_EmptySet DEF Vacuous

LEMMA FiniteContradictions ==
  ASSUME NEW S, S \subseteq Contradictions
  PROVE  IsFiniteSet(S) /\ Cardinality(S) \in Nat
BY FS_Subset, FS_CardinalityType

LEMMA ClaimsReadIsEvaluator ==
  ASSUME TypeOK
  PROVE  /\ ClaimsRead \in Evaluator /\ ClaimsRead.total = 0 /\ ClaimsRead.open = {}
         /\ ClaimsRead.at \in {"record", "contradictions"}
         /\ ClaimsRead.throughout = open
         /\ ClaimsRead.at = "record" => ClaimsRead.claims = 0
<1>1. claims \in Nat /\ quality \in Percent /\ open \subseteq Contradictions
  BY DEF TypeOK
<1>2. CASE claims = 0
  BY <1>1, <1>2, VacuousIsEvaluator DEF ClaimsRead, Vacuous, Evaluator
<1>3. CASE claims # 0
  BY <1>1, <1>3, VacuousIsEvaluator DEF ClaimsRead, Vacuous, Evaluator
<1> QED BY <1>2, <1>3

-----------------------------------------------------------------------------
(***************************************************************************)
(* Types; a snapshot never has more contradictions open than there are,    *)
(* and a certificate has grounds.                                          *)
(***************************************************************************)
Counted ==
  \A e \in Evaluators :
    /\ Cardinality(eval[e].open) <= eval[e].total
    /\ eval[e].at = "certify" => eval[e].grounds # "none"

TypeInv == TypeOK /\ Counted

EvalOK(f) == /\ f \in [Evaluators -> Evaluator]
             /\ \A e \in Evaluators :
                  /\ Cardinality(f[e].open) <= f[e].total
                  /\ f[e].at = "certify" => f[e].grounds # "none"

\* An evaluation replaced by one whose snapshot is well formed.
LEMMA Replaced ==
  ASSUME TypeInv, NEW e \in Evaluators, NEW r \in Evaluator,
         Cardinality(r.open) <= r.total, r.at = "certify" => r.grounds # "none"
  PROVE  EvalOK([eval EXCEPT ![e] = r])
BY DEF TypeInv, TypeOK, Counted, EvalOK

LEMMA VacuousReplaces ==
  ASSUME TypeInv, NEW e \in Evaluators
  PROVE  EvalOK([eval EXCEPT ![e] = Vacuous])
<1>1. Cardinality(Vacuous.open) <= Vacuous.total BY VacuousIsEvaluator
<1>2. Vacuous.at # "certify" BY VacuousIsEvaluator
<1> QED BY <1>1, <1>2, VacuousIsEvaluator, Replaced

LEMMA Moved ==
  ASSUME TypeInv, NEW e \in Evaluators,
         NEW step \in {"judge", "unavailable"},
         Goto(e, step)
  PROVE  EvalOK(eval')
<1> DEFINE r == [eval[e] EXCEPT !.at = step]
<1>1. r \in Evaluator /\ r.open = eval[e].open /\ r.total = eval[e].total
      /\ r.at = step
  BY DEF TypeInv, TypeOK, Evaluator
<1>2. eval' = [eval EXCEPT ![e] = r]
  BY DEF Goto
<1> HIDE DEF r
<1> QED BY <1>1, <1>2, Replaced DEF TypeInv, Counted

LEMMA EmptySnapshot ==
  ASSUME NEW r \in Evaluator, r.open = {} , r.total = 0
  PROVE  Cardinality(r.open) <= r.total
BY FS_EmptySet

LEMMA TypeInit == Init => TypeInv
<1> SUFFICES ASSUME Init PROVE TypeInv OBVIOUS
<1>1. eval \in [Evaluators -> Evaluator] /\ Counted
  BY VacuousIsEvaluator DEF Init, Counted
<1>2. points \in Seq(Point) /\ Len(points) <= Depth BY DEF Init
<1>3. /\ answers \in Seq(Options) /\ queue \in Seq(0..MaxDeliver)
      /\ Len(queue) = Len(answers) /\ handling \in {0} \cup DOMAIN answers
      /\ decisions \in Seq(Options)
  BY DEF Init
<1>4. MaxFailures \in Nat BY {MaxAnswers, MaxFailures} \subseteq Nat
<1>5. failures \in 0..MaxFailures BY <1>4 DEF Init
<1> QED BY <1>1, <1>2, <1>3, <1>5 DEF Init, TypeInv, TypeOK

\* The three parts of the state, each kept by what does not touch it.
LEMMA EvalStep ==
  ASSUME TypeInv, EvalOK(eval'),
         UNCHANGED <<graph, points, human, record>>,
         certificates' \subseteq {"human", "gates"}, failures' \in 0..MaxFailures
  PROVE  TypeInv'
BY DEF TypeInv, TypeOK, EvalOK, Counted, graph, human, record

LEMMA EvalGraphStep ==
  ASSUME TypeInv, EvalOK(eval'), Fails("snapshot") \/ UNCHANGED failures,
         UNCHANGED <<graph, points, human, record, certificates>>
  PROVE  TypeInv'
BY DEF TypeInv, TypeOK, EvalOK, Counted, graph, human, record, Fails

LEMMA TypeFails ==
  ASSUME TypeInv, NEW what, Fails(what)
  PROVE  failures' \in 0..MaxFailures
BY DEF TypeInv, TypeOK, Fails

LEMMA TypeEvaluate ==
  ASSUME TypeInv, NEW e \in Evaluators,
         \/ evaluate(e) \/ BeginBlind(e) \/ ReadFails(e) \/ StoreFails(e)
  PROVE  TypeInv'
<1>0. TypeOK /\ eval[e] \in Evaluator /\ failures \in 0..MaxFailures
      /\ certificates \subseteq {"human", "gates"}
  BY DEF TypeInv, TypeOK
<1>1. CASE Begin(e)
  <2> DEFINE r == IF Latest = "approve_finality"
                    THEN [Vacuous EXCEPT !.at = "certify", !.grounds = "human"] ELSE
                  IF Latest \in {"provide_resolution", "defer"} /\ cooldown
                    THEN Vacuous ELSE ClaimsRead
  <2>1. r \in Evaluator /\ r.open = {} /\ r.total = 0
        /\ (r.at = "certify" => r.grounds # "none")
    <3>1. [Vacuous EXCEPT !.at = "certify", !.grounds = "human"] \in Evaluator
      BY VacuousIsEvaluator DEF Vacuous, Evaluator
    <3> QED BY <1>0, <3>1, VacuousIsEvaluator, ClaimsReadIsEvaluator DEF Vacuous
  <2>2. eval' = [eval EXCEPT ![e] = r] BY <1>1 DEF Begin
  <2> HIDE DEF r
  <2>3. EvalOK(eval') BY <2>1, <2>2, EmptySnapshot, Replaced
  <2> QED BY <1>0, <1>1, <2>3, EvalStep DEF Begin
<1>2. CASE ReadContradictions(e)
  <2> DEFINE r == [eval[e] EXCEPT !.at = "record", !.open = open,
                                  !.total = Cardinality(open \cup closed)]
  <2>1. open \subseteq Contradictions /\ open \cup closed \subseteq Contradictions
    BY <1>0 DEF TypeOK
  <2>2. Cardinality(open \cup closed) \in Nat
        /\ Cardinality(open) <= Cardinality(open \cup closed)
    BY <2>1, FiniteContradictions, FS_Subset
  <2>3. r \in Evaluator /\ r.open = open /\ r.total = Cardinality(open \cup closed)
        /\ r.at = "record"
    BY <1>0, <2>1, <2>2 DEF Evaluator
  <2>4. eval' = [eval EXCEPT ![e] = r] BY <1>2 DEF ReadContradictions
  <2> HIDE DEF r
  <2>5. EvalOK(eval') BY <2>2, <2>3, <2>4, Replaced
  <2> QED BY <1>0, <1>2, <2>5, EvalStep DEF ReadContradictions
<1>3. CASE Record(e)
  <2>1. EvalOK(eval') BY <1>3, Moved DEF Record
  <2>2. Snapshot(e) \in Point
    <3>1. eval[e].open \subseteq Contradictions BY <1>0, EvaluatorFields
    <3> QED BY <1>0, <3>1, FiniteContradictions, SnapshotIsPoint DEF TypeInv, Counted
  <2>3. Append(points, Snapshot(e)) \in Seq(Point)
    BY <1>0, <2>2, Appended DEF TypeOK
  <2>4. points' \in Seq(Point) /\ Len(points') <= Depth
    BY <1>3, <2>3, LastOfPoints DEF Record
  <2> QED BY <1>0, <1>3, <2>1, <2>4 DEF Record, TypeInv, TypeOK, EvalOK, Counted, graph, human, record
<1>4. CASE Judge(e)
  <2>1. PICK outcome \in Outcomes(e) :
          eval' = [eval EXCEPT ![e] =
            IF outcome = "resolve"
              THEN [Vacuous EXCEPT !.at = "certify", !.grounds = "gates",
                      !.throughout = eval[e].throughout, !.window = Window(e)] ELSE
            IF outcome = "review" THEN [Vacuous EXCEPT !.at = "submit"] ELSE Vacuous]
    BY <1>4 DEF Judge
  <2> DEFINE r == IF outcome = "resolve"
                    THEN [Vacuous EXCEPT !.at = "certify", !.grounds = "gates",
                            !.throughout = eval[e].throughout, !.window = Window(e)] ELSE
                  IF outcome = "review" THEN [Vacuous EXCEPT !.at = "submit"] ELSE Vacuous
  <2>2. r \in Evaluator /\ r.open = {} /\ r.total = 0
        /\ (r.at = "certify" => r.grounds # "none")
    <3>1. Window(e) \in {"unseen", "falling", "monotone"} BY DEF Window
    <3>2. [Vacuous EXCEPT !.at = "certify", !.grounds = "gates",
             !.throughout = eval[e].throughout, !.window = Window(e)] \in Evaluator
      BY <1>0, <3>1, EvaluatorFields, VacuousIsEvaluator DEF Vacuous, Evaluator
    <3>3. [Vacuous EXCEPT !.at = "submit"] \in Evaluator
      BY VacuousIsEvaluator DEF Vacuous, Evaluator
    <3> QED BY <3>2, <3>3, VacuousIsEvaluator DEF Vacuous
  <2>3. eval' = [eval EXCEPT ![e] = r] BY <2>1
  <2> HIDE DEF r
  <2>4. EvalOK(eval') BY <2>2, <2>3, EmptySnapshot, Replaced
  <2> QED BY <1>0, <1>4, <2>4, EvalStep DEF Judge
<1>5. CASE Certify(e)
  <2>0. eval' = [eval EXCEPT ![e] = Vacuous] BY <1>5 DEF Certify
  <2>1. EvalOK(eval') BY <2>0, VacuousReplaces
  <2>2. UNCHANGED <<graph, points, human, record, failures>> BY <1>5 DEF Certify
  <2>3. certificates' \subseteq {"human", "gates"}
    <3>1. eval[e].grounds \in {"human", "gates"}
      BY <1>0, <1>5, EvaluatorFields DEF Certify, TypeInv, Counted
    <3> QED BY <1>0, <1>5, <3>1 DEF Certify
  <2> QED BY <1>0, <1>5, <2>1, <2>2, <2>3, EvalStep DEF Certify
<1>6. CASE Submit(e)
  <2>0. eval' = [eval EXCEPT ![e] = Vacuous] BY <1>6 DEF Submit
  <2>1. EvalOK(eval') BY <2>0, VacuousReplaces
  <2> QED BY <1>0, <1>6, <2>1 DEF Submit, TypeInv, TypeOK, EvalOK, Counted, graph, record
<1>7. CASE BeginBlind(e)
  <2>1. EvalOK(eval')
    BY <1>0, <1>7, ClaimsReadIsEvaluator, EmptySnapshot, Replaced DEF BeginBlind
  <2> QED BY <1>0, <1>7, <2>1, TypeFails, EvalStep DEF BeginBlind
<1>8. CASE ReadFails(e)
  <2> DEFINE r == [Vacuous EXCEPT !.at = "record", !.throughout = eval[e].throughout]
  <2>1. r \in Evaluator /\ r.open = {} /\ r.total = 0
        /\ (r.at = "certify" => r.grounds # "none")
    BY <1>0, EvaluatorFields, VacuousIsEvaluator DEF Vacuous, Evaluator
  <2>2. eval' = [eval EXCEPT ![e] = r] BY <1>8 DEF ReadFails
  <2> HIDE DEF r
  <2>3. EvalOK(eval') BY <2>1, <2>2, EmptySnapshot, Replaced
  <2> QED BY <1>0, <1>8, <2>3, TypeFails, EvalStep DEF ReadFails
<1>9. CASE StoreFails(e)
  <2>1. EvalOK(eval') BY <1>9, Moved DEF StoreFails
  <2> QED BY <1>0, <1>9, <2>1, TypeFails, EvalStep DEF StoreFails
<1> QED BY <1>1, <1>2, <1>3, <1>4, <1>5, <1>6, <1>7, <1>8, <1>9 DEF evaluate

LEMMA TypeGraph ==
  ASSUME TypeInv,
         \/ \E k \in Contradictions : Raise(k) \/ Resolve(k)
         \/ \E n \in Claims, q \in Qualities : Learn(n, q)
  PROVE  TypeInv'
<1>0. TypeOK /\ Counted BY DEF TypeInv
<1>1. ASSUME NEW k \in Contradictions, Raise(k) PROVE TypeInv'
  BY <1>0, <1>1 DEF Raise, TypeInv, TypeOK, Counted, human, record
<1>2. ASSUME NEW k \in Contradictions, Resolve(k) PROVE TypeInv'
  <2>1. EvalOK(eval')
    <3>1. ASSUME NEW e \in Evaluators
          PROVE  /\ eval'[e] \in Evaluator
                 /\ eval'[e].open = eval[e].open /\ eval'[e].total = eval[e].total
                 /\ eval'[e].at = eval[e].at /\ eval'[e].grounds = eval[e].grounds
      <4>1. eval[e] \in Evaluator BY <1>0 DEF TypeOK
      <4>2. eval'[e] = [eval[e] EXCEPT !.throughout = eval[e].throughout \ {k}]
        BY <1>2 DEF Resolve
      <4> QED BY <4>1, <4>2 DEF Evaluator
    <3>2. eval' = [e \in Evaluators |-> eval'[e]] BY <1>2 DEF Resolve
    <3> QED BY <1>0, <3>1, <3>2 DEF EvalOK, Counted
  <2> QED BY <1>0, <1>2, <2>1 DEF Resolve, TypeInv, TypeOK, EvalOK, Counted, human, record
<1>3. ASSUME NEW n \in Claims, NEW q \in Qualities, Learn(n, q) PROVE TypeInv'
  BY <1>0, <1>3 DEF Learn, TypeInv, TypeOK, Counted, human, record
<1> QED BY <1>1, <1>2, <1>3

LEMMA Bounds == MaxAnswers \in Nat /\ MaxFailures \in Nat /\ MaxDeliver \in Nat \ {0}
<1>1. {MaxAnswers, MaxFailures} \subseteq Nat OBVIOUS
<1> QED BY <1>1

LEMMA TypeAnswers ==
  ASSUME TypeInv,
         \/ \E option \in Options : Answer(option)
         \/ execute \/ RecordFails \/ Crash \/ CooldownOver
  PROVE  TypeInv'
<1>0. TypeOK /\ Counted BY DEF TypeInv
<1> USE Bounds
<1>1. ASSUME NEW option \in Options, Answer(option) PROVE TypeInv'
  <2>1. answers' \in Seq(Options) /\ Len(answers') = Len(answers) + 1
    BY <1>0, <1>1, Appended DEF Answer, TypeOK
  <2>2. queue' \in Seq(0..MaxDeliver) /\ Len(queue') = Len(queue) + 1
    BY <1>0, <1>1, Appended DEF Answer, TypeOK
  <2>3. handling' \in {0} \cup DOMAIN answers'
    <3>1. DOMAIN answers = 1..Len(answers) /\ Len(answers) \in Nat BY <1>0 DEF TypeOK
    <3>2. DOMAIN answers' = 1..Len(answers') BY <2>1
    <3> QED BY <1>0, <1>1, <2>1, <3>1, <3>2 DEF Answer, TypeOK
  <2> QED BY <1>0, <1>1, <2>1, <2>2, <2>3 DEF Answer, TypeInv, TypeOK, Counted, graph
<1>2. ASSUME NEW i \in DOMAIN queue, Deliver(i) PROVE TypeInv'
  <2>1. queue[i] \in 0..MaxDeliver /\ queue[i] - 1 \in 0..MaxDeliver
    BY <1>0, <1>2 DEF Deliver, TypeOK
  <2>2. queue' \in Seq(0..MaxDeliver) /\ Len(queue') = Len(queue)
    BY <1>0, <1>2, <2>1 DEF Deliver, TypeOK
  <2>3. handling' \in DOMAIN answers' BY <1>0, <1>2 DEF Deliver, TypeOK, human
  <2> QED BY <1>0, <1>2, <2>2, <2>3 DEF Deliver, TypeInv, TypeOK, Counted, graph, human
<1>3. ASSUME handling # 0, queue' = [queue EXCEPT ![handling] = 0]
      PROVE  queue' \in Seq(0..MaxDeliver) /\ Len(queue') = Len(queue)
  BY <1>0, <1>3 DEF TypeOK
<1>4. ASSUME handling # 0
      PROVE  Append(decisions, answers[handling]) \in Seq(Options)
  BY <1>0, <1>4, Appended DEF TypeOK
<1>5. CASE recordFinalityDecision
  BY <1>0, <1>3, <1>4, <1>5
  DEF recordFinalityDecision, TypeInv, TypeOK, Counted, graph, human
<1>6. CASE RecordFails
  BY <1>0, <1>3, <1>6, TypeFails DEF RecordFails, TypeInv, TypeOK, Counted, graph, human
<1>7. CASE Crash
  BY <1>0, <1>4, <1>7, TypeFails DEF Crash, TypeInv, TypeOK, Counted, graph, human
<1>8. CASE CooldownOver
  BY <1>0, <1>8 DEF CooldownOver, TypeInv, TypeOK, Counted, graph, human
<1> QED BY <1>1, <1>2, <1>5, <1>6, <1>7, <1>8 DEF execute

LEMMA TypeInvariant == Spec => []TypeInv
<1>1. TypeInv /\ [Next]_vars => TypeInv'
  <2> SUFFICES ASSUME TypeInv, [Next]_vars PROVE TypeInv' OBVIOUS
  <2>1. CASE Next BY <2>1, TypeGraph, TypeEvaluate, TypeAnswers DEF Next
  <2>2. CASE UNCHANGED vars
    BY <2>2 DEF vars, graph, human, record, TypeInv, TypeOK, Counted
  <2> QED BY <2>1, <2>2
<1> QED BY <1>1, TypeInit, PTL DEF Spec

(***************************************************************************)
(* Every variable keeps its type, and the history that everybody writes    *)
(* to never outgrows what is loaded.                                       *)
(***************************************************************************)
THEOREM TypeCorrect == Spec => []TypeOK
<1>1. TypeInv => TypeOK BY DEF TypeInv
<1> QED BY <1>1, TypeInvariant, PTL

-----------------------------------------------------------------------------
(***************************************************************************)
(* What an evaluation carries from its reads to its verdict: what was open *)
(* throughout is among what it counted, unless it saw no claims at all.    *)
(***************************************************************************)
Carries(r) ==
  /\ r.at = "contradictions" => r.throughout \subseteq open
  /\ r.at \in {"record", "judge", "unavailable"}
       => r.throughout \subseteq r.open \/ r.claims = 0
  /\ r.at = "certify" /\ r.grounds = "gates"
       => r.throughout = {} /\ r.window # "falling"

ReadsInv == \A e \in Evaluators : Carries(eval[e])

\* The goal score follows the dimensions: it did not fall if none of them did.
LEMMA MonotoneWindow ==
  ASSUME NEW h \in Seq(Point), per_dimension_monotonic(h) = Dimensions
  PROVE  NonDecreasing(Goals(h), Beta, Tolerance)
<1> DEFINE m == IF Len(h) > Beta THEN Len(h) - Beta + 1 ELSE 1
<1>1. Len(h) \in Nat /\ DOMAIN h = 1..Len(h) BY LenProperties
<1>2. \A d \in Dimensions : NonDecreasing(Scores(h, d), Beta, 0)
  BY DEF per_dimension_monotonic
<1>3. \A d \in Dimensions : Scores(h, d) \in Seq(Int) /\ Len(Scores(h, d)) = Len(h)
                            /\ \A i \in 1..Len(h) : Scores(h, d)[i] = h[i][d]
  <2> SUFFICES ASSUME NEW d \in Dimensions
               PROVE  Scores(h, d) \in Seq(Int) /\ Len(Scores(h, d)) = Len(h)
                      /\ \A i \in 1..Len(h) : Scores(h, d)[i] = h[i][d]
    OBVIOUS
  <2>1. \A i \in 1..Len(h) : h[i] \in Point /\ h[i][d] \in Int BY <1>1, PointDimensions
  <2> QED BY <1>1, <2>1 DEF Scores
<1>4. \A p \in Point : goal_score(p) \in Int
  <2> SUFFICES ASSUME NEW p \in Point PROVE goal_score(p) \in Int OBVIOUS
  <2>1. p["contradictions"] \in Int /\ p["quality"] \in Int
    BY PointDimensions DEF Dimensions
  <2>2. weight["contradictions"] = 30 /\ weight["quality"] = 70 BY DEF weight
  <2>3. goal_score(p) = 30 * p["contradictions"] + 70 * p["quality"]
    BY <2>2 DEF goal_score
  <2> QED BY <2>1, <2>3
<1>5. Goals(h) \in Seq(Int) /\ Len(Goals(h)) = Len(h)
      /\ \A i \in 1..Len(h) : Goals(h)[i] = goal_score(h[i])
  BY <1>1, <1>4 DEF Goals
<1>6. "quality" \in Dimensions BY DEF Dimensions
<1>7. Len(h) >= Beta BY <1>2, <1>3, <1>6 DEF NonDecreasing
<1>8. m \in 1..(Len(h) + 1) /\ Len(h) - m + 1 = Beta BY <1>1, <1>7
\* The last Beta elements of a sequence as long as h.
<1>9. ASSUME NEW S, NEW t \in Seq(S), Len(t) = Len(h)
      PROVE  /\ Len(LastOf(t, Beta)) = Beta
             /\ \A i \in 1..Beta : LastOf(t, Beta)[i] = t[m + i - 1]
  BY <1>1, <1>8, <1>9, SubSeqProperties DEF LastOf
<1>10. ASSUME NEW i \in 2..Beta
       PROVE  LastOf(Goals(h), Beta)[i] >= LastOf(Goals(h), Beta)[i - 1] - Tolerance
  <2>1. /\ LastOf(Goals(h), Beta)[i] = goal_score(h[m + i - 1])
        /\ LastOf(Goals(h), Beta)[i - 1] = goal_score(h[m + (i - 1) - 1])
    <3>1. i \in 1..Beta /\ i - 1 \in 1..Beta OBVIOUS
    <3>2. m + i - 1 \in 1..Len(h) /\ m + (i - 1) - 1 \in 1..Len(h) BY <1>1, <1>8
    <3> HIDE DEF m
    <3>3. /\ LastOf(Goals(h), Beta)[i] = Goals(h)[m + i - 1]
          /\ LastOf(Goals(h), Beta)[i - 1] = Goals(h)[m + (i - 1) - 1]
      BY <1>5, <1>9, <3>1
    <3> QED BY <1>5, <3>2, <3>3
  <2>2. ASSUME NEW d \in Dimensions
        PROVE  h[m + i - 1][d] >= h[m + (i - 1) - 1][d] - 0
    <3>1. /\ LastOf(Scores(h, d), Beta)[i] = h[m + i - 1][d]
          /\ LastOf(Scores(h, d), Beta)[i - 1] = h[m + (i - 1) - 1][d]
      <4>1. i \in 1..Beta /\ i - 1 \in 1..Beta OBVIOUS
      <4>2. m + i - 1 \in 1..Len(h) /\ m + (i - 1) - 1 \in 1..Len(h) BY <1>1, <1>8
      <4> HIDE DEF m
      <4>3. /\ LastOf(Scores(h, d), Beta)[i] = Scores(h, d)[m + i - 1]
            /\ LastOf(Scores(h, d), Beta)[i - 1] = Scores(h, d)[m + (i - 1) - 1]
        BY <1>3, <1>9, <4>1
      <4> QED BY <1>3, <4>2, <4>3
    <3>2. i \in 2..Len(LastOf(Scores(h, d), Beta)) BY <1>3, <1>9
    <3> QED BY <1>2, <3>1, <3>2 DEF NonDecreasing
  <2>3. h[m + i - 1] \in Point /\ h[m + (i - 1) - 1] \in Point BY <1>1, <1>8
  <2> QED BY <2>1, <2>2, <2>3, GoalScoreMonotone
<1> HIDE DEF m
<1> QED BY <1>5, <1>7, <1>9, <1>10 DEF NonDecreasing

LEMMA ResolvesOnlyWhen ==
  ASSUME TypeInv, NEW e \in Evaluators, "resolve" \in Outcomes(e)
  PROVE  eval[e].claims >= 3 /\ eval[e].open = {} /\ Window(e) # "falling"
<1>1. PICK blocked \in BOOLEAN, mature \in BOOLEAN, propagation \in Propagation,
           swings \in SUBSET Dimensions :
        Outcome(e, blocked, eval[e].at = "judge" /\ diverges(points), mature, propagation,
                swings) = "resolve"
  BY DEF Outcomes
<1>2. hasContent(e, mature) /\ ResolvesByGates(e, mature, propagation, swings)
  BY <1>1 DEF Outcome
<1>3. eval[e].claims >= 3 /\ eval[e].open = {}
  BY <1>2 DEF hasContent, ResolvesByGates, allMet
<1>4. CASE eval[e].at # "judge"
  <2>1. Window(e) = "unseen" BY <1>4 DEF Window
  <2> QED BY <1>3, <2>1
<1>5. CASE eval[e].at = "judge"
  <2>1. vector_final(Snapshot(e), per_dimension_monotonic(points),
                     per_dimension_trajectory(points, swings), hasContent(e, mature))
    BY <1>2, <1>5 DEF ResolvesByGates
  <2>2. per_dimension_monotonic(points) = Dimensions
    BY <2>1 DEF vector_final, passed, required, per_dimension_monotonic
  <2>3. points \in Seq(Point) BY DEF TypeInv, TypeOK
  <2>4. NonDecreasing(Goals(points), Beta, Tolerance) BY <2>2, <2>3, MonotoneWindow
  <2>5. Window(e) = "monotone" BY <1>5, <2>4 DEF Window
  <2> QED BY <1>3, <2>5
<1> QED BY <1>3, <1>4, <1>5

LEMMA ClaimsReadCarries == TypeOK => Carries(ClaimsRead)
<1> SUFFICES ASSUME TypeOK PROVE Carries(ClaimsRead) OBVIOUS
<1>1. ClaimsRead.at = "record" => ClaimsRead.claims = 0 BY ClaimsReadIsEvaluator
<1>2. ClaimsRead.throughout = open BY ClaimsReadIsEvaluator
<1>3. ClaimsRead.at \in {"record", "contradictions"} BY ClaimsReadIsEvaluator
<1> QED BY <1>1, <1>2, <1>3 DEF Carries

LEMMA ReadsEvaluate ==
  ASSUME TypeInv, ReadsInv, NEW e \in Evaluators,
         evaluate(e) \/ BeginBlind(e) \/ ReadFails(e) \/ StoreFails(e)
  PROVE  ReadsInv'
<1>0. TypeOK /\ eval[e] \in Evaluator /\ Carries(eval[e])
      /\ eval \in [Evaluators -> Evaluator]
  BY DEF TypeInv, TypeOK, ReadsInv
<1>a. open' = open
  BY DEF evaluate, Begin, ReadContradictions, Record, Judge, Certify, Submit,
         BeginBlind, ReadFails, StoreFails, graph
\* It is enough that the evaluation that replaces that of e carries what it should.
<1>b. ASSUME NEW r, eval' = [eval EXCEPT ![e] = r], Carries(r) PROVE ReadsInv'
  BY <1>0, <1>a, <1>b DEF ReadsInv, Carries
<1>c. Carries(Vacuous) BY DEF Vacuous, Carries
<1>1. CASE Begin(e)
  <2> DEFINE r == IF Latest = "approve_finality"
                    THEN [Vacuous EXCEPT !.at = "certify", !.grounds = "human"] ELSE
                  IF Latest \in {"provide_resolution", "defer"} /\ cooldown
                    THEN Vacuous ELSE ClaimsRead
  <2>1. Carries([Vacuous EXCEPT !.at = "certify", !.grounds = "human"])
    BY DEF Vacuous, Carries
  <2>2. Carries(r) BY <1>0, <1>c, <2>1, ClaimsReadCarries
  <2>3. eval' = [eval EXCEPT ![e] = r] BY <1>1 DEF Begin
  <2> HIDE DEF r
  <2> QED BY <1>b, <2>2, <2>3
<1>2. CASE ReadContradictions(e)
  <2> DEFINE r == [eval[e] EXCEPT !.at = "record", !.open = open,
                                  !.total = Cardinality(open \cup closed)]
  <2>1. r.at = "record" /\ r.open = open /\ r.throughout = eval[e].throughout
    BY <1>0 DEF Evaluator
  <2>2. eval[e].throughout \subseteq open
    BY <1>0, <1>2 DEF ReadContradictions, Carries
  <2>3. eval' = [eval EXCEPT ![e] = r] BY <1>0, <1>2 DEF ReadContradictions
  <2> HIDE DEF r
  <2>4. Carries(r) BY <2>1, <2>2 DEF Carries
  <2> QED BY <1>b, <2>3, <2>4
<1>3. ASSUME NEW step \in {"judge", "unavailable"}, Goto(e, step),
             eval[e].at \in {"record", "judge"}
      PROVE  ReadsInv'
  <2> DEFINE r == [eval[e] EXCEPT !.at = step]
  <2>1. /\ r.at = step /\ r.open = eval[e].open /\ r.claims = eval[e].claims
        /\ r.throughout = eval[e].throughout
    BY <1>0 DEF Evaluator
  <2>2. eval' = [eval EXCEPT ![e] = r] BY <1>3 DEF Goto
  <2> HIDE DEF r
  <2>3. Carries(r) BY <1>0, <1>3, <2>1 DEF Carries
  <2> QED BY <1>b, <2>2, <2>3
<1>4. CASE Record(e) BY <1>3, <1>4 DEF Record
<1>5. CASE StoreFails(e) BY <1>3, <1>5 DEF StoreFails
<1>6. CASE Judge(e)
  <2>1. PICK outcome \in Outcomes(e) :
          eval' = [eval EXCEPT ![e] =
            IF outcome = "resolve"
              THEN [Vacuous EXCEPT !.at = "certify", !.grounds = "gates",
                      !.throughout = eval[e].throughout, !.window = Window(e)] ELSE
            IF outcome = "review" THEN [Vacuous EXCEPT !.at = "submit"] ELSE Vacuous]
    BY <1>6 DEF Judge
  <2>2. CASE outcome = "resolve"
    <3> DEFINE r == [Vacuous EXCEPT !.at = "certify", !.grounds = "gates",
                       !.throughout = eval[e].throughout, !.window = Window(e)]
    <3>1. eval[e].claims >= 3 /\ eval[e].open = {} /\ Window(e) # "falling"
      BY <2>2, ResolvesOnlyWhen
    <3>2. eval[e].throughout = {}
      BY <1>0, <1>6, <3>1, EvaluatorFields DEF Judge, Carries
    <3>3. r.at = "certify" /\ r.throughout = eval[e].throughout /\ r.window = Window(e)
      BY DEF Vacuous
    <3>4. eval' = [eval EXCEPT ![e] = r] BY <2>1, <2>2
    <3> HIDE DEF r
    <3>5. Carries(r) BY <3>1, <3>2, <3>3 DEF Carries
    <3> QED BY <1>b, <3>4, <3>5
  <2>3. CASE outcome = "review"
    <3>1. Carries([Vacuous EXCEPT !.at = "submit"]) BY DEF Vacuous, Carries
    <3>2. eval' = [eval EXCEPT ![e] = [Vacuous EXCEPT !.at = "submit"]] BY <2>1, <2>3
    <3> QED BY <1>b, <3>1, <3>2
  <2>4. CASE outcome \notin {"resolve", "review"}
    <3>1. eval' = [eval EXCEPT ![e] = Vacuous] BY <2>1, <2>4
    <3> QED BY <1>b, <1>c, <3>1
  <2> QED BY <2>2, <2>3, <2>4
<1>7. CASE Certify(e) BY <1>b, <1>c, <1>7 DEF Certify
<1>8. CASE Submit(e) BY <1>b, <1>c, <1>8 DEF Submit
<1>9. CASE BeginBlind(e)
  BY <1>0, <1>b, <1>9, ClaimsReadCarries DEF BeginBlind
<1>10. CASE ReadFails(e)
  <2>1. Carries([Vacuous EXCEPT !.at = "record", !.throughout = eval[e].throughout])
    BY DEF Vacuous, Carries
  <2> QED BY <1>b, <1>10, <2>1 DEF ReadFails
<1> QED BY <1>1, <1>2, <1>4, <1>5, <1>6, <1>7, <1>8, <1>9, <1>10 DEF evaluate

LEMMA ReadsGraph ==
  ASSUME TypeInv, ReadsInv, NEW k \in Contradictions, Raise(k) \/ Resolve(k)
  PROVE  ReadsInv'
<1>1. CASE Raise(k) BY <1>1 DEF Raise, ReadsInv, Carries
<1>2. CASE Resolve(k)
  <2> SUFFICES ASSUME NEW e \in Evaluators PROVE Carries(eval[e])'
    BY DEF ReadsInv
  <2>1. eval[e] \in Evaluator /\ Carries(eval[e]) BY DEF TypeInv, TypeOK, ReadsInv
  <2>2. eval'[e] = [eval[e] EXCEPT !.throughout = eval[e].throughout \ {k}]
    BY <1>2 DEF Resolve
  <2>3. /\ eval'[e].at = eval[e].at /\ eval'[e].open = eval[e].open
        /\ eval'[e].claims = eval[e].claims /\ eval'[e].grounds = eval[e].grounds
        /\ eval'[e].window = eval[e].window
        /\ eval'[e].throughout = eval[e].throughout \ {k}
    BY <2>1, <2>2 DEF Evaluator
  <2>4. open' = open \ {k} BY <1>2 DEF Resolve
  <2> QED BY <2>1, <2>3, <2>4 DEF Carries
<1> QED BY <1>1, <1>2

LEMMA ReadsInvariant == Spec => []ReadsInv
<1>1. Init => ReadsInv BY DEF Init, ReadsInv, Carries, Vacuous
<1>2. TypeInv /\ ReadsInv /\ [Next]_vars => ReadsInv'
  <2> SUFFICES ASSUME TypeInv, ReadsInv, [Next]_vars PROVE ReadsInv' OBVIOUS
  <2>1. CASE UNCHANGED <<open, eval>> BY <2>1 DEF ReadsInv, Carries
  <2>2. CASE \E k \in Contradictions : Raise(k) \/ Resolve(k) BY <2>2, ReadsGraph
  <2>3. CASE \E e \in Evaluators :
               evaluate(e) \/ BeginBlind(e) \/ ReadFails(e) \/ StoreFails(e)
    BY <2>3, ReadsEvaluate
  <2>4. CASE \/ \E n \in Claims, q \in Qualities : Learn(n, q)
             \/ \E option \in Options : Answer(option)
             \/ execute \/ RecordFails \/ Crash \/ CooldownOver
    <3>1. UNCHANGED <<open, eval>>
      BY <2>4 DEF Learn, Answer, execute, Deliver, recordFinalityDecision,
                  RecordFails, Crash, CooldownOver, graph
    <3> QED BY <2>1, <3>1
  <2>5. CASE UNCHANGED vars BY <2>1, <2>5 DEF vars, graph
  <2> QED BY <2>2, <2>3, <2>4, <2>5 DEF Next
<1> QED BY <1>1, <1>2, TypeInvariant, PTL DEF Spec

(***************************************************************************)
(* No automatic resolution passes over a contradiction that was open from  *)
(* the first query of the evaluation to its verdict.                       *)
(***************************************************************************)
THEOREM NothingOpenIsOverlooked == Spec => []OpenThroughoutBlocks
<1>1. ReadsInv => OpenThroughoutBlocks
  BY DEF ReadsInv, Carries, OpenThroughoutBlocks, Certifying
<1> QED BY <1>1, ReadsInvariant, PTL

(***************************************************************************)
(* No history that was seen to fall is resolved: the gates of the single   *)
(* dimensions imply that of the goal score.                                *)
(***************************************************************************)
THEOREM FallingIsNotResolved == Spec => []NeverResolvedFalling
<1>1. ReadsInv => NeverResolvedFalling
  BY DEF ReadsInv, Carries, NeverResolvedFalling, Certifying
<1> QED BY <1>1, ReadsInvariant, PTL

-----------------------------------------------------------------------------
(***************************************************************************)
(* A row of the table is some answer, and an evaluation that certifies on  *)
(* a human's word has read such a row.                                     *)
(***************************************************************************)
Approved == \E i \in DOMAIN answers : answers[i] = "approve_finality"

WordInv ==
  /\ \A j \in DOMAIN decisions : \E i \in DOMAIN answers : answers[i] = decisions[j]
  /\ WordBehindCertificate

LEMMA WordEvaluate ==
  ASSUME TypeInv, WordInv, NEW e \in Evaluators,
         evaluate(e) \/ BeginBlind(e) \/ ReadFails(e) \/ StoreFails(e)
  PROVE  WordInv'
<1>0. TypeOK /\ eval[e] \in Evaluator /\ eval \in [Evaluators -> Evaluator]
  BY DEF TypeInv, TypeOK
<1>1. UNCHANGED <<answers, decisions>>
  BY DEF evaluate, Begin, ReadContradictions, Record, Judge, Certify, Submit,
         BeginBlind, ReadFails, StoreFails, human, record
<1>2. CASE Approved
  BY <1>1, <1>2 DEF Approved, WordInv, WordBehindCertificate
<1>3. CASE ~ Approved
  <2>1. "human" \notin certificates
        /\ \A d \in Evaluators : ~ Certifying(d, "human")
    BY <1>3 DEF Approved, WordInv, WordBehindCertificate
  <2>2. Latest # "approve_finality"
    <3>1. ASSUME decisions # <<>>
          PROVE  Len(decisions) \in DOMAIN decisions
      BY <1>0, <3>1 DEF TypeOK
    <3>2. CASE decisions = <<>> BY <3>2 DEF Latest
    <3>3. CASE decisions # <<>>
      <4>1. Latest = decisions[Len(decisions)] BY <3>3 DEF Latest
      <4> QED BY <1>3, <3>1, <3>3, <4>1 DEF Approved, WordInv
    <3> QED BY <3>2, <3>3
  \* The evaluation that replaces that of e does not certify on a human's word.
  <2>3. /\ \A d \in Evaluators : d # e => eval'[d] = eval[d]
        /\ ~ (eval'[e].at = "certify" /\ eval'[e].grounds = "human")
    <3>1. CASE Begin(e)
      <4>1. \/ eval' = [eval EXCEPT ![e] = Vacuous]
            \/ eval' = [eval EXCEPT ![e] = ClaimsRead]
        BY <2>2, <3>1 DEF Begin
      <4> QED BY <1>0, <4>1, VacuousIsEvaluator, ClaimsReadIsEvaluator
    <3>2. CASE BeginBlind(e) BY <1>0, <3>2, ClaimsReadIsEvaluator DEF BeginBlind
    <3>3. CASE ReadContradictions(e) \/ Record(e) \/ StoreFails(e)
      BY <1>0, <3>3 DEF ReadContradictions, Record, StoreFails, Goto, Evaluator
    <3>4. CASE Judge(e) BY <1>0, <3>4 DEF Judge, Vacuous
    <3>5. CASE Certify(e) \/ Submit(e)
      <4>1. eval' = [eval EXCEPT ![e] = Vacuous] BY <3>5 DEF Certify, Submit
      <4> QED BY <1>0, <4>1, VacuousIsEvaluator
    <3>6. CASE ReadFails(e)
      <4> DEFINE r == [Vacuous EXCEPT !.at = "record", !.throughout = eval[e].throughout]
      <4>1. r.at = "record" BY DEF Vacuous
      <4>2. eval' = [eval EXCEPT ![e] = r] BY <3>6 DEF ReadFails
      <4> HIDE DEF r
      <4> QED BY <1>0, <4>1, <4>2
    <3> QED BY <3>1, <3>2, <3>3, <3>4, <3>5, <3>6 DEF evaluate
  <2>4. "human" \notin certificates'
    <3>1. CASE Certify(e) BY <2>1, <3>1 DEF Certify, Certifying
    <3>2. CASE ~ Certify(e)
      BY <2>1, <3>2 DEF evaluate, Begin, ReadContradictions, Record, Judge, Submit,
                        BeginBlind, ReadFails, StoreFails
    <3> QED BY <3>1, <3>2
  <2>5. \A d \in Evaluators : ~ Certifying(d, "human")'
    BY <2>1, <2>3 DEF Certifying
  <2> QED BY <1>1, <2>4, <2>5 DEF WordInv, WordBehindCertificate
<1> QED BY <1>2, <1>3

LEMMA WordAnswers ==
  ASSUME TypeInv, WordInv,
         \/ \E option \in Options : Answer(option)
         \/ execute \/ RecordFails \/ Crash \/ CooldownOver
  PROVE  WordInv'
<1>0. TypeOK /\ DOMAIN answers = 1..Len(answers) /\ Len(answers) \in Nat
      /\ DOMAIN decisions = 1..Len(decisions) /\ Len(decisions) \in Nat
  BY DEF TypeInv, TypeOK
<1>1. UNCHANGED <<eval, certificates>>
  BY DEF Answer, execute, Deliver, recordFinalityDecision, RecordFails, Crash, CooldownOver
\* Answers stay where they are.
<1>2. DOMAIN answers \subseteq DOMAIN answers'
      /\ \A i \in DOMAIN answers : answers'[i] = answers[i]
  <2>1. CASE \E option \in Options : Answer(option)
    <3>1. PICK option \in Options : answers' = Append(answers, option)
      BY <2>1 DEF Answer
    <3> QED BY <1>0, <3>1 DEF TypeOK
  <2>2. CASE answers' = answers BY <2>2
  <2> QED BY <2>1, <2>2 DEF execute, Deliver, recordFinalityDecision, RecordFails, Crash,
                            CooldownOver, human
<1>3. \A j \in DOMAIN decisions' :
        \E i \in DOMAIN answers : answers[i] = decisions'[j]
  <2>1. CASE decisions' = decisions BY <2>1 DEF WordInv
  <2>2. CASE handling # 0 /\ decisions' = Append(decisions, answers[handling])
    <3>1. handling \in DOMAIN answers BY <1>0, <2>2 DEF TypeOK
    <3>2. decisions \in Seq(Options) /\ answers[handling] \in Options
      BY <1>0, <3>1 DEF TypeOK
    <3>3. /\ DOMAIN decisions' = 1..(Len(decisions) + 1)
          /\ decisions'[Len(decisions) + 1] = answers[handling]
          /\ \A j \in 1..Len(decisions) : decisions'[j] = decisions[j]
      BY <1>0, <2>2, <3>2
    <3> QED BY <1>0, <3>1, <3>3 DEF WordInv
  <2> QED BY <2>1, <2>2 DEF Answer, execute, Deliver, recordFinalityDecision, RecordFails,
                            Crash, CooldownOver
<1>4. WordBehindCertificate'
  BY <1>1, <1>2 DEF WordInv, WordBehindCertificate, Certifying
<1> QED BY <1>2, <1>3, <1>4 DEF WordInv

LEMMA WordInvariant == Spec => []WordInv
<1>1. Init => WordInv
  BY DEF Init, WordInv, WordBehindCertificate, Certifying, Vacuous
<1>2. TypeInv /\ WordInv /\ [Next]_vars => WordInv'
  <2> SUFFICES ASSUME TypeInv, WordInv, [Next]_vars PROVE WordInv' OBVIOUS
  <2>1. CASE UNCHANGED <<answers, decisions, certificates>>
             /\ \A e \in Evaluators : eval'[e].at = eval[e].at
                                      /\ eval'[e].grounds = eval[e].grounds
    BY <2>1 DEF WordInv, WordBehindCertificate, Certifying
  <2>2. CASE \/ \E k \in Contradictions : Raise(k) \/ Resolve(k)
             \/ \E n \in Claims, q \in Qualities : Learn(n, q)
    <3>1. \A e \in Evaluators : eval'[e].at = eval[e].at /\ eval'[e].grounds = eval[e].grounds
      <4> SUFFICES ASSUME NEW e \in Evaluators
                   PROVE  eval'[e].at = eval[e].at /\ eval'[e].grounds = eval[e].grounds
        OBVIOUS
      <4>1. eval[e] \in Evaluator BY DEF TypeInv, TypeOK
      <4>2. \/ eval' = eval
            \/ \E k \in Contradictions :
                 eval'[e] = [eval[e] EXCEPT !.throughout = eval[e].throughout \ {k}]
        BY <2>2 DEF Raise, Resolve, Learn
      <4> QED BY <4>1, <4>2 DEF Evaluator
    <3>2. UNCHANGED <<answers, decisions, certificates>>
      BY <2>2 DEF Raise, Resolve, Learn, human, record
    <3> QED BY <2>1, <3>1, <3>2
  <2>3. CASE \E e \in Evaluators :
               evaluate(e) \/ BeginBlind(e) \/ ReadFails(e) \/ StoreFails(e)
    BY <2>3, WordEvaluate
  <2>4. CASE \/ \E option \in Options : Answer(option)
             \/ execute \/ RecordFails \/ Crash \/ CooldownOver
    BY <2>4, WordAnswers
  <2>5. CASE UNCHANGED vars BY <2>1, <2>5 DEF vars, human, record
  <2> QED BY <2>2, <2>3, <2>4, <2>5 DEF Next
<1> QED BY <1>1, <1>2, TypeInvariant, PTL DEF Spec

(***************************************************************************)
(* A certificate on a human's word has that word behind it, whatever is    *)
(* redelivered, lost or recorded late in between.                          *)
(***************************************************************************)
THEOREM HumanCertificates == Spec => []WordBehindCertificate
<1>1. WordInv => WordBehindCertificate BY DEF WordInv
<1> QED BY <1>1, WordInvariant, PTL

-----------------------------------------------------------------------------
(***************************************************************************)
(* Counting: each answer that left the bus was recorded or cost a failure, *)
(* and each row was an answer that left or a redelivery after a failure.   *)
(***************************************************************************)
CountInv ==
  /\ Len(decisions) + failures >= Cardinality(Settled)
  /\ Len(decisions) <= Cardinality(Settled) + failures

LEMMA SettledFinite ==
  ASSUME TypeOK
  PROVE  /\ DOMAIN queue = 1..Len(answers) /\ Len(answers) \in Nat
         /\ IsFiniteSet(Settled) /\ Cardinality(Settled) \in Nat
         /\ Cardinality(Settled) <= Len(answers)
<1>1. DOMAIN queue = 1..Len(answers) /\ Len(answers) \in Nat BY DEF TypeOK
<1>2. IsFiniteSet(1..Len(answers)) /\ Cardinality(1..Len(answers)) = Len(answers)
  <2> DEFINE n == Len(answers)
  <2>1. n \in Nat BY <1>1
  <2> HIDE DEF n
  <2>2. 1 \in Int /\ n \in Int BY <2>1
  <2>3. IsFiniteSet(1..n) BY ONLY <2>2, FS_Interval
  <2>4. Cardinality(1..n) = IF 1 > n THEN 0 ELSE n - 1 + 1 BY ONLY <2>2, FS_Interval
  <2>5. Cardinality(1..n) = n BY ONLY <2>1, <2>4
  <2> QED BY <2>3, <2>5 DEF n
<1>3. Settled \subseteq 1..Len(answers) BY <1>1 DEF Settled
<1>4. IsFiniteSet(Settled) /\ Cardinality(Settled) <= Cardinality(1..Len(answers))
  BY <1>2, <1>3, FS_Subset
<1> QED BY <1>1, <1>2, <1>4, FS_CardinalityType

LEMMA CountStep ==
  ASSUME TypeInv, CountInv, [Next]_vars
  PROVE  CountInv'
<1>0. TypeOK /\ Len(decisions) \in Nat /\ failures \in Nat
      /\ DOMAIN queue = 1..Len(answers) /\ Len(answers) \in Nat
      /\ IsFiniteSet(Settled) /\ Cardinality(Settled) \in Nat
  BY SettledFinite DEF TypeInv, TypeOK
<1>1. CASE UNCHANGED <<queue, handling, decisions>> /\ failures' \in {failures, failures + 1}
  <2>1. Settled' = Settled BY <1>1 DEF Settled
  <2> QED BY <1>0, <1>1, <2>1 DEF CountInv
<1>2. CASE \E option \in Options : Answer(option)
  <2>1. PICK option \in Options : Answer(option) BY <1>2
  <2>2. queue' = Append(queue, MaxDeliver) /\ handling' = handling
        /\ UNCHANGED <<decisions, failures>>
    BY <2>1 DEF Answer
  <2>3. /\ DOMAIN queue' = 1..(Len(answers) + 1) /\ queue'[Len(answers) + 1] # 0
        /\ \A i \in 1..Len(answers) : queue'[i] = queue[i]
    BY <1>0, <2>2 DEF TypeOK
  <2>4. Settled' = Settled BY <1>0, <2>2, <2>3 DEF Settled
  <2> QED BY <1>0, <2>2, <2>4 DEF CountInv
<1>3. CASE \E i \in DOMAIN queue : Deliver(i)
  <2>1. PICK i \in DOMAIN queue : Deliver(i) BY <1>3
  <2>2. handling = 0 /\ handling' = i /\ queue[i] > 0 /\ UNCHANGED <<decisions, failures>>
        /\ queue' = [queue EXCEPT ![i] = queue[i] - 1]
    BY <2>1 DEF Deliver
  <2>3. DOMAIN queue' = DOMAIN queue /\ \A j \in DOMAIN queue : j # i => queue'[j] = queue[j]
    BY <1>0, <2>2 DEF TypeOK
  <2>4. Settled' = Settled BY <1>0, <2>2, <2>3 DEF Settled
  <2> QED BY <1>0, <2>2, <2>4 DEF CountInv
\* The executor lets the answer go: it settles, or the bus still has it.
<1>4. ASSUME handling # 0, handling' = 0,
             queue' = [queue EXCEPT ![handling] = 0] \/ queue' = queue
      PROVE  /\ Settled' = Settled \cup {handling} \/ Settled' = Settled
             /\ queue' = [queue EXCEPT ![handling] = 0] => Settled' = Settled \cup {handling}
             /\ Cardinality(Settled \cup {handling}) = Cardinality(Settled) + 1
  <2>1. handling \in DOMAIN queue BY <1>0, <1>4 DEF TypeOK
  <2>2. handling \notin Settled BY DEF Settled
  <2>3. CASE queue' = [queue EXCEPT ![handling] = 0]
    <3>1. /\ DOMAIN queue' = DOMAIN queue /\ queue'[handling] = 0
          /\ \A j \in DOMAIN queue : j # handling => queue'[j] = queue[j]
      BY <1>0, <2>1, <2>3 DEF TypeOK
    <3>2. Settled' = Settled \cup {handling} BY <1>0, <1>4, <2>1, <3>1 DEF Settled
    <3> QED BY <1>0, <2>2, <3>2, FS_AddElement
  <2>4. CASE queue' = queue
    <3>1. CASE queue[handling] = 0
      <4>1. Settled' = Settled \cup {handling} BY <1>0, <1>4, <2>1, <2>4, <3>1 DEF Settled
      <4> QED BY <1>0, <2>2, <4>1, FS_AddElement
    <3>2. CASE queue[handling] # 0
      <4>1. Settled' = Settled BY <1>0, <1>4, <2>1, <2>4, <3>2 DEF Settled
      <4>2. queue' # [queue EXCEPT ![handling] = 0] BY <1>0, <2>1, <2>4, <3>2 DEF TypeOK
      <4> QED BY <1>0, <2>2, <4>1, <4>2, FS_AddElement
    <3> QED BY <3>1, <3>2
  <2> QED BY <1>4, <2>3, <2>4
<1>5. ASSUME handling # 0
      PROVE  Len(Append(decisions, answers[handling])) = Len(decisions) + 1
  BY <1>0, <1>5, Appended DEF TypeOK
<1>6. CASE recordFinalityDecision
  <2>1. /\ handling # 0 /\ handling' = 0 /\ queue' = [queue EXCEPT ![handling] = 0]
        /\ decisions' = Append(decisions, answers[handling]) /\ failures' = failures
    BY <1>6 DEF recordFinalityDecision
  <2>2. Cardinality(Settled') = Cardinality(Settled) + 1 BY <1>4, <2>1
  <2>3. Len(decisions') = Len(decisions) + 1 BY <1>5, <2>1
  <2> QED BY <1>0, <2>1, <2>2, <2>3 DEF CountInv
<1>7. CASE RecordFails
  <2>1. /\ handling # 0 /\ handling' = 0 /\ queue' = [queue EXCEPT ![handling] = 0]
        /\ decisions' = decisions /\ failures' = failures + 1
    BY <1>7 DEF RecordFails, Fails
  <2>2. Cardinality(Settled') = Cardinality(Settled) + 1 BY <1>4, <2>1
  <2> QED BY <1>0, <2>1, <2>2 DEF CountInv
<1>8. CASE Crash
  <2>1. handling # 0 /\ handling' = 0 /\ queue' = queue /\ failures' = failures + 1
    BY <1>8 DEF Crash, Fails
  <2>2. Len(decisions') \in {Len(decisions), Len(decisions) + 1}
    BY <1>0, <1>5, <1>8, <2>1 DEF Crash
  <2>3. Cardinality(Settled') \in {Cardinality(Settled), Cardinality(Settled) + 1}
    BY <1>4, <2>1
  <2> QED BY <1>0, <2>1, <2>2, <2>3 DEF CountInv
<1>9. CASE \/ \E k \in Contradictions : Raise(k) \/ Resolve(k)
           \/ \E n \in Claims, q \in Qualities : Learn(n, q)
           \/ \E e \in Evaluators :
                evaluate(e) \/ BeginBlind(e) \/ ReadFails(e) \/ StoreFails(e)
           \/ CooldownOver \/ UNCHANGED vars
  <2>1. UNCHANGED <<queue, handling, decisions>> /\ failures' \in {failures, failures + 1}
    BY <1>9 DEF Raise, Resolve, Learn, evaluate, Begin, ReadContradictions, Record, Judge,
                Certify, Submit, BeginBlind, ReadFails, StoreFails, Fails, CooldownOver,
                vars, record
  <2> QED BY <1>1, <2>1
<1> QED BY <1>2, <1>3, <1>6, <1>7, <1>8, <1>9 DEF Next, execute

(***************************************************************************)
(* A human's answer leaves the bus recorded, and once, but for as many as  *)
(* there were failures.                                                    *)
(***************************************************************************)
THEOREM AnswersAreRecorded == Spec => []RecordedUnlessFailed
<1>1. Init => CountInv
  <2> SUFFICES ASSUME Init PROVE CountInv OBVIOUS
  <2>1. Settled = {} BY DEF Init, Settled
  <2>2. Cardinality(Settled) = 0 BY <2>1, FS_EmptySet
  <2>3. Len(decisions) = 0 /\ failures = 0 BY DEF Init
  <2> QED BY <2>2, <2>3 DEF CountInv
<1>2. TypeInv /\ CountInv /\ [Next]_vars => CountInv' BY CountStep
<1>3. TypeInv /\ CountInv => RecordedUnlessFailed
  <2> SUFFICES ASSUME TypeInv, CountInv PROVE RecordedUnlessFailed OBVIOUS
  <2>1. Len(decisions) \in Nat /\ failures \in Nat BY DEF TypeInv, TypeOK
  <2> QED BY <2>1, SettledFinite DEF CountInv, RecordedUnlessFailed, TypeInv
<1> QED BY <1>1, <1>2, <1>3, TypeInvariant, PTL DEF Spec
=============================================================================
