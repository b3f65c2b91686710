--------------------------- MODULE Decisions_proofs ---------------------------
(***************************************************************************)
(* What the kernel accepts and what people decide: the kernel walk, for    *)
(* every set of dimensions, tolerance and rule base, and the queue of      *)
(* reviews, for any requests, checks, scopes and crashes.                  *)
(***************************************************************************)
EXTENDS Kernel, MitlServer, TLAPS

-----------------------------------------------------------------------------
(***************************************************************************)
(* The kernel walk.                                                        *)
(***************************************************************************)
USE ScoreAssumption, ModesAssumption

(***************************************************************************)
(* kernel.rs accepts outside YOLO only where the policy and the lattice    *)
(* both do.                                                                *)
(***************************************************************************)
LEMMA AcceptStrict ==
  ASSUME NEW allowed \in BOOLEAN, NEW lattice \in Admissibility,
         NEW mode \in {"MASTER", "MITL"},
         evaluate_kernel(allowed, lattice, mode).verdict = "accept"
  PROVE  allowed /\ lattice \in {"Unchecked", "Admissible"} /\ mode = "MASTER"
BY DEF evaluate_kernel, ByMode, Admissibility

(***************************************************************************)
(* check_transition answers "Admissible" exactly when the level does not   *)
(* ascend and, within an epoch, no dimension falls by more than Eps.       *)
(***************************************************************************)
LEMMA AdmissibleMeans ==
  ASSUME NEW a, NEW b, NEW same \in BOOLEAN
  PROVE  /\ check_transition(a, b, same, Eps) \in Admissibility
         /\ check_transition(a, b, same, Eps) # "Unchecked"
         /\ check_transition(a, b, same, Eps) = "Admissible"
            <=> /\ permissiveness(b.governance) <= permissiveness(a.governance)
                /\ same => dominates(b.rank, a.rank, Eps)
BY DEF check_transition, Admissibility

LEMMA CanTransitionBool ==
  ASSUME NEW n \in Nodes, NEW d PROVE can_transition(n, transitions[n], d, Rules) \in BOOLEAN
BY DEF can_transition

LEMMA StrictVerdict ==
  ASSUME NEW p, NEW n \in Nodes, NEW d, NEW same \in BOOLEAN,
         NEW mode \in {"MASTER", "MITL"},
         Verdict(p, same, n, d, mode) = "accept"
  PROVE  /\ permissiveness(p.governance) <= permissiveness(point.governance)
         /\ same => dominates(p.rank, point.rank, Eps)
         /\ mode = "MASTER"
<1> DEFINE allowed == can_transition(n, transitions[n], d, Rules)
           lattice == check_transition(point, p, same, Eps)
<1>1. allowed \in BOOLEAN BY CanTransitionBool
<1>2. lattice \in Admissibility /\ lattice # "Unchecked" BY AdmissibleMeans
<1>3. evaluate_kernel(allowed, lattice, mode).verdict = "accept" BY DEF Verdict
<1> HIDE DEF allowed, lattice
<1>4. lattice = "Admissible" /\ mode = "MASTER" BY <1>1, <1>2, <1>3, AcceptStrict
<1> QED BY <1>4, AdmissibleMeans DEF lattice

-----------------------------------------------------------------------------
(***************************************************************************)
(* KernelTypeOK holds in every state of the walk.                                *)
(***************************************************************************)
THEOREM KernelTypeCorrect == KernelSpec => []KernelTypeOK
<1>1. KernelInit => KernelTypeOK BY DEF KernelInit, KernelTypeOK, Points
<1>2. KernelTypeOK /\ [KernelNext]_walk => KernelTypeOK'
  <2> SUFFICES ASSUME KernelTypeOK, [KernelNext]_walk PROVE KernelTypeOK' OBVIOUS
  <2>1. CASE UNCHANGED walk BY <2>1 DEF walk, KernelTypeOK
  <2>2. ASSUME NEW p \in Points, NEW n \in Nodes, NEW d \in DriftLevels,
               NEW mode \in ModesUsed, Advance(p, n, d, mode)
        PROVE  KernelTypeOK'
    BY <2>2 DEF Advance, KernelTypeOK
  <2>3. ASSUME NEW p \in Points, NEW n \in Nodes, NEW d \in DriftLevels,
               NEW mode \in ModesUsed, NewEpoch(p, n, d, mode)
        PROVE  KernelTypeOK'
    BY <2>3 DEF NewEpoch, KernelTypeOK, Points
  <2> QED BY <2>1, <2>2, <2>3 DEF KernelNext
<1> QED BY <1>1, <1>2, PTL DEF KernelSpec

(***************************************************************************)
(* NeverDeescalates wherever YOLO is not used: "De-escalation ... is       *)
(* ascent and always rejected" (sgrs-core/src/types/mod.rs:58).            *)
(***************************************************************************)
THEOREM StrictNeverDeescalates ==
  ASSUME "YOLO" \notin ModesUsed PROVE KernelSpec => NeverDeescalates
<1>1. KernelTypeOK /\ [KernelNext]_walk =>
        [permissiveness(point'.governance) <= permissiveness(point.governance)]_walk
  <2> SUFFICES ASSUME KernelTypeOK, KernelNext
               PROVE  permissiveness(point'.governance) <= permissiveness(point.governance)
    BY DEF walk
  <2>1. ModesUsed \subseteq {"MASTER", "MITL"} BY DEF Modes
  <2>2. PICK p \in Points, n \in Nodes, d \in DriftLevels, mode \in ModesUsed :
               Advance(p, n, d, mode) \/ NewEpoch(p, n, d, mode)
    BY DEF KernelNext
  <2>3. CASE Advance(p, n, d, mode) BY <2>1, <2>3, StrictVerdict DEF Advance
  <2>4. CASE NewEpoch(p, n, d, mode) BY <2>1, <2>4, StrictVerdict DEF NewEpoch
  <2> QED BY <2>2, <2>3, <2>4
<1> QED BY <1>1, KernelTypeCorrect, PTL DEF KernelSpec, NeverDeescalates

(***************************************************************************)
(* LossBounded wherever YOLO is not used: the tolerance of check_transition *)
(* is spent at most once per accepted step.                                *)
(***************************************************************************)
THEOREM StrictLossBounded ==
  ASSUME "YOLO" \notin ModesUsed PROVE KernelSpec => []LossBounded
<1>1. KernelInit => LossBounded
  <2> SUFFICES ASSUME KernelInit, NEW i \in Dims PROVE point.rank[i] >= start[i] - steps * Eps
    BY DEF LossBounded
  <2>1. point.rank[i] \in Int /\ start = point.rank /\ steps = 0 BY DEF KernelInit, Points, Ranks
  <2> QED BY <2>1
<1>2. KernelTypeOK /\ KernelTypeOK' /\ LossBounded /\ [KernelNext]_walk => LossBounded'
  <2> SUFFICES ASSUME KernelTypeOK, KernelTypeOK', LossBounded, [KernelNext]_walk, NEW i \in Dims
               PROVE  point.rank[i]' >= start[i]' - (steps * Eps)'
    BY DEF LossBounded
  <2>0. /\ point.rank[i] \in Int /\ start[i] \in Int /\ steps \in Int /\ Eps \in Int
        /\ point'.rank[i] \in Int /\ start'[i] \in Int /\ steps' \in Int
        /\ DOMAIN point.rank = Dims /\ DOMAIN point'.rank = Dims
    BY DEF KernelTypeOK, Points, Ranks
  <2>1. point.rank[i] >= start[i] - steps * Eps BY DEF LossBounded
  <2>2. ModesUsed \subseteq {"MASTER", "MITL"} BY DEF Modes
  <2>3. CASE UNCHANGED walk BY <2>1, <2>3 DEF walk
  <2>4. ASSUME NEW p \in Points, NEW n \in Nodes, NEW d \in DriftLevels,
               NEW mode \in ModesUsed, Advance(p, n, d, mode)
        PROVE  point.rank[i]' >= start[i]' - (steps * Eps)'
    <3>1. point' = p /\ start' = start /\ steps' = steps + 1 /\ dominates(p.rank, point.rank, Eps)
      BY <2>2, <2>4, StrictVerdict DEF Advance
    <3>2. p.rank[i] >= point.rank[i] - Eps BY <2>0, <3>1 DEF dominates
    <3>3. (steps + 1) * Eps = steps * Eps + Eps BY <2>0
    <3>4. steps * Eps \in Int BY <2>0
    <3> QED BY <2>0, <2>1, <3>1, <3>2, <3>3, <3>4
  <2>5. ASSUME NEW p \in Points, NEW n \in Nodes, NEW d \in DriftLevels,
               NEW mode \in ModesUsed, NewEpoch(p, n, d, mode)
        PROVE  point.rank[i]' >= start[i]' - (steps * Eps)'
    <3>1. point'.rank = start' /\ steps' = 0 BY <2>5 DEF NewEpoch
    <3> QED BY <2>0, <3>1
  <2> QED BY <2>3, <2>4, <2>5 DEF KernelNext
<1> QED BY <1>1, <1>2, KernelTypeCorrect, PTL DEF KernelSpec

(***************************************************************************)
(* WorseDriftNoBetter for every rule base that blocks upwards: a rule that *)
(* blocks a level blocks every worse one, as those of governance.yaml do.  *)
(***************************************************************************)
THEOREM WorseDrift ==
  ASSUME \A r \in Rules, d, e \in DriftLevels :
            d \in r.block_when /\ severity(d) <= severity(e) => e \in r.block_when
  PROVE  KernelSpec => []WorseDriftNoBetter
<1>1. WorseDriftNoBetter
  <2> SUFFICES ASSUME NEW p \in Points, NEW n \in Nodes, NEW same \in BOOLEAN,
                      NEW d \in DriftLevels, NEW e \in DriftLevels,
                      severity(d) <= severity(e),
                      Verdict(p, same, n, e, "MASTER") = "accept"
               PROVE  Verdict(p, same, n, d, "MASTER") = "accept"
    BY DEF WorseDriftNoBetter
  <2> DEFINE lattice == check_transition(point, p, same, Eps)
  <2>1. evaluate_kernel(can_transition(n, transitions[n], e, Rules), lattice, "MASTER").verdict = "accept"
    BY DEF Verdict
  <2>2. lattice \in Admissibility BY AdmissibleMeans
  <2> HIDE DEF lattice
  <2>3. can_transition(n, transitions[n], e, Rules) /\ lattice \in {"Unchecked", "Admissible"}
    BY <2>1, <2>2, AcceptStrict, CanTransitionBool
  <2>4. can_transition(n, transitions[n], d, Rules) BY <2>3 DEF can_transition
  <2>5. evaluate_kernel(TRUE, lattice, "MASTER").verdict = "accept"
    BY <2>3 DEF evaluate_kernel
  <2> QED BY <2>4, <2>5, CanTransitionBool DEF Verdict, lattice
<1> QED BY <1>1, PTL

HIDE ScoreAssumption
HIDE ModesAssumption

-----------------------------------------------------------------------------
(***************************************************************************)
(* Reviews.                                                                *)
(***************************************************************************)
USE PrefixAssumption, BoundAssumption

LEMMA ItemKinds ==
  /\ NoItem \notin Item
  /\ \A i \in Item : i.kind \in {"advance", "review"} /\ i.scope \in Scopes
BY DEF NoItem, Item

(***************************************************************************)
(* The domains, which TypeOK leaves out, make the updates of one request   *)
(* leave the others alone.                                                 *)
(***************************************************************************)
Domains == /\ req = [r \in Reviewers |-> req[r]]
           /\ prod = [p \in Producers |-> prod[p]]

ReqOK(q) == \/ q = IdleReq
            \/ \E i \in Item, a \in Answers, at \in {"got", "published"} :
                 Fits(i, a) /\ q = [at |-> at, item |-> i, answer |-> a]

ProdOK(q) == \/ q = IdleProd
             \/ \E s \in Scopes, at \in {"review", "explaining"} :
                  q = [at |-> at, scope |-> s]

(***************************************************************************)
(* What a request has published is among the answers until it is done.     *)
(***************************************************************************)
Honest(q, published) == q.at = "published" => <<q.item, q.answer>> \in published

MitlInv ==
  /\ Domains
  /\ pending \subseteq Item /\ answered \subseteq Item \X Answers
  /\ \A r \in Reviewers : ReqOK(req[r]) /\ Honest(req[r], answered)
  /\ \A p \in Producers : ProdOK(prod[p])
  /\ hitlTriggered \in BOOLEAN

LEMMA ReqOKFields ==
  ASSUME NEW q, ReqOK(q)
  PROVE  \/ q = IdleReq
         \/ /\ q.at \in {"got", "published"} /\ q.item \in Item
            /\ q.answer \in Answers /\ Fits(q.item, q.answer)
            /\ q = [at |-> q.at, item |-> q.item, answer |-> q.answer]
BY DEF ReqOK

LEMMA ProdOKFields ==
  ASSUME NEW q, ProdOK(q)
  PROVE  \/ q = IdleProd
         \/ /\ q.at \in {"review", "explaining"} /\ q.scope \in Scopes
            /\ q = [at |-> q.at, scope |-> q.scope]
BY DEF ProdOK

LEMMA MitlTypes == MitlInv => TypeOK
<1> SUFFICES ASSUME MitlInv PROVE TypeOK OBVIOUS
<1>1. ASSUME NEW r \in Reviewers
      PROVE  \/ req[r] = IdleReq
             \/ /\ req[r].at \in {"got", "published"} /\ req[r].item \in Item
                /\ Fits(req[r].item, req[r].answer)
  BY ReqOKFields DEF MitlInv
<1>2. ASSUME NEW p \in Producers
      PROVE  prod[p] = IdleProd
               \/ (prod[p].at \in {"review", "explaining"} /\ prod[p].scope \in Scopes)
  BY ProdOKFields DEF MitlInv
<1> QED BY <1>1, <1>2 DEF MitlInv, TypeOK

LEMMA MitlInit == Init => MitlInv
<1> SUFFICES ASSUME Init PROVE MitlInv OBVIOUS
<1>1. \A r \in Reviewers : req[r] = IdleReq BY DEF Init
<1>2. \A p \in Producers : prod[p] = IdleProd BY DEF Init
<1>3. Honest(IdleReq, answered) BY DEF Honest, IdleReq
<1>4. Domains BY DEF Init, Domains
<1> QED BY <1>1, <1>2, <1>3, <1>4 DEF Init, MitlInv, ReqOK, ProdOK

\* A request is replaced by one that is as well formed and as honest.
LEMMA RequestReplaced ==
  ASSUME MitlInv, NEW r \in Reviewers, NEW q, req' = [req EXCEPT ![r] = q],
         ReqOK(q), Honest(q, answered'), answered \subseteq answered',
         answered' \subseteq Item \X Answers, pending' \subseteq Item,
         UNCHANGED <<prod, hitlTriggered>>
  PROVE  MitlInv'
<1>1. ASSUME NEW x \in Reviewers PROVE ReqOK(req'[x]) /\ Honest(req'[x], answered')
  <2>1. CASE x = r
    <3>1. req'[x] = q BY <2>1 DEF MitlInv, Domains
    <3> QED BY <3>1 DEF Honest
  <2>2. CASE x # r
    <3>1. req'[x] = req[x] BY <2>2 DEF MitlInv, Domains
    <3> QED BY <3>1 DEF MitlInv, Honest
  <2> QED BY <2>1, <2>2
<1>2. Domains' BY DEF MitlInv, Domains
<1>3. \A x \in Reviewers : ReqOK(req[x])' BY <1>1 DEF ReqOK
<1>4. \A p \in Producers : ProdOK(prod[p])' BY DEF MitlInv, ProdOK
<1> QED BY <1>1, <1>2, <1>3, <1>4 DEF MitlInv

LEMMA CheckReplaced ==
  ASSUME MitlInv, NEW p \in Producers, NEW q, prod' = [prod EXCEPT ![p] = q],
         ProdOK(q), pending' \subseteq Item, hitlTriggered' \in BOOLEAN,
         UNCHANGED <<answered, req>>
  PROVE  MitlInv'
<1>1. ASSUME NEW x \in Producers PROVE ProdOK(prod[x])'
  <2>1. CASE x = p
    <3>1. prod'[x] = q BY <2>1 DEF MitlInv, Domains
    <3> QED BY <3>1 DEF ProdOK
  <2>2. CASE x # p
    <3>1. prod'[x] = prod[x] BY <2>2 DEF MitlInv, Domains
    <3> QED BY <3>1 DEF MitlInv, ProdOK
  <2> QED BY <2>1, <2>2
<1>2. Domains' BY DEF MitlInv, Domains
<1>3. \A r \in Reviewers : (ReqOK(req[r]) /\ Honest(req[r], answered))'
  BY DEF MitlInv, ReqOK, Honest
<1> QED BY <1>1, <1>2, <1>3 DEF MitlInv

LEMMA RequestStep ==
  ASSUME MitlInv, NEW r \in Reviewers, request(r) \/ Abandon(r)
  PROVE  MitlInv'
<1>0. ReqOK(req[r]) /\ Honest(req[r], answered) BY DEF MitlInv
<1>1. ASSUME NEW i \in Item, NEW a \in Answers, Open(r, i, a) PROVE MitlInv'
  <2> DEFINE q == [at |-> "got", item |-> i, answer |-> a]
  <2>1. ReqOK(q) BY <1>1 DEF ReqOK, Open
  <2>2. q.at # "published" OBVIOUS
  <2>3. req' = [req EXCEPT ![r] = q] /\ UNCHANGED <<pending, answered, prod, hitlTriggered>>
    BY <1>1 DEF Open
  <2> HIDE DEF q
  <2>4. Honest(q, answered') BY <2>2 DEF Honest
  <2> QED BY <2>1, <2>3, <2>4, RequestReplaced DEF MitlInv
<1>2. CASE Publish(r)
  <2> DEFINE q == [at |-> "published", item |-> req[r].item, answer |-> req[r].answer]
  <2>1. req[r].at = "got" /\ UNCHANGED <<pending, prod, hitlTriggered>>
        /\ answered' = answered \cup {<<req[r].item, req[r].answer>>}
        /\ req' = [req EXCEPT ![r].at = "published"]
    BY <1>2 DEF Publish
  <2>2. /\ req[r].item \in Item /\ req[r].answer \in Answers
        /\ Fits(req[r].item, req[r].answer)
        /\ req[r] = [at |-> req[r].at, item |-> req[r].item, answer |-> req[r].answer]
    BY <1>0, <2>1, ReqOKFields DEF IdleReq
  <2>3. [req[r] EXCEPT !.at = "published"] = q BY <2>2
  <2>4. req' = [req EXCEPT ![r] = q] BY <2>1, <2>3
  <2>5. ReqOK(q) BY <2>2 DEF ReqOK
  <2>6. <<q.item, q.answer>> \in answered' BY <2>1
  <2>7. Honest(q, answered') BY <2>6 DEF Honest
  <2> HIDE DEF q
  <2>8. answered' \subseteq Item \X Answers BY <2>1, <2>2 DEF MitlInv
  <2> QED BY <2>1, <2>4, <2>5, <2>7, <2>8, RequestReplaced DEF MitlInv
<1>3. CASE removePending(r) \/ Abandon(r)
  <2>1. req' = [req EXCEPT ![r] = IdleReq] /\ pending' \subseteq pending
        /\ UNCHANGED <<answered, prod, hitlTriggered>>
    BY <1>3 DEF removePending, Abandon
  <2>2. ReqOK(IdleReq) /\ Honest(IdleReq, answered') BY DEF ReqOK, Honest, IdleReq
  <2> QED BY <2>1, <2>2, RequestReplaced DEF MitlInv
<1> QED BY <1>1, <1>2, <1>3 DEF request

LEMMA CheckStep ==
  ASSUME MitlInv, NEW p \in Producers,
         check(p) \/ GiveUp(p) \/ \E s \in Scopes : Evaluate(p, s)
  PROVE  MitlInv'
<1>0. ProdOK(prod[p]) /\ hitlTriggered \in BOOLEAN BY DEF MitlInv
<1>1. ASSUME NEW s \in Scopes, Evaluate(p, s) PROVE MitlInv'
  <2>1. ProdOK([at |-> "review", scope |-> s]) BY DEF ProdOK
  <2> QED BY <1>0, <1>1, <2>1, CheckReplaced DEF Evaluate, MitlInv
<1>2. CASE Check(p)
  <2> DEFINE q == [at |-> "explaining", scope |-> prod[p].scope]
  <2>1. prod[p].at = "review" BY <1>2 DEF Check
  <2>2. prod[p].scope \in Scopes /\ prod[p] = [at |-> prod[p].at, scope |-> prod[p].scope]
    BY <1>0, <2>1, ProdOKFields DEF IdleProd
  <2>3. [prod[p] EXCEPT !.at = "explaining"] = q BY <2>2
  <2>4. prod' = [prod EXCEPT ![p] = q] BY <1>2, <2>3 DEF Check
  <2>5. ProdOK(q) BY <2>2 DEF ProdOK
  <2> HIDE DEF q
  <2> QED BY <1>0, <1>2, <2>4, <2>5, CheckReplaced DEF Check, MitlInv
<1>3. ProdOK(IdleProd) BY DEF ProdOK
<1>4. Latch(p) => hitlTriggered' \in BOOLEAN BY <1>0 DEF Latch
<1>5. CASE AlreadyPending(p)
  BY <1>3, <1>4, <1>5, CheckReplaced DEF AlreadyPending, MitlInv
<1>6. ASSUME NEW i \in Item, Submit(p, i) PROVE MitlInv'
  BY <1>3, <1>4, <1>6, CheckReplaced DEF Submit, MitlInv
<1>7. CASE GiveUp(p)
  BY <1>0, <1>3, <1>7, CheckReplaced DEF GiveUp, MitlInv
<1> QED BY <1>1, <1>2, <1>5, <1>6, <1>7 DEF check

LEMMA MitlInvariant == Spec => []MitlInv
<1>1. MitlInv /\ [Next]_vars => MitlInv'
  <2> SUFFICES ASSUME MitlInv, [Next]_vars PROVE MitlInv' OBVIOUS
  <2>0. ASSUME UNCHANGED <<answered, req, prod>>, pending' \subseteq Item,
               hitlTriggered' \in BOOLEAN
        PROVE  MitlInv'
    BY <2>0 DEF MitlInv, Domains, ReqOK, Honest, ProdOK
  <2>1. ASSUME NEW i \in Item, addPending(i) PROVE MitlInv'
    BY <2>0, <2>1 DEF addPending, MitlInv
  <2>2. ASSUME NEW r \in Reviewers, request(r) \/ Abandon(r) PROVE MitlInv'
    BY <2>2, RequestStep
  <2>3. ASSUME NEW p \in Producers,
               check(p) \/ GiveUp(p) \/ \E s \in Scopes : Evaluate(p, s)
        PROVE  MitlInv'
    BY <2>3, CheckStep
  <2>4. ASSUME NEW s \in Scopes, Rearm(s) PROVE MitlInv'
    BY <2>0, <2>4 DEF Rearm, MitlInv
  <2>5. CASE UNCHANGED vars BY <2>0, <2>5 DEF vars, MitlInv
  <2> QED BY <2>1, <2>2, <2>3, <2>4, <2>5 DEF Next
<1> QED BY <1>1, MitlInit, PTL DEF Spec

(***************************************************************************)
(* Every variable keeps its type; a request holds an answer that fits.     *)
(***************************************************************************)
THEOREM TypeCorrect == Spec => []TypeOK
BY MitlInvariant, MitlTypes, PTL

(***************************************************************************)
(* An item leaves the queue only when an answer to it has been published:  *)
(* by any number of requests, with crashes, and with proposals parked anew.*)
(***************************************************************************)
THEOREM AnswersAreNotLost == Spec => NoAnswerLost
<1>1. MitlInv /\ [Next]_vars =>
        [\A i \in pending : i \notin pending' => \E a \in Answers : <<i, a>> \in answered]_vars
  <2> SUFFICES ASSUME MitlInv, [Next]_vars, NEW i \in pending, i \notin pending'
               PROVE  \E a \in Answers : <<i, a>> \in answered
    OBVIOUS
  <2>1. \E r \in Reviewers : removePending(r)
    BY DEF Next, addPending, request, Open, Publish, Abandon, check, Check, AlreadyPending,
           Submit, GiveUp, Evaluate, Rearm, vars
  <2>2. PICK r \in Reviewers : removePending(r) BY <2>1
  <2>3. req[r].at = "published" /\ i = req[r].item BY <2>2 DEF removePending
  <2>4. ReqOK(req[r]) /\ Honest(req[r], answered) BY DEF MitlInv
  <2>5. req[r].answer \in Answers BY <2>3, <2>4, ReqOKFields DEF IdleReq
  <2> QED BY <2>3, <2>4, <2>5 DEF Honest
<1> QED BY <1>1, MitlInvariant, PTL DEF Spec, NoAnswerLost
=============================================================================
