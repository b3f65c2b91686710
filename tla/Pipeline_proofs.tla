--------------------------- MODULE Pipeline_proofs --------------------------
(***************************************************************************)
(* Proofs about Pipeline, for any handlers, rules, modes and bounds.       *)
(***************************************************************************)
EXTENDS Pipeline, TLAPS

\* The next node of the cycle is the node of the next epoch.
LEMMA NodeAtNext ==
  ASSUME NEW n \in Nat
  PROVE  /\ NodeAt(n) \in Nodes
         /\ transitions[NodeAt(n)] = NodeAt(n + 1)
<1>1. n % 5 \in 0..4 OBVIOUS
<1>2. (n + 1) % 5 = IF n % 5 = 4 THEN 0 ELSE (n % 5) + 1 OBVIOUS
<1>3. CASE n % 5 = 0 BY <1>2, <1>3 DEF NodeAt, Phases, transitions, Nodes
<1>4. CASE n % 5 = 1 BY <1>2, <1>4 DEF NodeAt, Phases, transitions, Nodes
<1>5. CASE n % 5 = 2 BY <1>2, <1>5 DEF NodeAt, Phases, transitions, Nodes
<1>6. CASE n % 5 = 3 BY <1>2, <1>6 DEF NodeAt, Phases, transitions, Nodes
<1>7. CASE n % 5 = 4 BY <1>2, <1>7 DEF NodeAt, Phases, transitions, Nodes
<1> QED BY <1>1, <1>3, <1>4, <1>5, <1>6, <1>7

LEMMA TransitionsType == transitions \in [Nodes -> Nodes]
BY DEF transitions, Nodes

LEMMA CellCycle == Cell!transitions = transitions
BY DEF transitions, Nodes, Cell!transitions, Cell!Nodes

(***************************************************************************)
(* A proposal appended keeps its number, and so do those before it.        *)
(***************************************************************************)
LEMMA AppendKeeps ==
  ASSUME NEW S, NEW s \in Seq(S), NEW e \in S
  PROVE  /\ Append(s, e) \in Seq(S)
         /\ DOMAIN s \subseteq DOMAIN Append(s, e)
         /\ DOMAIN Append(s, e) = DOMAIN s \cup {Len(s) + 1}
         /\ \A i \in DOMAIN s : Append(s, e)[i] = s[i]
         /\ Append(s, e)[Len(s) + 1] = e
OBVIOUS

(***************************************************************************)
(* What Propose appends.                                                   *)
(***************************************************************************)
LEMMA ProposeKeeps ==
  ASSUME TypeOK, NEW mode \in ModesUsed, NEW writer \in BOOLEAN, Propose(mode, writer)
  PROVE  /\ proposals' \in Seq(Proposal)
         /\ Ids \subseteq Ids' /\ Ids' = Ids \cup {Len(proposals) + 1}
         /\ \A i \in Ids : proposals'[i] = proposals[i]
         /\ proposals'[Len(proposals) + 1] =
              [epoch |-> row.epoch, run |-> row.run, from |-> row.node,
               to |-> transitions[row.node], mode |-> mode, writer |-> writer]
<1> DEFINE p == [epoch |-> row.epoch, run |-> row.run, from |-> row.node,
                 to |-> transitions[row.node], mode |-> mode, writer |-> writer]
<1>1. p \in Proposal
  <2>1. row \in [run : Nat, node : Nodes, epoch : Nat]
    BY DEF TypeOK, Propose
  <2> QED BY <2>1, TransitionsType DEF Proposal
<1>2. proposals' = Append(proposals, p) /\ proposals \in Seq(Proposal)
  BY DEF Propose, TypeOK
<1> HIDE DEF p
<1>3. QED BY <1>1, <1>2, AppendKeeps DEF Ids, p

-----------------------------------------------------------------------------
LEMMA TypeInit == Init => TypeOK
BY BoundsAssumption DEF Init, TypeOK, Cell!Init, DriftLevels, Handler, Executor,
                        Action, IdleGov, IdleExec, Ids

LEMMA TypeStep == TypeOK /\ [Next]_vars => TypeOK'
<1> SUFFICES ASSUME TypeOK, [Next]_vars PROVE TypeOK'
  OBVIOUS
<1>. USE DEF cell, bus, decided
<1>1. ASSUME NEW mode \in ModesUsed, NEW writer \in BOOLEAN, Propose(mode, writer)
      PROVE  TypeOK'
  <2>1. /\ proposals' \in Seq(Proposal) /\ Ids \subseteq Ids'
        /\ Ids' = Ids \cup {Len(proposals) + 1}
    BY <1>1, ProposeKeeps
  <2>2. deliveries' \in Seq(0..MaxDeliver) /\ Len(deliveries') = Len(proposals')
    <3>1. /\ deliveries \in Seq(0..MaxDeliver) /\ Len(deliveries) = Len(proposals)
          /\ proposals \in Seq(Proposal) /\ 0 \in 0..MaxDeliver
      BY BoundsAssumption DEF TypeOK
    <3>2. deliveries' = Append(deliveries, 0) /\ Len(proposals') = Len(proposals) + 1
      BY <1>1, <3>1 DEF Propose
    <3> QED BY <3>1, <3>2
  <2> QED BY <1>1, <2>1, <2>2 DEF Propose, TypeOK
<1>2. ASSUME NEW d \in Drifts, WriteDrift(d) PROVE TypeOK'
  BY <1>2, DriftAssumption DEF WriteDrift, TypeOK, Ids
<1>3. ASSUME Restart PROVE TypeOK'
  <2>1. row' \in [run : Nat, node : Nodes, epoch : Nat] /\ runs' \in Nat
    BY <1>3 DEF Restart, Cell!Restart, Cell!Fresh, Nodes, TypeOK
  <2> QED BY <1>3, <2>1 DEF Restart, TypeOK, Ids
<1>4. ASSUME NEW g \in Governors, NEW i \in DOMAIN proposals, Receive(g, i) PROVE TypeOK'
  <2>1. gov' \in [Governors -> Handler]
    <3>1. i \in Nat
      BY DEF TypeOK
    <3>2. [IdleGov EXCEPT !.at = "received", !.id = i] \in Handler
      BY <3>1 DEF IdleGov, Handler
    <3> QED BY <1>4, <3>2 DEF Receive, TypeOK
  <2>2. \A h \in Governors : gov'[h].at # "idle" => gov'[h].id \in Ids'
    BY <1>4 DEF Receive, TypeOK, IdleGov, Ids
  <2>3. deliveries' \in Seq(0..MaxDeliver) /\ Len(deliveries') = Len(proposals')
    <3>1. i \in 1..Len(deliveries) /\ deliveries[i] + 1 \in 0..MaxDeliver
      BY <1>4, BoundsAssumption DEF Receive, TypeOK
    <3> QED BY <1>4, <3>1 DEF Receive, TypeOK
  <2> QED BY <1>4, <2>1, <2>2, <2>3 DEF Receive, TypeOK, Ids
<1>5. ASSUME NEW g \in Governors, CheckEpoch(g) PROVE TypeOK'
  BY <1>5 DEF CheckEpoch, TypeOK, Handler, Ids
<1>6. ASSUME NEW g \in Governors, Evaluate(g) PROVE TypeOK'
  <2>1. PICK o \in Outcomes(proposals[gov[g].id], drift) :
          gov' = [gov EXCEPT ![g].at = "decided", ![g].outcome = o]
    BY <1>6 DEF Evaluate
  <2>2. o \in {"reject", "pending", "approve"}
    BY <2>1 DEF Outcomes
  <2>3. gov' \in [Governors -> Handler]
    BY <2>1, <2>2 DEF TypeOK, Handler
  <2>4. \A h \in Governors : gov'[h].at # "idle" => gov'[h].id \in Ids
    BY <1>6, <2>1 DEF Evaluate, TypeOK, Handler
  <2> QED BY <1>6, <2>3, <2>4 DEF Evaluate, TypeOK, Ids
<1>7. ASSUME NEW g \in Governors, Commit(g) PROVE TypeOK'
  <2>1. gov[g].id \in Ids /\ gov[g].id \in Nat
    BY <1>7 DEF Commit, TypeOK, Handler
  <2>2. gov' \in [Governors -> Handler] /\ \A h \in Governors : gov'[h].at # "idle" => gov'[h].id \in Ids
    BY <1>7 DEF Commit, TypeOK, Handler
  <2>3. /\ processed' \cup pending' \cup rejections' \subseteq Ids
        /\ actions' \subseteq Action /\ actions \subseteq actions' /\ \A a \in actions' : a.id \in Ids
    BY <1>7, <2>1 DEF Commit, TypeOK, Action
  <2> QED BY <1>7, <2>2, <2>3 DEF Commit, TypeOK, Ids
<1>8. ASSUME NEW g \in Governors, Finish(g) \/ FailGov(g) PROVE TypeOK'
  <2>1. IdleGov \in Handler /\ IdleGov.at = "idle"
    BY DEF IdleGov, Handler
  <2> QED BY <1>8, <2>1 DEF Finish, FailGov, TypeOK, Ids
<1>9. ASSUME NEW i \in pending, approvePending(i) \/ rejectPending(i) \/ removePending(i)
      PROVE  TypeOK'
  <2>1. i \in Ids /\ i \in Nat
    BY DEF TypeOK, Ids
  <2> QED BY <1>9, <2>1 DEF approvePending, rejectPending, removePending, TypeOK, Action, Ids
<1>10. ASSUME NEW x \in Executors, NEW a \in actions, Fetch(x, a) PROVE TypeOK'
  <2>1. [IdleExec EXCEPT !.at = "fetched", !.action = a] \in Executor
    BY DEF IdleExec, Executor, TypeOK, DriftLevels
  <2>2. exec' \in [Executors -> Executor]
    BY <1>10, <2>1 DEF Fetch, TypeOK
  <2>3. \A y \in Executors : exec'[y].at # "idle" => exec'[y].action \in actions
    BY <1>10 DEF Fetch, TypeOK, IdleExec
  <2> QED BY <1>10, <2>2, <2>3 DEF Fetch, TypeOK, Ids
<1>11. ASSUME NEW x \in Executors, ReadDrift(x) PROVE TypeOK'
  BY <1>11 DEF ReadDrift, TypeOK, Executor, Ids
<1>12. ASSUME NEW x \in Executors, Execute(x) \/ Skip(x) \/ FailExec(x) PROVE TypeOK'
  <2>1. IdleExec \in Executor /\ IdleExec.at = "idle"
    BY DEF IdleExec, Executor, Action, DriftLevels
  <2>2. row' \in [run : Nat, node : Nodes, epoch : Nat] \cup {NoRow} /\ runs' \in Nat
    <3>1. CASE Execute(x)
      <4>1. row \in [run : Nat, node : Nodes, epoch : Nat]
        BY <3>1 DEF Execute, Advances, At, TypeOK
      <4>2. row' = [row EXCEPT !.node = transitions[row.node], !.epoch = row.epoch + 1]
            /\ runs' = runs
        BY <3>1, CellCycle DEF Execute, Cell!Step
      <4>3. transitions[row.node] \in Nodes /\ row.epoch + 1 \in Nat
        BY <4>1, TransitionsType
      <4>4. row' \in [run : Nat, node : Nodes, epoch : Nat]
        BY <4>1, <4>2, <4>3
      <4> QED BY <4>2, <4>4 DEF TypeOK
    <3>2. CASE Skip(x) \/ FailExec(x)
      BY <3>2 DEF Skip, FailExec, TypeOK
    <3> QED BY <1>12, <3>1, <3>2
  <2>3. exec' = [exec EXCEPT ![x] = IdleExec] /\ UNCHANGED <<drift, bus, processed, gov, decided>>
    BY <1>12 DEF Execute, Skip, FailExec
  <2> QED BY <2>1, <2>2, <2>3 DEF TypeOK, Ids
<1>13. CASE UNCHANGED vars
  BY <1>13 DEF vars, TypeOK, Ids
<1> QED BY <1>1, <1>2, <1>3, <1>4, <1>5, <1>6, <1>7, <1>8, <1>9, <1>10, <1>11, <1>12, <1>13
        DEF Next, handle

(***************************************************************************)
(* TypeOK.                                                                 *)
(***************************************************************************)
THEOREM TypeCorrect == Spec => []TypeOK
BY TypeInit, TypeStep, PTL DEF Spec

-----------------------------------------------------------------------------
(***************************************************************************)
(* Epochs tell nodes: every action but four leaves the row and the         *)
(* proposals alone.                                                        *)
(***************************************************************************)
LEMMA EpochsInit == Init => EpochsTellNodes
BY DEF Init, Cell!Init, EpochsTellNodes, Ids

LEMMA StepRow ==
  ASSUME TypeOK, NEW x \in Executors, Execute(x)
  PROVE  /\ row \in [run : Nat, node : Nodes, epoch : Nat]
         /\ row' = [row EXCEPT !.node = transitions[row.node], !.epoch = row.epoch + 1]
<1>1. row \in [run : Nat, node : Nodes, epoch : Nat]
  BY DEF Execute, Advances, At, TypeOK
<1>2. row' = [row EXCEPT !.node = transitions[row.node], !.epoch = row.epoch + 1]
  BY CellCycle DEF Execute, Cell!Step
<1> QED BY <1>1, <1>2

LEMMA EpochsStep == TypeOK /\ EpochsTellNodes /\ [Next]_vars => EpochsTellNodes'
<1> SUFFICES ASSUME TypeOK, EpochsTellNodes, [Next]_vars PROVE EpochsTellNodes'
  OBVIOUS
<1>. USE DEF cell, bus, decided
<1>1. ASSUME NEW mode \in ModesUsed, NEW writer \in BOOLEAN, Propose(mode, writer)
      PROVE  EpochsTellNodes'
  <2>1. row' = row /\ row.node = NodeAt(row.epoch)
    BY <1>1 DEF Propose, EpochsTellNodes
  <2>2. ASSUME NEW i \in Ids'
        PROVE  /\ proposals'[i].from = NodeAt(proposals'[i].epoch)
               /\ proposals'[i].to = transitions[proposals'[i].from]
    <3>1. CASE i \in Ids
      BY <1>1, <3>1, ProposeKeeps DEF EpochsTellNodes
    <3>2. CASE i = Len(proposals) + 1
      <4>1. proposals'[i] = [epoch |-> row.epoch, run |-> row.run, from |-> row.node,
                to |-> transitions[row.node], mode |-> mode, writer |-> writer]
        BY <1>1, <3>2, ProposeKeeps
      <4> QED BY <2>1, <4>1
    <3> QED BY <1>1, <2>2, <3>1, <3>2, ProposeKeeps
  <2> QED BY <1>1, <2>1, <2>2 DEF EpochsTellNodes, Propose
<1>2. ASSUME Restart PROVE EpochsTellNodes'
  <2>1. NodeAt(0) = "ContextIngested"
    BY DEF NodeAt, Phases
  <2> QED BY <1>2, <2>1 DEF Restart, Cell!Restart, Cell!Fresh, EpochsTellNodes, Ids
<1>3. ASSUME NEW x \in Executors, Execute(x) PROVE EpochsTellNodes'
  <2>1. row.node = NodeAt(row.epoch) /\ row.epoch \in Nat
    BY <1>3, StepRow DEF EpochsTellNodes, Execute, Advances, At
  <2>2. row'.node = NodeAt(row'.epoch)
    BY <1>3, <2>1, StepRow, NodeAtNext
  <2>3. row'.run <= runs'
    BY <1>3, StepRow DEF Execute, Cell!Step, EpochsTellNodes
  <2> QED BY <1>3, <2>2, <2>3 DEF Execute, EpochsTellNodes, Ids
<1>4. ASSUME UNCHANGED <<row, runs, proposals>> PROVE EpochsTellNodes'
  BY <1>4 DEF EpochsTellNodes, Ids
<1> QED BY <1>1, <1>2, <1>3, <1>4
        DEF Next, handle, WriteDrift, Receive, CheckEpoch, Evaluate, Commit, Finish, FailGov,
            approvePending, rejectPending, removePending, Fetch, ReadDrift, Skip, FailExec, vars

-----------------------------------------------------------------------------
(***************************************************************************)
(* What a handler may conclude, and what committing it does.               *)
(***************************************************************************)
LEMMA OutcomeGate ==
  ASSUME NEW p \in Proposal, NEW d \in DriftLevels, "approve" \in Outcomes(p, d)
  PROVE  p.mode # "MITL"
<1>1. evaluate_kernel(can_transition(p.from, p.to, d, Rules), "Unchecked", p.mode).verdict
        # "escalate"
  BY DEF Outcomes
<1> QED BY <1>1 DEF evaluate_kernel, ByMode

Gates == HandlersKeepGate /\ HumanGate /\ HandlersDecide /\ DecidedOnceProcessed

LEMMA GatesInit == Init => Gates
BY DEF Init, Gates, HandlersKeepGate, HumanGate, HandlersDecide, DecidedOnceProcessed, IdleGov

LEMMA GatesStep == TypeOK /\ Gates /\ [Next]_vars => Gates'
<1> SUFFICES ASSUME TypeOK, Gates, [Next]_vars PROVE Gates'
  OBVIOUS
<1>. USE DEF cell, bus, decided, Gates, HandlersKeepGate, HumanGate, HandlersDecide,
             DecidedOnceProcessed, Decided
<1>0. /\ IdleGov.at = "idle" /\ IdleGov.outcome = "none"
      /\ gov \in [Governors -> Handler]
      /\ \A g \in Governors : gov[g].at # "idle" => gov[g].id \in Ids
      /\ \A a \in actions : a.id \in Ids
  BY DEF IdleGov, TypeOK
<1>1. ASSUME NEW mode \in ModesUsed, NEW writer \in BOOLEAN, Propose(mode, writer)
      PROVE  Gates'
  <2>1. \A i \in Ids : proposals'[i] = proposals[i]
    BY <1>1, ProposeKeeps
  <2> QED BY <1>0, <1>1, <2>1 DEF Propose
<1>2. ASSUME UNCHANGED <<proposals, processed, gov, decided>> PROVE Gates'
  BY <1>2
<1>3. ASSUME NEW g \in Governors, NEW i \in Ids, Receive(g, i) PROVE Gates'
  <2>1. gov' = [gov EXCEPT ![g] = [IdleGov EXCEPT !.at = "received", !.id = i]]
    BY <1>3 DEF Receive
  <2>2. gov'[g].at = "received" /\ gov'[g].outcome = "none"
    BY <1>0, <2>1 DEF IdleGov
  <2>3. \A h \in Governors : h # g => gov'[h] = gov[h]
    BY <1>0, <2>1
  <2> QED BY <1>3, <2>2, <2>3 DEF Receive
<1>4. ASSUME NEW g \in Governors, CheckEpoch(g) PROVE Gates'
  <2>1. \A h \in Governors : h # g => gov'[h] = gov[h]
    BY <1>0, <1>4 DEF CheckEpoch
  <2>2. /\ gov'[g].id = gov[g].id
        /\ \/ gov'[g].at = "loaded"  /\ gov'[g].outcome = gov[g].outcome
           \/ gov'[g].at = "decided" /\ gov'[g].outcome = "reject"
    BY <1>0, <1>4 DEF CheckEpoch, Handler
  <2>3. gov[g].at = "received" /\ UNCHANGED <<proposals, processed, decided>>
    BY <1>4 DEF CheckEpoch
  <2>4. HandlersKeepGate'
    <3>1. ASSUME gov'[g].outcome = "approve" PROVE proposals[gov'[g].id].mode # "MITL"
      BY <2>2, <2>3, <3>1
    <3> QED BY <2>1, <2>3, <3>1
  <2>5. HandlersDecide'
    BY <2>1, <2>2, <2>3
  <2> QED BY <2>3, <2>4, <2>5
<1>5. ASSUME NEW g \in Governors, Evaluate(g) PROVE Gates'
  <2>1. PICK o \in Outcomes(proposals[gov[g].id], drift) :
          gov' = [gov EXCEPT ![g].at = "decided", ![g].outcome = o]
    BY <1>5 DEF Evaluate
  <2>2. o \in {"reject", "pending", "approve"}
    BY <2>1 DEF Outcomes
  <2>3. proposals[gov[g].id] \in Proposal /\ drift \in DriftLevels
    BY <1>0, <1>5 DEF Evaluate, TypeOK, Ids
  <2>4. o = "approve" => proposals[gov[g].id].mode # "MITL"
    BY <2>1, <2>3, OutcomeGate
  <2>5. \A h \in Governors : h # g => gov'[h] = gov[h]
    BY <1>0, <2>1
  <2>6. gov'[g].id = gov[g].id /\ gov'[g].at = "decided" /\ gov'[g].outcome = o
    BY <1>0, <2>1 DEF Handler
  <2>7. UNCHANGED <<proposals, processed, decided>>
    BY <1>5 DEF Evaluate
  <2>8. HandlersKeepGate'
    BY <2>4, <2>5, <2>6, <2>7
  <2>9. HandlersDecide'
    BY <2>2, <2>5, <2>6, <2>7
  <2> QED BY <2>7, <2>8, <2>9
<1>6. ASSUME NEW g \in Governors, Commit(g) PROVE Gates'
  <2>1. gov[g].outcome \in {"reject", "pending", "approve"}
    BY <1>0, <1>6 DEF Commit, Handler
  <2>2. \A h \in Governors : h # g => gov'[h] = gov[h]
    BY <1>0, <1>6 DEF Commit
  <2>3. gov'[g].id = gov[g].id /\ gov'[g].at = "committed" /\ gov'[g].outcome = gov[g].outcome
    BY <1>0, <1>6 DEF Commit, Handler
  <2>4. rejections \subseteq rejections' /\ pending \subseteq pending' /\ actions \subseteq actions'
    BY <1>6 DEF Commit
  <2>5. HumanGate'
    BY <1>6 DEF Commit
  <2>6. Decided(gov[g].id)'
    <3>1. CASE gov[g].outcome = "reject"
      BY <1>6, <2>3, <3>1 DEF Commit
    <3>2. CASE gov[g].outcome = "pending"
      BY <1>6, <2>3, <3>2 DEF Commit
    <3>3. CASE gov[g].outcome = "approve"
      <4>1. [id |-> gov[g].id, by |-> "governance"] \in actions'
        BY <1>6, <3>3 DEF Commit
      <4> QED BY <2>3, <4>1
    <3> QED BY <2>1, <3>1, <3>2, <3>3
  <2>7. HandlersKeepGate' /\ HandlersDecide' /\ DecidedOnceProcessed'
    BY <1>6, <2>2, <2>3, <2>4, <2>6 DEF Commit
  <2> QED BY <2>5, <2>7
<1>7. ASSUME NEW g \in Governors, Finish(g) PROVE Gates'
  <2>1. \A h \in Governors : h # g => gov'[h] = gov[h]
    BY <1>0, <1>7 DEF Finish
  <2>2. gov'[g] = IdleGov
    BY <1>0, <1>7 DEF Finish
  <2> QED BY <1>0, <1>7, <2>1, <2>2 DEF Finish
<1>8. ASSUME NEW g \in Governors, FailGov(g) PROVE Gates'
  <2>1. \A h \in Governors : h # g => gov'[h] = gov[h]
    BY <1>0, <1>8 DEF FailGov
  <2>2. gov'[g] = IdleGov
    BY <1>0, <1>8 DEF FailGov
  <2> QED BY <1>0, <1>8, <2>1, <2>2 DEF FailGov
<1>9. ASSUME NEW i \in pending, approvePending(i) \/ rejectPending(i) PROVE Gates'
  BY <1>9 DEF approvePending, rejectPending
<1>10. ASSUME NEW i \in pending, removePending(i) PROVE Gates'
  <2>1. i \in rejections \/ \E a \in actions : a.id = i
    BY <1>10 DEF removePending, Answered
  <2>2. \A j : Decided(j) => Decided(j)'
    BY <1>10, <2>1 DEF removePending
  <2> QED BY <1>10, <2>2 DEF removePending
<1> QED BY <1>1, <1>2, <1>3, <1>4, <1>5, <1>6, <1>7, <1>8, <1>9, <1>10
        DEF Next, handle, WriteDrift, Restart, Fetch, ReadDrift, Execute, Skip, FailExec, vars, Ids

-----------------------------------------------------------------------------
LEMMA Invariance == Spec => []IInv
<1>1. Init => IInv
  BY TypeInit, EpochsInit, GatesInit DEF IInv, Gates
<1>2. IInv /\ [Next]_vars => IInv'
  BY TypeStep, EpochsStep, GatesStep DEF IInv, Gates
<1> QED BY <1>1, <1>2, PTL DEF Spec

(***************************************************************************)
(* HumanGate: no failure, redelivery or race of handlers lets a MITL       *)
(* proposal past the humans.                                               *)
(***************************************************************************)
THEOREM MitlWaitsForHumans == Spec => []HumanGate
BY Invariance, PTL DEF IInv

(***************************************************************************)
(* DecidedOnceProcessed: what is marked processed has been decided.        *)
(***************************************************************************)
THEOREM NothingMarkedUndecided == Spec => []DecidedOnceProcessed
BY Invariance, PTL DEF IInv

(***************************************************************************)
(* AppliedAsApproved: only Execute moves the row within a run, by the edge *)
(* that leads out of the node of the epoch its proposal was made in.       *)
(***************************************************************************)
THEOREM StepsWereApproved == Spec => AppliedAsApproved
<1>1. IInv /\ [Next]_vars
        => [Moves => \E a \in actions : Approves(a, row, row')]_vars
  <2> SUFFICES ASSUME IInv, [Next]_vars, Moves
               PROVE  \E a \in actions : Approves(a, row, row')
    OBVIOUS
  <2>. USE DEF cell, bus, decided
  <2>1. ASSUME NEW x \in Executors, Execute(x)
        PROVE  \E a \in actions : Approves(a, row, row')
    <3>1. exec[x].action \in actions /\ exec[x].action.id \in Ids
      BY <2>1 DEF Execute, Ready, IInv, TypeOK
    <3>2. row.epoch = proposals[exec[x].action.id].epoch /\ row.node = NodeAt(row.epoch)
      BY <2>1 DEF Execute, Advances, At, IInv, EpochsTellNodes
    <3>3. row'.node = transitions[row.node]
      BY <2>1, StepRow DEF IInv
    <3>4. Approves(exec[x].action, row, row')
      BY <3>1, <3>2, <3>3 DEF Approves, IInv, EpochsTellNodes
    <3> QED BY <3>1, <3>4
  <2>2. ASSUME Restart PROVE FALSE
    <3>1. row'.run = runs + 1 /\ row.run = row'.run
      BY <2>2 DEF Restart, Cell!Restart, Cell!Fresh, Moves
    <3> QED BY <3>1 DEF IInv, TypeOK, EpochsTellNodes, Moves
  <2>3. ASSUME UNCHANGED row PROVE FALSE
    BY <2>3 DEF Moves
  <2> QED BY <2>1, <2>2, <2>3
          DEF Next, handle, Propose, WriteDrift, Receive, CheckEpoch, Evaluate, Commit, Finish,
              FailGov, approvePending, rejectPending, removePending, Fetch, ReadDrift, Skip,
              FailExec, vars
<1> QED BY <1>1, Invariance, PTL DEF Spec, AppliedAsApproved
=============================================================================
