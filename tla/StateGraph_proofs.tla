-------------------------- MODULE StateGraph_proofs --------------------------
(***************************************************************************)
(* Proofs about StateGraph, for any callers, rules and bounds.             *)
(***************************************************************************)
EXTENDS StateGraph, TLAPS

\* The next node of the cycle is the node of the next epoch.
LEMMA NodeAtNext ==
  ASSUME NEW n \in Nat
  PROVE  /\ NodeAt(n) \in Nodes
         /\ transitions[NodeAt(n)] = NodeAt(n + 1)
<1>1. n % 5 \in 0..4 OBVIOUS
<1>2. (n + 1) % 5 = IF n % 5 = 4 THEN 0 ELSE (n % 5) + 1 OBVIOUS
<1>3. CASE n % 5 = 0 BY <1>2, <1>3 DEF NodeAt, Phases, transitions, Nodes
<1>4. CASE n % 5 = 1 BY <1>2, <1>4 DEF NodeAt, Phases, transitions, Nodes
<1>5. CASE n % 5 = 2 BY <1>2, <1>5 DEF NodeAt, Phases, transitions, Nodes
<1>6. CASE n % 5 = 3 BY <1>2, <1>6 DEF NodeAt, Phases, transitions, Nodes
<1>7. CASE n % 5 = 4 BY <1>2, <1>7 DEF NodeAt, Phases, transitions, Nodes
<1> QED BY <1>1, <1>3, <1>4, <1>5, <1>6, <1>7

LEMMA TransitionsType == transitions \in [Nodes -> Nodes]
BY DEF transitions, Nodes

-----------------------------------------------------------------------------
(***************************************************************************)
(* Type correctness.                                                       *)
(***************************************************************************)
LEMMA IdleType == Idle \in Call
BY DEF Idle, Call, Steps, GraphState, Nodes

LEMMA FreshType ==
  ASSUME NEW n \in Nodes, runs \in Nat
  PROVE  FreshAt(n) \in GraphState
BY DEF FreshAt, GraphState

(***************************************************************************)
(* Types and the row lock go together: Commit writes a row because its     *)
(* caller holds the lock of one that is there.                             *)
(***************************************************************************)
TypeAndLock == TypeOK /\ LockHeld /\ LockedRow

LEMMA TypeAndLockInit == Init => TypeAndLock
BY IdleType, NobodyAssumption DEF Init, TypeAndLock, TypeOK, LockHeld, LockedRow, Idle

LEMMA TypeAndLockStep == TypeAndLock /\ [Next]_vars => TypeAndLock'
<1> SUFFICES ASSUME TypeAndLock, [Next]_vars PROVE TypeAndLock'
  OBVIOUS
<1>. USE NobodyAssumption DEF TypeAndLock, TypeOK, LockHeld, LockedRow, Matches
<1>0. Idle \in Call /\ Idle.at = "idle"
  BY IdleType DEF Idle
<1>1. ASSUME NEW c \in Callers, NEW e \in 0..(MaxEpoch - 1),
             NEW d \in Drifts \cup {"unchecked"}, Ask(c, e, d)
      PROVE  TypeAndLock'
  <2>1. e \in Nat
    BY BoundsAssumption
  <2>2. [Idle EXCEPT !.at = "called", !.expected = e, !.drift = d] \in Call
    BY <2>1, IdleType DEF Call, Steps
  <2>3. TypeOK'
    BY <1>1, <2>2 DEF Ask
  <2>4. LockHeld' /\ LockedRow'
    BY <1>1, <2>2 DEF Ask, Call
  <2>. QED BY <2>3, <2>4
<1>2. ASSUME NEW c \in Callers, Load(c) PROVE TypeAndLock'
  <2>1. row \in GraphState
    BY <1>2 DEF Load
  <2>2. [call[c] EXCEPT !.at = "decided", !.current = row] \in Call
    BY <2>1 DEF Call, Steps
  <2>3. TypeOK'
    BY <1>2, <2>2 DEF Load
  <2>4. LockHeld' /\ LockedRow'
    BY <1>2, <2>2 DEF Load, Call
  <2>. QED BY <2>3, <2>4
<1>3. ASSUME NEW c \in Callers, RefuseLoad(c) PROVE TypeAndLock'
  BY <1>0, <1>3 DEF RefuseLoad, Return
<1>4. ASSUME NEW c \in Callers, Update(c) PROVE TypeAndLock'
  <2>1. [call[c] EXCEPT !.at = "updated"] \in Call
    BY DEF Call, Steps
  <2>2. TypeOK'
    BY <1>4, <2>1 DEF Update
  <2>3. LockHeld' /\ LockedRow'
    BY <1>4, <2>1 DEF Update, Call
  <2>. QED BY <2>2, <2>3
<1>5. ASSUME NEW c \in Callers, LoseRace(c) PROVE TypeAndLock'
  BY <1>0, <1>5 DEF LoseRace, Return
<1>6. ASSUME NEW c \in Callers, Commit(c) PROVE TypeAndLock'
  <2>1. row \in GraphState
    BY <1>6 DEF Commit
  <2>2. /\ call[c].expected + 1 \in Nat \ {0}
        /\ call[c].current.node \in Nodes
        /\ transitions[call[c].current.node] \in Nodes
    BY TransitionsType DEF Call, GraphState
  <2>3. row' \in GraphState
    BY <1>6, <2>1, <2>2 DEF Commit, GraphState
  <2>4. audit' \in Seq(AuditEvent)
    BY <1>6, <2>1, <2>2 DEF Commit, GraphState, AuditEvent
  <2>5. TypeOK'
    BY <1>0, <1>6, <2>3, <2>4 DEF Commit, Return
  <2>6. LockHeld' /\ LockedRow'
    BY <1>0, <1>6 DEF Commit, Return
  <2>. QED BY <2>5, <2>6
<1>7. ASSUME NEW c \in Callers, Rollback(c) PROVE TypeAndLock'
  BY <1>0, <1>7 DEF Rollback, Return
<1>8. ASSUME NEW c \in Callers, Crash(c) PROVE TypeAndLock'
  BY <1>0, <1>8 DEF Crash, Return
<1>9. ASSUME NEW n \in ResetNodes, resetStateTo(n)
      PROVE  TypeAndLock'
  <2>1. FreshAt(n) \in GraphState
    BY FreshType, ResetAssumption DEF Nodes
  <2>2. \A c \in Callers : lock # c
    BY <1>9 DEF resetStateTo
  <2>. QED BY <1>9, <2>1, <2>2 DEF resetStateTo
<1>10. CASE initState \/ reinitRow
  <2>1. FreshAt("ContextIngested") \in GraphState
    BY FreshType DEF Nodes
  <2>2. \A c \in Callers : lock # c
    BY <1>10 DEF initState, reinitRow
  <2>. QED BY <1>10, <2>1, <2>2 DEF initState, reinitRow
<1>11. CASE resetScopeData
  BY <1>11 DEF resetScopeData
<1>12. CASE UNCHANGED vars
  BY <1>12 DEF vars
<1>. QED
  BY <1>1, <1>2, <1>3, <1>4, <1>5, <1>6, <1>7, <1>8, <1>9, <1>10, <1>11, <1>12
     DEF Next, advanceState

(***************************************************************************)
(* Every behaviour keeps every variable in its type.                       *)
(***************************************************************************)
THEOREM TypeCorrect == Spec => []TypeOK
<1>1. TypeAndLock => TypeOK
  BY DEF TypeAndLock
<1>. QED BY <1>1, TypeAndLockInit, TypeAndLockStep, PTL DEF Spec

-----------------------------------------------------------------------------
(***************************************************************************)
(* The scope's position.  Only Commit moves the node along, and it holds   *)
(* the lock of a row at the expected epoch: the node it leaves is the      *)
(* node it loaded, because both are the node of that epoch.                *)
(***************************************************************************)
Position == EpochTellsNode /\ LoadedNodes

LEMMA CommitEdge ==
  ASSUME TypeAndLock, Position, NEW c \in Callers, Commit(c)
  PROVE  /\ row \in GraphState
         /\ row.epoch = call[c].expected
         /\ call[c].current.node = row.node
         /\ Permits(row.node, call[c].drift)
         /\ row' = [row EXCEPT !.node = transitions[row.node], !.epoch = row.epoch + 1]
         /\ audit' = Append(audit, [from |-> row.node, to |-> transitions[row.node],
                                    epoch |-> row.epoch + 1, run |-> row.run])
<1>1. /\ call[c].at = "updated"
      /\ row \in GraphState
      /\ row # NoRow
      /\ row.epoch = call[c].expected
  BY DEF Commit, TypeAndLock, TypeOK, LockHeld, LockedRow, Matches
<1>2. /\ call[c].current.node = NodeAt(call[c].expected)
      /\ Permits(call[c].current.node, call[c].drift)
      /\ row.node = NodeAt(row.epoch)
  BY <1>1 DEF Position, EpochTellsNode, LoadedNodes
<1>. QED BY <1>1, <1>2 DEF Commit

LEMMA PositionStep ==
  TypeAndLock /\ TypeAndLock' /\ Position /\ [Next]_vars => Position'
<1> SUFFICES ASSUME TypeAndLock, TypeAndLock', Position, [Next]_vars PROVE Position'
  OBVIOUS
<1>. USE DEF Position
<1>0. Idle.at = "idle" /\ NodeAt(0) = "ContextIngested"
  BY DEF Idle, NodeAt, Phases
<1>1. ASSUME NEW c \in Callers, NEW e \in 0..(MaxEpoch - 1),
             NEW d \in Drifts \cup {"unchecked"}, Ask(c, e, d)
      PROVE  Position'
  <2>1. EpochTellsNode'
    BY <1>1 DEF Ask, EpochTellsNode
  <2>2. call'[c].at = "called" /\ \A b \in Callers \ {c} : call'[b] = call[b]
    BY <1>1, IdleType DEF Ask, TypeAndLock, TypeOK, Call
  <2>3. LoadedNodes'
    BY <2>2 DEF LoadedNodes, Permits
  <2>. QED BY <2>1, <2>3
<1>2. ASSUME NEW c \in Callers, Load(c) PROVE Position'
  <2>1. EpochTellsNode'
    BY <1>2 DEF Load, EpochTellsNode
  <2>2. /\ row # NoRow
        /\ row.node = NodeAt(call[c].expected)
        /\ Permits(row.node, call[c].drift)
    BY <1>2 DEF Load, Matches, EpochTellsNode
  <2>3. /\ call'[c].current = row
        /\ call'[c].expected = call[c].expected
        /\ call'[c].drift = call[c].drift
        /\ \A b \in Callers \ {c} : call'[b] = call[b]
    BY <1>2 DEF Load, TypeAndLock, TypeOK, Call
  <2>4. LoadedNodes'
    BY <2>2, <2>3 DEF LoadedNodes, Permits
  <2>. QED BY <2>1, <2>4
<1>3. ASSUME NEW c \in Callers, RefuseLoad(c) \/ LoseRace(c) \/ Rollback(c) \/ Crash(c)
      PROVE  Position'
  <2>1. row' = row /\ call' = [call EXCEPT ![c] = Idle]
    BY <1>3 DEF RefuseLoad, LoseRace, Rollback, Crash, Return
  <2>2. call'[c].at = "idle" /\ \A b \in Callers \ {c} : call'[b] = call[b]
    BY <1>0, <2>1 DEF TypeAndLock, TypeOK
  <2>3. LoadedNodes'
    BY <2>2 DEF LoadedNodes, Permits
  <2>. QED BY <2>1, <2>3 DEF EpochTellsNode
<1>4. ASSUME NEW c \in Callers, Update(c) PROVE Position'
  <2>1. EpochTellsNode'
    BY <1>4 DEF Update, EpochTellsNode
  <2>2. /\ call[c].at = "decided"
        /\ call'[c].current = call[c].current
        /\ call'[c].expected = call[c].expected
        /\ call'[c].drift = call[c].drift
        /\ \A b \in Callers \ {c} : call'[b] = call[b]
    BY <1>4 DEF Update, TypeAndLock, TypeOK, Call
  <2>3. LoadedNodes'
    BY <2>2 DEF LoadedNodes, Permits
  <2>. QED BY <2>1, <2>3
<1>5. ASSUME NEW c \in Callers, Commit(c) PROVE Position'
  <2>1. /\ row \in GraphState
        /\ row' = [row EXCEPT !.node = transitions[row.node], !.epoch = row.epoch + 1]
    BY <1>5, CommitEdge
  <2>2. row.node = NodeAt(row.epoch)
    BY <2>1, NoRowAssumption DEF EpochTellsNode, GraphState
  <2>3. row'.node = NodeAt(row'.epoch)
    BY <2>1, <2>2, NodeAtNext DEF GraphState
  <2>4. call' = [call EXCEPT ![c] = Idle]
    BY <1>5 DEF Commit, Return
  <2>5. call'[c].at = "idle" /\ \A b \in Callers \ {c} : call'[b] = call[b]
    BY <1>0, <2>4 DEF TypeAndLock, TypeOK
  <2>6. LoadedNodes'
    BY <2>5 DEF LoadedNodes, Permits
  <2>. QED BY <2>3, <2>6 DEF EpochTellsNode
<1>6. ASSUME NEW n \in ResetNodes, resetStateTo(n) PROVE Position'
  <2>1. n = "ContextIngested"
    BY ResetAssumption
  <2>2. row' = FreshAt("ContextIngested") /\ call' = call
    BY <1>6, <2>1 DEF resetStateTo
  <2>. QED BY <1>0, <2>2 DEF EpochTellsNode, LoadedNodes, Permits, FreshAt
<1>7. CASE initState \/ reinitRow
  BY <1>0, <1>7 DEF initState, reinitRow, EpochTellsNode, LoadedNodes, Permits, FreshAt
<1>8. CASE resetScopeData
  BY <1>8 DEF resetScopeData, EpochTellsNode, LoadedNodes, Permits
<1>9. CASE UNCHANGED vars
  BY <1>9 DEF vars, EpochTellsNode, LoadedNodes, Permits
<1>. QED
  BY <1>1, <1>2, <1>3, <1>4, <1>5, <1>6, <1>7, <1>8, <1>9 DEF Next, advanceState

-----------------------------------------------------------------------------
(***************************************************************************)
(* The audit log.                                                          *)
(***************************************************************************)
Logged == RunsCounted /\ AuditMatchesRow /\ OneAdvancePerEpoch

LEMMA EventType ==
  ASSUME TypeOK
  PROVE  \A i \in 1..Len(audit) : audit[i] \in AuditEvent
BY DEF TypeOK

(***************************************************************************)
(* A run id that was never handed out has no events.                       *)
(***************************************************************************)
LEMMA FreshRunLogsNothing ==
  ASSUME TypeOK, RunsCounted
  PROVE  EpochsLogged(runs + 1) = 1..0
<1>1. \A i \in 1..Len(audit) : audit[i].run \in Nat /\ audit[i].run <= runs
  BY EventType DEF RunsCounted, AuditEvent
<1>2. \A i \in 1..Len(audit) : audit[i].run # runs + 1
  BY <1>1 DEF TypeOK
<1>. QED BY <1>2 DEF EpochsLogged

LEMMA RestartLogged ==
  ASSUME TypeAndLock, Logged, row' = FreshAt("ContextIngested"),
         runs' = runs + 1, audit' = audit
  PROVE  Logged'
<1>1. row'.run = runs + 1 /\ row'.epoch = 0
  BY DEF FreshAt
<1>2. RunsCounted'
  <2>1. /\ runs \in Nat
        /\ \A i \in 1..Len(audit) : audit[i].run \in Nat /\ audit[i].run <= runs
    BY EventType DEF TypeAndLock, TypeOK, Logged, RunsCounted, AuditEvent
  <2>2. \A i \in 1..Len(audit) : audit[i].run <= runs + 1
    BY <2>1
  <2>. QED BY <1>1, <2>1, <2>2 DEF RunsCounted
<1>3. EpochsLogged(runs + 1) = 1..0
  BY FreshRunLogsNothing DEF TypeAndLock, Logged
<1>4. AuditMatchesRow'
  <2>1. EpochsLogged(row.run)' = EpochsLogged(runs + 1)
    BY <1>1 DEF EpochsLogged
  <2>. QED BY <1>1, <1>3, <2>1 DEF AuditMatchesRow
<1>5. OneAdvancePerEpoch'
  BY DEF Logged, OneAdvancePerEpoch
<1>. QED BY <1>2, <1>4, <1>5 DEF Logged

LEMMA CommitLogged ==
  ASSUME TypeAndLock, Position, Logged, NEW c \in Callers, Commit(c)
  PROVE  Logged'
<1>. DEFINE ev == [from |-> row.node, to |-> transitions[row.node],
                   epoch |-> row.epoch + 1, run |-> row.run]
<1>1. /\ row \in GraphState
      /\ row # NoRow
      /\ row' = [row EXCEPT !.node = transitions[row.node], !.epoch = row.epoch + 1]
      /\ audit' = Append(audit, ev)
      /\ runs' = runs
  BY CommitEdge, NoRowAssumption DEF Commit, GraphState
<1>2. /\ audit \in Seq(AuditEvent)
      /\ runs \in Nat
      /\ row.run \in Nat /\ row.epoch \in Nat
      /\ row'.run = row.run /\ row'.epoch = row.epoch + 1
  BY <1>1 DEF TypeAndLock, TypeOK, GraphState
<1>3. /\ Len(audit') = Len(audit) + 1
      /\ audit'[Len(audit) + 1] = ev
      /\ \A i \in 1..Len(audit) : audit'[i] = audit[i]
      /\ Len(audit) \in Nat
  BY <1>1, <1>2
<1>4. EpochsLogged(row.run) = 1..row.epoch
  BY <1>1 DEF Logged, AuditMatchesRow
<1>5. RunsCounted'
  BY <1>1, <1>2, <1>3 DEF Logged, RunsCounted
<1>6. AuditMatchesRow'
  <2>1. EpochsLogged(row.run)' = EpochsLogged(row.run) \cup {row.epoch + 1}
    BY <1>2, <1>3 DEF EpochsLogged
  <2>2. 1..(row.epoch + 1) = (1..row.epoch) \cup {row.epoch + 1}
    BY <1>2
  <2>. QED BY <1>2, <1>4, <2>1, <2>2 DEF AuditMatchesRow
<1>7. OneAdvancePerEpoch'
  <2>1. \A i \in 1..Len(audit) : audit[i].run = row.run => audit[i].epoch # row.epoch + 1
    <3> SUFFICES ASSUME NEW i \in 1..Len(audit), audit[i].run = row.run
                 PROVE  audit[i].epoch # row.epoch + 1
      OBVIOUS
    <3>1. audit[i].epoch \in 1..row.epoch
      BY <1>4 DEF EpochsLogged
    <3>. QED BY <1>2, <3>1
  <2> SUFFICES ASSUME NEW i \in 1..Len(audit'), NEW j \in 1..Len(audit'),
                      audit'[i].run = audit'[j].run, audit'[i].epoch = audit'[j].epoch
               PROVE  i = j
    BY DEF OneAdvancePerEpoch
  <2>2. CASE i \in 1..Len(audit) /\ j \in 1..Len(audit)
    BY <1>3, <2>2 DEF Logged, OneAdvancePerEpoch
  <2>3. CASE i = Len(audit) + 1 \/ j = Len(audit) + 1
    BY <1>3, <2>1, <2>3
  <2>. QED BY <1>3, <2>2, <2>3
<1>. QED BY <1>5, <1>6, <1>7 DEF Logged

LEMMA LoggedStep ==
  TypeAndLock /\ Position /\ Logged /\ [Next]_vars => Logged'
<1> SUFFICES ASSUME TypeAndLock, Position, Logged, [Next]_vars PROVE Logged'
  OBVIOUS
<1>1. CASE row' = row /\ audit' = audit /\ runs' = runs
  BY <1>1 DEF Logged, RunsCounted, AuditMatchesRow, OneAdvancePerEpoch, EpochsLogged
<1>2. ASSUME NEW c \in Callers, Commit(c) PROVE Logged'
  BY <1>2, CommitLogged
<1>3. ASSUME NEW n \in ResetNodes, resetStateTo(n) PROVE Logged'
  BY <1>3, RestartLogged, ResetAssumption DEF resetStateTo
<1>4. CASE initState \/ reinitRow
  BY <1>4, RestartLogged DEF initState, reinitRow
<1>5. CASE resetScopeData
  BY <1>5 DEF resetScopeData, Logged, RunsCounted, AuditMatchesRow, OneAdvancePerEpoch
<1>. QED
  BY <1>1, <1>2, <1>3, <1>4, <1>5
     DEF Next, advanceState, Ask, Load, RefuseLoad, Update, LoseRace, Rollback, Crash, vars

-----------------------------------------------------------------------------
(***************************************************************************)
(* The inductive invariant of StateGraph, and what follows from it.        *)
(***************************************************************************)
THEOREM Invariance == Spec => []IInv
<1>. DEFINE J == TypeAndLock /\ Position /\ Logged
<1>1. Init => J
  <2> SUFFICES ASSUME Init PROVE J
    OBVIOUS
  <2>1. TypeAndLock
    BY TypeAndLockInit
  <2>2. Position
    BY DEF Init, Position, EpochTellsNode, LoadedNodes, Idle
  <2>3. Logged
    BY DEF Init, Logged, RunsCounted, AuditMatchesRow, OneAdvancePerEpoch
  <2>. QED BY <2>1, <2>2, <2>3
<1>2. J /\ [Next]_vars => J'
  BY TypeAndLockStep, PositionStep, LoggedStep
<1>3. J => IInv
  BY DEF TypeAndLock, Position, Logged, IInv
<1>. QED BY <1>1, <1>2, <1>3, PTL DEF Spec

(***************************************************************************)
(* No epoch of a run is ever committed twice, for any number of callers:   *)
(* the compare-and-swap "prevents two agents from advancing the same       *)
(* transition".                                                            *)
(***************************************************************************)
THEOREM SingleAdvance == Spec => []OneAdvancePerEpoch
<1>1. IInv => OneAdvancePerEpoch
  BY DEF IInv
<1>. QED BY <1>1, Invariance, PTL

(***************************************************************************)
(* The log holds exactly the epochs that the scope's current run reached.  *)
(***************************************************************************)
THEOREM AuditExact == Spec => []AuditMatchesRow
<1>1. IInv => AuditMatchesRow
  BY DEF IInv
<1>. QED BY <1>1, Invariance, PTL

(***************************************************************************)
(* Comparing epochs is enough: the epoch determines the node, across       *)
(* resets and whatever stale rows callers still hold.                      *)
(***************************************************************************)
THEOREM PositionExact == Spec => []EpochTellsNode
<1>1. IInv => EpochTellsNode
  BY DEF IInv
<1>. QED BY <1>1, Invariance, PTL

-----------------------------------------------------------------------------
(***************************************************************************)
(* What the invariant says of steps.                                       *)
(***************************************************************************)
LEMMA PositionKept == Spec => [](TypeAndLock /\ Position)
<1>1. Init => TypeAndLock /\ Position
  BY TypeAndLockInit DEF Init, Position, EpochTellsNode, LoadedNodes, Idle
<1>2. TypeAndLock /\ Position /\ [Next]_vars => (TypeAndLock /\ Position)'
  BY TypeAndLockStep, PositionStep
<1>. QED BY <1>1, <1>2, PTL DEF Spec

(***************************************************************************)
(* A governed caller never takes the scope across an edge the rules block  *)
(* at the drift it was given, although the rules were asked about a row    *)
(* read before the transaction.                                            *)
(***************************************************************************)
THEOREM MovesPermitted == Spec => GovernedMovesPermitted
<1>. DEFINE Permitted == \A c \in Callers : lock = c /\ audit' # audit
                            => Permits(row.node, call[c].drift)
<1>1. TypeAndLock /\ Position /\ [Next]_vars => [Permitted]_vars
  <2> SUFFICES ASSUME TypeAndLock, Position, [Next]_vars,
                      NEW c \in Callers, lock = c, audit' # audit
               PROVE  Permits(row.node, call[c].drift)
    OBVIOUS
  <2>1. PICK b \in Callers : Commit(b)
    BY DEF Next, advanceState, Ask, Load, RefuseLoad, Update, LoseRace, Rollback,
           Crash, initState, resetStateTo, resetScopeData, reinitRow, vars
  <2>2. b = c
    BY <2>1 DEF Commit, TypeAndLock, LockHeld
  <2>. QED BY <2>1, <2>2, CommitEdge
<1>. QED BY <1>1, PositionKept, PTL DEF Spec, GovernedMovesPermitted

(***************************************************************************)
(* The state graph implements the atomic cell: every commit is a step of   *)
(* the cell from where it really stands, and nothing else moves it.        *)
(***************************************************************************)
THEOREM Implements == Spec => CellSpec
<1>1. Init => Cell!Init
  BY DEF Init, Cell!Init
<1>2. TypeAndLock /\ Position /\ [Next]_vars => [Cell!Next]_(Cell!vars)
  <2> SUFFICES ASSUME TypeAndLock, Position, [Next]_vars
               PROVE  Cell!Next \/ UNCHANGED Cell!vars
    OBVIOUS
  <2>1. ASSUME NEW c \in Callers, Commit(c) PROVE Cell!Step
    <3>1. row # NoRow /\ runs' = runs
      BY <2>1, CommitEdge, NoRowAssumption DEF Commit, GraphState
    <3>2. Cell!transitions = transitions
      BY DEF transitions, Nodes, Cell!transitions, Cell!Nodes
    <3>. QED BY <2>1, <3>1, <3>2, CommitEdge DEF Cell!Step, GraphState
  <2>2. ASSUME NEW n \in ResetNodes, resetStateTo(n) PROVE Cell!Restart
    BY <2>2, ResetAssumption DEF resetStateTo, FreshAt, Cell!Restart, Cell!Fresh
  <2>3. CASE initState \/ reinitRow
    BY <2>3 DEF initState, reinitRow, FreshAt, Cell!Next, Cell!Restart, Cell!Fresh
  <2>4. CASE resetScopeData
    BY <2>4 DEF resetScopeData, Cell!Next, Cell!Wipe
  <2>5. CASE row' = row /\ audit' = audit /\ runs' = runs
    BY <2>5 DEF Cell!vars
  <2>. QED
    BY <2>1, <2>2, <2>3, <2>4, <2>5
       DEF Cell!Next, Next, advanceState, Ask, Load, RefuseLoad, Update, LoseRace,
           Rollback, Crash, vars
<1>. QED BY <1>1, <1>2, PositionKept, PTL DEF Spec, CellSpec, Cell!Spec
=============================================================================
