-------------------------- MODULE AgentLoop_proofs --------------------------
(***************************************************************************)
(* What agents remember was read, and what they propose moves no node that *)
(* is not theirs, for any number of loops, documents and failures.         *)
(***************************************************************************)
EXTENDS AgentLoop, TLAPS

USE RoleAssumption, HashAssumption

LEMMA MaxOfTwo ==
  ASSUME NEW m \in Nat, NEW n \in Nat
  PROVE  /\ Max({m, n}) \in Nat
         /\ m <= Max({m, n})
         /\ n <= Max({m, n})
<1> DEFINE P(x) == x \in {m, n} /\ \A y \in {m, n} : x >= y
<1>1. \E x : P(x)
  <2>1. CASE m >= n BY <2>1
  <2>2. CASE n >= m BY <2>2
  <2> QED BY <2>1, <2>2
<1>2. P(CHOOSE x : P(x)) BY <1>1
<1>3. Max({m, n}) = CHOOSE x : P(x) BY DEF Max
<1> QED BY <1>2, <1>3

(***************************************************************************)
(* The filter's view of the log; of the drift file for propagation.        *)
(***************************************************************************)
LEMMA LatestType ==
  ASSUME TypeOK, NEW r \in Roles
  PROVE  latest(r) \in Nat /\ (r = "propagation" => latest(r) = drift)
BY DEF TypeOK, latest, Roles

(***************************************************************************)
(* The event log only grows.                                               *)
(***************************************************************************)
LEMMA LatestGrows ==
  ASSUME TypeOK, TypeOK', wal <= wal', documents.last <= documents'.last,
         NEW r \in Roles, r # "propagation"
  PROVE  latest(r) <= latest(r)'
BY DEF TypeOK, latest

LEMMA Inboxes ==
  ASSUME TypeOK
  PROVE  /\ \A rs : Tell(rs) \in [Roles -> SUBSET (0..(MaxDeliver - 1))]
         /\ \A l \in Loops : BackToInbox(l) =>
               inbox' \in [Roles -> SUBSET (0..(MaxDeliver - 1))]
<1>1. \A rs : Tell(rs) \in [Roles -> SUBSET (0..(MaxDeliver - 1))]
  BY LoopBounds DEF TypeOK, Tell
<1>2. ASSUME NEW l \in Loops, BackToInbox(l)
      PROVE  inbox' \in [Roles -> SUBSET (0..(MaxDeliver - 1))]
  <2>1. loop[l].batch \subseteq 0..(MaxDeliver - 1) BY DEF TypeOK, Loop
  <2>2. Redelivered(loop[l].batch) \subseteq 0..(MaxDeliver - 1)
    BY <2>1, LoopBounds DEF Redelivered
  <2> QED BY <1>2, <2>2 DEF BackToInbox, TypeOK
<1> QED BY <1>1, <1>2

LEMMA Failing ==
  ASSUME TypeOK
  PROVE  \A what : Fails(what) => failures' \in 0..MaxFailures /\ happened' \subseteq Faults
BY LoopBounds DEF TypeOK, Fails

LEMMA NodesTurn == \A n \in Nodes : transitions[n] \in Nodes
BY DEF transitions, Nodes

LoopOK == /\ loop \in [Loops -> Loop]
          /\ \A l \in Loops : loop[l].at = "idle" => loop[l] = Idle

(***************************************************************************)
(* A loop goes to another step, or gives its batch away.                   *)
(***************************************************************************)
LEMMA Stepping ==
  ASSUME TypeOK, NEW l \in Loops
  PROVE  /\ \A v \in Loop : (v.at = "idle" => v = Idle) /\ loop' = [loop EXCEPT ![l] = v]
               => LoopOK'
         /\ loop' = [loop EXCEPT ![l] = Idle] => LoopOK'
         /\ \A s \in {"gate", "filter", "run", "publish", "save", "propose"} :
               Goto(l, s) => LoopOK'
<1>1. \A v \in Loop : (v.at = "idle" => v = Idle) /\ loop' = [loop EXCEPT ![l] = v] => LoopOK'
  BY DEF TypeOK, LoopOK
<1>2. Idle \in Loop BY DEF Idle, Loop
<1>3. ASSUME NEW s \in {"gate", "filter", "run", "publish", "save", "propose"}, Goto(l, s)
      PROVE  LoopOK'
  <2> DEFINE v == [loop[l] EXCEPT !.at = s]
  <2>1. v \in Loop /\ v.at # "idle" BY DEF TypeOK, Loop
  <2>2. loop' = [loop EXCEPT ![l] = v] BY <1>3 DEF Goto
  <2> HIDE DEF v
  <2> QED BY <1>1, <2>1, <2>2
<1> QED BY <1>1, <1>2, <1>3

-----------------------------------------------------------------------------
LEMMA LoopTypes ==
  ASSUME TypeOK, ContextSeen, NEW l \in Loops,
         step(l) \/ TooSoon(l) \/ RefuseBatch(l) \/ RefuseRemembered(l)
           \/ GiveUp(l) \/ AckWaitExpires(l)
  PROVE  TypeOK'
<1>1. CASE drainBatch(l)
  <2> DEFINE v == [loop[l] EXCEPT !.at = "gate", !.batch = inbox[role[l]]]
  <2>1. v \in Loop /\ v.at # "idle" BY DEF TypeOK, Loop
  <2>2. loop' = [loop EXCEPT ![l] = v] BY <1>1 DEF drainBatch
  <2> HIDE DEF v
  <2>3. LoopOK' BY <2>1, <2>2, Stepping
  <2> QED BY <1>1, <2>3 DEF drainBatch, TypeOK, LoopOK, NoFailure, log
<1>2. CASE Gate(l)
  <2>1. LoopOK'
    <3>1. CASE row.node \in AllowedAt(role[l])
      <4>1. Goto(l, "filter") BY <1>2, <3>1 DEF Gate, Goto
      <4> QED BY <4>1, Stepping
    <3>2. CASE row.node \notin AllowedAt(role[l]) BY <1>2, <3>2, Stepping DEF Gate
    <3> QED BY <3>1, <3>2
  <2> QED BY <1>2, <2>1 DEF Gate, TypeOK, LoopOK, NoFailure, log
<1>3. CASE Filter(l)
  <2>1. LoopOK'
    <3>1. CASE shouldActivate(role[l])
      <4> DEFINE v == [loop[l] EXCEPT !.at = "run", !.context = latest(role[l])]
      <4>1. latest(role[l]) \in Nat BY LatestType
      <4>2. v \in Loop /\ v.at # "idle" BY <4>1 DEF TypeOK, Loop
      <4>3. loop' = [loop EXCEPT ![l] = v] BY <1>3, <3>1 DEF Filter
      <4> HIDE DEF v
      <4> QED BY <4>2, <4>3, Stepping
    <3>2. CASE ~ shouldActivate(role[l]) BY <1>3, <3>2, Stepping DEF Filter
    <3> QED BY <3>1, <3>2
  <2> QED BY <1>3, <2>1 DEF Filter, TypeOK, LoopOK, NoFailure, log
<1>4. CASE Run(l)
  <2>1. LoopOK' BY <1>4, Stepping DEF Run
  <2>2. read' \in [Roles -> Nat] /\ drift' \in {0} \cup Hashes
    <3>1. read[role[l]] \in Nat /\ latest(role[l]) \in Nat BY LatestType DEF TypeOK
    <3>2. Max({read[role[l]], latest(role[l])}) \in Nat BY <3>1, MaxOfTwo
    <3> QED BY <1>4, <3>2 DEF Run, TypeOK
  <2> QED BY <1>4, <2>1, <2>2 DEF Run, TypeOK, LoopOK, NoFailure, log
<1>5. CASE Publish(l)
  <2>1. LoopOK' BY <1>5, Stepping DEF Publish
  <2> QED BY <1>5, <2>1, Inboxes DEF Publish, TypeOK, LoopOK, NoFailure, log
<1>6. CASE saveAgentMemory(l)
  <2>1. LoopOK' BY <1>6, Stepping DEF saveAgentMemory
  <2>2. memory' \in [Roles -> Memory]
    <3>1. loop[l].context \in Nat BY DEF TypeOK, Loop
    <3>2. role[l] = "propagation" => loop[l].context \in {0} \cup Hashes BY DEF ContextSeen
    <3>3. memory[role[l]] \in Memory BY DEF TypeOK
    <3> QED BY <1>6, <3>1, <3>2, <3>3 DEF saveAgentMemory, TypeOK, Memory
  <2> QED BY <1>6, <2>1, <2>2 DEF saveAgentMemory, TypeOK, LoopOK, NoFailure, log
<1>7. CASE Propose(l)
  <2>1. LoopOK' BY <1>7, Stepping DEF Propose
  <2>2. row.node \in Nodes /\ row.epoch \in Nat BY DEF TypeOK
  <2>3. proposals' \subseteq Proposal BY <1>7, <2>2 DEF Propose, TypeOK, Proposal
  <2> QED BY <1>7, <2>1, <2>3 DEF Propose, TypeOK, LoopOK, NoFailure, log
<1>8. CASE TooSoon(l) \/ GiveUp(l)
  <2>1. LoopOK' BY <1>8, Stepping DEF TooSoon, GiveUp
  <2> QED BY <1>8, <2>1, Failing DEF TooSoon, GiveUp, TypeOK, LoopOK, log
<1>9. CASE RefuseBatch(l) \/ RefuseRemembered(l)
  <2>1. LoopOK' BY <1>9, Stepping DEF RefuseBatch, RefuseRemembered
  <2>2. inbox' \in [Roles -> SUBSET (0..(MaxDeliver - 1))]
    BY <1>9, Inboxes DEF RefuseBatch, RefuseRemembered
  <2> QED BY <1>9, <2>1, <2>2, Failing DEF RefuseBatch, RefuseRemembered, TypeOK, LoopOK, log
<1>10. CASE AckWaitExpires(l)
  <2> DEFINE v == [loop[l] EXCEPT !.batch = {}]
  <2>1. v \in Loop /\ v.at # "idle" BY <1>10 DEF AckWaitExpires, TypeOK, Loop
  <2>2. loop' = [loop EXCEPT ![l] = v] BY <1>10 DEF AckWaitExpires
  <2> HIDE DEF v
  <2>3. LoopOK' BY <2>1, <2>2, Stepping
  <2>4. inbox' \in [Roles -> SUBSET (0..(MaxDeliver - 1))]
    BY <1>10, Inboxes DEF AckWaitExpires
  <2> QED BY <1>10, <2>3, <2>4, Failing DEF AckWaitExpires, TypeOK, LoopOK, log
<1> QED BY <1>1, <1>2, <1>3, <1>4, <1>5, <1>6, <1>7, <1>8, <1>9, <1>10 DEF step

LEMMA ServiceTypes ==
  ASSUME TypeOK,
         \/ ingestContextDoc \/ IngestUnannounced
         \/ \E p \in proposals : \/ executeAction(p) \/ ProposalStale(p)
                                 \/ ProposalRejected(p) \/ AdvanceUnannounced(p)
  PROVE  TypeOK'
<1>1. CASE ingestContextDoc \/ IngestUnannounced
  <2>1. Log BY <1>1 DEF ingestContextDoc, IngestUnannounced
  <2>2. wal' \in Nat /\ documents' \in [last : 1..wal', count : 0..MaxDocuments]
    BY <2>1, LoopBounds DEF Log, TypeOK
  <2>3. inbox' \in [Roles -> SUBSET (0..(MaxDeliver - 1))]
    BY <1>1, Inboxes DEF ingestContextDoc, IngestUnannounced, TypeOK
  <2>4. failures' \in 0..MaxFailures /\ happened' \subseteq Faults
    BY <1>1, Failing DEF ingestContextDoc, IngestUnannounced, NoFailure, TypeOK
  <2> QED BY <1>1, <2>2, <2>3, <2>4 DEF ingestContextDoc, IngestUnannounced, TypeOK
<1>2. ASSUME NEW p \in proposals, executeAction(p) \/ AdvanceUnannounced(p) PROVE TypeOK'
  <2>1. Advance BY <1>2 DEF executeAction, AdvanceUnannounced
  <2>2. /\ row' \in [node : Nodes, epoch : Nat] /\ wal' \in Nat
        /\ documents' \in [last : 1..wal', count : 0..MaxDocuments]
    BY <2>1, NodesTurn DEF Advance, TypeOK
  <2>3. inbox' \in [Roles -> SUBSET (0..(MaxDeliver - 1))]
    BY <1>2, Inboxes DEF executeAction, AdvanceUnannounced, TypeOK
  <2>4. failures' \in 0..MaxFailures /\ happened' \subseteq Faults
    BY <1>2, Failing DEF executeAction, AdvanceUnannounced, NoFailure, TypeOK
  <2>5. proposals' \subseteq Proposal
    BY <1>2 DEF executeAction, AdvanceUnannounced, TypeOK
  <2> QED BY <2>1, <2>2, <2>3, <2>4, <2>5 DEF Advance, TypeOK
<1>3. ASSUME NEW p \in proposals, ProposalStale(p) \/ ProposalRejected(p) PROVE TypeOK'
  <2>1. proposals' \subseteq Proposal
    BY <1>3 DEF ProposalStale, ProposalRejected, TypeOK
  <2>2. failures' \in 0..MaxFailures /\ happened' \subseteq Faults
    BY <1>3, Failing DEF ProposalStale, ProposalRejected, NoFailure, TypeOK
  <2> QED BY <1>3, <2>1, <2>2 DEF ProposalStale, ProposalRejected, TypeOK, log
<1> QED BY <1>1, <1>2, <1>3

LEMMA TypeStep == TypeOK /\ ContextSeen /\ [Next]_vars => TypeOK'
<1> SUFFICES ASSUME TypeOK, ContextSeen, [Next]_vars PROVE TypeOK' OBVIOUS
<1>1. CASE UNCHANGED vars BY <1>1 DEF vars, log, TypeOK
<1>2. CASE Next BY <1>2, LoopTypes, ServiceTypes DEF Next, govern
<1> QED BY <1>1, <1>2

-----------------------------------------------------------------------------
(***************************************************************************)
(* What a run certainly saw is never forgotten, nor is the log.            *)
(***************************************************************************)
LEMMA Growing ==
  ASSUME TypeOK, [Next]_vars
  PROVE  /\ wal <= wal' /\ documents.last <= documents'.last
         /\ \A r \in Roles : read[r] <= read'[r]
<1>0. /\ wal \in Nat /\ documents.last \in 1..wal /\ read \in [Roles -> Nat]
  BY DEF TypeOK
<1>1. ASSUME NEW l \in Loops, Run(l)
      PROVE  wal' = wal /\ documents' = documents /\ \A r \in Roles : read[r] <= read'[r]
  <2>1. read[role[l]] \in Nat /\ latest(role[l]) \in Nat BY LatestType DEF TypeOK
  <2>2. read[role[l]] <= Max({read[role[l]], latest(role[l])}) BY <2>1, MaxOfTwo
  <2> QED BY <1>0, <1>1, <2>2 DEF Run, log
<1>2. ASSUME NEW l \in Loops, ~ Run(l),
             step(l) \/ TooSoon(l) \/ RefuseBatch(l) \/ RefuseRemembered(l)
               \/ GiveUp(l) \/ AckWaitExpires(l)
      PROVE  UNCHANGED <<log, read>>
  BY <1>2 DEF step, drainBatch, Gate, Filter, Publish, saveAgentMemory, Propose,
              TooSoon, RefuseBatch, RefuseRemembered, GiveUp, AckWaitExpires
<1>3. CASE ingestContextDoc \/ IngestUnannounced
  BY <1>0, <1>3 DEF ingestContextDoc, IngestUnannounced, Log
<1>4. ASSUME NEW p \in proposals,
             \/ executeAction(p) \/ ProposalStale(p)
             \/ ProposalRejected(p) \/ AdvanceUnannounced(p)
      PROVE  wal <= wal' /\ UNCHANGED <<documents, read>>
  BY <1>0, <1>4 DEF executeAction, ProposalStale, ProposalRejected, AdvanceUnannounced,
                    Advance, log
<1>5. CASE UNCHANGED vars BY <1>0, <1>5 DEF vars, log
<1> QED BY <1>0, <1>1, <1>2, <1>3, <1>4, <1>5 DEF Next, govern, log

(***************************************************************************)
(* Only a loop's own filter sets what it will remember.                    *)
(***************************************************************************)
SeenBy(l) ==
  IF role[l] = "propagation" THEN loop[l].context \in {0} \cup Hashes
  ELSE /\ loop[l].at = "run" => loop[l].context <= latest(role[l])
       /\ loop[l].at \in {"publish", "save"} => loop[l].context <= read[role[l]]

LEMMA SeenStays ==
  ASSUME TypeOK, TypeOK', ContextSeen, [Next]_vars, NEW k \in Loops,
         \/ loop'[k] = loop[k]
         \/ loop'[k].context = loop[k].context /\ loop'[k].at \in {"idle", "gate", "filter", "propose"}
         \/ loop'[k].context = loop[k].context /\ loop'[k].at = loop[k].at
         \/ loop'[k].context = loop[k].context /\ loop[k].at = "publish" /\ loop'[k].at = "save"
         \/ loop'[k] = Idle
  PROVE  SeenBy(k)'
<1>1. SeenBy(k) BY DEF ContextSeen, SeenBy
<1>2. CASE role[k] = "propagation" BY <1>1, <1>2 DEF SeenBy, Idle
<1>3. CASE role[k] # "propagation"
  <2>1. latest(role[k]) <= latest(role[k])' /\ read[role[k]] <= read'[role[k]]
    BY <1>3, Growing, LatestGrows
  <2>2. /\ latest(role[k]) \in Nat /\ latest(role[k])' \in Nat
        /\ read[role[k]] \in Nat /\ read'[role[k]] \in Nat
    BY <1>3, LatestType DEF TypeOK, latest
  <2>3. loop[k].context \in Nat /\ loop'[k].context \in Nat BY DEF TypeOK, Loop
  <2> QED BY <1>1, <1>3, <2>1, <2>2, <2>3 DEF SeenBy, Idle
<1> QED BY <1>2, <1>3

LEMMA ContextStep ==
  ASSUME TypeOK, TypeOK', ContextSeen, [Next]_vars
  PROVE  ContextSeen'
<1> SUFFICES ASSUME NEW k \in Loops PROVE SeenBy(k)' BY DEF ContextSeen, SeenBy
<1>0. loop \in [Loops -> Loop] /\ loop[k] \in Loop BY DEF TypeOK
<1>1. CASE loop'[k] = loop[k] BY <1>1, SeenStays
<1>2. CASE Filter(k)
  <2>1. CASE shouldActivate(role[k])
    <3>1. loop'[k].context = latest(role[k]) /\ loop'[k].at = "run" /\ UNCHANGED <<log, drift>>
      BY <1>0, <1>2, <2>1 DEF Filter, Loop
    <3>2. latest(role[k])' = latest(role[k]) BY <3>1 DEF latest, log
    <3>3. role[k] = "propagation" => latest(role[k]) \in {0} \cup Hashes
      BY LatestType DEF TypeOK
    <3>4. latest(role[k]) \in Nat BY LatestType
    <3> QED BY <3>1, <3>2, <3>3, <3>4 DEF SeenBy
  <2>2. CASE ~ shouldActivate(role[k])
    <3>1. loop'[k] = Idle BY <1>0, <1>2, <2>2 DEF Filter
    <3> QED BY <3>1, SeenStays
  <2> QED BY <2>1, <2>2
<1>3. CASE Run(k)
  <2>1. /\ loop[k].at = "run" /\ loop'[k].context = loop[k].context /\ loop'[k].at = "publish"
        /\ read'[role[k]] = Max({read[role[k]], latest(role[k])})
    BY <1>0, <1>3 DEF Run, Goto, Loop, TypeOK
  <2>2. read[role[k]] \in Nat /\ latest(role[k]) \in Nat /\ loop[k].context \in Nat
    BY LatestType DEF TypeOK, Loop
  <2>3. latest(role[k]) <= read'[role[k]] /\ read'[role[k]] \in Nat BY <2>1, <2>2, MaxOfTwo
  <2>4. SeenBy(k) BY DEF ContextSeen, SeenBy
  <2> QED BY <2>1, <2>2, <2>3, <2>4 DEF SeenBy
<1>4. CASE drainBatch(k) \/ Gate(k) \/ Publish(k) \/ saveAgentMemory(k)
  BY <1>0, <1>4, SeenStays DEF drainBatch, Gate, Publish, saveAgentMemory, Goto, Loop
<1>5. CASE \/ Propose(k) \/ TooSoon(k) \/ RefuseBatch(k) \/ RefuseRemembered(k) \/ GiveUp(k)
  <2>1. loop'[k] = Idle
    BY <1>0, <1>5 DEF Propose, TooSoon, RefuseBatch, RefuseRemembered, GiveUp
  <2> QED BY <2>1, SeenStays
<1>6. CASE AckWaitExpires(k)
  BY <1>0, <1>6, SeenStays DEF AckWaitExpires, Loop
<1>7. ASSUME NEW l \in Loops, l # k,
             step(l) \/ TooSoon(l) \/ RefuseBatch(l) \/ RefuseRemembered(l)
               \/ GiveUp(l) \/ AckWaitExpires(l)
      PROVE  loop'[k] = loop[k]
  BY <1>0, <1>7 DEF step, drainBatch, Gate, Filter, Run, Publish, saveAgentMemory, Propose,
       Goto, TooSoon, RefuseBatch, RefuseRemembered, GiveUp, AckWaitExpires
<1>8. CASE ingestContextDoc \/ IngestUnannounced \/ UNCHANGED vars
  BY <1>1, <1>8 DEF ingestContextDoc, IngestUnannounced, vars
<1>9. ASSUME NEW p \in proposals,
             \/ executeAction(p) \/ ProposalStale(p)
             \/ ProposalRejected(p) \/ AdvanceUnannounced(p)
      PROVE  loop'[k] = loop[k]
  BY <1>9 DEF executeAction, ProposalStale, ProposalRejected, AdvanceUnannounced, Advance
<1> QED BY <1>1, <1>2, <1>3, <1>4, <1>5, <1>6, <1>7, <1>8, <1>9 DEF Next, step, govern

LEMMA MemoryStep ==
  ASSUME TypeOK, ContextSeen, MemoryNotAhead, [Next]_vars
  PROVE  MemoryNotAhead'
<1> SUFFICES ASSUME NEW r \in Roles \ {"propagation"} PROVE memory'[r].seq <= read'[r]
  BY DEF MemoryNotAhead
<1>0. /\ memory \in [Roles -> Memory] /\ memory[r].seq \in Nat /\ read[r] \in Nat
      /\ memory[r].seq <= read[r] /\ read[r] <= read'[r]
  BY Growing DEF TypeOK, Memory, MemoryNotAhead
<1>1. ASSUME memory'[r].seq = memory[r].seq PROVE memory'[r].seq <= read'[r]
  <2>1. CASE read'[r] = read[r] BY <1>0, <1>1, <2>1
  <2>2. CASE read'[r] # read[r]
    <3>1. PICK l \in Loops : Run(l)
      BY <2>2 DEF Next, step, govern, drainBatch, Gate, Filter, Publish, saveAgentMemory,
           Propose, TooSoon, RefuseBatch, RefuseRemembered, GiveUp, AckWaitExpires,
           ingestContextDoc, IngestUnannounced, executeAction, ProposalStale,
           ProposalRejected, AdvanceUnannounced, Advance, vars
    <3>2. read[role[l]] \in Nat /\ latest(role[l]) \in Nat BY LatestType DEF TypeOK
    <3>3. Max({read[role[l]], latest(role[l])}) \in Nat BY <3>2, MaxOfTwo
    <3>4. read'[r] \in Nat BY <1>0, <3>1, <3>3 DEF Run, TypeOK
    <3> QED BY <1>0, <1>1, <3>4
  <2> QED BY <2>1, <2>2
<1>2. ASSUME NEW l \in Loops, saveAgentMemory(l) PROVE memory'[r].seq <= read'[r]
  <2>1. CASE role[l] # r \/ role[l] = "propagation"
    BY <1>0, <1>1, <1>2, <2>1 DEF saveAgentMemory, Memory
  <2>2. CASE role[l] = r
    <3>1. loop[l].context <= read[r] BY <1>2, <2>2 DEF ContextSeen, saveAgentMemory
    <3>2. memory'[r].seq = loop[l].context BY <1>0, <1>2, <2>2 DEF saveAgentMemory, Memory
    <3>3. read' = read BY <1>2 DEF saveAgentMemory
    <3> QED BY <3>1, <3>2, <3>3
  <2> QED BY <2>1, <2>2
<1>3. CASE \A l \in Loops : ~ saveAgentMemory(l)
  <2>1. memory' = memory
    BY <1>3 DEF Next, step, govern, drainBatch, Gate, Filter, Run, Publish,
         Propose, TooSoon, RefuseBatch, RefuseRemembered, GiveUp, AckWaitExpires,
         ingestContextDoc, IngestUnannounced, executeAction, ProposalStale,
         ProposalRejected, AdvanceUnannounced, Advance, vars
  <2> QED BY <1>1, <2>1
<1> QED BY <1>2, <1>3

(***************************************************************************)
(* A proposal names the epoch in which its agent may run; when that epoch  *)
(* is over the proposal is stale for good.                                 *)
(***************************************************************************)
LEMMA ProposalStep ==
  ASSUME TypeOK, NoneAhead, OnlyAllowedAdvance, [Next]_vars
  PROVE  NoneAhead' /\ OnlyAllowedAdvance'
<1> USE DEF NoneAhead, OnlyAllowedAdvance, Current
<1>0. row.epoch \in Nat /\ \A p \in proposals : p.expectedEpoch \in Nat
  BY DEF TypeOK, Proposal
<1>1. ASSUME NEW l \in Loops, Propose(l) PROVE NoneAhead' /\ OnlyAllowedAdvance'
  BY <1>0, <1>1 DEF Propose
<1>2. ASSUME NEW p \in proposals, executeAction(p) \/ AdvanceUnannounced(p)
      PROVE  NoneAhead' /\ OnlyAllowedAdvance'
  <2>1. row'.epoch = row.epoch + 1 /\ proposals' \subseteq proposals
    BY <1>2 DEF executeAction, AdvanceUnannounced, Advance
  <2>2. \A q \in proposals' : q.expectedEpoch < row'.epoch BY <1>0, <2>1
  <2> QED BY <1>0, <2>1, <2>2
<1>3. CASE UNCHANGED row /\ proposals' \subseteq proposals BY <1>3
<1>4. CASE /\ \A l \in Loops : ~ Propose(l)
           /\ \A p \in proposals : ~ executeAction(p) /\ ~ AdvanceUnannounced(p)
  <2>1. UNCHANGED row /\ proposals' \subseteq proposals
    BY <1>4 DEF Next, step, govern, drainBatch, Gate, Filter, Run, Publish, saveAgentMemory,
         TooSoon, RefuseBatch, RefuseRemembered, GiveUp, AckWaitExpires,
         ingestContextDoc, IngestUnannounced, ProposalStale, ProposalRejected, vars
  <2> QED BY <1>3, <2>1
<1> QED BY <1>1, <1>2, <1>4

-----------------------------------------------------------------------------
(***************************************************************************)
(* The invariant of the loops.                                             *)
(***************************************************************************)
THEOREM Invariance == Spec => []IInv
<1>1. Init => IInv
  <2> SUFFICES ASSUME Init PROVE IInv OBVIOUS
  <2>1. TypeOK
    <3>1. Idle \in Loop BY DEF Idle, Loop
    <3>2. 0 \in 0..(MaxDeliver - 1) BY LoopBounds
    <3> QED BY <3>1, <3>2, LoopBounds DEF Init, TypeOK, Memory, Nodes
  <2>2. ContextSeen BY DEF Init, ContextSeen, Idle
  <2> QED BY <2>1, <2>2 DEF Init, IInv, MemoryNotAhead, NoneAhead, OnlyAllowedAdvance
<1>2. IInv /\ [Next]_vars => IInv'
  BY TypeStep, ContextStep, MemoryStep, ProposalStep DEF IInv
<1> QED BY <1>1, <1>2, PTL DEF Spec

(***************************************************************************)
(* TypeOK: the loops keep to their steps, and an idle one holds no events. *)
(***************************************************************************)
THEOREM TypeCorrect == Spec => []TypeOK
<1>1. IInv => TypeOK BY DEF IInv
<1> QED BY <1>1, Invariance, PTL

(***************************************************************************)
(* MemoryNotAhead: saveAgentMemory records what the filter saw, after the  *)
(* run; so no instance of a role makes another one skip what nobody read.  *)
(***************************************************************************)
THEOREM RememberedWasRead == Spec => []MemoryNotAhead
<1>1. IInv => MemoryNotAhead BY DEF IInv
<1> QED BY <1>1, Invariance, PTL

(***************************************************************************)
(* OnlyAllowedAdvance: the row loaded anew before the proposal, and the    *)
(* epoch it names, keep an agent that ran too long from moving the scope.  *)
(***************************************************************************)
THEOREM AdvancesAreAllowed == Spec => []OnlyAllowedAdvance
<1>1. IInv => OnlyAllowedAdvance BY DEF IInv
<1> QED BY <1>1, Invariance, PTL
=============================================================================
