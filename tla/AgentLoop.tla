----------------------------- MODULE AgentLoop -----------------------------
(***************************************************************************)
(* The loops of the agents that move the pipeline on (src/agentLoop.ts):   *)
(* each drains the events that wait for its role, looks whether the scope  *)
(* is at a node of its own and whether its filter finds news, runs, tells  *)
(* the others, remembers what it has processed and proposes an advance.    *)
(* Loops of one role share a consumer and a row of agent_memory.           *)
(*                                                                         *)
(* What an event says is never used, only that there is one: a role's      *)
(* inbox is the set of how often its pending events have been delivered.   *)
(* A drift file is known by its hash.  Governance and executor are one     *)
(* step, the promise Pipeline keeps.  The roles that propose no advance,   *)
(* and permissions, are left out.                                          *)
(* Bounds (guards only): MaxDocuments, MaxFailures.                        *)
(***************************************************************************)
EXTENDS Governance, FiniteSetsExt

CONSTANTS
  Loops,          \* agent instances
  role,           \* the role of each
  Hashes,         \* of the drift files an agent may write
  MaxDocuments,   \* bound: documents added
  MaxDeliver,     \* deliveries of an event before the bus gives up
  Faults,         \* what may go wrong
  MaxFailures     \* bound: how often

Roles == {"facts", "drift", "propagation", "deltas"}

ASSUME RoleAssumption == role \in [Loops -> Roles]
ASSUME HashAssumption == Hashes \subseteq Nat \ {0}
ASSUME LoopFaults ==
  Faults \subseteq {"transient", "late", "permanent", "ackwait", "cooldown",
                    "rejection", "executor", "feed"}
ASSUME LoopBounds ==
  {MaxDocuments, MaxFailures} \subseteq Nat /\ MaxDeliver \in Nat \ {0}

\* AGENT_SPECS: requiresNode, requiresNodeList.
AllowedAt(r) ==
  IF r = "facts" THEN Nodes \ {"FactsExtracted"} ELSE
  IF r = "drift" THEN {"FactsExtracted"} ELSE
  IF r = "propagation" THEN {"DriftChecked"} ELSE {"EvidencePropagated"}

VARIABLES
  row,         \* the scope's node and epoch
  wal,         \* sequence number of the newest event of the context log
  documents,   \* ... and of the newest document; how many there are
  drift,       \* hash of the drift file, 0 without one
  memory,      \* agent_memory, by role
  inbox,       \* deliveries so far of the events pending, by role
  loop,        \* each loop
  proposals,   \* on the bus
  read,        \* history: what the runs of each role have certainly seen
  failures, happened   \* how many, and of which kinds

log  == <<wal, documents>>
vars == <<row, log, drift, memory, inbox, loop, proposals, read, failures, happened>>

Memory   == [seq : Nat, hash : {0} \cup Hashes]
Loop     == [at : {"idle", "gate", "filter", "run", "publish", "save", "propose"},
             batch : SUBSET (0..(MaxDeliver - 1)), context : Nat]
Proposal == [by : Roles, from : Nodes, expectedEpoch : Nat]

Idle == [at |-> "idle", batch |-> {}, context |-> 0]

Init ==
  /\ row = [node |-> "ContextIngested", epoch |-> 0]
  /\ wal = 1 /\ documents = [last |-> 1, count |-> 0]   \* the bootstrap event
  /\ drift = 0
  /\ memory = [r \in Roles |-> [seq |-> 0, hash |-> 0]]
  /\ inbox = [r \in Roles |-> {0}]
  /\ loop = [l \in Loops |-> Idle]
  /\ proposals = {}
  /\ read = [r \in Roles |-> 0]
  /\ failures = 0 /\ happened = {}

NoFailure == UNCHANGED <<failures, happened>>

Fails(what) ==
  /\ what \in Faults /\ failures < MaxFailures
  /\ failures' = failures + 1 /\ happened' = happened \cup {what}

\* publishEvent: an event for every role but the one whose result it is.
Tell(others) == [r \in Roles |-> IF r \in others THEN inbox[r] \cup {0} ELSE inbox[r]]

\* What comes back of a batch that was not acknowledged.
Redelivered(batch) == {n + 1 : n \in {m \in batch : m + 1 < MaxDeliver}}

Goto(l, step) == loop' = [loop EXCEPT ![l].at = step]

-----------------------------------------------------------------------------
(***************************************************************************)
(* A document is logged, then announced.                                   *)
(***************************************************************************)
Log == /\ documents.count < MaxDocuments
       /\ wal' = wal + 1
       /\ documents' = [last |-> wal + 1, count |-> documents.count + 1]

ingestContextDoc ==
  /\ Log /\ inbox' = Tell(Roles)
  /\ NoFailure /\ UNCHANGED <<row, drift, memory, loop, proposals, read>>

\* The feed dies between the two.
IngestUnannounced ==
  /\ Log /\ Fails("feed")
  /\ UNCHANGED <<row, drift, memory, inbox, loop, proposals, read>>

-----------------------------------------------------------------------------
drainBatch(l) ==
  /\ loop[l].at = "idle" /\ inbox[role[l]] # {}
  /\ loop' = [loop EXCEPT ![l].at = "gate", ![l].batch = inbox[role[l]]]
  /\ inbox' = [inbox EXCEPT ![role[l]] = {}]
  /\ NoFailure /\ UNCHANGED <<row, log, drift, memory, proposals, read>>

\* Mutant: the loop goes on without acknowledging the batch.
Gate_Unacknowledged(l) ==
  /\ loop[l].at = "gate"
  /\ Goto(l, IF row.node \in AllowedAt(role[l]) THEN "filter" ELSE "idle")
  /\ NoFailure /\ UNCHANGED <<row, log, drift, memory, inbox, proposals, read>>

(***************************************************************************)
(* The scope is at another node: the batch is acknowledged and forgotten.  *)
(***************************************************************************)
Gate(l) ==
  /\ loop[l].at = "gate"
  /\ loop' = [loop EXCEPT ![l] =
       IF row.node \in AllowedAt(role[l]) THEN [@ EXCEPT !.at = "filter"] ELSE Idle]
  /\ NoFailure /\ UNCHANGED <<row, log, drift, memory, inbox, proposals, read>>

\* checkFilter: what is new, and how far it goes.
latest(r) == IF r = "facts" THEN documents.last ELSE
             IF r = "propagation" THEN drift ELSE wal

shouldActivate(r) ==
  IF r = "propagation" THEN drift # 0 /\ drift # memory[r].hash
                       ELSE latest(r) > memory[r].seq

(***************************************************************************)
(* Nothing new: the batch is acknowledged as well.                         *)
(***************************************************************************)
Filter(l) ==
  /\ loop[l].at = "filter"
  /\ loop' = [loop EXCEPT ![l] =
       IF shouldActivate(role[l])
         THEN [@ EXCEPT !.at = "run", !.context = latest(role[l])]
         ELSE Idle]
  /\ NoFailure /\ UNCHANGED <<row, log, drift, memory, inbox, proposals, read>>

(***************************************************************************)
(* Or too soon after the role's last activation.  Time is left out: any    *)
(* check after a first activation may find the cooldown running.           *)
(***************************************************************************)
TooSoon(l) ==
  /\ loop[l].at = "filter" /\ Fails("cooldown")
  /\ memory[role[l]].seq > 0 \/ memory[role[l]].hash # 0
  /\ loop' = [loop EXCEPT ![l] = Idle]
  /\ UNCHANGED <<row, log, drift, memory, inbox, proposals, read>>

(***************************************************************************)
(* The agent runs: it reads what there is by now; facts and drift write    *)
(* the drift file.                                                         *)
(***************************************************************************)
Run(l) ==
  /\ loop[l].at = "run"
  /\ Goto(l, "publish")
  /\ IF role[l] \in {"facts", "drift"} THEN drift' \in Hashes ELSE UNCHANGED drift
  /\ read' = [read EXCEPT ![role[l]] = Max({@, latest(role[l])})]
  /\ NoFailure /\ UNCHANGED <<row, log, memory, inbox, proposals>>

Publish(l) ==
  /\ loop[l].at = "publish"
  /\ Goto(l, "save")
  /\ inbox' = Tell(Roles \ {role[l]})
  /\ NoFailure /\ UNCHANGED <<row, log, drift, memory, proposals, read>>

\* Mutant: the newest sequence number is looked up when the memory is saved.
saveAgentMemory_Latest(l) ==
  /\ loop[l].at = "save"
  /\ Goto(l, "propose")
  /\ memory' = [memory EXCEPT ![role[l]].seq = latest(role[l])]
  /\ NoFailure /\ UNCHANGED <<row, log, drift, inbox, proposals, read>>

(***************************************************************************)
(* memoryUpdateFromContext: what the filter saw, not what the run read.    *)
(***************************************************************************)
saveAgentMemory(l) ==
  /\ loop[l].at = "save"
  /\ Goto(l, "propose")
  /\ memory' = [memory EXCEPT ![role[l]] =
       IF role[l] = "propagation"
         THEN [@ EXCEPT !.hash = loop[l].context]
         ELSE [@ EXCEPT !.seq = loop[l].context]]
  /\ NoFailure /\ UNCHANGED <<row, log, drift, inbox, proposals, read>>

\* Mutant: the row is not loaded anew, the gate having been passed.
Propose_Unchecked(l) ==
  /\ loop[l].at = "propose"
  /\ proposals' = proposals \cup
       {[by |-> role[l], from |-> row.node, expectedEpoch |-> row.epoch]}
  /\ loop' = [loop EXCEPT ![l] = Idle]
  /\ NoFailure /\ UNCHANGED <<row, log, drift, memory, inbox, read>>

(***************************************************************************)
(* The row is loaded again, and whatever comes next there is proposed: for *)
(* facts at DeltasExtracted that is ContextIngested, where its memory then *)
(* finds nothing new.  The acknowledgements follow.                        *)
(***************************************************************************)
Propose(l) ==
  /\ loop[l].at = "propose"
  /\ proposals' = IF row.node \in AllowedAt(role[l])
       THEN proposals \cup {[by |-> role[l], from |-> row.node, expectedEpoch |-> row.epoch]}
       ELSE proposals
  /\ loop' = [loop EXCEPT ![l] = Idle]
  /\ NoFailure /\ UNCHANGED <<row, log, drift, memory, inbox, read>>

-----------------------------------------------------------------------------
BackToInbox(l) ==
  inbox' = [inbox EXCEPT ![role[l]] = @ \cup Redelivered(loop[l].batch)]

\* Mutant: an error that will pass is acknowledged like one that will not.
RefuseBatch_Acks(l) ==
  /\ loop[l].at \notin {"idle", "propose"} /\ Fails("transient")
  /\ loop' = [loop EXCEPT ![l] = Idle]
  /\ UNCHANGED <<row, log, drift, memory, inbox, proposals, read>>

(***************************************************************************)
(* The worker times out, a query or a publication does, or the process     *)
(* dies: the batch comes again, after a while.                             *)
(***************************************************************************)
RefuseBatch(l) ==
  /\ loop[l].at \notin {"idle", "propose"} /\ Fails("transient")
  /\ loop' = [loop EXCEPT ![l] = Idle]
  /\ BackToInbox(l)
  /\ UNCHANGED <<row, log, drift, memory, proposals, read>>

(***************************************************************************)
(* The same once the memory is saved, before the proposal is published.    *)
(***************************************************************************)
RefuseRemembered(l) ==
  /\ loop[l].at = "propose" /\ Fails("late")
  /\ loop' = [loop EXCEPT ![l] = Idle]
  /\ BackToInbox(l)
  /\ UNCHANGED <<row, log, drift, memory, proposals, read>>

(***************************************************************************)
(* An error that is taken for a permanent one.                             *)
(***************************************************************************)
GiveUp(l) ==
  /\ loop[l].at # "idle" /\ Fails("permanent")
  /\ loop' = [loop EXCEPT ![l] = Idle]
  /\ UNCHANGED <<row, log, drift, memory, inbox, proposals, read>>

(***************************************************************************)
(* A run takes longer than the bus waits for an acknowledgement: the batch *)
(* goes to whoever drains next, while the run goes on.                     *)
(***************************************************************************)
AckWaitExpires(l) ==
  /\ loop[l].at = "run" /\ loop[l].batch # {} /\ Fails("ackwait")
  /\ loop' = [loop EXCEPT ![l].batch = {}]
  /\ BackToInbox(l)
  /\ UNCHANGED <<row, log, drift, memory, proposals, read>>

-----------------------------------------------------------------------------
(***************************************************************************)
(* A proposal is decided and executed: the advance is logged and, after    *)
(* that, announced.  One for an epoch that is over comes to nothing.       *)
(***************************************************************************)
Current(p) == p.expectedEpoch = row.epoch

Advance ==
  /\ row' = [node |-> transitions[row.node], epoch |-> row.epoch + 1]
  /\ wal' = wal + 1
  /\ UNCHANGED <<documents, drift, memory, loop, read>>

executeAction(p) ==
  /\ proposals' = proposals \ {p}
  /\ Current(p) /\ Advance
  /\ inbox' = Tell(Roles)
  /\ NoFailure

ProposalStale(p) ==
  /\ proposals' = proposals \ {p}
  /\ ~ Current(p)
  /\ NoFailure /\ UNCHANGED <<row, log, drift, memory, inbox, loop, read>>

ProposalRejected(p) ==
  /\ proposals' = proposals \ {p}
  /\ Fails("rejection")
  /\ UNCHANGED <<row, log, drift, memory, inbox, loop, read>>

\* The executor dies after the commit; the action, delivered again, is stale.
AdvanceUnannounced(p) ==
  /\ proposals' = proposals \ {p}
  /\ Current(p) /\ Advance /\ Fails("executor")
  /\ UNCHANGED inbox

-----------------------------------------------------------------------------
step(l) == \/ drainBatch(l) \/ Gate(l) \/ Filter(l) \/ Run(l) \/ Publish(l)
           \/ saveAgentMemory(l) \/ Propose(l)

govern == \E p \in proposals : executeAction(p) \/ ProposalStale(p)

Next ==
  \/ ingestContextDoc \/ IngestUnannounced
  \/ \E l \in Loops :
       \/ step(l) \/ TooSoon(l)
       \/ RefuseBatch(l) \/ RefuseRemembered(l) \/ GiveUp(l) \/ AckWaitExpires(l)
  \/ govern
  \/ \E p \in proposals : ProposalRejected(p) \/ AdvanceUnannounced(p)

Spec == Init /\ [][Next]_vars

(***************************************************************************)
(* Loops and services that live go on.  Nobody has to add a document, and  *)
(* nothing has to fail.                                                    *)
(***************************************************************************)
FairSpec ==
  /\ Spec
  /\ \A l \in Loops : WF_vars(step(l))
  /\ WF_vars(govern)

-----------------------------------------------------------------------------
(***************************************************************************)
(* Types; an idle loop holds no events.                                    *)
(***************************************************************************)
TypeOK ==
  /\ row \in [node : Nodes, epoch : Nat]
  /\ wal \in Nat /\ documents \in [last : 1..wal, count : 0..MaxDocuments]
  /\ drift \in {0} \cup Hashes
  /\ memory \in [Roles -> Memory]
  /\ inbox \in [Roles -> SUBSET (0..(MaxDeliver - 1))]
  /\ loop \in [Loops -> Loop]
  /\ \A l \in Loops : loop[l].at = "idle" => loop[l] = Idle
  /\ proposals \subseteq Proposal
  /\ read \in [Roles -> Nat]
  /\ failures \in 0..MaxFailures /\ happened \subseteq Faults

(***************************************************************************)
(* What a role believes processed was read by one of its runs, whichever   *)
(* instance ran, wherever another one died and whatever was logged         *)
(* meanwhile (saveAgentMemory after the run, with the filter's number).    *)
(***************************************************************************)
MemoryNotAhead ==
  \A r \in Roles \ {"propagation"} : memory[r].seq <= read[r]

(***************************************************************************)
(* A run takes minutes, in which the scope moves on; still no agent's      *)
(* proposal moves it out of a node at which the agent may not run.         *)
(***************************************************************************)
OnlyAllowedAdvance ==
  \A p \in proposals : Current(p) => row.node \in AllowedAt(p.by)

(***************************************************************************)
(* Why: what the filter saw is still there to be read when the run begins, *)
(* and was read when the memory is saved; and an epoch that is over does   *)
(* not come back.                                                          *)
(***************************************************************************)
ContextSeen ==
  \A l \in Loops :
    IF role[l] = "propagation" THEN loop[l].context \in {0} \cup Hashes
    ELSE /\ loop[l].at = "run" => loop[l].context <= latest(role[l])
         /\ loop[l].at \in {"publish", "save"} => loop[l].context <= read[role[l]]

NoneAhead == \A p \in proposals : p.expectedEpoch <= row.epoch

IInv == TypeOK /\ ContextSeen /\ MemoryNotAhead /\ NoneAhead /\ OnlyAllowedAdvance

(***************************************************************************)
(* Agents acknowledge what they are not ready for and rely on an event to  *)
(* come; and one does: every document is extracted in the end, though      *)
(* agents fail or die before they remember, and batches come twice -       *)
(* unless something went wrong that no event follows, which includes an    *)
(* event met by a cooldown.                                                *)
(***************************************************************************)
Silent == {"late", "permanent", "cooldown", "rejection", "executor", "feed"}

EveryDocumentExtracted ==
  documents.last > read["facts"]
    ~> documents.last = read["facts"] \/ happened \cap Silent # {}
=============================================================================
