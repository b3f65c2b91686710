------------------------------ MODULE Pipeline ------------------------------
(***************************************************************************)
(* The governed advance of one scope, from an agent's proposal to the step *)
(* of the state graph: agents propose (src/agentLoop.ts), the governance   *)
(* agent decides (src/agents/governanceAgent.ts), humans answer what it    *)
(* parks (src/mitlServer.ts), and the executor applies what was approved   *)
(* (src/actionExecutor.ts).  They share nothing but a message bus that     *)
(* delivers at least once, the state row and the drift file, and any of    *)
(* them may fail between two steps.                                        *)
(*                                                                         *)
(* The row is the atomic cell of PhaseCycle, which StateGraph implements.  *)
(* A message is known by its number; rejections and pending hold numbers.  *)
(*                                                                         *)
(* Abstracted: reasons, obligations, decision records and the events that  *)
(* only report; retries of a publish.  An action is delivered any number   *)
(* of times, a superset of what MaxDeliver and a republication allow.      *)
(* Not here: the oversight and governance language models (a YOLO proposal *)
(* is decided as when no model is configured), assert_equivalence.         *)
(* Bounds (guards only): MaxProposals, MaxEpoch, MaxRun.                   *)
(***************************************************************************)
EXTENDS Governance, Sequences, FiniteSets

CONSTANTS
  Governors,        \* handlers of governance agents, on one consumer
  Executors,        \* handlers of action executors
  Rules,            \* transition rules
  Drifts,           \* drift levels the drift agent writes
  ModesUsed,        \* modes that proposals carry
  MaxDeliver,       \* deliveries of a proposal before the bus gives up
  MaxProposals,
  MaxEpoch,
  MaxRun,
  NoRow             \* the scope has no row

ASSUME RulesAssumption  == Rules \subseteq TransitionRule
ASSUME DriftAssumption  == Drifts \subseteq DriftLevels
ASSUME ModesAssumption  == ModesUsed \subseteq Modes
ASSUME BoundsAssumption == {MaxDeliver, MaxProposals, MaxEpoch, MaxRun} \subseteq Nat
ASSUME NoRowAssumption  == NoRow \notin [run : Nat, node : Nodes, epoch : Nat]

VARIABLES
  row, audit, runs, \* the cell
  drift,            \* the level in the scope's drift file
  proposals,        \* proposals published, in order
  deliveries,       \* how often each was delivered
  processed,        \* those marked in processed_messages
  gov,              \* each governance handler
  pending,          \* proposals in mitl_pending
  rejections,       \* proposals rejected, by whomever
  actions,          \* actions published
  exec              \* each executor

cell    == <<row, audit, runs>>
bus     == <<proposals, deliveries>>
decided == <<pending, rejections, actions>>
vars    == <<cell, drift, bus, processed, gov, decided, exec>>

Cell == INSTANCE PhaseCycle WITH row <- row, audit <- audit, runs <- runs, NoRow <- NoRow

(***************************************************************************)
(* `writer' says whether OpenFGA lets the proposing agent write to `to'.   *)
(***************************************************************************)
Proposal == [epoch : Nat, run : Nat, from : Nodes, to : Nodes,
             mode : ModesUsed, writer : BOOLEAN]
Action   == [id : Nat, by : {"governance", "human"}]

Handler  == [at : {"idle", "received", "loaded", "decided", "committed"},
             id : Nat, outcome : {"none", "reject", "pending", "approve"}]
Executor == [at : {"idle", "fetched", "checked"}, action : Action, drift : DriftLevels]

IdleGov  == [at |-> "idle", id |-> 0, outcome |-> "none"]
IdleExec == [at |-> "idle", action |-> [id |-> 0, by |-> "governance"], drift |-> "none"]

Init ==
  /\ Cell!Init
  /\ drift = "none"
  /\ proposals = <<>> /\ deliveries = <<>> /\ processed = {}
  /\ gov = [g \in Governors |-> IdleGov]
  /\ pending = {} /\ rejections = {} /\ actions = {}
  /\ exec = [x \in Executors |-> IdleExec]

-----------------------------------------------------------------------------
(***************************************************************************)
(* An agent that has run proposes the step out of the node the scope is    *)
(* at, in the mode its governance has then.                                *)
(***************************************************************************)
Propose(mode, writer) ==
  /\ row # NoRow /\ row.epoch < MaxEpoch
  /\ Len(proposals) < MaxProposals
  /\ proposals' = Append(proposals,
       [epoch |-> row.epoch, run |-> row.run, from |-> row.node,
        to |-> transitions[row.node], mode |-> mode, writer |-> writer])
  /\ deliveries' = Append(deliveries, 0)
  /\ UNCHANGED <<cell, drift, processed, gov, decided, exec>>

WriteDrift(d) == drift' = d /\ UNCHANGED <<cell, bus, processed, gov, decided, exec>>

(***************************************************************************)
(* Booting processes and resets give the scope a row, or a new run.        *)
(***************************************************************************)
Restart ==
  /\ runs < MaxRun
  /\ Cell!Restart
  /\ UNCHANGED <<drift, bus, processed, gov, decided, exec>>

-----------------------------------------------------------------------------
\* Mutant: the proposal is marked when it is received, as tryMarkProcessed would.
Receive_Marks(g, i) ==
  /\ gov[g].at = "idle"
  /\ i \notin processed /\ deliveries[i] < MaxDeliver
  /\ gov' = [gov EXCEPT ![g] = [IdleGov EXCEPT !.at = "received", !.id = i]]
  /\ deliveries' = [deliveries EXCEPT ![i] = @ + 1]
  /\ processed' = processed \cup {i}
  /\ UNCHANGED <<cell, drift, proposals, decided, exec>>

\* Mutant: the proposal is acknowledged before it is handled.
Receive_AcksFirst(g, i) ==
  /\ gov[g].at = "idle"
  /\ i \notin processed /\ deliveries[i] = 0
  /\ gov' = [gov EXCEPT ![g] = [IdleGov EXCEPT !.at = "received", !.id = i]]
  /\ deliveries' = [deliveries EXCEPT ![i] = @ + 1]
  /\ UNCHANGED <<cell, drift, proposals, processed, decided, exec>>

(***************************************************************************)
(* A delivery.  The bus repeats it after a nak, or when the handler takes  *)
(* longer than the acknowledgement may.                                    *)
(***************************************************************************)
Receive(g, i) ==
  /\ gov[g].at = "idle"
  /\ i \notin processed /\ deliveries[i] < MaxDeliver
  /\ gov' = [gov EXCEPT ![g] = [IdleGov EXCEPT !.at = "received", !.id = i]]
  /\ deliveries' = [deliveries EXCEPT ![i] = @ + 1]
  /\ UNCHANGED <<cell, drift, proposals, processed, decided, exec>>

At(e) == row # NoRow /\ row.epoch = e

(***************************************************************************)
(* loadState and the comparison of epochs.                                 *)
(***************************************************************************)
CheckEpoch(g) ==
  /\ gov[g].at = "received"
  /\ gov' = IF At(proposals[gov[g].id].epoch)
              THEN [gov EXCEPT ![g].at = "loaded"]
              ELSE [gov EXCEPT ![g].at = "decided", ![g].outcome = "reject"]
  /\ UNCHANGED <<cell, drift, bus, processed, decided, exec>>

(***************************************************************************)
(* What the kernel and OpenFGA can make of a proposal.  OpenFGA may be     *)
(* unreachable, which denies.                                              *)
(***************************************************************************)
Outcomes(p, d) ==
  LET verdict == evaluate_kernel(can_transition(p.from, p.to, d, Rules),
                                 "Unchecked", p.mode).verdict
  IN  IF verdict = "reject"   THEN {"reject"}  ELSE
      IF verdict = "escalate" THEN {"pending"}
      ELSE {"reject"} \cup (IF p.writer THEN {"approve"} ELSE {})

Evaluate(g) ==
  /\ gov[g].at = "loaded"
  /\ \E o \in Outcomes(proposals[gov[g].id], drift) :
       gov' = [gov EXCEPT ![g].at = "decided", ![g].outcome = o]
  /\ UNCHANGED <<cell, drift, bus, processed, decided, exec>>

(***************************************************************************)
(* commitDeterministicResult.                                              *)
(***************************************************************************)
Commit(g) ==
  LET i == gov[g].id  o == gov[g].outcome
  IN  /\ gov[g].at = "decided"
      /\ rejections' = IF o = "reject"  THEN rejections \cup {i} ELSE rejections
      /\ pending'    = IF o = "pending" THEN pending \cup {i} ELSE pending
      /\ actions'    = IF o = "approve"
                         THEN actions \cup {[id |-> i, by |-> "governance"]} ELSE actions
      /\ gov' = [gov EXCEPT ![g].at = "committed"]
      /\ UNCHANGED <<cell, drift, bus, processed, exec>>

(***************************************************************************)
(* markProcessed, and the acknowledgement.                                 *)
(***************************************************************************)
Finish(g) ==
  /\ gov[g].at = "committed"
  /\ processed' = processed \cup {gov[g].id}
  /\ gov' = [gov EXCEPT ![g] = IdleGov]
  /\ UNCHANGED <<cell, drift, bus, decided, exec>>

(***************************************************************************)
(* The handler throws, or its process dies.                                *)
(***************************************************************************)
FailGov(g) ==
  /\ gov[g].at # "idle"
  /\ gov' = [gov EXCEPT ![g] = IdleGov]
  /\ UNCHANGED <<cell, drift, bus, processed, decided, exec>>

-----------------------------------------------------------------------------
(***************************************************************************)
(* The answer of a human is published, then the item removed.              *)
(***************************************************************************)
approvePending(i) ==
  /\ i \in pending
  /\ actions' = actions \cup {[id |-> i, by |-> "human"]}
  /\ UNCHANGED <<cell, drift, bus, processed, gov, pending, rejections, exec>>

rejectPending(i) ==
  /\ i \in pending
  /\ rejections' = rejections \cup {i}
  /\ UNCHANGED <<cell, drift, bus, processed, gov, pending, actions, exec>>

Answered(i) == i \in rejections \/ [id |-> i, by |-> "human"] \in actions

removePending(i) ==
  /\ i \in pending /\ Answered(i)
  /\ pending' = pending \ {i}
  /\ UNCHANGED <<cell, drift, bus, processed, gov, rejections, actions, exec>>

-----------------------------------------------------------------------------
Fetch(x, a) ==
  /\ exec[x].at = "idle"
  /\ exec' = [exec EXCEPT ![x] = [IdleExec EXCEPT !.at = "fetched", !.action = a]]
  /\ UNCHANGED <<cell, drift, bus, processed, gov, decided>>

(***************************************************************************)
(* The drift is read anew, for an action that no human approved.           *)
(***************************************************************************)
ReadDrift(x) ==
  /\ exec[x].at = "fetched" /\ exec[x].action.by # "human"
  /\ exec' = [exec EXCEPT ![x].at = "checked", ![x].drift = drift]
  /\ UNCHANGED <<cell, drift, bus, processed, gov, decided>>

Ready(x) == \/ exec[x].at = "fetched" /\ exec[x].action.by = "human"
            \/ exec[x].at = "checked"

\* Mutant: the step is taken from whatever epoch the row has.
Advances_AnyEpoch(x) ==
  /\ row # NoRow
  /\ \/ exec[x].action.by = "human"
     \/ can_transition(row.node, transitions[row.node], exec[x].drift, Rules)

(***************************************************************************)
(* advanceState, as one step: what it compares is the epoch, and the rules *)
(* on the row's own edge.                                                  *)
(***************************************************************************)
Advances(x) ==
  /\ At(proposals[exec[x].action.id].epoch)
  /\ \/ exec[x].action.by = "human"
     \/ can_transition(row.node, transitions[row.node], exec[x].drift, Rules)

Execute(x) ==
  /\ Ready(x) /\ Advances(x)
  /\ Cell!Step
  /\ exec' = [exec EXCEPT ![x] = IdleExec]
  /\ UNCHANGED <<drift, bus, processed, gov, decided>>

(***************************************************************************)
(* advanceState answers null: the action is logged and acknowledged.       *)
(***************************************************************************)
Skip(x) ==
  /\ Ready(x) /\ ~ Advances(x)
  /\ exec' = [exec EXCEPT ![x] = IdleExec]
  /\ UNCHANGED <<cell, drift, bus, processed, gov, decided>>

FailExec(x) ==
  /\ exec[x].at # "idle"
  /\ exec' = [exec EXCEPT ![x] = IdleExec]
  /\ UNCHANGED <<cell, drift, bus, processed, gov, decided>>

-----------------------------------------------------------------------------
handle(g) ==
  \/ \E i \in DOMAIN proposals : Receive(g, i)
  \/ CheckEpoch(g) \/ Evaluate(g) \/ Commit(g) \/ Finish(g)

Next ==
  \/ \E mode \in ModesUsed, writer \in BOOLEAN : Propose(mode, writer)
  \/ \E d \in Drifts : WriteDrift(d)
  \/ Restart
  \/ \E g \in Governors : handle(g) \/ FailGov(g)
  \/ \E i \in pending : approvePending(i) \/ rejectPending(i) \/ removePending(i)
  \/ \E x \in Executors : \/ \E a \in actions : Fetch(x, a)
                          \/ ReadDrift(x) \/ Execute(x) \/ Skip(x) \/ FailExec(x)

Spec == Init /\ [][Next]_vars

(***************************************************************************)
(* The governance loop runs: it fetches what is to be delivered, and a     *)
(* handler that does not fail goes on.                                     *)
(***************************************************************************)
Fairness == \A g \in Governors : WF_vars(handle(g))

FairSpec == Spec /\ Fairness

-----------------------------------------------------------------------------
(***************************************************************************)
(* Types, and every message number is that of a proposal.                  *)
(***************************************************************************)
Ids == DOMAIN proposals

TypeOK ==
  /\ row \in [run : Nat, node : Nodes, epoch : Nat] \cup {NoRow} /\ runs \in Nat
  /\ drift \in DriftLevels
  /\ proposals \in Seq(Proposal)
  /\ deliveries \in Seq(0..MaxDeliver) /\ Len(deliveries) = Len(proposals)
  /\ gov \in [Governors -> Handler] /\ exec \in [Executors -> Executor]
  /\ \A g \in Governors : gov[g].at # "idle" => gov[g].id \in Ids
  /\ processed \cup pending \cup rejections \subseteq Ids
  /\ actions \subseteq Action /\ \A a \in actions : a.id \in Ids
  /\ \A x \in Executors : exec[x].at # "idle" => exec[x].action \in actions

(***************************************************************************)
(* The executor is handed an action and looks at its epoch only: not at    *)
(* its from, to or runId.  Still, the step it takes is one that somebody   *)
(* approved, from the very node and to the very node the approval named,   *)
(* although the row may meanwhile have moved on or been restarted.         *)
(***************************************************************************)
Moves == row # NoRow /\ row' # NoRow /\ row'.run = row.run /\ row' # row

Approves(a, from, to) ==
  /\ proposals[a.id].epoch = from.epoch
  /\ proposals[a.id].from = from.node /\ proposals[a.id].to = to.node

AppliedAsApproved == [][Moves => \E a \in actions : Approves(a, row, row')]_vars

(***************************************************************************)
(* "MITL: proposals queued for human approval" (README.md:217): whatever   *)
(* is redelivered, and whoever fails, only a human's approval of a MITL    *)
(* proposal reaches the executor.                                          *)
(***************************************************************************)
HumanGate ==
  \A a \in actions : proposals[a.id].mode = "MITL" => a.by = "human"

(***************************************************************************)
(* A proposal that will not be delivered again because it is marked has    *)
(* been decided: it waits for a human, was rejected, or was approved.      *)
(* Deciding and marking are two steps and any handler may die in between.  *)
(***************************************************************************)
Decided(i) == i \in pending \cup rejections \/ \E a \in actions : a.id = i

DecidedOnceProcessed ==
  \A i \in processed : Decided(i)

(***************************************************************************)
(* A proposal is delivered until a handler is done with it, or as often as *)
(* the bus ever delivers.                                                  *)
(***************************************************************************)
EveryProposalHandled ==
  \A i \in 1..MaxProposals :
    i \in Ids ~> (i \in processed \/ (i \in Ids /\ deliveries[i] = MaxDeliver))

-----------------------------------------------------------------------------
(***************************************************************************)
(* The inductive invariant behind them.  Epochs tell nodes, in the row and *)
(* in every proposal, so comparing epochs suffices; a handler approves no  *)
(* MITL proposal; what it has committed is decided.                        *)
(***************************************************************************)
EpochsTellNodes ==
  /\ row # NoRow => row.node = NodeAt(row.epoch) /\ row.run <= runs
  /\ \A i \in Ids : /\ proposals[i].from = NodeAt(proposals[i].epoch)
                    /\ proposals[i].to = transitions[proposals[i].from]

HandlersKeepGate ==
  \A g \in Governors :
    gov[g].at # "idle" /\ gov[g].outcome = "approve"
      => proposals[gov[g].id].mode # "MITL"

HandlersDecide ==
  \A g \in Governors :
    /\ gov[g].at = "decided" => gov[g].outcome # "none"
    /\ gov[g].at = "committed" => Decided(gov[g].id)

IInv ==
  /\ TypeOK /\ EpochsTellNodes
  /\ HandlersKeepGate /\ HumanGate
  /\ HandlersDecide /\ DecidedOnceProcessed
=============================================================================
