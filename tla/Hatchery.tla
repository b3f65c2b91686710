------------------------------ MODULE Hatchery ------------------------------
(***************************************************************************)
(* The hatchery (src/hatchery.ts) for one role of agent loops: it spawns   *)
(* and drains them, restarts those that fail, follows the scope it is      *)
(* bound to, pauses and resumes, and scales by timers.  All of this is one *)
(* process, whose operations interleave wherever they await: a drain waits *)
(* for the agent's task or its grace period, a spawn for its log.          *)
(*                                                                         *)
(* The scaling decision is any target between min and max; time is left    *)
(* out, so that all restarts fall into one window and any agent may be     *)
(* silent for too long.  An agent that is gone is forgotten by whoever     *)
(* waits for it or was about to drain it - a later look finds nothing to   *)
(* do - and its id is used again.  Bounds (guards only): Agents,           *)
(* MaxCrashes, and the requests under way at a time: Requests.             *)
(***************************************************************************)
EXTENDS Integers, FiniteSets, FiniteSetsExt

CONSTANTS
  Agents,          \* bound: agents at a time
  Scopes,          \* scopes to bind to
  Requests,        \* bound: rebinds, pauses and resumes at a time
  minInstances, maxInstances, maxRestarts,
  MaxCrashes       \* bound: how often agents fail

ASSUME InstancesAssumption ==
  /\ minInstances \in Nat /\ maxInstances \in Nat /\ minInstances <= maxInstances
  /\ maxRestarts \in Nat
ASSUME HatcheryBounds ==
  Agents \subseteq Nat /\ IsFiniteSet(Agents) /\ Scopes # {} /\ MaxCrashes \in Nat

Timers == {"scaleUp", "scaleDown"}
Tasks  == Requests \cup Timers

VARIABLES
  agent,            \* each agent of the map
  task,             \* operations under way
  scope, paused, shuttingDown,
  crashes           \* failures so far, in one restart window

flags == <<scope, paused, shuttingDown>>
vars  == <<agent, task, flags, crashes>>

Agent == [state : {"none", "alive", "draining"}, scope : Scopes,
          restarts : 0..maxRestarts,   \* restartTimestamps
          coming : 0..maxRestarts]     \* the history on its way, 0 for none
Task  == [op : {"none", "rebind", "pauseAll", "resume", "scale"},
          at : {"free", "drain", "decide", "spawn"},
          on : SUBSET Agents, todo : SUBSET Agents, count : Nat]

Free == [op |-> "none", at |-> "free", on |-> {}, todo |-> {}, count |-> 0]
None == [state |-> "none", scope |-> CHOOSE s \in Scopes : TRUE,
         restarts |-> 0, coming |-> 0]

\* start: the minimum is spawned, as a resume does.
Init ==
  /\ agent = [a \in Agents |-> None]
  /\ task \in {[[t \in Tasks |-> Free] EXCEPT
         ![r] = [Free EXCEPT !.op = "resume", !.at = "spawn", !.count = minInstances]]
       : r \in Requests}
  /\ scope \in Scopes /\ paused = FALSE /\ shuttingDown = FALSE
  /\ crashes = 0

InMap  == {a \in Agents : agent[a].state # "none"}
Alive  == {a \in Agents : agent[a].state = "alive"}
countRole == Cardinality(InMap)

-----------------------------------------------------------------------------
\* spawnAgent up to its await: a new agent, whatever shuttingDown says.
Spawned == [None EXCEPT !.state = "alive", !.scope = scope]
NewId(a) == agent[a].state = "none" /\ \A b \in Agents \ InMap : a <= b

\* drainAgent up to its await, for several at once; it refuses no agent that
\* is in the map.
Draining(as) ==
  [a \in Agents |-> IF a \in as THEN [None EXCEPT !.state = "draining"] ELSE agent[a]]

Forgotten(a) ==
  [t \in Tasks |-> [task[t] EXCEPT !.on = @ \ {a}, !.todo = @ \ {a}]]

\* The task of a draining agent ends, or its grace period does.
drained(a) ==
  /\ agent[a].state = "draining"
  /\ agent' = [agent EXCEPT ![a] = None]
  /\ task' = Forgotten(a)
  /\ UNCHANGED <<flags, crashes>>

\* Mutant: the limit is looked at before the failure is added to the history.
onAgentExit_LateLimit(a) ==
  /\ agent[a].state = "alive" /\ crashes < MaxCrashes
  /\ crashes' = crashes + 1
  /\ task' = Forgotten(a)
  /\ UNCHANGED flags
  /\ agent' = [agent EXCEPT ![a] =
       IF shuttingDown \/ paused \/ agent[a].restarts > maxRestarts THEN None
       ELSE [Spawned EXCEPT !.coming = agent[a].restarts + 1]]

(***************************************************************************)
(* onAgentExit of an agent nobody drains: it is replaced, unless its       *)
(* history is too long or spawnAgent finds the hatchery paused.            *)
(***************************************************************************)
onAgentExit(a) ==
  /\ agent[a].state = "alive" /\ crashes < MaxCrashes
  /\ crashes' = crashes + 1
  /\ task' = Forgotten(a)
  /\ UNCHANGED flags
  /\ LET recent == agent[a].restarts + 1
     IN  agent' = [agent EXCEPT ![a] =
           IF shuttingDown \/ paused \/ recent > maxRestarts THEN None
           ELSE [Spawned EXCEPT !.coming = recent]]

\* ... and once its log is written the new agent gets the history.
HandOver(a) ==
  /\ agent[a].coming > 0
  /\ agent' = [agent EXCEPT ![a].restarts = agent[a].coming, ![a].coming = 0]
  /\ UNCHANGED <<task, flags, crashes>>

\* heartbeatTick finds an agent silent.
heartbeatTick(a) ==
  /\ agent[a].state = "alive" /\ ~ shuttingDown
  /\ agent' = Draining({a})
  /\ UNCHANGED <<task, flags, crashes>>

-----------------------------------------------------------------------------
\* Mutant: the agents that are just being restarted are overlooked.
rebind_NewestSpared(t, s) ==
  /\ task[t].at = "free" /\ ~ shuttingDown
  /\ scope' = s
  /\ LET old == {a \in Alive : agent[a].coming = 0}
     IN  /\ agent' = Draining(old)
         /\ task' = [task EXCEPT ![t] =
              [Free EXCEPT !.op = "rebind", !.at = "drain", !.on = old]]
  /\ UNCHANGED <<paused, shuttingDown, crashes>>

(***************************************************************************)
(* rebindActiveScope, scheduleRebindActiveScope: the new scope counts at   *)
(* once, and whoever is alive is drained, all together.  (A restart is a   *)
(* rebind and, beside it, a resume.)                                       *)
(***************************************************************************)
rebind(t, s) ==
  /\ task[t].at = "free" /\ ~ shuttingDown
  /\ scope' = s
  /\ agent' = Draining(Alive)
  /\ task' = [task EXCEPT ![t] =
       [Free EXCEPT !.op = "rebind", !.at = "drain", !.on = Alive]]
  /\ UNCHANGED <<paused, shuttingDown, crashes>>

pauseAll(t) ==
  /\ task[t].at = "free"
  /\ paused' = TRUE
  /\ task' = [task EXCEPT ![t] =
       [Free EXCEPT !.op = "pauseAll", !.at = "drain", !.todo = Alive]]
  /\ UNCHANGED <<agent, scope, shuttingDown, crashes>>

resume(t) ==
  /\ task[t].at = "free" /\ ~ shuttingDown
  /\ paused' = FALSE
  /\ task' = [task EXCEPT ![t] =
       [Free EXCEPT !.op = "resume", !.at = "spawn",
                    !.count = Max({0, minInstances - countRole})]]
  /\ UNCHANGED <<agent, scope, shuttingDown, crashes>>

\* The timers are cleared; operations under way go on.
shutdown ==
  /\ ~ shuttingDown
  /\ shuttingDown' = TRUE
  /\ agent' = Draining(Alive)
  /\ UNCHANGED <<task, scope, paused, crashes>>

(***************************************************************************)
(* scaleUpTick and scaleDownTick count the instances, await the decision,  *)
(* and then act on what they counted.                                      *)
(***************************************************************************)
tick(t) ==
  /\ task[t].at = "free" /\ ~ shuttingDown /\ ~ paused
  /\ task' = [task EXCEPT ![t] =
       [Free EXCEPT !.op = "scale", !.at = "decide", !.count = countRole]]
  /\ UNCHANGED <<agent, flags, crashes>>

\* Mutant: the minimum is taken to be there.
scaleUp_AboveMinimum(target) ==
  /\ task["scaleUp"].at = "decide"
  /\ LET counted == Max({task["scaleUp"].count, minInstances})
     IN  task' = [task EXCEPT !["scaleUp"] =
           IF target > counted
             THEN [@ EXCEPT !.at = "spawn", !.count = target - counted] ELSE Free]
  /\ UNCHANGED <<agent, flags, crashes>>

scaleUp(target) ==
  /\ task["scaleUp"].at = "decide"
  /\ LET counted == task["scaleUp"].count
     IN  task' = [task EXCEPT !["scaleUp"] =
           IF target > counted
             THEN [@ EXCEPT !.at = "spawn", !.count = target - counted] ELSE Free]
  /\ UNCHANGED <<agent, flags, crashes>>

\* The newest go first, which is any that are alive.
scaleDown(target, as) ==
  /\ task["scaleDown"].at = "decide"
  /\ as \subseteq Alive
  /\ Cardinality(as) =
       Min({Cardinality(Alive), Max({0, task["scaleDown"].count - target})})
  /\ task' = [task EXCEPT !["scaleDown"] =
       [@ EXCEPT !.at = "drain", !.todo = as, !.count = 0]]
  /\ UNCHANGED <<agent, flags, crashes>>

-----------------------------------------------------------------------------
\* pauseAll and scaleDownTick drain one agent after the other; only the
\* former looks again whether it is still alive.
drainNext(t, a) ==
  /\ task[t].at = "drain" /\ task[t].on = {} /\ a \in task[t].todo
  /\ LET it == IF task[t].op = "pauseAll" /\ a \notin Alive THEN {} ELSE {a}
     IN  /\ agent' = Draining(it)
         /\ task' = [task EXCEPT ![t].todo = @ \ {a}, ![t].on = it]
  /\ UNCHANGED <<flags, crashes>>

(***************************************************************************)
(* The drains are over.  A rebind looks for a pause or a shutdown, once,   *)
(* and spawns the minimum.                                                 *)
(***************************************************************************)
drainsOver(t) ==
  /\ task[t].at = "drain" /\ task[t].on \cup task[t].todo = {}
  /\ task' = [task EXCEPT ![t] =
       IF @.op = "rebind" /\ ~ paused /\ ~ shuttingDown
         THEN [@ EXCEPT !.at = "spawn", !.count = minInstances] ELSE Free]
  /\ UNCHANGED <<agent, flags, crashes>>

\* Mutant: a paused hatchery spawns.
spawnNext_Paused(t, a) ==
  /\ task[t].at = "spawn" /\ task[t].count > 0
  /\ task' = [task EXCEPT ![t].count = @ - 1]
  /\ NewId(a)
  /\ agent' = [agent EXCEPT ![a] = Spawned]
  /\ UNCHANGED <<flags, crashes>>

spawnNext(t, a) ==
  /\ task[t].at = "spawn" /\ task[t].count > 0
  /\ task' = [task EXCEPT ![t].count = @ - 1]
  /\ NewId(a)
  /\ agent' = IF paused THEN agent ELSE [agent EXCEPT ![a] = Spawned]
  /\ UNCHANGED <<flags, crashes>>

spawnsOver(t) ==
  /\ task[t].at = "spawn" /\ task[t].count = 0
  /\ task' = [task EXCEPT ![t] = Free]
  /\ UNCHANGED <<agent, flags, crashes>>

-----------------------------------------------------------------------------
advance(t) ==
  \/ \E a \in Agents : drainNext(t, a) \/ spawnNext(t, a)
  \/ drainsOver(t) \/ spawnsOver(t)

scaleUpTick == \/ tick("scaleUp")
               \/ \E n \in minInstances..maxInstances : scaleUp(n)

scaleDownTick ==
  \/ tick("scaleDown")
  \/ \E n \in minInstances..maxInstances, as \in SUBSET Alive : scaleDown(n, as)

Next ==
  \/ \E t \in Tasks : advance(t)
  \/ \E t \in Requests : pauseAll(t) \/ resume(t) \/ \E s \in Scopes : rebind(t, s)
  \/ shutdown \/ scaleUpTick \/ scaleDownTick
  \/ \E a \in Agents : drained(a) \/ onAgentExit(a) \/ HandOver(a) \/ heartbeatTick(a)

Spec == Init /\ [][Next]_vars

(***************************************************************************)
(* Awaits return - a drain has its grace period - and timers fire.         *)
(* Requests, failures and silence are nobody's duty.                       *)
(***************************************************************************)
FairSpec ==
  /\ Spec
  /\ \A t \in Tasks : WF_vars(advance(t))
  /\ WF_vars(scaleUpTick)
  /\ \A a \in Agents : WF_vars(drained(a))

-----------------------------------------------------------------------------
(***************************************************************************)
(* Types; a restart history is never longer than the limit, on its way to  *)
(* a new agent or with it.                                                 *)
(***************************************************************************)
TypeOK ==
  /\ agent \in [Agents -> Agent]
  /\ task \in [Tasks -> Task]
  /\ scope \in Scopes /\ paused \in BOOLEAN /\ shuttingDown \in BOOLEAN
  /\ crashes \in 0..MaxCrashes

(***************************************************************************)
(* Whichever rebinds, restarts and timers overlap, every agent alive works *)
(* for the scope the hatchery is bound to.                                 *)
(***************************************************************************)
AliveInScope == \A a \in Alive : agent[a].scope = scope

(***************************************************************************)
(* Once pauseAll is done nobody is alive until a resume: not the agents a  *)
(* rebind, a restart or a timer was about to spawn either.                 *)
(***************************************************************************)
PausedIsQuiet == paused => \/ Alive = {}
            \/ \E t \in Requests : task[t].op = "pauseAll"

(***************************************************************************)
(* Why: until then whoever is alive is on the list of one pause under way. *)
(***************************************************************************)
PauseSweeps == paused => \/ Alive = {}
            \/ \E t \in Requests : /\ task[t].op = "pauseAll" /\ task[t].at = "drain"
                                  /\ Alive \subseteq task[t].todo

IInv == TypeOK /\ AliveInScope /\ PauseSweeps

(***************************************************************************)
(* Whoever failed, went silent or was drained: the role has its minimum    *)
(* alive again and again, unless it is paused or shut down.                *)
(***************************************************************************)
MinimumRestored ==
  []<>(paused \/ shuttingDown \/ Cardinality(Alive) >= minInstances)
=============================================================================
