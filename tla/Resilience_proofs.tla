-------------------------- MODULE Resilience_proofs --------------------------
(***************************************************************************)
(* What keeps the swarm up: the breaker in front of failing models, and    *)
(* the hatchery, which keeps its agents in the scope it is bound to, and   *)
(* quiet while it is paused.                                               *)
(***************************************************************************)
EXTENDS CircuitBreaker, Hatchery, FiniteSetTheorems, TLAPS

-----------------------------------------------------------------------------
(***************************************************************************)
(* The breaker.  The load a failing model sees is bounded for every number *)
(* of callers, threshold and cooldown.  LoadBounded is not inductive: it   *)
(* needs Accounted, that every attempt that counts has failed since the    *)
(* count began or is still in flight.                                      *)
(***************************************************************************)
USE CallersAssumption, ThresholdAssumption

LEMMA RunningFinite ==
  /\ IsFiniteSet(Running)
  /\ Cardinality(Running) \in Nat
  /\ Cardinality(Running) <= Cardinality(Callers)
  /\ Cardinality(Callers) \in Nat
BY FS_Subset, FS_CardinalityType DEF Running

(***************************************************************************)
(* A call that begins joins Running; one that returns leaves it.           *)
(***************************************************************************)
LEMMA RunningGrows ==
  ASSUME BreakerTypeOK, NEW c \in Callers, call[c] = "idle",
         call' = [call EXCEPT ![c] = "running"]
  PROVE  /\ Cardinality(Running') = Cardinality(Running) + 1
         /\ Cardinality(Running) < Cardinality(Callers)
<1>1. Running' = Running \cup {c} /\ c \notin Running BY DEF Running, BreakerTypeOK
<1>2. Cardinality(Running') = Cardinality(Running) + 1
  BY <1>1, RunningFinite, FS_AddElement
<1>3. IsFiniteSet(Running \cup {c}) /\ Running \cup {c} \subseteq Callers
  BY RunningFinite, FS_AddElement DEF Running
<1>4. Cardinality(Running \cup {c}) <= Cardinality(Callers)
  BY <1>3, FS_Subset
<1> QED BY <1>1, <1>2, <1>4, RunningFinite

LEMMA RunningShrinks ==
  ASSUME BreakerTypeOK, NEW c \in Callers, call[c] = "running",
         call' = [call EXCEPT ![c] = "idle"]
  PROVE  /\ Running' = Running \ {c}
         /\ Cardinality(Running') = Cardinality(Running) - 1
         /\ Cardinality(Running) >= 1
<1>1. Running' = Running \ {c} /\ c \in Running BY DEF Running, BreakerTypeOK
<1>2. Cardinality(Running') = Cardinality(Running) - 1
  BY <1>1, RunningFinite, FS_RemoveElement
<1>3. IsFiniteSet(Running \ {c}) BY RunningFinite, FS_RemoveElement
<1>4. Cardinality(Running \ {c}) \in Nat BY <1>3, FS_CardinalityType
<1> QED BY <1>1, <1>2, <1>4, RunningFinite

-----------------------------------------------------------------------------
LEMMA BreakerTypeStep == BreakerTypeOK /\ [BreakerNext]_breaker => BreakerTypeOK'
<1> SUFFICES ASSUME BreakerTypeOK, [BreakerNext]_breaker PROVE BreakerTypeOK' OBVIOUS
<1> USE DEF BreakerTypeOK
<1>1. CASE UNCHANGED breaker BY <1>1 DEF breaker
<1>2. ASSUME NEW c \in Callers, Begin(c) PROVE BreakerTypeOK' BY <1>2 DEF Begin
<1>3. ASSUME NEW c \in Callers, Succeed(c) PROVE BreakerTypeOK'
  <2>1. IsFiniteSet(Running \ {c}) BY RunningFinite, FS_RemoveElement
  <2>2. Cardinality(Running \ {c}) \in Nat BY <2>1, FS_CardinalityType
  <2> QED BY <1>3, <2>2 DEF Succeed
<1>4. ASSUME NEW c \in Callers, Fail(c) PROVE BreakerTypeOK' BY <1>4 DEF Fail
<1>5. CASE Tick BY <1>5 DEF Tick
<1>6. CASE Recover \/ Sicken BY <1>6 DEF Recover, Sicken
<1> QED BY <1>1, <1>2, <1>3, <1>4, <1>5, <1>6 DEF BreakerNext, Return

LEMMA LoadStep == BreakerInv /\ [BreakerNext]_breaker => Accounted' /\ LoadBounded'
<1> SUFFICES ASSUME BreakerInv, [BreakerNext]_breaker PROVE Accounted' /\ LoadBounded' OBVIOUS
<1> USE DEF BreakerInv, Accounted, LoadBounded
<1>0. failures \in Nat /\ burst \in Nat BY DEF BreakerTypeOK
<1>1. ASSUME NEW c \in Callers, Begin(c) PROVE Accounted' /\ LoadBounded'
  <2>1. /\ Cardinality(Running') = Cardinality(Running) + 1
        /\ Cardinality(Running) < Cardinality(Callers)
    BY <1>1, RunningGrows DEF Begin
  <2>2. CASE HalfOpen BY <1>0, <1>1, <2>1, <2>2, RunningFinite DEF Begin
  <2>3. CASE ~ HalfOpen
    <3>1. failures < Threshold BY <1>0, <1>1, <2>3 DEF Begin, Open, HalfOpen, BreakerTypeOK
    <3> QED BY <1>0, <1>1, <2>1, <2>3, <3>1, RunningFinite DEF Begin
  <2> QED BY <2>2, <2>3
<1>2. ASSUME NEW c \in Callers, Succeed(c) PROVE Accounted' /\ LoadBounded'
  <2>1. /\ Running' = Running \ {c}
        /\ Cardinality(Running') = Cardinality(Running) - 1
        /\ Cardinality(Running) >= 1
    BY <1>2, RunningShrinks DEF Succeed
  <2>2. burst' = Cardinality(Running') /\ failures' = 0 BY <1>2, <2>1 DEF Succeed
  <2> QED BY <2>1, <2>2, RunningFinite
<1>3. ASSUME NEW c \in Callers, Fail(c) PROVE Accounted' /\ LoadBounded'
  <2>1. /\ Cardinality(Running') = Cardinality(Running) - 1
        /\ Cardinality(Running) >= 1
    BY <1>3, RunningShrinks DEF Fail
  <2>2. burst' = burst /\ failures' = failures + 1 BY <1>3 DEF Fail
  <2> QED BY <1>0, <2>1, <2>2, RunningFinite
<1>4. CASE Tick \/ Recover \/ Sicken \/ UNCHANGED breaker
  <2>1. Running' = Running BY <1>4 DEF Running, Tick, Recover, Sicken, breaker
  <2> QED BY <1>4, <2>1 DEF Tick, Recover, Sicken, breaker
<1> QED BY <1>1, <1>2, <1>3, <1>4 DEF BreakerNext, Return

(***************************************************************************)
(* BreakerTypeOK and the invariant hold in every state of the breaker.            *)
(***************************************************************************)
THEOREM BreakerInvariance == BreakerSpec => []BreakerInv
<1>1. BreakerInit => BreakerInv
  <2> SUFFICES ASSUME BreakerInit PROVE BreakerInv OBVIOUS
  <2>1. Running = {} BY DEF BreakerInit, Running
  <2>2. Cardinality(Running) = 0 BY <2>1, FS_EmptySet
  <2> QED BY <2>2, RunningFinite DEF BreakerInit, BreakerInv, BreakerTypeOK, Accounted, LoadBounded
<1>2. BreakerInv /\ [BreakerNext]_breaker => BreakerInv' BY BreakerTypeStep, LoadStep DEF BreakerInv
<1> QED BY <1>1, <1>2, PTL DEF BreakerSpec

(***************************************************************************)
(* LoadBounded: "prevents cascading load" (src/resilience.ts:5).           *)
(***************************************************************************)
THEOREM LoadIsBounded == BreakerSpec => []LoadBounded
<1>1. BreakerInv => LoadBounded BY DEF BreakerInv
<1> QED BY <1>1, BreakerInvariance, PTL

HIDE CallersAssumption
HIDE ThresholdAssumption

-----------------------------------------------------------------------------
(***************************************************************************)
(* The hatchery, for any number of agents and requests.                    *)
(***************************************************************************)
USE InstancesAssumption, HatcheryBounds

LEMMA MaxOfTwo ==
  ASSUME NEW m \in Int, NEW n \in Int
  PROVE  Max({m, n}) \in {m, n} /\ m <= Max({m, n}) /\ n <= Max({m, n})
<1> DEFINE P(x) == x \in {m, n} /\ \A y \in {m, n} : x >= y
<1>1. \E x : P(x)
  <2>1. CASE m >= n BY <2>1
  <2>2. CASE n >= m BY <2>2
  <2> QED BY <2>1, <2>2
<1>2. P(CHOOSE x : P(x)) BY <1>1
<1>3. Max({m, n}) = CHOOSE x : P(x) BY DEF Max
<1> QED BY <1>2, <1>3

LEMMA CountType == countRole \in Nat
<1>1. InMap \subseteq Agents BY DEF InMap
<1> QED BY <1>1, FS_Subset, FS_CardinalityType DEF countRole

LEMMA SomeScope == (CHOOSE s \in Scopes : TRUE) \in Scopes
OBVIOUS

LEMMA AgentTypes ==
  ASSUME TypeOK
  PROVE  /\ None \in Agent /\ Spawned \in Agent
         /\ [None EXCEPT !.state = "draining"] \in Agent
         /\ \A as : Draining(as) \in [Agents -> Agent]
<1>1. None \in Agent BY SomeScope DEF None, Agent
<1>2. Spawned \in Agent BY <1>1 DEF Spawned, Agent, TypeOK
<1>3. [None EXCEPT !.state = "draining"] \in Agent BY <1>1 DEF Agent
<1>4. \A as : Draining(as) \in [Agents -> Agent] BY <1>3 DEF Draining, TypeOK
<1> QED BY <1>1, <1>2, <1>3, <1>4

(***************************************************************************)
(* Forgetting an agent only shortens lists; so does an operation's step.   *)
(***************************************************************************)
LEMMA ForgottenType ==
  ASSUME TypeOK, NEW a
  PROVE  Forgotten(a) \in [Tasks -> Task]
<1>1. ASSUME NEW t \in Tasks
      PROVE  [task[t] EXCEPT !.on = @ \ {a}, !.todo = @ \ {a}] \in Task
  BY DEF TypeOK, Task
<1> QED BY <1>1 DEF Forgotten

LEMMA FreeType == Free \in Task
BY DEF Free, Task

-----------------------------------------------------------------------------
LEMMA AgentSteps ==
  ASSUME TypeOK, NEW a \in Agents,
         drained(a) \/ onAgentExit(a) \/ HandOver(a) \/ heartbeatTick(a)
  PROVE  TypeOK'
<1>0. agent[a] \in Agent /\ agent \in [Agents -> Agent] BY DEF TypeOK
<1>1. CASE drained(a)
  BY <1>0, <1>1, AgentTypes, ForgottenType DEF drained, TypeOK, flags
<1>2. CASE onAgentExit(a)
  <2>1. agent[a].restarts + 1 \in 0..(maxRestarts + 1) BY <1>0 DEF Agent
  <2>2. agent[a].restarts + 1 <= maxRestarts =>
          [Spawned EXCEPT !.coming = agent[a].restarts + 1] \in Agent
    BY <2>1, AgentTypes DEF Agent
  <2>3. agent' \in [Agents -> Agent]
    BY <1>0, <1>2, <2>1, <2>2, AgentTypes DEF onAgentExit
  <2> QED BY <1>2, <2>3, ForgottenType DEF onAgentExit, TypeOK, flags
<1>3. CASE HandOver(a)
  <2>1. agent' \in [Agents -> Agent] BY <1>0, <1>3 DEF HandOver, Agent
  <2> QED BY <1>3, <2>1 DEF HandOver, TypeOK, flags
<1>4. CASE heartbeatTick(a)
  BY <1>4, AgentTypes DEF heartbeatTick, TypeOK, flags
<1> QED BY <1>1, <1>2, <1>3, <1>4

LEMMA RequestSteps ==
  ASSUME TypeOK, NEW t \in Tasks, pauseAll(t) \/ resume(t) \/ \E s \in Scopes : rebind(t, s)
  PROVE  TypeOK'
<1>0. Alive \subseteq Agents /\ {} \subseteq Agents BY DEF Alive
<1>1. CASE pauseAll(t)
  <2>1. [Free EXCEPT !.op = "pauseAll", !.at = "drain", !.todo = Alive] \in Task
    BY <1>0 DEF Free, Task
  <2> QED BY <1>1, <2>1 DEF pauseAll, TypeOK
<1>2. CASE resume(t)
  <2>1. Max({0, minInstances - countRole}) \in Nat
    <3> DEFINE n == minInstances - countRole
    <3>1. n \in Int BY CountType
    <3> HIDE DEF n
    <3>2. Max({0, n}) \in {0, n} /\ 0 <= Max({0, n}) BY <3>1, MaxOfTwo
    <3>3. Max({0, n}) \in Nat BY <3>1, <3>2
    <3> QED BY <3>3 DEF n
  <2>2. [Free EXCEPT !.op = "resume", !.at = "spawn",
                     !.count = Max({0, minInstances - countRole})] \in Task
    BY <2>1 DEF Free, Task
  <2> QED BY <1>2, <2>2 DEF resume, TypeOK
<1>3. ASSUME NEW s \in Scopes, rebind(t, s) PROVE TypeOK'
  <2>1. [Free EXCEPT !.op = "rebind", !.at = "drain", !.on = Alive] \in Task
    BY <1>0 DEF Free, Task
  <2> QED BY <1>3, <2>1, AgentTypes DEF rebind, TypeOK
<1> QED BY <1>1, <1>2, <1>3

LEMMA TimerSteps ==
  ASSUME TypeOK, scaleUpTick \/ scaleDownTick
  PROVE  TypeOK'
<1>0. "scaleUp" \in Tasks /\ "scaleDown" \in Tasks BY DEF Tasks, Timers
<1>1. ASSUME NEW t \in Timers, tick(t) PROVE TypeOK'
  <2>1. [Free EXCEPT !.op = "scale", !.at = "decide", !.count = countRole] \in Task
    BY CountType DEF Free, Task
  <2> QED BY <1>1, <2>1 DEF tick, TypeOK, flags, Tasks
<1>2. ASSUME NEW n \in minInstances..maxInstances, scaleUp(n) PROVE TypeOK'
  <2> DEFINE it == task["scaleUp"]
  <2>1. it \in Task BY <1>0 DEF TypeOK
  <2>2. CASE n > it.count
    <3> DEFINE v == [it EXCEPT !.at = "spawn", !.count = n - it.count]
    <3>0. it.count \in Nat /\ n - it.count \in Nat BY <2>1, <2>2 DEF Task
    <3>1. v \in Task BY <2>1, <3>0 DEF Task
    <3>2. task' = [task EXCEPT !["scaleUp"] =
             IF n > it.count THEN v ELSE Free] BY <1>2 DEF scaleUp
    <3> HIDE DEF v
    <3> QED BY <1>2, <2>2, <3>1, <3>2 DEF scaleUp, TypeOK, flags
  <2>3. CASE ~ (n > it.count)
    <3>1. task' = [task EXCEPT !["scaleUp"] = Free] BY <1>2, <2>3 DEF scaleUp
    <3> QED BY <1>2, <3>1, FreeType DEF scaleUp, TypeOK, flags
  <2> QED BY <2>2, <2>3
<1>3. ASSUME NEW n \in minInstances..maxInstances, NEW as \in SUBSET Alive, scaleDown(n, as)
      PROVE  TypeOK'
  <2> DEFINE it == task["scaleDown"]
  <2>1. it \in Task BY <1>0 DEF TypeOK
  <2>2. [it EXCEPT !.at = "drain", !.todo = as, !.count = 0] \in Task
    BY <2>1 DEF Task, Alive
  <2> QED BY <1>3, <2>2 DEF scaleDown, TypeOK, flags
<1> QED BY <1>1, <1>2, <1>3 DEF scaleUpTick, scaleDownTick, Timers

LEMMA AdvanceSteps ==
  ASSUME TypeOK, NEW t \in Tasks, advance(t)
  PROVE  TypeOK'
<1>0. task[t] \in Task BY DEF TypeOK
<1>1. ASSUME NEW a \in Agents, drainNext(t, a) PROVE TypeOK'
  <2> DEFINE it == IF task[t].op = "pauseAll" /\ a \notin Alive THEN {} ELSE {a}
             v  == [task[t] EXCEPT !.todo = @ \ {a}, !.on = it]
  <2>1. v \in Task BY <1>0 DEF Task
  <2>2. task' = [task EXCEPT ![t] = v] BY <1>1 DEF drainNext
  <2> HIDE DEF v
  <2>3. agent' \in [Agents -> Agent] BY <1>1, AgentTypes DEF drainNext
  <2> QED BY <1>1, <2>1, <2>2, <2>3 DEF drainNext, TypeOK, flags
<1>2. ASSUME NEW a \in Agents, spawnNext(t, a) PROVE TypeOK'
  <2>1. [task[t] EXCEPT !.count = @ - 1] \in Task BY <1>0, <1>2 DEF spawnNext, Task
  <2>2. agent' \in [Agents -> Agent] BY <1>2, AgentTypes DEF spawnNext, TypeOK
  <2> QED BY <1>2, <2>1, <2>2 DEF spawnNext, TypeOK, flags
<1>3. CASE drainsOver(t)
  <2>1. [task[t] EXCEPT !.at = "spawn", !.count = minInstances] \in Task BY <1>0 DEF Task
  <2> QED BY <1>3, <2>1, FreeType DEF drainsOver, TypeOK, flags
<1>4. CASE spawnsOver(t)
  BY <1>4, FreeType DEF spawnsOver, TypeOK, flags
<1> QED BY <1>1, <1>2, <1>3, <1>4 DEF advance

LEMMA TypeStep == TypeOK /\ [Next]_vars => TypeOK'
<1> SUFFICES ASSUME TypeOK, [Next]_vars PROVE TypeOK' OBVIOUS
<1>1. CASE UNCHANGED vars BY <1>1 DEF vars, flags, TypeOK
<1>2. CASE shutdown BY <1>2, AgentTypes DEF shutdown, TypeOK
<1> QED BY <1>1, <1>2, AgentSteps, RequestSteps, TimerSteps, AdvanceSteps DEF Next, Tasks

-----------------------------------------------------------------------------
(***************************************************************************)
(* Whoever is alive after a step was alive before it, in the same scope,   *)
(* or has just been spawned, for the scope of now and not in a pause.      *)
(***************************************************************************)
LEMMA AliveBefore ==
  ASSUME TypeOK, [Next]_vars, NEW a \in Agents, agent'[a].state = "alive"
  PROVE  \/ agent[a].state = "alive" /\ agent'[a].scope = agent[a].scope /\ scope' = scope
         \/ agent'[a].scope = scope' /\ ~ paused /\ ~ paused'
<1>0. agent \in [Agents -> Agent] /\ agent[a] \in Agent BY DEF TypeOK
<1> DEFINE Old  == agent[a].state = "alive" /\ agent'[a].scope = agent[a].scope /\ scope' = scope
           Born == agent'[a].scope = scope' /\ ~ paused /\ ~ paused'
<1>1. Spawned.scope = scope /\ None.state = "none" BY DEF Spawned, None
<1>2. ASSUME NEW as, agent' = Draining(as)
      PROVE  agent'[a] = agent[a] /\ a \notin as
  BY <1>2 DEF Draining, None
<1>3. CASE UNCHANGED <<agent, scope>> BY <1>3
<1>4. ASSUME NEW b \in Agents, drained(b) \/ HandOver(b) PROVE Old
  BY <1>0, <1>1, <1>4 DEF drained, HandOver, flags, Agent
<1>5. ASSUME NEW b \in Agents, onAgentExit(b) PROVE Old \/ Born
  <2>1. CASE a = b
    <3>1. ~ paused /\ agent'[a].scope = scope
      BY <1>0, <1>1, <1>5, <2>1 DEF onAgentExit, Spawned, None
    <3> QED BY <1>5, <3>1 DEF onAgentExit, flags
  <2>2. CASE a # b BY <1>0, <1>5, <2>2 DEF onAgentExit, flags
  <2> QED BY <2>1, <2>2
<1>6. ASSUME NEW b \in Agents, heartbeatTick(b) PROVE Old
  BY <1>2, <1>6 DEF heartbeatTick, flags
<1>7. ASSUME NEW t \in Tasks, NEW s \in Scopes, rebind(t, s) PROVE FALSE
  BY <1>2, <1>7 DEF rebind, Alive
<1>8. CASE shutdown BY <1>2, <1>8 DEF shutdown, Alive
<1>9. ASSUME NEW t \in Tasks, NEW b \in Agents, drainNext(t, b) PROVE Old
  BY <1>2, <1>9 DEF drainNext, flags
<1>10. ASSUME NEW t \in Tasks, NEW b \in Agents, spawnNext(t, b) PROVE Old \/ Born
  BY <1>0, <1>1, <1>10 DEF spawnNext, flags
<1>11. ASSUME NEW t \in Tasks, pauseAll(t) \/ resume(t) \/ drainsOver(t) \/ spawnsOver(t) \/ tick(t)
       PROVE  UNCHANGED <<agent, scope>>
  BY <1>11 DEF pauseAll, resume, drainsOver, spawnsOver, tick, flags
<1>12. ASSUME NEW n, scaleUp(n) \/ \E as : scaleDown(n, as)
       PROVE  UNCHANGED <<agent, scope>>
  BY <1>12 DEF scaleUp, scaleDown, flags
<1>13. CASE UNCHANGED vars BY <1>3, <1>13 DEF vars, flags
<1>14. CASE scaleUpTick \/ scaleDownTick
  BY <1>3, <1>11, <1>12, <1>14 DEF scaleUpTick, scaleDownTick, Tasks, Timers
<1>15. ASSUME NEW t \in Tasks, advance(t) PROVE Old \/ Born
  BY <1>3, <1>9, <1>10, <1>11, <1>15 DEF advance
<1>16. Requests \subseteq Tasks BY DEF Tasks
<1> QED BY <1>3, <1>4, <1>5, <1>6, <1>7, <1>8, <1>11, <1>13, <1>14, <1>15, <1>16 DEF Next

(***************************************************************************)
(* A rebind and a shutdown leave nobody alive of the scope they leave.     *)
(***************************************************************************)
LEMMA ScopeStep == TypeOK /\ AliveInScope /\ [Next]_vars => AliveInScope'
BY AliveBefore DEF AliveInScope, Alive

-----------------------------------------------------------------------------
(***************************************************************************)
(* What a step does to the list of a pause: it stays until every agent on  *)
(* it is gone, and only agents that are no longer alive leave it.          *)
(***************************************************************************)
Sweeping(t) == task[t].op = "pauseAll" /\ task[t].at = "drain" /\ Alive \subseteq task[t].todo

LEMMA AliveShrinks ==
  ASSUME TypeOK, paused, [Next]_vars
  PROVE  Alive' \subseteq Alive
BY AliveBefore DEF Alive

LEMMA SweepKept ==
  ASSUME TypeOK, paused, paused', [Next]_vars, NEW t \in Requests, Sweeping(t)
  PROVE  Sweeping(t)' \/ Alive' = {}
<1>0. /\ task \in [Tasks -> Task] /\ task[t] \in Task /\ t \in Tasks
      /\ Alive' \subseteq Alive /\ Alive \subseteq task[t].todo
  BY AliveShrinks DEF TypeOK, Tasks, Sweeping
<1>1. ASSUME task'[t] = task[t] PROVE Sweeping(t)' BY <1>0, <1>1 DEF Sweeping
<1>2. ASSUME NEW a \in Agents, a \notin Alive', task' = Forgotten(a) PROVE Sweeping(t)'
  <2>1. /\ task'[t].op = task[t].op /\ task'[t].at = task[t].at
        /\ task'[t].todo = task[t].todo \ {a}
    BY <1>0, <1>2 DEF Forgotten, Task
  <2> QED BY <1>0, <1>2, <2>1 DEF Sweeping
<1>3. ASSUME NEW a \in Agents, drained(a) \/ onAgentExit(a)
      PROVE  Sweeping(t)'
  <2>1. task' = Forgotten(a) BY <1>3 DEF drained, onAgentExit
  <2>2. a \notin Alive'
    <3>1. agent'[a] = None
      BY <1>3 DEF drained, onAgentExit, TypeOK, flags
    <3> QED BY <3>1 DEF Alive, None
  <2> QED BY <1>2, <2>1, <2>2
<1>4. ASSUME NEW a \in Agents, HandOver(a) \/ heartbeatTick(a) PROVE Sweeping(t)'
  BY <1>1, <1>4 DEF HandOver, heartbeatTick
<1>5. ASSUME NEW u \in Tasks, \/ tick(u) \/ pauseAll(u) \/ resume(u)
                              \/ \E s \in Scopes : rebind(u, s)
      PROVE  Sweeping(t)'
  <2>1. task[u].at = "free" BY <1>5 DEF tick, pauseAll, resume, rebind
  <2>2. u # t BY <2>1 DEF Sweeping
  <2>3. task'[t] = task[t] BY <1>0, <1>5, <2>2 DEF tick, pauseAll, resume, rebind
  <2> QED BY <1>1, <2>3
<1>6. ASSUME NEW n, scaleUp(n) \/ \E as : scaleDown(n, as) PROVE Sweeping(t)'
  <2>1. PICK u \in {"scaleUp", "scaleDown"} :
          task[u].at = "decide" /\ \A w \in Tasks \ {u} : task'[w] = task[w]
    <3>1. CASE scaleUp(n) BY <1>0, <3>1 DEF scaleUp
    <3>2. CASE \E as : scaleDown(n, as) BY <1>0, <3>2 DEF scaleDown
    <3> QED BY <1>6, <3>1, <3>2
  <2>2. u # t BY <2>1 DEF Sweeping
  <2> QED BY <1>0, <1>1, <2>1, <2>2
<1>7. ASSUME NEW u \in Tasks, u # t, advance(u) PROVE Sweeping(t)'
  <2>1. task'[t] = task[t]
    BY <1>0, <1>7 DEF advance, drainNext, spawnNext, drainsOver, spawnsOver
  <2> QED BY <1>1, <2>1
<1>8. CASE advance(t)
  <2>1. ~ spawnsOver(t) /\ \A a \in Agents : ~ spawnNext(t, a)
    BY DEF Sweeping, spawnsOver, spawnNext
  <2>2. CASE drainsOver(t) BY <1>0, <2>2 DEF drainsOver
  <2>3. ASSUME NEW a \in Agents, drainNext(t, a) PROVE Sweeping(t)'
    <3>1. /\ task'[t].op = task[t].op /\ task'[t].at = task[t].at
          /\ task'[t].todo = task[t].todo \ {a}
      BY <1>0, <2>3 DEF drainNext, Task
    <3>2. a \notin Alive'
      <4>1. CASE a \in Alive
        <5>1. agent' = Draining({a}) BY <2>3, <4>1 DEF drainNext
        <5> QED BY <5>1 DEF Draining, Alive, None
      <4>2. CASE a \notin Alive BY <1>0, <4>2
      <4> QED BY <4>1, <4>2
    <3> QED BY <1>0, <3>1, <3>2 DEF Sweeping
  <2> QED BY <1>8, <2>1, <2>2, <2>3 DEF advance
<1>9. CASE shutdown \/ UNCHANGED vars BY <1>1, <1>9 DEF shutdown, vars
<1>10. scaleUpTick \/ scaleDownTick => Sweeping(t)'
  BY <1>5, <1>6 DEF scaleUpTick, scaleDownTick, Tasks, Timers
<1> QED BY <1>3, <1>4, <1>5, <1>7, <1>8, <1>9, <1>10 DEF Next, Tasks

(***************************************************************************)
(* A pause begins with everyone alive on its list; no other step pauses.   *)
(***************************************************************************)
LEMMA PauseBegins ==
  ASSUME TypeOK, ~ paused, paused', [Next]_vars
  PROVE  \E t \in Requests : Sweeping(t)'
<1>1. PICK t \in Requests : pauseAll(t)
  BY DEF Next, advance, drainNext, spawnNext, drainsOver, spawnsOver, resume, rebind, shutdown,
         scaleUpTick, scaleDownTick, tick, scaleUp, scaleDown, drained, onAgentExit, HandOver,
         heartbeatTick, flags, vars
<1>2. t \in Tasks /\ task \in [Tasks -> Task] BY DEF Tasks, TypeOK
<1>3. task'[t] = [Free EXCEPT !.op = "pauseAll", !.at = "drain", !.todo = Alive]
  BY <1>1, <1>2 DEF pauseAll
<1>4. task'[t].op = "pauseAll" /\ task'[t].at = "drain" /\ task'[t].todo = Alive
  BY <1>3 DEF Free
<1>5. Alive' = Alive BY <1>1 DEF pauseAll, Alive
<1> QED BY <1>4, <1>5 DEF Sweeping

LEMMA PauseStep == TypeOK /\ PauseSweeps /\ [Next]_vars => PauseSweeps'
<1> SUFFICES ASSUME TypeOK, PauseSweeps, [Next]_vars, paused'
             PROVE  Alive' = {} \/ \E t \in Requests : Sweeping(t)'
  BY DEF PauseSweeps, Sweeping
<1>1. CASE ~ paused BY <1>1, PauseBegins
<1>2. CASE paused /\ Alive = {} BY <1>2, AliveShrinks
<1>3. CASE paused /\ \E t \in Requests : Sweeping(t) BY <1>3, SweepKept
<1> QED BY <1>1, <1>2, <1>3 DEF PauseSweeps, Sweeping

-----------------------------------------------------------------------------
(***************************************************************************)
(* The invariant of the hatchery.                                          *)
(***************************************************************************)
THEOREM Invariance == Spec => []IInv
<1>1. Init => IInv
  <2> SUFFICES ASSUME Init PROVE IInv OBVIOUS
  <2>1. PICK r \in Requests : task = [[t \in Tasks |-> Free] EXCEPT
          ![r] = [Free EXCEPT !.op = "resume", !.at = "spawn", !.count = minInstances]]
    BY DEF Init
  <2>2. [Free EXCEPT !.op = "resume", !.at = "spawn", !.count = minInstances] \in Task
    BY DEF Free, Task
  <2>3. task \in [Tasks -> Task] BY <2>1, <2>2, FreeType
  <2>4. None \in Agent BY SomeScope DEF None, Agent
  <2>5. TypeOK
    <3>1. agent \in [Agents -> Agent] BY <2>4 DEF Init
    <3>2. scope \in Scopes /\ paused \in BOOLEAN /\ shuttingDown \in BOOLEAN BY DEF Init
    <3>3. crashes \in 0..MaxCrashes BY DEF Init
    <3> QED BY <2>3, <3>1, <3>2, <3>3 DEF TypeOK
  <2>6. AliveInScope BY DEF Init, AliveInScope, Alive, None
  <2> QED BY <2>5, <2>6 DEF Init, IInv, PauseSweeps
<1>2. IInv /\ [Next]_vars => IInv' BY TypeStep, ScopeStep, PauseStep DEF IInv
<1> QED BY <1>1, <1>2, PTL DEF Spec

(***************************************************************************)
(* TypeOK, and with it that no restart history outgrows maxRestarts.       *)
(***************************************************************************)
THEOREM TypeCorrect == Spec => []TypeOK
<1>1. IInv => TypeOK BY DEF IInv
<1> QED BY <1>1, Invariance, PTL

(***************************************************************************)
(* AliveInScope: spawnAgent and onAgentExit take the scope of the moment,  *)
(* and rebindActiveScope drains whoever has another one.                   *)
(***************************************************************************)
THEOREM NobodyInOldScope == Spec => []AliveInScope
<1>1. IInv => AliveInScope BY DEF IInv
<1> QED BY <1>1, Invariance, PTL

(***************************************************************************)
(* PausedIsQuiet: pauseAll takes one list of the agents alive, and it is   *)
(* enough, since spawnAgent refuses from the moment the flag is set.       *)
(***************************************************************************)
THEOREM PauseIsQuiet == Spec => []PausedIsQuiet
<1>1. IInv => PausedIsQuiet BY DEF IInv, PauseSweeps, PausedIsQuiet
<1> QED BY <1>1, Invariance, PTL
=============================================================================
