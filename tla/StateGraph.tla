----------------------------- MODULE StateGraph -----------------------------
(***************************************************************************)
(* src/stateGraph.ts: the state graph of one scope, a row of the Postgres  *)
(* table swarm_state that any number of processes move with                *)
(* compare-and-swap on its epoch.                                          *)
(*                                                                         *)
(* A call of advanceState is three database round trips.  It reads the     *)
(* row and decides (Load); in a transaction it updates the row where the   *)
(* epoch still is the expected one, which takes the row lock (Update); it  *)
(* inserts the audit event and commits (Commit), or the insert fails and   *)
(* both are undone (Rollback).  Other processes run between them: other    *)
(* callers, resetStateTo of a booting swarm, the scope reset, and crashes, *)
(* which drop the connection and so undo the open transaction.             *)
(*                                                                         *)
(* Abstracted: updated_at, the schema check, the reasons of a refusal.     *)
(* Bounds (guards only): MaxEpoch, MaxRun.                                 *)
(***************************************************************************)
EXTENDS Governance, Sequences, FiniteSets

CONSTANTS
  Callers,          \* processes that may call advanceState
  Rules,            \* the transition rules of the scope's governance
  Drifts,           \* the drift levels that callers are given
  ResetNodes,       \* nodes resetStateTo is given: the head of the cycle (src/swarm.ts:108)
  MaxEpoch,         \* bound: no epoch beyond this one
  MaxRun,           \* bound: no more run ids than this
  NoRow,            \* the scope has no row
  Nobody            \* nobody holds the row lock

ASSUME BoundsAssumption == MaxEpoch \in Nat /\ MaxRun \in Nat
ASSUME RulesAssumption  == Rules \subseteq TransitionRule
ASSUME DriftAssumption  == Drifts \subseteq DriftLevels
ASSUME ResetAssumption  == ResetNodes \subseteq {"ContextIngested"}
ASSUME NobodyAssumption == Nobody \notin Callers
ASSUME NoRowAssumption  == NoRow \notin [run : Nat, node : Nodes, epoch : Nat]

VARIABLES
  row,              \* the committed row, or NoRow
  lock,             \* the caller whose transaction holds the row lock
  audit,            \* committed state_transition events, oldest first
  runs,             \* run ids handed out so far
  call              \* each caller's call in progress

vars == <<row, lock, audit, runs, call>>

GraphState == [run : Nat, node : Nodes, epoch : Nat]
AuditEvent == [from : Nodes, to : Nodes, epoch : Nat \ {0}, run : Nat]

(***************************************************************************)
(* A call: the epoch it expects, the drift it was given together with the  *)
(* governance, "unchecked" for a human override, which passes neither, and *)
(* the row it loaded.                                                      *)
(***************************************************************************)
Steps == {"idle", "called", "decided", "updated"}
Call  == [at : Steps, expected : Nat, drift : Drifts \cup {"unchecked"},
          current : GraphState]

Idle == [at |-> "idle", expected |-> 0, drift |-> "unchecked",
         current |-> [run |-> 0, node |-> "ContextIngested", epoch |-> 0]]

Return(c) == call' = [call EXCEPT ![c] = Idle]

-----------------------------------------------------------------------------
Init ==
  /\ row = NoRow
  /\ lock = Nobody
  /\ audit = <<>>
  /\ runs = 0
  /\ call = [c \in Callers |-> Idle]

(***************************************************************************)
(* Some caller asks for an advance from the epoch its proposal named.      *)
(* Proposals outlive the state they were made in, so any epoch may come.   *)
(***************************************************************************)
Ask(c, e, d) ==
  /\ call[c].at = "idle"
  /\ call' = [call EXCEPT ![c] = [Idle EXCEPT !.at = "called", !.expected = e,
                                              !.drift = d]]
  /\ UNCHANGED <<row, lock, audit, runs>>

Matches(e) == row # NoRow /\ row.epoch = e

Permits(node, d) ==
  d = "unchecked" \/ can_transition(node, transitions[node], d, Rules)

\* Mutant: the governance test is forgotten.
Load_Ungoverned(c) ==
  /\ call[c].at = "called"
  /\ Matches(call[c].expected)
  /\ call' = [call EXCEPT ![c].at = "decided", ![c].current = row]
  /\ UNCHANGED <<row, lock, audit, runs>>

(***************************************************************************)
(* loadState, the epoch test and the governance test.  A reader never      *)
(* waits for the row lock: it sees the committed row.                      *)
(***************************************************************************)
Load(c) ==
  /\ call[c].at = "called"
  /\ Matches(call[c].expected)
  /\ Permits(row.node, call[c].drift)
  /\ call' = [call EXCEPT ![c].at = "decided", ![c].current = row]
  /\ UNCHANGED <<row, lock, audit, runs>>

RefuseLoad(c) ==
  /\ call[c].at = "called"
  /\ ~ (Matches(call[c].expected) /\ Permits(row.node, call[c].drift))
  /\ Return(c)
  /\ UNCHANGED <<row, lock, audit, runs>>

\* Mutant: UPDATE ... WHERE scope_id = $3, without the epoch.
Update_ScopeOnly(c) ==
  /\ call[c].at = "decided"
  /\ lock = Nobody
  /\ row # NoRow
  /\ lock' = c
  /\ call' = [call EXCEPT ![c].at = "updated"]
  /\ UNCHANGED <<row, audit, runs>>

(***************************************************************************)
(* UPDATE ... WHERE scope_id = $3 AND epoch = $4.  It waits for the row    *)
(* lock and evaluates the condition on the row as committed then.          *)
(***************************************************************************)
Update(c) ==
  /\ call[c].at = "decided"
  /\ lock = Nobody
  /\ Matches(call[c].expected)
  /\ lock' = c
  /\ call' = [call EXCEPT ![c].at = "updated"]
  /\ UNCHANGED <<row, audit, runs>>

LoseRace(c) ==
  /\ call[c].at = "decided"
  /\ lock = Nobody
  /\ ~ Matches(call[c].expected)
  /\ Return(c)
  /\ UNCHANGED <<row, lock, audit, runs>>

(***************************************************************************)
(* The audit event goes in and both become visible.  `to' was computed     *)
(* from the row that was loaded; run_id is the updated row's own.          *)
(***************************************************************************)
Commit(c) ==
  LET from == call[c].current.node
      to   == transitions[from]
      new  == call[c].expected + 1
  IN  /\ call[c].at = "updated"
      /\ row' = [row EXCEPT !.node = to, !.epoch = new]
      /\ audit' = Append(audit, [from |-> from, to |-> to,
                                 epoch |-> new, run |-> row.run])
      /\ lock' = Nobody
      /\ Return(c)
      /\ UNCHANGED runs

\* Mutant: two autocommitted statements, so the UPDATE survives the failed INSERT.
Rollback_KeepsUpdate(c) ==
  /\ call[c].at = "updated"
  /\ row' = [row EXCEPT !.node = transitions[call[c].current.node], !.epoch = @ + 1]
  /\ lock' = Nobody
  /\ Return(c)
  /\ UNCHANGED <<audit, runs>>

\* Mutant: a failed transaction is neither committed nor rolled back.
Rollback_KeepsLock(c) ==
  /\ call[c].at = "updated"
  /\ Return(c)
  /\ UNCHANGED <<row, lock, audit, runs>>

(***************************************************************************)
(* The insert fails: runInTransaction rolls back and the call throws.      *)
(***************************************************************************)
Rollback(c) ==
  /\ call[c].at = "updated"
  /\ lock' = Nobody
  /\ Return(c)
  /\ UNCHANGED <<row, audit, runs>>

(***************************************************************************)
(* The caller's process dies; the server undoes its open transaction.      *)
(***************************************************************************)
Crash(c) ==
  /\ call[c].at # "idle"
  /\ lock' = IF lock = c THEN Nobody ELSE lock
  /\ Return(c)
  /\ UNCHANGED <<row, audit, runs>>

-----------------------------------------------------------------------------
FreshAt(n) == [run |-> runs + 1, node |-> n, epoch |-> 0]

(***************************************************************************)
(* initState of a starting process: INSERT ... ON CONFLICT DO NOTHING.     *)
(***************************************************************************)
initState ==
  /\ row = NoRow
  /\ runs < MaxRun
  /\ row' = FreshAt("ContextIngested")
  /\ runs' = runs + 1
  /\ UNCHANGED <<lock, audit, call>>

\* Mutant: a new run that keeps counting from the old epoch.
resetStateTo_KeepsEpoch(n) ==
  /\ row # NoRow
  /\ lock = Nobody
  /\ runs < MaxRun
  /\ row' = [FreshAt(n) EXCEPT !.epoch = row.epoch]
  /\ runs' = runs + 1
  /\ UNCHANGED <<lock, audit, call>>

\* Mutant: the reset writes over a row that a transaction has locked.
resetStateTo_IgnoresLock(n) ==
  /\ row # NoRow
  /\ runs < MaxRun
  /\ row' = FreshAt(n)
  /\ runs' = runs + 1
  /\ UNCHANGED <<lock, audit, call>>

(***************************************************************************)
(* resetStateTo: an UPDATE by scope alone, whatever the epoch.  It waits   *)
(* for the row lock; without a row it changes nothing.                     *)
(***************************************************************************)
resetStateTo(n) ==
  /\ row # NoRow
  /\ lock = Nobody
  /\ runs < MaxRun
  /\ row' = FreshAt(n)
  /\ runs' = runs + 1
  /\ UNCHANGED <<lock, audit, call>>

(***************************************************************************)
(* src/scopeReset.ts.  resetScopeData deletes the row, and later           *)
(* resetScopeAndReinit upserts a new one.  state_transition events carry   *)
(* no scope_id, so its DELETE FROM context_events leaves the audit alone.  *)
(***************************************************************************)
resetScopeData ==
  /\ row # NoRow
  /\ lock = Nobody
  /\ row' = NoRow
  /\ UNCHANGED <<lock, audit, runs, call>>

reinitRow ==
  /\ lock = Nobody
  /\ runs < MaxRun
  /\ row' = FreshAt("ContextIngested")
  /\ runs' = runs + 1
  /\ UNCHANGED <<lock, audit, call>>

-----------------------------------------------------------------------------
advanceState(c) ==
  \/ Load(c) \/ RefuseLoad(c)
  \/ Update(c) \/ LoseRace(c)
  \/ Commit(c) \/ Rollback(c)

Next ==
  \/ \E c \in Callers, e \in 0..(MaxEpoch - 1), d \in Drifts \cup {"unchecked"} :
        Ask(c, e, d)
  \/ \E c \in Callers : advanceState(c) \/ Crash(c)
  \/ initState
  \/ \E n \in ResetNodes : resetStateTo(n)
  \/ resetScopeData
  \/ reinitRow

Spec == Init /\ [][Next]_vars

(***************************************************************************)
(* A process that does not die finishes the round trips it began, and the  *)
(* row lock is granted in the order it was asked for, so nobody is passed  *)
(* over for ever.  Nothing obliges anybody to call, reset or crash.        *)
(***************************************************************************)
Fairness == \A c \in Callers : SF_vars(advanceState(c))

FairSpec == Spec /\ Fairness

-----------------------------------------------------------------------------
(***************************************************************************)
(* Every variable has its type, and the row lock belongs to the caller     *)
(* between its UPDATE and its COMMIT, or to nobody.                        *)
(***************************************************************************)
TypeOK ==
  /\ row \in GraphState \cup {NoRow}
  /\ lock \in Callers \cup {Nobody}
  /\ audit \in Seq(AuditEvent)
  /\ runs \in Nat
  /\ call \in [Callers -> Call]

(***************************************************************************)
(* The compare-and-swap compares epochs, never nodes or run ids, and a     *)
(* reset brings old epochs back.  It is sound because the epoch alone      *)
(* tells where the scope stands: a caller that decided on a row of a       *)
(* former run writes what a caller of the present run would write.         *)
(***************************************************************************)
EpochTellsNode == row # NoRow => row.node = NodeAt(row.epoch)

(***************************************************************************)
(* "This prevents two agents from advancing the same transition"           *)
(* (docs/architecture.md:155): within one run no epoch is committed twice. *)
(***************************************************************************)
OneAdvancePerEpoch ==
  \A i, j \in 1..Len(audit) :
    audit[i].run = audit[j].run /\ audit[i].epoch = audit[j].epoch => i = j

(***************************************************************************)
(* State and audit event commit together or not at all: the audit log      *)
(* holds every epoch of the current run up to the row's, and none beyond.  *)
(***************************************************************************)
EpochsLogged(r) == {audit[i].epoch : i \in {k \in 1..Len(audit) : audit[k].run = r}}
AuditMatchesRow == row # NoRow => EpochsLogged(row.run) = 1..row.epoch

(***************************************************************************)
(* The governance test is made on the row that was loaded, before the      *)
(* transaction.  The edge that is finally crossed is still one the rules   *)
(* permit at the drift the caller was given.                               *)
(***************************************************************************)
GovernedMovesPermitted ==
  [][\A c \in Callers : lock = c /\ audit' # audit
        => Permits(row.node, call[c].drift)]_vars

(***************************************************************************)
(* Interleaved calls, resets, rollbacks and crashes look like one atomic   *)
(* cell that steps, restarts or is wiped.                                  *)
(***************************************************************************)
Cell == INSTANCE PhaseCycle WITH row <- row, audit <- audit, runs <- runs, NoRow <- NoRow
CellSpec == Cell!Spec

(***************************************************************************)
(* Whoever asks for an advance gets an answer, whatever the others do with *)
(* the row lock, and even if they die holding it.                          *)
(***************************************************************************)
EveryCallReturns == \A c \in Callers : call[c].at = "called" ~> call[c].at = "idle"

-----------------------------------------------------------------------------
(***************************************************************************)
(* The inductive invariant behind the safety properties.  What a caller    *)
(* loaded may be of a former run, but its node is the one of the expected  *)
(* epoch; the lock holder's row cannot move; no event of the current run   *)
(* is ahead of the row; run ids are never handed out twice.                *)
(***************************************************************************)
LoadedNodes ==
  \A c \in Callers : call[c].at \in {"decided", "updated"} =>
    /\ call[c].current.node = NodeAt(call[c].expected)
    /\ Permits(call[c].current.node, call[c].drift)
LockHeld ==
  \A c \in Callers : call[c].at = "updated" <=> lock = c
LockedRow ==
  \A c \in Callers : lock = c => Matches(call[c].expected)
RunsCounted ==
  /\ row # NoRow => row.run <= runs
  /\ \A i \in 1..Len(audit) : audit[i].run <= runs

IInv ==
  /\ TypeOK
  /\ EpochTellsNode
  /\ LoadedNodes
  /\ LockHeld
  /\ LockedRow
  /\ RunsCounted
  /\ AuditMatchesRow
  /\ OneAdvancePerEpoch
=============================================================================
