--------------------------- MODULE CircuitBreaker ---------------------------
(***************************************************************************)
(* src/resilience.ts: the circuit breaker in front of the language models. *)
(* One breaker serves every call of its process.  A call decides at once   *)
(* whether it may run, and then awaits the model; other calls begin, and   *)
(* old ones return, in between.                                            *)
(*                                                                         *)
(* Time is counted in ticks; openFor is what is left of openUntil.  The    *)
(* model may fail at any call while it is ill, and answers while it is     *)
(* well.  The history variable burst counts the attempts begun since the   *)
(* last success or half-opening.  The names of the specification's parts   *)
(* leave room for another component beside it in a module of proofs.       *)
(***************************************************************************)
EXTENDS Integers, FiniteSets

CONSTANTS
  Callers,          \* calls that may be in flight together
  Threshold,        \* failures that open the circuit
  Cooldown          \* ticks it stays open

ASSUME CallersAssumption   == IsFiniteSet(Callers)
ASSUME ThresholdAssumption == Threshold \in Nat \ {0} /\ Cooldown \in Nat \ {0}

VARIABLES failures, openFor, call, well, burst

breaker == <<failures, openFor, call, well, burst>>

Running == {c \in Callers : call[c] = "running"}

BreakerInit ==
  /\ failures = 0
  /\ openFor = 0
  /\ call = [c \in Callers |-> "idle"]
  /\ well \in BOOLEAN
  /\ burst = 0

Open     == failures >= Threshold /\ openFor > 0
HalfOpen == failures >= Threshold /\ openFor = 0

\* Mutant: the failures are not reset when the cooldown is over.
Begin_KeepsFailures(c) ==
  /\ call[c] = "idle"
  /\ ~ Open
  /\ burst' = burst + 1
  /\ call' = [call EXCEPT ![c] = "running"]
  /\ UNCHANGED <<failures, openFor, well>>

\* Mutant: the circuit never half-opens.
Begin_StaysOpen(c) ==
  /\ call[c] = "idle"
  /\ failures < Threshold
  /\ burst' = burst + 1
  /\ call' = [call EXCEPT ![c] = "running"]
  /\ UNCHANGED <<failures, openFor, well>>

(***************************************************************************)
(* A call passes the breaker.  After the cooldown it half-opens it, which  *)
(* forgets the failures.                                                   *)
(***************************************************************************)
Begin(c) ==
  /\ call[c] = "idle"
  /\ ~ Open
  /\ failures' = IF HalfOpen THEN 0 ELSE failures
  /\ burst' = IF HalfOpen THEN 1 ELSE burst + 1
  /\ call' = [call EXCEPT ![c] = "running"]
  /\ UNCHANGED <<openFor, well>>

(***************************************************************************)
(* The awaited call returns a result or throws.                            *)
(***************************************************************************)
Succeed(c) ==
  /\ call[c] = "running"
  /\ failures' = 0
  /\ call' = [call EXCEPT ![c] = "idle"]
  /\ burst' = Cardinality(Running \ {c})
  /\ UNCHANGED <<openFor, well>>

Fail(c) ==
  /\ call[c] = "running"
  /\ ~ well
  /\ failures' = failures + 1
  /\ openFor' = IF failures + 1 >= Threshold THEN Cooldown ELSE openFor
  /\ call' = [call EXCEPT ![c] = "idle"]
  /\ UNCHANGED <<well, burst>>

Tick == openFor > 0 /\ openFor' = openFor - 1 /\ UNCHANGED <<failures, call, well, burst>>

Recover == ~ well /\ well' = TRUE  /\ UNCHANGED <<failures, openFor, call, burst>>
Sicken  == well   /\ well' = FALSE /\ UNCHANGED <<failures, openFor, call, burst>>

Return(c) == Succeed(c) \/ Fail(c)

BreakerNext ==
  \/ \E c \in Callers : Begin(c) \/ Return(c)
  \/ Tick \/ Recover \/ Sicken

BreakerSpec == BreakerInit /\ [][BreakerNext]_breaker

(***************************************************************************)
(* Time passes, calls return (each has a timeout of its own), and the      *)
(* agents keep calling.                                                    *)
(***************************************************************************)
BreakerFairness ==
  /\ WF_breaker(Tick)
  /\ \A c \in Callers : WF_breaker(Return(c)) /\ SF_breaker(Begin(c))

FairBreaker == BreakerSpec /\ BreakerFairness

-----------------------------------------------------------------------------
(***************************************************************************)
(* Types.                                                                  *)
(***************************************************************************)
BreakerTypeOK ==
  /\ failures \in Nat
  /\ openFor \in 0..Cooldown
  /\ call \in [Callers -> {"idle", "running"}]
  /\ well \in BOOLEAN
  /\ burst \in Nat

(***************************************************************************)
(* "prevents cascading load" (src/resilience.ts:5): while the model keeps  *)
(* failing, at most Threshold + Callers - 1 attempts reach it between two  *)
(* cooldowns, although calls pass the breaker while others are in flight.  *)
(***************************************************************************)
LoadBounded == burst < Threshold + Cardinality(Callers)

(***************************************************************************)
(* The attempts that count have failed or are still in flight.             *)
(***************************************************************************)
Accounted == burst <= failures + Cardinality(Running)

BreakerInv == BreakerTypeOK /\ Accounted /\ LoadBounded

(***************************************************************************)
(* Once the model is well again the breaker closes and stays closed.       *)
(***************************************************************************)
ClosesWhenWell == <>[]well => <>[](failures < Threshold)
=============================================================================
