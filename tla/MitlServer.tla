----------------------------- MODULE MitlServer -----------------------------
(***************************************************************************)
(* The human-in-the-loop queue: the table mitl_pending, the governance     *)
(* agent and the finality checks that fill it, the HTTP requests of        *)
(* reviewers that empty it (src/mitlServer.ts), and the watchdog's latch   *)
(* (src/watchdog.ts).                                                      *)
(*                                                                         *)
(* A request reads the item, publishes the answer and deletes the item, in *)
(* three steps; a finality check asks whether a review is pending, awaits  *)
(* an explanation from a language model and inserts the review.  Requests, *)
(* checks and redelivered proposals interleave, and the server may die     *)
(* between any two steps.                                                  *)
(*                                                                         *)
(* Abstracted: bearer tokens, HTTP routing, the text of a review.          *)
(* "option" is any answer to a review, whose effect is for the finality    *)
(* consumer to decide.  Bounds: MaxAdvances, MaxReviews items of a scope.  *)
(***************************************************************************)
EXTENDS Integers, FiniteSets

CONSTANTS
  Scopes,
  Prefixes,         \* <<s, t>>: "finality-s-" begins every review id of scope t
  Reviewers,        \* HTTP requests in flight
  Producers,        \* finality checks in flight
  Watchdog,         \* the one of them that is the watchdog's timer
  MaxAdvances,      \* bound: proposals of a scope that are ever parked
  MaxReviews        \* bound: reviews of a scope

ASSUME PrefixAssumption ==
  Prefixes \subseteq Scopes \X Scopes /\ \A s \in Scopes : <<s, s>> \in Prefixes
ASSUME BoundAssumption == MaxAdvances \in Nat /\ MaxReviews \in Nat

Item == [kind : {"advance"}, scope : Scopes, n : 1..MaxAdvances]
          \cup [kind : {"review"}, scope : Scopes, n : 1..MaxReviews]
Answers == {"approve", "reject", "option"}

NoItem == [kind |-> "none"]

VARIABLES
  pending,          \* the rows of mitl_pending
  answered,         \* answers published, as <<item, answer>>
  req,              \* each request: where it is, its item and its answer
  prod,             \* each finality check: where it is and its scope
  hitlTriggered     \* the watchdog's latch

vars == <<pending, answered, req, prod, hitlTriggered>>

IdleReq  == [at |-> "idle", item |-> NoItem, answer |-> "approve"]
IdleProd == [at |-> "idle", scope |-> "none"]

Init ==
  /\ pending = {}
  /\ answered = {}
  /\ req = [r \in Reviewers |-> IdleReq]
  /\ prod = [p \in Producers |-> IdleProd]
  /\ hitlTriggered = FALSE

-----------------------------------------------------------------------------
(***************************************************************************)
(* The governance agent parks a proposal.  The upsert makes a redelivered  *)
(* proposal pending again, answered or not.                                *)
(***************************************************************************)
addPending(i) ==
  /\ i.kind = "advance"
  /\ pending' = pending \cup {i}
  /\ UNCHANGED <<answered, req, prod, hitlTriggered>>

(***************************************************************************)
(* getPendingItem and the tests on it.  A review is not to be approved as  *)
(* a transition, nor a transition answered as a review; either may be      *)
(* rejected.                                                               *)
(***************************************************************************)
Fits(i, a) ==
  \/ a = "approve" /\ i.kind = "advance"
  \/ a = "reject"
  \/ a = "option" /\ i.kind = "review"

\* Mutant: a review is approved as a transition would be.
Open_AnyAnswer(r, i, a) ==
  /\ req[r].at = "idle"
  /\ i \in pending
  /\ req' = [req EXCEPT ![r] = [at |-> "got", item |-> i, answer |-> a]]
  /\ UNCHANGED <<pending, answered, prod, hitlTriggered>>

Open(r, i, a) ==
  /\ req[r].at = "idle"
  /\ i \in pending
  /\ Fits(i, a)
  /\ req' = [req EXCEPT ![r] = [at |-> "got", item |-> i, answer |-> a]]
  /\ UNCHANGED <<pending, answered, prod, hitlTriggered>>

\* Mutant: the item is deleted first and the answer published after.
Publish_RemoveFirst(r) ==
  /\ req[r].at = "got"
  /\ pending' = pending \ {req[r].item}
  /\ req' = [req EXCEPT ![r].at = "published"]
  /\ UNCHANGED <<answered, prod, hitlTriggered>>

Publish(r) ==
  /\ req[r].at = "got"
  /\ answered' = answered \cup {<<req[r].item, req[r].answer>>}
  /\ req' = [req EXCEPT ![r].at = "published"]
  /\ UNCHANGED <<pending, prod, hitlTriggered>>

removePending(r) ==
  /\ req[r].at = "published"
  /\ pending' = pending \ {req[r].item}
  /\ req' = [req EXCEPT ![r] = IdleReq]
  /\ UNCHANGED <<answered, prod, hitlTriggered>>

(***************************************************************************)
(* The publish or the delete throws, or the server dies.                   *)
(***************************************************************************)
Abandon(r) ==
  /\ req[r].at # "idle"
  /\ req' = [req EXCEPT ![r] = IdleReq]
  /\ UNCHANGED <<pending, answered, prod, hitlTriggered>>

-----------------------------------------------------------------------------
(***************************************************************************)
(* proposal_id LIKE 'finality-<scope>-%'.                                  *)
(***************************************************************************)
hasPendingFinalityReviewForScope(s) ==
  \E i \in pending : i.kind = "review" /\ <<s, i.scope>> \in Prefixes

(***************************************************************************)
(* The scope is in the near-finality band: the finality consumer begins to *)
(* submit a review, and so does the watchdog unless its latch is set.      *)
(***************************************************************************)
Evaluate(p, s) ==
  /\ prod[p].at = "idle"
  /\ p = Watchdog => ~ hitlTriggered
  /\ prod' = [prod EXCEPT ![p] = [at |-> "review", scope |-> s]]
  /\ UNCHANGED <<pending, answered, req, hitlTriggered>>

Latch(p) == hitlTriggered' = (hitlTriggered \/ p = Watchdog)

Check(p) ==
  /\ prod[p].at = "review"
  /\ ~ hasPendingFinalityReviewForScope(prod[p].scope)
  /\ prod' = [prod EXCEPT ![p].at = "explaining"]
  /\ UNCHANGED <<pending, answered, req, hitlTriggered>>

AlreadyPending(p) ==
  /\ prod[p].at = "review"
  /\ hasPendingFinalityReviewForScope(prod[p].scope)
  /\ prod' = [prod EXCEPT ![p] = IdleProd]
  /\ Latch(p)
  /\ UNCHANGED <<pending, answered, req>>

(***************************************************************************)
(* The explanation arrived; the review gets an id of its own.              *)
(***************************************************************************)
Submit(p, i) ==
  /\ prod[p].at = "explaining"
  /\ i.kind = "review" /\ i.scope = prod[p].scope
  /\ i \notin pending /\ \A a \in Answers : <<i, a>> \notin answered
  /\ pending' = pending \cup {i}
  /\ prod' = [prod EXCEPT ![p] = IdleProd]
  /\ Latch(p)
  /\ UNCHANGED <<answered, req>>

GiveUp(p) ==
  /\ prod[p].at # "idle"
  /\ prod' = [prod EXCEPT ![p] = IdleProd]
  /\ UNCHANGED <<pending, answered, req, hitlTriggered>>

\* Mutant: the latch is released only for a scope with a review.
Rearm_WhilePending(s) ==
  /\ hitlTriggered
  /\ hasPendingFinalityReviewForScope(s)
  /\ hitlTriggered' = FALSE
  /\ UNCHANGED <<pending, answered, req, prod>>

(***************************************************************************)
(* A tick of the timer finds the review answered and re-arms the watchdog. *)
(***************************************************************************)
Rearm(s) ==
  /\ hitlTriggered
  /\ ~ hasPendingFinalityReviewForScope(s)
  /\ hitlTriggered' = FALSE
  /\ UNCHANGED <<pending, answered, req, prod>>

-----------------------------------------------------------------------------
request(r) ==
  \/ Publish(r) \/ removePending(r)
  \/ \E i \in Item, a \in Answers : Open(r, i, a)

check(p) == Check(p) \/ AlreadyPending(p) \/ \E i \in Item : Submit(p, i)

Next ==
  \/ \E i \in Item : addPending(i)
  \/ \E r \in Reviewers : request(r) \/ Abandon(r)
  \/ \E p \in Producers : check(p) \/ GiveUp(p) \/ \E s \in Scopes : Evaluate(p, s)
  \/ \E s \in Scopes : Rearm(s)

Spec == Init /\ [][Next]_vars

(***************************************************************************)
(* The timer ticks, and a request or a check that does not fail goes on.   *)
(* Nobody has to look at the queue.                                        *)
(***************************************************************************)
Fairness ==
  /\ \A s \in Scopes : WF_vars(Rearm(s))
  /\ \A r \in Reviewers : WF_vars(Publish(r) \/ removePending(r))
  /\ \A p \in Producers : WF_vars(check(p))

FairSpec == Spec /\ Fairness

-----------------------------------------------------------------------------
TypeOK ==
  /\ pending \subseteq Item
  /\ answered \subseteq Item \X Answers
  /\ \A r \in Reviewers :
       \/ req[r] = IdleReq
       \/ /\ req[r].at \in {"got", "published"} /\ req[r].item \in Item
          /\ Fits(req[r].item, req[r].answer)
  /\ \A p \in Producers :
       prod[p] = IdleProd \/ (prod[p].at \in {"review", "explaining"} /\ prod[p].scope \in Scopes)
  /\ hitlTriggered \in BOOLEAN

(***************************************************************************)
(* No answer is lost: an item leaves the queue only when an answer to it   *)
(* has been published, whoever dies, and whichever request removes it.     *)
(***************************************************************************)
NoAnswerLost ==
  [][\A i \in pending : i \notin pending' => \E a \in Answers : <<i, a>> \in answered]_vars

(***************************************************************************)
(* "avoids duplicate HITL entries" (src/mitlServer.ts:108), "Idempotent per*)
(* scope" (src/finality/hitlRequest.ts:144): a scope never has two reviews *)
(* pending.                                                                *)
(***************************************************************************)
OneReviewPerScope ==
  \A i, j \in pending : i.kind = "review" /\ j.kind = "review" /\ i.scope = j.scope => i = j

(***************************************************************************)
(* The watchdog does not stay silent once the review that silenced it is   *)
(* gone, by an answer, a rejection or otherwise.                           *)
(***************************************************************************)
WatchdogRearms ==
  \A s \in Scopes :
    hitlTriggered ~> (~ hitlTriggered \/ hasPendingFinalityReviewForScope(s))
=============================================================================
