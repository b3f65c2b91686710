---------------------------- MODULE SemanticGraph ---------------------------
(***************************************************************************)
(* Claims, goals and contradictions of one scope in the tables `nodes' and *)
(* `edges': extractions are synchronised into them                         *)
(* (src/factsToSemanticGraph.ts), people and agents resolve contradictions *)
(* (src/resolutionService.ts), goals are evaluated and missing nodes are   *)
(* backfilled (src/semantic-graph).                                        *)
(*                                                                         *)
(* A synchronisation is one transaction at READ COMMITTED: its queries see *)
(* what is committed at their time, its writes are seen when it commits.   *)
(* An UPDATE holds its row until then, so that applying all writes to the  *)
(* rows of the moment of the commit is what the database does.  All else   *)
(* is committed statement by statement.                                    *)
(*                                                                         *)
(* Texts are what the matching tells apart: a claim or a goal is a value,  *)
(* and wordings of contradictions are related by two constant relations.   *)
(* Rows of one text are in the order of their creation; of the wordings of *)
(* one text an extraction keeps one.  Left out: risks, documents,          *)
(* provenance, valid times, equivalence proposals, the LIMITs, which the   *)
(* bounds do not reach, and embeddings, which only make more be skipped.   *)
(***************************************************************************)
EXTENDS Naturals, Sequences, FiniteSets, Functions

CONSTANTS
  Claims, Goals, Wordings,
  Resembles,        \* wordings taken for one text: matchExistingNode, pair key
  Alike,            \* one resolves the other: overlap of words, pair key
  Links,            \* the claims a wording is about, two at most
  Extractions,      \* [claims, goals, contradictions, confidence]
  MinConfidence,    \* MIN_CLAIM_CONFIDENCE
  Syncers, Resolvers, Evaluators,
  MaxRows,          \* bound: rows of one text
  MaxSyncs          \* bound: extractions synchronised

ASSUME RelationsAssumption ==
  /\ Resembles \subseteq Wordings \X Wordings
  /\ Alike \subseteq Wordings \X Wordings
  /\ \A w \in Wordings : <<w, w>> \in Resembles
  /\ \A v, w \in Wordings : <<v, w>> \in Alike => <<w, v>> \in Alike
  /\ \A w \in Wordings : Links[w] \in Seq(Claims) /\ Len(Links[w]) <= 2
\* What is taken for a text is also resolved with it.
ASSUME ResemblesAssumption == Resembles \subseteq Alike
ASSUME ExtractionsAssumption ==
  /\ Extractions \subseteq [claims : SUBSET Claims, goals : SUBSET Goals,
                            contradictions : SUBSET Wordings, confidence : Nat]
  /\ \A x \in Extractions, u \in Wordings : \A v, w \in x.contradictions :
        <<v, u>> \in Resembles /\ <<w, u>> \in Resembles => v = w
  /\ MinConfidence \in Nat /\ MaxRows \in Nat /\ MaxSyncs \in Nat

VARIABLES
  claims, goals, contras,   \* per text, its rows
  settled,                  \* targets of `resolves' edges
  sync,                     \* what each synchronisation has read
  resolver,                 \* where each resolution is
  evaluation,               \* the goals each evaluation has read
  syncs,                    \* extractions synchronised, for the bound
  cascaded, unseen          \* ghosts: resolutions complete with their cascade;
                            \* rows whose synchronisation had looked too early

graph  == <<claims, goals, contras, settled>>
ghosts == <<cascaded, unseen>>
vars   == <<graph, sync, resolver, evaluation, syncs, ghosts>>

Statuses == {"active", "in_progress", "resolved"}
Ids      == UNION {{<<w, i>> : i \in DOMAIN contras[w]} : w \in Wordings}
NoId     == <<>>
At(t, k) == t[k[1]][k[2]]
Resolved(t) == {w \in Wordings : \E i \in DOMAIN t[w] : t[w][i].status = "resolved"}

NoExtraction == [claims |-> {}, goals |-> {}, contradictions |-> {}, confidence |-> 0]
Empty(texts) == [t \in texts |-> <<>>]
Idle == [at |-> "idle", facts |-> NoExtraction, alone |-> TRUE, resolved |-> {},
         claims |-> Empty(Claims), twin |-> [c \in Claims |-> 0],
         goals |-> Empty(Goals), contras |-> Empty(Wordings), missed |-> {}]
NoResolution == [at |-> "idle", id |-> NoId, sides |-> <<>>, list |-> {}]

Init ==
  /\ claims = Empty(Claims) /\ goals = Empty(Goals) /\ contras = Empty(Wordings)
  /\ settled = {}
  /\ sync = [s \in Syncers |-> Idle]
  /\ resolver = [r \in Resolvers |-> NoResolution]
  /\ evaluation = [e \in Evaluators |-> {}]
  /\ syncs = 0 /\ cascaded = {} /\ unseen = {}

-----------------------------------------------------------------------------
(***************************************************************************)
(* syncFactsToSemanticGraph: claims and goals, then contradictions, then   *)
(* resolved contradictions are read.  Before the second, a claim that was  *)
(* said and not found is looked for once more, among the active ones.      *)
(***************************************************************************)
Begin(s, facts) ==
  /\ sync[s].at = "idle"
  /\ syncs < MaxSyncs /\ syncs' = syncs + 1
  /\ sync' = [sync EXCEPT ![s] = [Idle EXCEPT !.at = "claims", !.facts = facts,
                                              !.claims = claims, !.goals = goals]]
  /\ UNCHANGED <<graph, resolver, evaluation, ghosts>>

Confident(y) == y.facts.confidence >= MinConfidence
Said(y)      == IF Confident(y) THEN y.facts.claims ELSE {}

Twins(y, c) == IF c \in Said(y) /\ y.claims[c] = <<>>
                 THEN {i \in DOMAIN claims[c] : claims[c][i].active} ELSE {}

ReadContradictions(s) ==
  /\ sync[s].at = "claims"
  /\ \E twin \in [Claims -> 0..MaxRows] :
       /\ \A c \in Claims : LET found == Twins(sync[s], c)
                            IN twin[c] \in IF found = {} THEN {0} ELSE found
       /\ sync' = [sync EXCEPT ![s].at = "contras", ![s].contras = contras,
                               ![s].twin = twin]
  /\ UNCHANGED <<graph, resolver, evaluation, syncs, ghosts>>

ReadResolved(s) ==
  /\ sync[s].at = "contras"
  /\ sync' = [sync EXCEPT ![s].at = "resolved", ![s].resolved = Resolved(contras)]
  /\ UNCHANGED <<graph, resolver, evaluation, syncs, ghosts>>

Greater(n, row) == IF n >= row.confidence THEN n ELSE row.confidence

\* Mutant: the confidence read before is compared, not the one stored.
Confidence_Unguarded(y, c, i) ==
  LET read == IF i \in DOMAIN y.claims[c] THEN y.claims[c][i] ELSE claims[c][i]
  IN IF y.facts.confidence >= read.confidence THEN y.facts.confidence
     ELSE claims[c][i].confidence

\* updateNodeConfidence: only upward, checked where the row is stored.
Confidence(y, c, i) == Greater(y.facts.confidence, claims[c][i])

\* Mutant: every row of a claim that was said stays.
ClaimRows_TwinsStay(y, c) ==
  LET read == y.claims[c]
      said == c \in Said(y)
      row(i) ==
        IF said THEN [confidence |-> Confidence(y, c, i),
                      active |-> claims[c][i].active \/ ~ read[i].active]
        ELSE [claims[c][i] EXCEPT !.active = @ /\ ~ read[i].active]
  IN [i \in DOMAIN claims[c] |-> IF i \in DOMAIN read THEN row(i) ELSE claims[c][i]]
     \o (IF said /\ read = <<>> /\ y.twin[c] = 0
           THEN <<[confidence |-> y.facts.confidence, active |-> TRUE]>> ELSE <<>>)

(***************************************************************************)
(* A claim that was said keeps its first row, or the twin found later, at  *)
(* the greater confidence; other rows that were active are stale.          *)
(***************************************************************************)
ClaimRows(y, c) ==
  LET read == y.claims[c]
      said == c \in Said(y)
      row(i) ==
        IF said /\ i = 1
          THEN [confidence |-> Confidence(y, c, i),
                active |-> claims[c][i].active \/ ~ read[i].active]
          ELSE [claims[c][i] EXCEPT !.active = @ /\ ~ read[i].active]
  IN [i \in DOMAIN claims[c] |->
        IF i \in DOMAIN read THEN row(i)
        ELSE IF i = y.twin[c] THEN [claims[c][i] EXCEPT !.confidence = Confidence(y, c, i)]
        ELSE claims[c][i]]
     \o (IF said /\ read = <<>> /\ y.twin[c] = 0
           THEN <<[confidence |-> y.facts.confidence, active |-> TRUE]>> ELSE <<>>)

\* Mutant: an active goal that is not said is stale, as a claim would be.
GoalRows_Stale(y, g) ==
  IF g \notin y.facts.goals
    THEN [i \in DOMAIN goals[g] |->
            IF i \in DOMAIN y.goals[g] /\ y.goals[g][i] = "active"
              THEN "irrelevant" ELSE goals[g][i]]
  ELSE IF y.goals[g] = <<>> THEN Append(goals[g], "active")
  ELSE IF y.goals[g][1] # "active" THEN [goals[g] EXCEPT ![1] = "active"]
  ELSE goals[g]

\* Goals accumulate; one that is said again is active again.
GoalRows(y, g) ==
  IF g \notin y.facts.goals THEN goals[g]
  ELSE IF y.goals[g] = <<>> THEN Append(goals[g], "active")
  ELSE IF y.goals[g][1] # "active" THEN [goals[g] EXCEPT ![1] = "active"]
  ELSE goals[g]

\* Mutant: only the very text of a resolved contradiction is skipped.
Skipped_SameText(y, w) == w \in y.resolved

\* matchesResolvedContradiction
Skipped(y, w) == \E v \in y.resolved : <<w, v>> \in Alike

Raised(y)    == {w \in y.facts.contradictions : ~ Skipped(y, w)}

\* The i-th claim that w is about, when its text is among the extracted ones.
Found(y, w, i) == IF i \in DOMAIN Links[w] /\ Links[w][i] \in Said(y)
                    THEN <<Links[w][i]>> ELSE <<>>
Linked(y, w)   == Found(y, w, 1) \o Found(y, w, 2)

\* Rows of facts that w may be taken for, as the extraction read them.
Matches(y, w) ==
  {k \in Wordings \X (1..MaxRows) :
     /\ <<w, k[1]>> \in Resembles /\ k[2] \in DOMAIN y.contras[k[1]]
     /\ At(y.contras, k).by = "facts"}
Matchings(y) ==
  {f \in [Raised(y) -> (Wordings \X (1..MaxRows)) \cup {NoId}] :
     \A w \in Raised(y) :
        f[w] \in IF Matches(y, w) = {} THEN {NoId} ELSE Matches(y, w)}

\* What a row is known to be about: a claim alone leaves the second side.
Sides(old, new) == IF Len(new) = 1 /\ Len(old) = 2 THEN <<new[1], old[2]>>
                   ELSE IF new = <<>> THEN old ELSE new

ContradictionRows(y, match, w) ==
  LET by(i) == {v \in DOMAIN match : match[v] = <<w, i>>}
      link(i) == Linked(y, CHOOSE v \in by(i) : TRUE)
      row(i) ==
        IF by(i) = {} THEN contras[w][i]
        ELSE [contras[w][i] EXCEPT
                !.status = IF y.contras[w][i].status # "active" THEN "active" ELSE @,
                !.edges = @ \cup Range(link(i)), !.sides = Sides(@, link(i))]
      new == Linked(y, w)
  IN [i \in DOMAIN contras[w] |-> row(i)]
     \o (IF w \in DOMAIN match /\ match[w] = NoId
           THEN <<[status |-> "active", by |-> "facts", edges |-> Range(new), sides |-> new]>>
           ELSE <<>>)

WithinRows(t) == \A x \in DOMAIN t : Len(t[x]) <= MaxRows

Commit(s) ==
  LET y == sync[s] IN
  /\ y.at = "resolved"
  /\ claims' = [c \in Claims |-> ClaimRows(y, c)]
  /\ goals' = [g \in Goals |-> GoalRows(y, g)]
  /\ \E match \in Matchings(y) :
       contras' = [w \in Wordings |-> ContradictionRows(y, match, w)]
  /\ WithinRows(claims') /\ WithinRows(goals') /\ WithinRows(contras')
  /\ unseen' = unseen \cup
       {<<w, Len(contras'[w])>> :
          w \in {v \in Wordings : /\ Len(contras'[v]) > Len(contras[v])
                                  /\ \E u \in y.missed : <<v, u>> \in Alike}}
  /\ sync' = [t \in Syncers |-> IF t = s THEN Idle
                ELSE [sync[t] EXCEPT !.alone = sync[t].at = "idle"]]
  /\ UNCHANGED <<settled, resolver, evaluation, syncs, cascaded>>

\* A statement fails or deadlocks, or the process dies: all is rolled back.
Rollback(s) ==
  /\ sync[s].at # "idle"
  /\ sync' = [sync EXCEPT ![s] = Idle]
  /\ UNCHANGED <<graph, resolver, evaluation, syncs, ghosts>>

-----------------------------------------------------------------------------
(***************************************************************************)
(* markContradictionResolved, for a node that a person chose, a model      *)
(* named or the resolver agent judged, perhaps some time ago.              *)
(***************************************************************************)
SetResolved(k) ==
  /\ contras' = [contras EXCEPT ![k[1]][k[2]].status = "resolved"]
  /\ sync' = [s \in Syncers |-> IF sync[s].at # "resolved" THEN sync[s]
                ELSE [sync[s] EXCEPT !.missed = @ \cup {k[1]}]]

MarkResolved(r, k) ==
  /\ resolver[r].at = "idle"
  /\ SetResolved(k)
  /\ resolver' = [resolver EXCEPT ![r] =
       [at |-> "cascade", id |-> k, sides |-> At(contras, k).sides, list |-> {}]]
  /\ UNCHANGED <<claims, goals, settled, evaluation, syncs, ghosts>>

\* Mutant: duplicates are those of the very text.
ReadDuplicates_SameText(r) ==
  /\ resolver[r].at = "cascade"
  /\ resolver' = [resolver EXCEPT ![r].at = "duplicates",
       ![r].list = {k \in Ids : /\ At(contras, k).status = "active"
                                /\ k # resolver[r].id /\ resolver[r].id[1] = k[1]}]
  /\ UNCHANGED <<graph, syncs, sync, evaluation, ghosts>>

ReadDuplicates(r) ==
  /\ resolver[r].at = "cascade"
  /\ resolver' = [resolver EXCEPT ![r].at = "duplicates",
       ![r].list = {k \in Ids : /\ At(contras, k).status = "active"
                                /\ k # resolver[r].id
                                /\ <<resolver[r].id[1], k[1]>> \in Alike}]
  /\ UNCHANGED <<graph, syncs, sync, evaluation, ghosts>>

MarkDuplicate(r, k) ==
  /\ resolver[r].at = "duplicates" /\ k \in resolver[r].list
  /\ SetResolved(k)
  /\ resolver' = [resolver EXCEPT ![r].list = @ \ {k}]
  /\ UNCHANGED <<claims, goals, settled, evaluation, syncs, ghosts>>

CascadeEnds(r) ==
  /\ resolver[r].at = "duplicates" /\ resolver[r].list = {}
  /\ resolver' = [resolver EXCEPT ![r].at = "edges"]
  /\ cascaded' = cascaded \cup {resolver[r].id}
  /\ UNCHANGED <<graph, syncs, sync, evaluation, unseen>>

\* A cascade that fails, anywhere, is logged.
CascadeFails(r) ==
  /\ resolver[r].at \in {"cascade", "duplicates"}
  /\ resolver' = [resolver EXCEPT ![r].at = "edges", ![r].list = {}]
  /\ UNCHANGED <<graph, syncs, sync, evaluation, ghosts>>

\* `resolves' edges, where both sides are known; either may fail, too.
AppendEdges(r) ==
  /\ resolver[r].at = "edges"
  /\ LET sides == IF Len(resolver[r].sides) = 2 THEN resolver[r].sides ELSE <<>>
     IN \E n \in 0..Len(sides) : settled' = settled \cup {sides[i] : i \in 1..n}
  /\ resolver' = [resolver EXCEPT ![r] = NoResolution]
  /\ UNCHANGED <<claims, goals, contras, sync, evaluation, syncs, ghosts>>

(***************************************************************************)
(* loadUnresolvedContradictionDetails, whenever contradictions are shown:  *)
(* a `contradicts' edge without a `resolves' edge at either end whose pair *)
(* of texts no active node spells gets a node of its own.  Edges lead from *)
(* a contradiction to a claim, which no node spells.  It is one of several *)
(* statements: the loop over the edges may end after any.                  *)
(***************************************************************************)
Backfill(k, c) ==
  /\ k \in Ids /\ c \in At(contras, k).edges
  /\ k \notin settled /\ c \notin settled
  /\ Len(contras[k[1]]) < MaxRows
  /\ contras' = [contras EXCEPT ![k[1]] =
       Append(@, [status |-> "active", by |-> "edge-backfill",
                  edges |-> {}, sides |-> <<k, c>>])]
  /\ UNCHANGED <<claims, goals, settled, sync, resolver, evaluation, syncs, ghosts>>

-----------------------------------------------------------------------------
(***************************************************************************)
(* evaluateGoalsAgainstEvidence and appendResolutionGoal read the active   *)
(* goals, await a model, and write what it found.  The resolved goal that  *)
(* the second adds when none matches is left out: nothing touches it.      *)
(***************************************************************************)
ActiveGoals == UNION {{<<g, i>> : i \in {j \in DOMAIN goals[g] : goals[g][j] = "active"}} :
                        g \in Goals}

ReadGoals(e) ==
  /\ evaluation[e] = {} /\ ActiveGoals # {}
  /\ evaluation' = [evaluation EXCEPT ![e] = ActiveGoals]
  /\ UNCHANGED <<graph, syncs, sync, resolver, ghosts>>

WriteGoals(e, done, begun) ==
  /\ evaluation[e] # {}
  /\ done \cup begun \subseteq evaluation[e] /\ done \cap begun = {}
  /\ goals' = [g \in Goals |-> [i \in DOMAIN goals[g] |->
       IF <<g, i>> \in done THEN "resolved"
       ELSE IF <<g, i>> \in begun THEN "in_progress" ELSE goals[g][i]]]
  /\ evaluation' = [evaluation EXCEPT ![e] = {}]
  /\ UNCHANGED <<claims, contras, settled, sync, resolver, syncs, ghosts>>

Synchronise(s) ==
  \/ \E facts \in Extractions : Begin(s, facts)
  \/ ReadContradictions(s) \/ ReadResolved(s) \/ Commit(s) \/ Rollback(s)

Resolve(r) ==
  \/ \E k \in Ids : MarkResolved(r, k)
  \/ \E k \in resolver[r].list : MarkDuplicate(r, k)
  \/ ReadDuplicates(r) \/ CascadeEnds(r) \/ CascadeFails(r) \/ AppendEdges(r)

Evaluate(e) ==
  \/ ReadGoals(e)
  \/ \E done, begun \in SUBSET evaluation[e] : WriteGoals(e, done, begun)

Next ==
  \/ \E s \in Syncers : Synchronise(s)
  \/ \E r \in Resolvers : Resolve(r)
  \/ \E e \in Evaluators : Evaluate(e)
  \/ \E k \in Ids, c \in Claims : Backfill(k, c)

Spec == Init /\ [][Next]_vars

-----------------------------------------------------------------------------
ClaimRow   == [confidence : Nat, active : BOOLEAN]
ContraRow  == [status : {"active", "resolved"}, by : {"facts", "edge-backfill"},
               edges : SUBSET Claims, sides : Seq(Claims \cup (Wordings \X Nat))]
Facts      == [claims : SUBSET Claims, goals : SUBSET Goals,
               contradictions : SUBSET Wordings, confidence : Nat]
Sync       == [at : {"idle", "claims", "contras", "resolved"}, facts : Facts,
               alone : BOOLEAN, resolved : SUBSET Wordings, missed : SUBSET Wordings,
               claims : [Claims -> Seq(ClaimRow)], twin : [Claims -> Nat],
               goals : [Goals -> Seq(Statuses)], contras : [Wordings -> Seq(ContraRow)]]
Resolution == [at : {"idle", "cascade", "duplicates", "edges"},
               id : (Wordings \X Nat) \cup {NoId},
               sides : Seq(Claims \cup (Wordings \X Nat)), list : SUBSET (Wordings \X Nat)]

Types ==
  /\ claims \in [Claims -> Seq(ClaimRow)] /\ goals \in [Goals -> Seq(Statuses)]
  /\ contras \in [Wordings -> Seq(ContraRow)]
  /\ settled \subseteq Claims \cup (Wordings \X Nat)
  /\ sync \in [Syncers -> Sync] /\ resolver \in [Resolvers -> Resolution]
  /\ evaluation \in [Evaluators -> SUBSET (Goals \X Nat)] /\ syncs \in Nat
  /\ \A s \in Syncers : sync[s].at = "idle" <=> sync[s] = Idle

\* What a row is about, what is settled and what a resolution works on is stored.
References ==
  /\ cascaded \cup unseen \subseteq Ids
  /\ settled \subseteq Claims \cup Ids
  /\ \A k \in Ids : Range(At(contras, k).sides) \subseteq Claims \cup Ids
  /\ \A r \in Resolvers : resolver[r].at # "idle" =>
        /\ resolver[r].id \in Ids /\ resolver[r].list \subseteq Ids
        /\ At(contras, resolver[r].id).status = "resolved"
        /\ Range(resolver[r].sides) \subseteq Claims \cup Ids

\* A backfilled row names the row of facts it comes from, and has no edges.
Backfilled ==
  \A k \in Ids : At(contras, k).by = "edge-backfill" =>
     LET row == At(contras, k) IN
     /\ row.edges = {} /\ 1 \in DOMAIN row.sides
     /\ row.sides[1] \in Ids /\ At(contras, row.sides[1]).by = "facts"

\* Types: goals are never irrelevant, and nothing names a row that is not there.
TypeOK == Types /\ References /\ Backfilled

(***************************************************************************)
(* "Confidence only increases" (README.md), also when two extractions that *)
(* read the same row are written one after the other.                      *)
(***************************************************************************)
ConfidenceOnlyIncreases ==
  [][\A c \in Claims : \A i \in DOMAIN claims[c] :
        claims'[c][i].confidence >= claims[c][i].confidence]_vars

(***************************************************************************)
(* A resolved contradiction is not opened again, by whatever wording it is *)
(* extracted and whatever was resolved between the queries of an           *)
(* extraction.                                                             *)
(***************************************************************************)
ResolvedStays ==
  [][\A k \in Ids : At(contras, k).status = "resolved"
                      => At(contras', k).status = "resolved"]_vars

(***************************************************************************)
(* Beside a contradiction resolved with its duplicates, no active one of   *)
(* the kind comes from facts, unless the extraction that raised it had     *)
(* asked for resolved contradictions before.                               *)
(***************************************************************************)
RaisedOnlyUnseen ==
  \A k \in cascaded, j \in Ids \ unseen :
     <<k[1], j[1]>> \in Alike /\ At(contras, j).by = "facts"
       => At(contras, j).status = "resolved"

(***************************************************************************)
(* Whatever twins and leftovers others left behind: after an extraction    *)
(* that no other one overtook, what it said is active, once, and nothing   *)
(* else.                                                                   *)
(***************************************************************************)
LoneExtractionSettles ==
  [][\A s \in Syncers :
        Commit(s) /\ sync[s].alone /\ Confident(sync[s]) =>
          \A c \in Claims :
             Cardinality({i \in DOMAIN claims'[c] : claims'[c][i].active})
               = IF c \in sync[s].facts.claims THEN 1 ELSE 0]_vars

-----------------------------------------------------------------------------
\* Rows are never removed, of another source, or active after they were resolved.
Former(old, new) ==
  \A w \in Wordings : \A i \in DOMAIN old[w] :
     /\ i \in DOMAIN new[w] /\ new[w][i].by = old[w][i].by
     /\ old[w][i].status = "resolved" => new[w][i].status = "resolved"

\* An extraction knows every resolved contradiction it has read as one, and the
\* ghost all that were resolved since it asked.
ReadsAreOld ==
  \A s \in Syncers :
     /\ sync[s].at \in {"contras", "resolved"} => Former(sync[s].contras, contras)
     /\ sync[s].at = "resolved" =>
          /\ Resolved(sync[s].contras) \subseteq sync[s].resolved
          /\ Resolved(contras) \subseteq sync[s].resolved \cup sync[s].missed

\* A cascade misses only what was raised by those who could not know of it.
Duplicates ==
  /\ \A k \in cascaded : At(contras, k).status = "resolved"
  /\ \A r \in Resolvers : resolver[r].at = "duplicates" =>
        \A j \in Ids \ unseen :
           <<resolver[r].id[1], j[1]>> \in Alike /\ At(contras, j).by = "facts"
             => At(contras, j).status = "resolved" \/ j \in resolver[r].list

\* What an extraction has read is so until another one is committed.
AloneIsCurrent ==
  \A s \in Syncers : sync[s].at # "idle" /\ sync[s].alone =>
     /\ sync[s].claims = claims
     /\ sync[s].at # "claims" => \A c \in Claims : sync[s].twin[c] = 0

IInv == TypeOK /\ ReadsAreOld /\ Duplicates /\ AloneIsCurrent /\ RaisedOnlyUnseen

(***************************************************************************)
(* "This guarantees the goal score is a ratchet - it only moves forward,   *)
(* never regresses" (src/factsToSemanticGraph.ts).                         *)
(***************************************************************************)
GoalsOnlyAdvance ==
  [][\A g \in Goals : \A i \in DOMAIN goals[g] :
        goals[g][i] = "resolved" => goals'[g][i] = "resolved"]_vars
=============================================================================
