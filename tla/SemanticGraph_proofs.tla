------------------------ MODULE SemanticGraph_proofs ------------------------
(***************************************************************************)
(* For any texts, extractions and resolutions, however many at once: what  *)
(* was resolved stays so, confidences only grow, and an extraction that no *)
(* other one overtook leaves what it said.                                 *)
(***************************************************************************)
EXTENDS SemanticGraph, FiniteSetTheorems, SequenceTheorems, TLAPS

-----------------------------------------------------------------------------
(***************************************************************************)
(* Sequences.                                                              *)
(***************************************************************************)

\* A function on 1..n is a sequence of length n.
LEMMA FunIsSeq ==
  ASSUME NEW S, NEW n \in Nat, NEW f \in [1..n -> S]
  PROVE  f \in Seq(S) /\ Len(f) = n /\ DOMAIN f = 1..n
<1>1. f \in Seq(S) BY SeqDef
<1>2. Len(f) \in Nat /\ 1..Len(f) = 1..n BY <1>1, LenProperties
<1> HIDE <1>1
<1> QED BY <1>1, <1>2

\* A sequence whose elements are of a set is a sequence over that set.
LEMMA SeqByRange ==
  ASSUME NEW S, NEW T, NEW q \in Seq(S)
  PROVE  q \in Seq(T) <=> Range(q) \subseteq T
<1>1. Len(q) \in Nat /\ DOMAIN q = 1..Len(q) /\ q \in [1..Len(q) -> S]
  BY LenProperties
<1>2. ASSUME q \in Seq(T) PROVE Range(q) \subseteq T
  <2>1. q \in [1..Len(q) -> T] BY <1>2, LenProperties
  <2> QED BY <2>1 DEF Range
<1>3. ASSUME Range(q) \subseteq T PROVE q \in Seq(T)
  <2>1. q \in [1..Len(q) -> T] BY <1>1, <1>3 DEF Range
  <2> QED BY <1>1, <2>1, FunIsSeq
<1> QED BY <1>2, <1>3

LEMMA OneElement ==
  ASSUME NEW S, NEW x \in S
  PROVE  <<x>> \in Seq(S) /\ Len(<<x>>) = 1 /\ <<x>>[1] = x
OBVIOUS

\* Rows that are rewritten one by one and followed by others.
Rewriting(new, q, f, more) ==
  /\ Len(new) = Len(q) + Len(more)
  /\ DOMAIN q = 1..Len(q) /\ DOMAIN new = 1..(Len(q) + Len(more))
  /\ \A i \in DOMAIN q : new[i] = f[i]
  /\ \A i \in DOMAIN new : i \notin DOMAIN q =>
       i - Len(q) \in 1..Len(more) /\ new[i] = more[i - Len(q)]

LEMMA Rewritten ==
  ASSUME NEW S, NEW q \in Seq(S), NEW f \in [DOMAIN q -> S], NEW more \in Seq(S)
  PROVE  f \o more \in Seq(S) /\ Rewriting(f \o more, q, f, more)
<1> DEFINE new == f \o more
<1>1. Len(q) \in Nat /\ DOMAIN q = 1..Len(q) BY LenProperties
<1>2. f \in Seq(S) /\ Len(f) = Len(q) BY <1>1, FunIsSeq
<1>3. Len(more) \in Nat BY LenProperties
<1>4. /\ new \in Seq(S) /\ Len(new) = Len(f) + Len(more)
      /\ \A i \in 1..(Len(f) + Len(more)) :
            new[i] = IF i <= Len(f) THEN f[i] ELSE more[i - Len(f)]
  BY <1>2, ConcatProperties
<1>5. DOMAIN new = 1..Len(new) BY <1>4, LenProperties
<1> HIDE DEF new
<1>6. \A i \in DOMAIN q : new[i] = f[i] BY <1>1, <1>2, <1>3, <1>4
<1>7. \A i \in DOMAIN new : i \notin DOMAIN q =>
        i - Len(q) \in 1..Len(more) /\ new[i] = more[i - Len(q)]
  BY <1>1, <1>2, <1>3, <1>4, <1>5
<1> QED BY <1>1, <1>2, <1>4, <1>5, <1>6, <1>7 DEF new, Rewriting

-----------------------------------------------------------------------------
(***************************************************************************)
(* Rows of contradictions and their ids.                                   *)
(***************************************************************************)
Rows      == [Wordings -> Seq(ContraRow)]
IdsIn(t)  == UNION {{<<w, i>> : i \in DOMAIN t[w]} : w \in Wordings}
Name      == Claims \cup (Wordings \X Nat)

LEMMA IdsAreIn == Ids = IdsIn(contras) /\ Ids' = IdsIn(contras')
BY DEF Ids, IdsIn

LEMMA InIds ==
  ASSUME NEW t \in Rows, NEW k
  PROVE  k \in IdsIn(t) <=> k \in Wordings \X Nat /\ k[2] \in DOMAIN t[k[1]]
<1>1. \A w \in Wordings : Len(t[w]) \in Nat /\ DOMAIN t[w] = 1..Len(t[w])
  BY LenProperties DEF Rows
<1> QED BY <1>1 DEF IdsIn

LEMMA RowOfId ==
  ASSUME NEW t \in Rows, NEW k \in IdsIn(t)
  PROVE  /\ At(t, k) \in ContraRow /\ k = <<k[1], k[2]>>
         /\ k[1] \in Wordings /\ k[2] \in DOMAIN t[k[1]]
<1>1. k \in Wordings \X Nat /\ k[2] \in DOMAIN t[k[1]] BY InIds
<1>2. t[k[1]] \in Seq(ContraRow) BY <1>1 DEF Rows
<1>3. t[k[1]][k[2]] \in ContraRow BY <1>1, <1>2, ElementOfSeq, LenProperties
<1> QED BY <1>1, <1>3 DEF At

LEMMA IdOfRow ==
  ASSUME NEW t \in Rows, NEW w \in Wordings, NEW i \in DOMAIN t[w]
  PROVE  /\ <<w, i>> \in IdsIn(t) /\ At(t, <<w, i>>) = t[w][i] /\ t[w][i] \in ContraRow
<1>1. <<w, i>> \in IdsIn(t) BY DEF IdsIn
<1>2. At(t, <<w, i>>) = t[w][i] BY DEF At
<1> QED BY <1>1, <1>2, RowOfId

LEMMA FormerSame ==
  ASSUME NEW t
  PROVE  Former(t, t)
BY DEF Former

LEMMA FormerOfFormer ==
  ASSUME NEW t, NEW u, NEW v, Former(t, u), Former(u, v)
  PROVE  Former(t, v)
BY DEF Former

LEMMA FormerRows ==
  ASSUME NEW t \in Rows, NEW u \in Rows, Former(t, u)
  PROVE  /\ IdsIn(t) \subseteq IdsIn(u) /\ Resolved(t) \subseteq Resolved(u)
         /\ \A k \in IdsIn(t) :
              /\ At(u, k).by = At(t, k).by
              /\ At(t, k).status = "resolved" => At(u, k).status = "resolved"
<1>1. ASSUME NEW k \in IdsIn(t)
      PROVE  /\ k \in IdsIn(u) /\ At(u, k).by = At(t, k).by
             /\ At(t, k).status = "resolved" => At(u, k).status = "resolved"
  <2>1. k = <<k[1], k[2]>> /\ k[1] \in Wordings /\ k[2] \in DOMAIN t[k[1]] BY RowOfId
  <2>2. /\ k[2] \in DOMAIN u[k[1]] /\ u[k[1]][k[2]].by = t[k[1]][k[2]].by
        /\ t[k[1]][k[2]].status = "resolved" => u[k[1]][k[2]].status = "resolved"
    BY <2>1 DEF Former
  <2> QED BY <2>1, <2>2, IdOfRow DEF At
<1>2. Resolved(t) \subseteq Resolved(u) BY DEF Resolved, Former
<1> QED BY <1>1, <1>2

LEMMA ResolvedWording ==
  ASSUME NEW t \in Rows, NEW k \in IdsIn(t), At(t, k).status = "resolved"
  PROVE  k[1] \in Resolved(t)
BY RowOfId DEF Resolved, At

-----------------------------------------------------------------------------
(***************************************************************************)
(* What a commit writes.                                                   *)
(***************************************************************************)
LEMMA ClaimRowWith ==
  ASSUME NEW r \in ClaimRow, NEW b, NEW n \in Nat
  PROVE  /\ [r EXCEPT !.active = @ /\ b] \in ClaimRow
         /\ [r EXCEPT !.active = @ /\ b].confidence >= r.confidence
         /\ [confidence |-> n, active |-> r.active \/ b] \in ClaimRow
<1> DEFINE both == r.active /\ b
           either == r.active \/ b
<1>1. both \in BOOLEAN /\ either \in BOOLEAN OBVIOUS
<1> HIDE DEF both, either
<1>2. /\ [r EXCEPT !.active = both] \in ClaimRow
      /\ [r EXCEPT !.active = both].confidence >= r.confidence
  BY <1>1 DEF ClaimRow
<1>3. [confidence |-> n, active |-> either] \in ClaimRow BY <1>1 DEF ClaimRow
<1> QED BY <1>2, <1>3 DEF both, either

LEMMA ClaimRowsType ==
  ASSUME NEW y \in Sync, NEW c \in Claims, claims \in [Claims -> Seq(ClaimRow)]
  PROVE  /\ ClaimRows(y, c) \in Seq(ClaimRow)
         /\ \A i \in DOMAIN claims[c] :
              /\ i \in DOMAIN ClaimRows(y, c)
              /\ ClaimRows(y, c)[i].confidence >= claims[c][i].confidence
<1> DEFINE read == y.claims[c]
           said == c \in Said(y)
           row(i) ==
             IF said /\ i = 1
               THEN [confidence |-> Confidence(y, c, i),
                     active |-> claims[c][i].active \/ ~ read[i].active]
               ELSE [claims[c][i] EXCEPT !.active = @ /\ ~ read[i].active]
           all(i) == IF i \in DOMAIN read THEN row(i)
                     ELSE IF i = y.twin[c]
                       THEN [claims[c][i] EXCEPT !.confidence = Confidence(y, c, i)]
                     ELSE claims[c][i]
           old == [i \in DOMAIN claims[c] |-> all(i)]
           new == IF said /\ read = <<>> /\ y.twin[c] = 0
                    THEN <<[confidence |-> y.facts.confidence, active |-> TRUE]>> ELSE <<>>
<1>0. y.facts.confidence \in Nat BY DEF Sync, Facts
<1>1. ASSUME NEW i \in DOMAIN claims[c]
      PROVE  all(i) \in ClaimRow /\ all(i).confidence >= claims[c][i].confidence
  <2>1. claims[c][i] \in ClaimRow BY ElementOfSeq, LenProperties
  <2>2. Confidence(y, c, i) \in Nat /\ Confidence(y, c, i) >= claims[c][i].confidence
    BY <1>0, <2>1 DEF Confidence, Greater, ClaimRow
  <2>3. i \in DOMAIN read => read[i] \in ClaimRow
    <3>1. read \in Seq(ClaimRow) BY DEF Sync
    <3> QED BY <3>1, ElementOfSeq, LenProperties
  <2>4. i \in DOMAIN read => row(i) \in ClaimRow /\ row(i).confidence >= claims[c][i].confidence
    BY <2>1, <2>2, <2>3, ClaimRowWith
  <2> HIDE DEF row
  <2>5. /\ [claims[c][i] EXCEPT !.confidence = Confidence(y, c, i)] \in ClaimRow
        /\ [claims[c][i] EXCEPT !.confidence = Confidence(y, c, i)].confidence
             = Confidence(y, c, i)
        /\ claims[c][i].confidence >= claims[c][i].confidence
    BY <2>1, <2>2 DEF ClaimRow
  <2> QED BY <2>1, <2>2, <2>4, <2>5
<1>2. old \in [DOMAIN claims[c] -> ClaimRow] BY <1>1
<1>3. new \in Seq(ClaimRow)
  <2>1. [confidence |-> y.facts.confidence, active |-> TRUE] \in ClaimRow
    BY <1>0 DEF ClaimRow
  <2> QED BY <2>1
<1>4. claims[c] \in Seq(ClaimRow) OBVIOUS
<1>5. ClaimRows(y, c) = old \o new BY DEF ClaimRows
<1>6. \A i \in DOMAIN claims[c] : old[i] = all(i) OBVIOUS
<1> HIDE DEF all, old, new
<1>7. /\ ClaimRows(y, c) \in Seq(ClaimRow)
      /\ Len(ClaimRows(y, c)) = Len(claims[c]) + Len(new)
      /\ DOMAIN claims[c] = 1..Len(claims[c])
      /\ DOMAIN ClaimRows(y, c) = 1..(Len(claims[c]) + Len(new))
      /\ \A i \in DOMAIN claims[c] : ClaimRows(y, c)[i] = old[i]
  <2>1. /\ ClaimRows(y, c) \in Seq(ClaimRow)
        /\ Rewriting(ClaimRows(y, c), claims[c], old, new)
    BY <1>2, <1>3, <1>4, <1>5, Rewritten
  <2> QED BY <2>1 DEF Rewriting
<1>8. Len(claims[c]) \in Nat /\ Len(new) \in Nat BY <1>3, <1>4, LenProperties
<1>9. DOMAIN claims[c] \subseteq DOMAIN ClaimRows(y, c) BY <1>7, <1>8
<1> QED BY <1>1, <1>6, <1>7, <1>9

LEMMA GoalRowsType ==
  ASSUME NEW y \in Sync, NEW g \in Goals, goals \in [Goals -> Seq(Statuses)]
  PROVE  GoalRows(y, g) \in Seq(Statuses)
<1>1. goals[g] \in Seq(Statuses) /\ "active" \in Statuses BY DEF Statuses
<1>2. Append(goals[g], "active") \in Seq(Statuses) BY <1>1, AppendProperties
<1>3. [goals[g] EXCEPT ![1] = "active"] \in Seq(Statuses)
  <2>1. Len(goals[g]) \in Nat /\ goals[g] \in [1..Len(goals[g]) -> Statuses]
    BY <1>1, LenProperties
  <2>2. [goals[g] EXCEPT ![1] = "active"] \in [1..Len(goals[g]) -> Statuses] BY <1>1, <2>1
  <2> QED BY <2>1, <2>2, FunIsSeq
<1> QED BY <1>1, <1>2, <1>3 DEF GoalRows

LEMMA LinkedType ==
  ASSUME NEW y, NEW w \in Wordings
  PROVE  Linked(y, w) \in Seq(Claims)
<1>1. Links[w] \in Seq(Claims) BY RelationsAssumption
<1>2. ASSUME NEW i PROVE Found(y, w, i) \in Seq(Claims)
  <2>1. i \in DOMAIN Links[w] => Links[w][i] \in Claims BY <1>1, ElementOfSeq, LenProperties
  <2> QED BY <2>1 DEF Found
<1> QED BY <1>2, ConcatProperties DEF Linked

LEMMA SidesType ==
  ASSUME NEW S, NEW old \in Seq(S), NEW new \in Seq(S)
  PROVE  Sides(old, new) \in Seq(S)
<1>1. Len(new) = 1 => new[1] \in S
  <2>1. 1 \in 1..1 OBVIOUS
  <2> QED BY <2>1, ElementOfSeq
<1>2. Len(old) = 2 => old[2] \in S
  <2>1. 2 \in 1..2 OBVIOUS
  <2> QED BY <2>1, ElementOfSeq
<1> QED BY <1>1, <1>2 DEF Sides

LEMMA NotSkipped ==
  ASSUME NEW y, NEW w \in Raised(y), NEW v \in y.resolved
  PROVE  <<w, v>> \notin Alike
BY DEF Raised, Skipped

(***************************************************************************)
(* A commit writes to no row that is resolved: it only takes contradictions*)
(* for rows that it read as active, for the others it skips.               *)
(***************************************************************************)
LEMMA MatchIsActive ==
  ASSUME NEW y \in Sync, NEW match \in Matchings(y), NEW w \in Wordings, NEW i,
         NEW v \in DOMAIN match, match[v] = <<w, i>>,
         Resolved(y.contras) \subseteq y.resolved
  PROVE  /\ v \in Wordings /\ i \in DOMAIN y.contras[w]
         /\ y.contras[w][i].by = "facts" /\ y.contras[w][i].status = "active"
<1>1. v \in Raised(y) /\ match[v] \in Matches(y, v)
  <2>1. <<w, i>> # NoId BY DEF NoId
  <2> QED BY <2>1 DEF Matchings
<1>2. v \in Wordings BY <1>1 DEF Raised, Sync, Facts
<1>3. /\ <<v, w>> \in Resembles /\ i \in DOMAIN y.contras[w]
      /\ y.contras[w][i].by = "facts"
  BY <1>1 DEF Matches, At
<1>4. y.contras[w][i] \in ContraRow
  <2>1. y.contras[w] \in Seq(ContraRow) BY DEF Sync
  <2> QED BY <2>1, <1>3, ElementOfSeq, LenProperties
<1>5. y.contras[w][i].status # "resolved"
  <2>1. SUFFICES ASSUME y.contras[w][i].status = "resolved" PROVE FALSE OBVIOUS
  <2>2. w \in y.resolved BY <2>1, <1>3 DEF Resolved
  <2> QED BY <1>1, <1>3, <2>2, NotSkipped, ResemblesAssumption
<1> QED BY <1>2, <1>3, <1>4, <1>5 DEF ContraRow

LEMMA CommitRows ==
  ASSUME NEW y \in Sync, NEW match \in Matchings(y), NEW w \in Wordings,
         contras \in Rows, Former(y.contras, contras),
         Resolved(y.contras) \subseteq y.resolved
  PROVE  LET new == ContradictionRows(y, match, w)
             n == Len(contras[w]) IN
         /\ new \in Seq(ContraRow) /\ DOMAIN contras[w] \subseteq DOMAIN new
         /\ \A i \in DOMAIN contras[w] :
              /\ new[i].status = contras[w][i].status /\ new[i].by = contras[w][i].by
              /\ contras[w][i].by # "facts" => new[i] = contras[w][i]
              /\ \A T : Claims \subseteq T /\ contras[w][i].sides \in Seq(T)
                          => new[i].sides \in Seq(T)
         /\ \A i \in DOMAIN new : i \notin DOMAIN contras[w] =>
              /\ i = n + 1 /\ Len(new) = n + 1 /\ w \in Raised(y)
              /\ new[i].status = "active" /\ new[i].by = "facts"
              /\ new[i].sides \in Seq(Claims)
<1> DEFINE by(i) == {v \in DOMAIN match : match[v] = <<w, i>>}
           link(i) == Linked(y, CHOOSE v \in by(i) : TRUE)
           row(i) ==
             IF by(i) = {} THEN contras[w][i]
             ELSE [contras[w][i] EXCEPT
                     !.status = IF y.contras[w][i].status # "active" THEN "active" ELSE @,
                     !.edges = @ \cup Range(link(i)), !.sides = Sides(@, link(i))]
           old == [i \in DOMAIN contras[w] |-> row(i)]
           link1 == Linked(y, w)
           more == IF w \in DOMAIN match /\ match[w] = NoId
                     THEN <<[status |-> "active", by |-> "facts",
                             edges |-> Range(link1), sides |-> link1]>>
                     ELSE <<>>
           Like(r, i) == /\ r \in ContraRow /\ r.status = contras[w][i].status
                         /\ r.by = contras[w][i].by
                         /\ contras[w][i].by # "facts" => r = contras[w][i]
                         /\ \A T : Claims \subseteq T /\ contras[w][i].sides \in Seq(T)
                                     => r.sides \in Seq(T)
<1>1. contras[w] \in Seq(ContraRow) BY DEF Rows
<1>2. ASSUME NEW i \in DOMAIN contras[w] PROVE Like(row(i), i)
  <2>1. contras[w][i] \in ContraRow BY <1>1, ElementOfSeq, LenProperties
  <2>2. CASE by(i) = {} BY <2>1, <2>2
  <2>3. CASE by(i) # {}
    <3> DEFINE v == CHOOSE v \in by(i) : TRUE
               q == link(i)
    <3>1. v \in DOMAIN match /\ match[v] = <<w, i>> BY <2>3
    <3> HIDE DEF v
    <3>2. /\ v \in Wordings /\ i \in DOMAIN y.contras[w]
          /\ y.contras[w][i].by = "facts" /\ y.contras[w][i].status = "active"
      BY <3>1, MatchIsActive
    <3>3. contras[w][i].by = "facts" BY <3>2 DEF Former
    <3>4. q \in Seq(Claims) BY <3>2, LinkedType DEF v
    <3>5. row(i) = [contras[w][i] EXCEPT !.edges = @ \cup Range(q), !.sides = Sides(@, q)]
      BY <2>1, <2>3, <3>2 DEF ContraRow
    <3> HIDE DEF q, row, by
    <3>6. Range(q) \subseteq Claims BY <3>4, SeqByRange
    <3>7. ASSUME NEW T, Claims \subseteq T, contras[w][i].sides \in Seq(T)
          PROVE  Sides(contras[w][i].sides, q) \in Seq(T)
      BY <3>4, <3>7, SeqMonotonic, SidesType
    <3>8. Sides(contras[w][i].sides, q) \in Seq(Claims \cup (Wordings \X Nat))
      BY <2>1, <3>7 DEF ContraRow
    <3>9. /\ row(i) \in ContraRow /\ row(i).status = contras[w][i].status
          /\ row(i).by = contras[w][i].by
          /\ row(i).sides = Sides(contras[w][i].sides, q)
      BY <2>1, <3>5, <3>6, <3>8 DEF ContraRow
    <3> QED BY <3>3, <3>7, <3>9
  <2> QED BY <2>2, <2>3
<1>3. \A i \in DOMAIN contras[w] : old[i] = row(i) OBVIOUS
<1> HIDE DEF row
<1>4. old \in [DOMAIN contras[w] -> ContraRow] BY <1>2
<1>5. link1 \in Seq(Claims) BY LinkedType
<1> HIDE DEF link1
<1>6. /\ more \in Seq(ContraRow) /\ Len(more) \in {0, 1}
      /\ Len(more) = 1 => /\ w \in Raised(y) /\ more[1].status = "active"
                          /\ more[1].by = "facts" /\ more[1].sides = link1
  <2>1. Range(link1) \subseteq Claims BY <1>5, SeqByRange
  <2>2. link1 \in Seq(Claims \cup (Wordings \X Nat)) BY <1>5, SeqMonotonic
  <2>3. [status |-> "active", by |-> "facts", edges |-> Range(link1), sides |-> link1]
          \in ContraRow
    BY <2>1, <2>2 DEF ContraRow
  <2>4. DOMAIN match = Raised(y) BY DEF Matchings
  <2> QED BY <2>3, <2>4
<1>7. ContradictionRows(y, match, w) = old \o more
  BY DEF ContradictionRows, row, link1
<1> HIDE DEF old, more
<1> DEFINE new == ContradictionRows(y, match, w)
<1> HIDE DEF new
<1>75. new = old \o more BY <1>7 DEF new
<1>8. /\ new \in Seq(ContraRow) /\ Len(new) = Len(contras[w]) + Len(more)
      /\ DOMAIN contras[w] = 1..Len(contras[w])
      /\ DOMAIN new = 1..(Len(contras[w]) + Len(more))
      /\ \A i \in DOMAIN contras[w] : new[i] = old[i]
      /\ \A i \in DOMAIN new : i \notin DOMAIN contras[w] =>
           /\ i - Len(contras[w]) \in 1..Len(more)
           /\ new[i] = more[i - Len(contras[w])]
  <2>1. new \in Seq(ContraRow) /\ Rewriting(new, contras[w], old, more)
    BY <1>1, <1>4, <1>6, <1>75, Rewritten
  <2> QED BY <2>1 DEF Rewriting
<1>9. Len(contras[w]) \in Nat BY <1>1, LenProperties
<1>10. DOMAIN contras[w] \subseteq DOMAIN new BY <1>6, <1>8, <1>9
<1>11. ASSUME NEW i \in DOMAIN contras[w] PROVE Like(new[i], i)
  BY <1>2, <1>3, <1>8
<1>12. ASSUME NEW i \in DOMAIN new, i \notin DOMAIN contras[w]
       PROVE  /\ i = Len(contras[w]) + 1 /\ Len(new) = Len(contras[w]) + 1
              /\ w \in Raised(y) /\ new[i].status = "active" /\ new[i].by = "facts"
              /\ new[i].sides \in Seq(Claims)
  <2>1. i - Len(contras[w]) \in 1..Len(more) /\ new[i] = more[i - Len(contras[w])]
    BY <1>8, <1>12
  <2>2. i \in Nat BY <1>8, <1>12, <1>6, <1>9
  <2>3. i - Len(contras[w]) = 1 /\ Len(more) = 1 BY <1>6, <1>9, <2>1, <2>2
  <2> QED BY <1>5, <1>6, <1>8, <1>9, <2>1, <2>2, <2>3
<1> QED BY <1>7, <1>8, <1>10, <1>11, <1>12 DEF new

-----------------------------------------------------------------------------
(***************************************************************************)
(* The inductive invariant, over whichever rows, and how its parts are     *)
(* kept when rows are added and resolved.                                  *)
(***************************************************************************)
Stored(t) ==
  \A k \in IdsIn(t) :
     /\ Range(At(t, k).sides) \subseteq Claims \cup IdsIn(t)
     /\ At(t, k).by = "edge-backfill" =>
          /\ At(t, k).edges = {} /\ 1 \in DOMAIN At(t, k).sides
          /\ At(t, k).sides[1] \in IdsIn(t) /\ At(t, At(t, k).sides[1]).by = "facts"

Working(x, t) ==
  x.at # "idle" =>
    /\ x.id \in IdsIn(t) /\ x.list \subseteq IdsIn(t) /\ At(t, x.id).status = "resolved"
    /\ Range(x.sides) \subseteq Claims \cup IdsIn(t)

Cascading(x, t, late) ==
  x.at = "duplicates" =>
    \A j \in IdsIn(t) \ late :
       <<x.id[1], j[1]>> \in Alike /\ At(t, j).by = "facts"
         => At(t, j).status = "resolved" \/ j \in x.list

Complete(k, t, late) ==
  /\ At(t, k).status = "resolved"
  /\ \A j \in IdsIn(t) \ late : <<k[1], j[1]>> \in Alike /\ At(t, j).by = "facts"
       => At(t, j).status = "resolved"

HasRead(y, t) ==
  /\ y.at \in {"contras", "resolved"} => Former(y.contras, t)
  /\ y.at = "resolved" => /\ Resolved(y.contras) \subseteq y.resolved
                          /\ Resolved(t) \subseteq y.resolved \cup y.missed

IsCurrent(y, stored) ==
  y.at # "idle" /\ y.alone =>
    /\ y.claims = stored
    /\ y.at # "claims" => \A c \in Claims : y.twin[c] = 0

Parts ==
  /\ Types /\ Stored(contras) /\ unseen \subseteq IdsIn(contras)
  /\ cascaded \subseteq IdsIn(contras) /\ settled \subseteq Claims \cup IdsIn(contras)
  /\ \A r \in Resolvers : Working(resolver[r], contras)
  /\ \A r \in Resolvers : Cascading(resolver[r], contras, unseen)
  /\ \A k \in cascaded : Complete(k, contras, unseen)
  /\ \A s \in Syncers : HasRead(sync[s], contras)
  /\ \A s \in Syncers : IsCurrent(sync[s], claims)

LEMMA InvIsParts == (IInv <=> Parts) /\ (IInv' <=> Parts')
<1>1. IInv <=> Parts
  BY IdsAreIn DEF IInv, TypeOK, References, Backfilled, ReadsAreOld, Duplicates,
     AloneIsCurrent, RaisedOnlyUnseen, Parts, Stored, Working, Cascading, Complete,
     HasRead, IsCurrent
<1>2. IInv' <=> Parts'
  BY IdsAreIn DEF IInv, TypeOK, References, Backfilled, ReadsAreOld, Duplicates,
     AloneIsCurrent, RaisedOnlyUnseen, Parts, Stored, Working, Cascading, Complete,
     HasRead, IsCurrent
<1> QED BY <1>1, <1>2

\* Rows of u are those of t, perhaps resolved and linked to more, and new ones.
GrowsTo(t, u) ==
  /\ Former(t, u)
  /\ \A k \in IdsIn(u) : Range(At(u, k).sides) \subseteq Claims \cup IdsIn(u)
  /\ \A k \in IdsIn(t) : At(t, k).by # "facts" =>
       At(u, k).edges = At(t, k).edges /\ At(u, k).sides = At(t, k).sides
  /\ \A k \in IdsIn(u) \ IdsIn(t) : At(u, k).by # "facts" =>
       /\ At(u, k).edges = {} /\ 1 \in DOMAIN At(u, k).sides
       /\ At(u, k).sides[1] \in IdsIn(t) /\ At(t, At(u, k).sides[1]).by = "facts"

\* New rows of facts, but for late ones, are like no resolved row.
NewsIn(t, u, late) ==
  \A j \in IdsIn(u) \ (IdsIn(t) \cup late) : \A k \in IdsIn(t) :
     At(u, j).by = "facts" /\ At(t, k).status = "resolved" => <<k[1], j[1]>> \notin Alike

LEMMA GrownStored ==
  ASSUME NEW t \in Rows, NEW u \in Rows, Stored(t), GrowsTo(t, u)
  PROVE  Stored(u)
<1> SUFFICES ASSUME NEW k \in IdsIn(u), At(u, k).by = "edge-backfill"
             PROVE  /\ At(u, k).edges = {} /\ 1 \in DOMAIN At(u, k).sides
                    /\ At(u, k).sides[1] \in IdsIn(u)
                    /\ At(u, At(u, k).sides[1]).by = "facts"
  BY DEF Stored, GrowsTo
<1>1. IdsIn(t) \subseteq IdsIn(u) /\ \A j \in IdsIn(t) : At(u, j).by = At(t, j).by
  BY FormerRows DEF GrowsTo
<1>2. CASE k \in IdsIn(t) BY <1>1, <1>2 DEF Stored, GrowsTo
<1>3. CASE k \notin IdsIn(t) BY <1>1, <1>3 DEF GrowsTo
<1> QED BY <1>2, <1>3

LEMMA GrownWorking ==
  ASSUME NEW t \in Rows, NEW u \in Rows, Former(t, u), NEW x, Working(x, t)
  PROVE  Working(x, u)
BY FormerRows DEF Working

LEMMA GrownCascading ==
  ASSUME NEW t \in Rows, NEW u \in Rows, Former(t, u), NEW x, Working(x, t),
         NEW late, NEW later, late \subseteq later, NewsIn(t, u, later),
         Cascading(x, t, late)
  PROVE  Cascading(x, u, later)
<1> SUFFICES ASSUME x.at = "duplicates", NEW j \in IdsIn(u) \ later,
                    <<x.id[1], j[1]>> \in Alike, At(u, j).by = "facts"
             PROVE  At(u, j).status = "resolved" \/ j \in x.list
  BY DEF Cascading
<1>1. x.id \in IdsIn(t) /\ At(t, x.id).status = "resolved" BY DEF Working
<1>2. j \in IdsIn(t) BY <1>1 DEF NewsIn
<1>3. At(t, j).by = "facts" BY <1>2, FormerRows
<1>4. At(t, j).status = "resolved" \/ j \in x.list BY <1>2, <1>3 DEF Cascading
<1> QED BY <1>2, <1>4, FormerRows

LEMMA GrownComplete ==
  ASSUME NEW t \in Rows, NEW u \in Rows, Former(t, u), NEW k \in IdsIn(t),
         NEW late, NEW later, late \subseteq later, NewsIn(t, u, later),
         Complete(k, t, late)
  PROVE  Complete(k, u, later)
<1>1. At(u, k).status = "resolved" BY FormerRows DEF Complete
<1>2. ASSUME NEW j \in IdsIn(u) \ later, <<k[1], j[1]>> \in Alike, At(u, j).by = "facts"
      PROVE  At(u, j).status = "resolved"
  <2>1. j \in IdsIn(t) BY <1>2 DEF NewsIn, Complete
  <2>2. At(t, j).by = "facts" BY <1>2, <2>1, FormerRows
  <2>3. At(t, j).status = "resolved" BY <1>2, <2>1, <2>2 DEF Complete
  <2> QED BY <2>1, <2>3, FormerRows
<1> QED BY <1>1, <1>2 DEF Complete

\* Whatever grows, and a step that adds no resolved row.
LEMMA GrownRead ==
  ASSUME NEW t, NEW u, Former(t, u), Resolved(u) \subseteq Resolved(t),
         NEW y, HasRead(y, t)
  PROVE  HasRead(y, u)
BY FormerOfFormer DEF HasRead

-----------------------------------------------------------------------------
(***************************************************************************)
(* Steps of a synchronisation up to its commit.                            *)
(***************************************************************************)
LEMMA EmptyType ==
  /\ Empty(Claims) \in [Claims -> Seq(ClaimRow)]
  /\ Empty(Goals) \in [Goals -> Seq(Statuses)] /\ Empty(Wordings) \in Rows
BY DEF Empty, Rows

LEMMA IdleType == Idle \in Sync /\ Idle.at = "idle"
<1>1. NoExtraction \in Facts BY DEF NoExtraction, Facts
<1>2. [c \in Claims |-> 0] \in [Claims -> Nat] OBVIOUS
<1> QED BY <1>1, <1>2, EmptyType DEF Idle, Sync, Rows

LEMMA SyncStep ==
  ASSUME Parts, NEW s \in Syncers, NEW y \in Sync, sync' = [sync EXCEPT ![s] = y],
         y.at = "idle" <=> y = Idle, HasRead(y, contras), IsCurrent(y, claims),
         UNCHANGED <<graph, resolver, evaluation, ghosts>>, syncs' \in Nat
  PROVE  Parts'
<1> USE DEF graph, ghosts
<1>1. sync \in [Syncers -> Sync] BY DEF Parts, Types
<1>2. \A t \in Syncers : sync'[t] = IF t = s THEN y ELSE sync[t] BY <1>1
<1>3. sync' \in [Syncers -> Sync] BY <1>1
<1>4. Types' BY <1>2, <1>3 DEF Parts, Types
<1>5. \A t \in Syncers : HasRead(sync[t], contras)' BY <1>2 DEF Parts
<1>6. \A t \in Syncers : IsCurrent(sync[t], claims)' BY <1>2 DEF Parts
<1> QED BY <1>4, <1>5, <1>6 DEF Parts

LEMMA BeginKeeps ==
  ASSUME Parts, NEW s \in Syncers, NEW facts \in Extractions, Begin(s, facts)
  PROVE  Parts'
<1> DEFINE y == [Idle EXCEPT !.at = "claims", !.facts = facts,
                             !.claims = claims, !.goals = goals]
<1>1. facts \in Facts BY ExtractionsAssumption DEF Facts
<1>2. /\ y \in Sync /\ y.at = "claims" /\ y.claims = claims
  BY <1>1, IdleType DEF Parts, Types, Sync
<1>3. sync' = [sync EXCEPT ![s] = y] BY DEF Begin
<1>4. UNCHANGED <<graph, resolver, evaluation, ghosts>> /\ syncs' \in Nat
  BY DEF Begin, Parts, Types
<1> HIDE DEF y
<1>5. y # Idle BY <1>2, IdleType
<1>6. HasRead(y, contras) /\ IsCurrent(y, claims) BY <1>2 DEF HasRead, IsCurrent
<1> QED BY <1>2, <1>3, <1>4, <1>5, <1>6, SyncStep

LEMMA ReadContradictionsKeeps ==
  ASSUME Parts, NEW s \in Syncers, ReadContradictions(s)
  PROVE  Parts'
<1>1. PICK twin \in [Claims -> 0..MaxRows] :
        /\ \A c \in Claims : LET found == Twins(sync[s], c)
                             IN twin[c] \in IF found = {} THEN {0} ELSE found
        /\ sync' = [sync EXCEPT ![s].at = "contras", ![s].contras = contras,
                                ![s].twin = twin]
  BY DEF ReadContradictions
<1> DEFINE x == sync[s]
           y == [x EXCEPT !.at = "contras", !.contras = contras, !.twin = twin]
<1>2. x \in Sync /\ x.at = "claims" BY DEF Parts, Types, ReadContradictions
<1>3. twin \in [Claims -> Nat] BY ExtractionsAssumption
<1>4. contras \in [Wordings -> Seq(ContraRow)] BY DEF Parts, Types
<1>5. sync' = [sync EXCEPT ![s] = y] BY <1>1 DEF Parts, Types
<1>6. IsCurrent(x, claims) BY DEF Parts
<1>7. UNCHANGED <<graph, resolver, evaluation, ghosts>> /\ syncs' \in Nat
  BY DEF ReadContradictions, Parts, Types
<1> HIDE DEF x
<1>8. /\ y \in Sync /\ y.at = "contras" /\ y.contras = contras /\ y.twin = twin
      /\ y.claims = x.claims /\ y.alone = x.alone
  BY <1>2, <1>3, <1>4 DEF Sync
<1> HIDE DEF y
<1>9. y # Idle BY <1>8, IdleType
<1>10. HasRead(y, contras) BY <1>8, FormerSame DEF HasRead
<1>11. ASSUME y.alone PROVE \A c \in Claims : y.twin[c] = 0
  <2>1. x.claims = claims BY <1>2, <1>6, <1>8, <1>11 DEF IsCurrent
  <2>2. ASSUME NEW c \in Claims PROVE Twins(x, c) = {} BY <2>1 DEF Twins
  <2> QED BY <1>1, <1>8, <2>2 DEF x
<1>12. IsCurrent(y, claims) BY <1>2, <1>6, <1>8, <1>11 DEF IsCurrent
<1> QED BY <1>5, <1>7, <1>8, <1>9, <1>10, <1>12, SyncStep

LEMMA ReadResolvedKeeps ==
  ASSUME Parts, NEW s \in Syncers, ReadResolved(s)
  PROVE  Parts'
<1> DEFINE x == sync[s]
           known == Resolved(contras)
           y == [x EXCEPT !.at = "resolved", !.resolved = known]
<1>1. x \in Sync /\ x.at = "contras" BY DEF Parts, Types, ReadResolved
<1>2. known \in SUBSET Wordings BY DEF Resolved
<1>3. sync' = [sync EXCEPT ![s] = y] BY DEF ReadResolved, Parts, Types
<1>4. IsCurrent(x, claims) /\ HasRead(x, contras) BY DEF Parts
<1>5. UNCHANGED <<graph, resolver, evaluation, ghosts>> /\ syncs' \in Nat
  BY DEF ReadResolved, Parts, Types
<1> HIDE DEF x
<1> HIDE DEF known
<1>6. /\ y \in Sync /\ y.at = "resolved" /\ y.resolved = known /\ y.contras = x.contras
      /\ y.claims = x.claims /\ y.alone = x.alone /\ y.twin = x.twin
  BY <1>1, <1>2 DEF Sync
<1> HIDE DEF y
<1>7. y # Idle BY <1>6, IdleType
<1>8. Former(x.contras, contras) BY <1>1, <1>4 DEF HasRead
<1>9. Resolved(x.contras) \subseteq known BY <1>8 DEF Former, Resolved, known
<1>10. HasRead(y, contras) BY <1>6, <1>8, <1>9 DEF HasRead, known
<1>11. IsCurrent(y, claims) BY <1>1, <1>4, <1>6 DEF IsCurrent
<1> QED BY <1>3, <1>5, <1>6, <1>7, <1>10, <1>11, SyncStep

LEMMA RollbackKeeps ==
  ASSUME Parts, NEW s \in Syncers, Rollback(s)
  PROVE  Parts'
<1>1. HasRead(Idle, contras) /\ IsCurrent(Idle, claims) BY IdleType DEF HasRead, IsCurrent
<1> QED BY <1>1, IdleType, SyncStep DEF Rollback, Parts, Types

-----------------------------------------------------------------------------
(***************************************************************************)
(* Steps of a resolution that mark nothing.                                *)
(***************************************************************************)
LEMMA ResolutionStep ==
  ASSUME Parts, NEW r \in Resolvers, NEW x \in Resolution,
         resolver' = [resolver EXCEPT ![r] = x],
         Working(x, contras), Cascading(x, contras, unseen),
         settled' \subseteq Claims \cup IdsIn(contras),
         cascaded' \subseteq IdsIn(contras),
         \A k \in cascaded' : Complete(k, contras, unseen),
         UNCHANGED <<claims, goals, contras, sync, evaluation, syncs, unseen>>
  PROVE  Parts'
<1>1. resolver \in [Resolvers -> Resolution] BY DEF Parts, Types
<1>2. \A q \in Resolvers : resolver'[q] = IF q = r THEN x ELSE resolver[q] BY <1>1
<1>3. resolver' \in [Resolvers -> Resolution] BY <1>1
<1>4. settled' \subseteq Claims \cup (Wordings \X Nat)
  <2>1. IdsIn(contras) \subseteq Wordings \X Nat BY InIds DEF Parts, Types, Rows
  <2> QED BY <2>1
<1>5. Types' BY <1>3, <1>4 DEF Parts, Types
<1>6. \A q \in Resolvers : Working(resolver[q], contras)' BY <1>2 DEF Parts
<1>7. \A q \in Resolvers : Cascading(resolver[q], contras, unseen)'
  BY <1>2 DEF Parts
<1> QED BY <1>5, <1>6, <1>7 DEF Parts

LEMMA ReadDuplicatesKeeps ==
  ASSUME Parts, NEW r \in Resolvers, ReadDuplicates(r)
  PROVE  Parts'
<1> DEFINE old == resolver[r]
           list == {k \in Ids : /\ At(contras, k).status = "active" /\ k # old.id
                                /\ <<old.id[1], k[1]>> \in Alike}
           x == [old EXCEPT !.at = "duplicates", !.list = list]
<1>1. old \in Resolution /\ old.at = "cascade" BY DEF Parts, Types, ReadDuplicates
<1>2. resolver' = [resolver EXCEPT ![r] = x] BY DEF ReadDuplicates, Parts, Types
<1>3. Working(old, contras) BY DEF Parts
<1>4. contras \in Rows BY DEF Parts, Types, Rows
<1>5. list \subseteq IdsIn(contras) /\ list \subseteq Wordings \X Nat
  BY <1>4, InIds, IdsAreIn
<1>6. \A j \in IdsIn(contras) :
        <<old.id[1], j[1]>> \in Alike => At(contras, j).status = "resolved" \/ j \in list
  <2> SUFFICES ASSUME NEW j \in IdsIn(contras), <<old.id[1], j[1]>> \in Alike,
                      At(contras, j).status # "resolved"
               PROVE  j \in list
    OBVIOUS
  <2>1. At(contras, j).status = "active" BY <1>4, RowOfId DEF ContraRow
  <2>2. j # old.id BY <1>1, <1>3 DEF Working
  <2> QED BY <2>1, <2>2, IdsAreIn
<1>7. UNCHANGED <<claims, goals, contras, settled, sync, evaluation, syncs, unseen, cascaded>>
  BY DEF ReadDuplicates, graph, ghosts
<1> HIDE DEF old, list
<1>8. /\ x \in Resolution /\ x.at = "duplicates" /\ x.list = list
      /\ x.id = old.id /\ x.sides = old.sides
  BY <1>1, <1>5 DEF Resolution
<1> HIDE DEF x
<1>9. Working(x, contras) BY <1>1, <1>3, <1>5, <1>8 DEF Working
<1>10. Cascading(x, contras, unseen) BY <1>6, <1>8 DEF Cascading
<1> QED BY <1>2, <1>7, <1>8, <1>9, <1>10, ResolutionStep DEF Parts

LEMMA CascadeEndsKeeps ==
  ASSUME Parts, NEW r \in Resolvers, CascadeEnds(r)
  PROVE  Parts'
<1> DEFINE old == resolver[r]
           x == [old EXCEPT !.at = "edges"]
<1>1. old \in Resolution /\ old.at = "duplicates" /\ old.list = {}
  BY DEF Parts, Types, CascadeEnds
<1>2. resolver' = [resolver EXCEPT ![r] = x] BY DEF CascadeEnds, Parts, Types
<1>3. Working(old, contras) /\ Cascading(old, contras, unseen) BY DEF Parts
<1>4. cascaded' = cascaded \cup {old.id} BY DEF CascadeEnds
<1>5. UNCHANGED <<claims, goals, contras, settled, sync, evaluation, syncs, unseen>>
  BY DEF CascadeEnds, graph
<1> HIDE DEF old
<1>6. /\ x \in Resolution /\ x.at = "edges" /\ x.list = {}
      /\ x.id = old.id /\ x.sides = old.sides
  BY <1>1 DEF Resolution
<1> HIDE DEF x
<1>7. Working(x, contras) BY <1>1, <1>3, <1>6 DEF Working
<1>8. Cascading(x, contras, unseen) BY <1>6 DEF Cascading
<1>9. old.id \in IdsIn(contras) /\ Complete(old.id, contras, unseen)
  BY <1>1, <1>3 DEF Working, Cascading, Complete
<1> QED BY <1>2, <1>4, <1>5, <1>6, <1>7, <1>8, <1>9, ResolutionStep DEF Parts

LEMMA CascadeFailsKeeps ==
  ASSUME Parts, NEW r \in Resolvers, CascadeFails(r)
  PROVE  Parts'
<1> DEFINE old == resolver[r]
           x == [old EXCEPT !.at = "edges", !.list = {}]
<1>1. old \in Resolution /\ old.at # "idle" BY DEF Parts, Types, CascadeFails
<1>2. resolver' = [resolver EXCEPT ![r] = x] BY DEF CascadeFails, Parts, Types
<1>3. Working(old, contras) BY DEF Parts
<1>4. UNCHANGED <<claims, goals, contras, settled, sync, evaluation, syncs, unseen, cascaded>>
  BY DEF CascadeFails, graph, ghosts
<1> HIDE DEF old
<1>5. /\ x \in Resolution /\ x.at = "edges" /\ x.list = {}
      /\ x.id = old.id /\ x.sides = old.sides
  BY <1>1 DEF Resolution
<1> HIDE DEF x
<1>6. Working(x, contras) /\ Cascading(x, contras, unseen)
  BY <1>1, <1>3, <1>5 DEF Working, Cascading
<1> QED BY <1>2, <1>4, <1>5, <1>6, ResolutionStep DEF Parts

LEMMA AppendEdgesKeeps ==
  ASSUME Parts, NEW r \in Resolvers, AppendEdges(r)
  PROVE  Parts'
<1> DEFINE old == resolver[r]
           ends == IF Len(old.sides) = 2 THEN old.sides ELSE <<>>
<1>1. old \in Resolution /\ old.at = "edges" BY DEF Parts, Types, AppendEdges
<1>2. Working(old, contras) BY DEF Parts
<1>3. PICK n \in 0..Len(ends) : settled' = settled \cup {ends[i] : i \in 1..n}
  BY DEF AppendEdges
<1>4. {ends[i] : i \in 1..n} \subseteq Claims \cup IdsIn(contras)
  <2>1. old.sides \in Seq(Claims \cup IdsIn(contras))
    BY <1>1, <1>2, SeqByRange DEF Working, Resolution
  <2> HIDE DEF old
  <2>2. ends \in Seq(Claims \cup IdsIn(contras)) BY <2>1
  <2> HIDE DEF ends
  <2>3. Len(ends) \in Nat BY <2>2, LenProperties
  <2>4. \A i \in 1..n : i \in 1..Len(ends) BY <2>3
  <2> QED BY <2>2, <2>4, ElementOfSeq
<1>5. resolver' = [resolver EXCEPT ![r] = NoResolution] BY DEF AppendEdges
<1>6. UNCHANGED <<claims, goals, contras, sync, evaluation, syncs, unseen, cascaded>>
  BY DEF AppendEdges, ghosts
<1>7. NoResolution \in Resolution /\ NoResolution.at = "idle" BY DEF NoResolution, Resolution, NoId
<1>8. Working(NoResolution, contras) /\ Cascading(NoResolution, contras, unseen)
  BY <1>7 DEF Working, Cascading
<1> HIDE DEF old, ends
<1> QED BY <1>3, <1>4, <1>5, <1>6, <1>7, <1>8, ResolutionStep DEF Parts

-----------------------------------------------------------------------------
(***************************************************************************)
(* Steps that change contradictions.                                       *)
(***************************************************************************)
LEMMA GrowStep ==
  ASSUME Parts, Types', contras' \in Rows, GrowsTo(contras, contras'),
         unseen \subseteq unseen', unseen' \subseteq IdsIn(contras'),
         NewsIn(contras, contras', unseen'),
         cascaded' = cascaded, settled' = settled,
         \A r \in Resolvers :
            \/ resolver'[r] = resolver[r]
            \/ /\ Working(resolver'[r], contras')
               /\ Cascading(resolver'[r], contras', unseen'),
         \A s \in Syncers : HasRead(sync'[s], contras') /\ IsCurrent(sync'[s], claims')
  PROVE  Parts'
<1>1. contras \in Rows /\ Former(contras, contras') BY DEF Parts, Types, Rows, GrowsTo
<1>2. Stored(contras') BY <1>1, GrownStored DEF Parts
<1>3. IdsIn(contras) \subseteq IdsIn(contras') BY <1>1, FormerRows
<1>4. ASSUME NEW r \in Resolvers
      PROVE  /\ Working(resolver'[r], contras')
             /\ Cascading(resolver'[r], contras', unseen')
  <2>1. Working(resolver[r], contras') BY <1>1, GrownWorking DEF Parts
  <2>2. Cascading(resolver[r], contras', unseen') BY <1>1, GrownCascading DEF Parts
  <2> QED BY <2>1, <2>2
<1>5. \A k \in cascaded : Complete(k, contras', unseen') BY <1>1, GrownComplete DEF Parts
<1> QED BY <1>2, <1>3, <1>4, <1>5 DEF Parts

\* An update of the status of one row.
LEMMA SetResolvedRows ==
  ASSUME contras \in Rows, NEW k \in IdsIn(contras), SetResolved(k)
  PROVE  /\ contras' \in Rows /\ Former(contras, contras')
         /\ IdsIn(contras') = IdsIn(contras) /\ At(contras', k).status = "resolved"
         /\ \A j \in IdsIn(contras) : /\ At(contras', j).edges = At(contras, j).edges
                                      /\ At(contras', j).sides = At(contras, j).sides
         /\ Resolved(contras') \subseteq Resolved(contras) \cup {k[1]}
<1> DEFINE w == k[1]
           i == k[2]
           row == [contras[w][i] EXCEPT !.status = "resolved"]
           q == [contras[w] EXCEPT ![i] = row]
<1>1. w \in Wordings /\ i \in DOMAIN contras[w] /\ contras[w][i] \in ContraRow
  BY RowOfId DEF At
<1>2. contras' = [contras EXCEPT ![w] = q] BY DEF SetResolved
<1>3. /\ row \in ContraRow /\ row.status = "resolved" /\ row.by = contras[w][i].by
      /\ row.edges = contras[w][i].edges /\ row.sides = contras[w][i].sides
  BY <1>1 DEF ContraRow
<1> HIDE DEF row
<1>4. contras[w] \in Seq(ContraRow) BY <1>1 DEF Rows
<1>5. DOMAIN contras[w] = 1..Len(contras[w]) BY <1>4, LenProperties
<1>6. q \in Seq(ContraRow) /\ Len(q) = Len(contras[w]) BY <1>1, <1>3, <1>4, <1>5, ExceptSeq
<1>7. \A j \in DOMAIN contras[w] : q[j] = IF j = i THEN row ELSE contras[w][j] OBVIOUS
<1>8. DOMAIN q = DOMAIN contras[w] OBVIOUS
<1>9. k = <<w, i>> BY RowOfId
<1> HIDE DEF q, w, i
<1>10. contras' \in Rows BY <1>1, <1>2, <1>6 DEF Rows
<1>11. \A v \in Wordings : contras'[v] = IF v = w THEN q ELSE contras[v]
  BY <1>2 DEF Rows
<1>12. ASSUME NEW v \in Wordings
       PROVE  /\ DOMAIN contras'[v] = DOMAIN contras[v]
              /\ \A j \in DOMAIN contras[v] :
                   /\ contras'[v][j].by = contras[v][j].by
                   /\ contras'[v][j].edges = contras[v][j].edges
                   /\ contras'[v][j].sides = contras[v][j].sides
                   /\ \/ contras'[v][j].status = contras[v][j].status
                      \/ <<v, j>> = k /\ contras'[v][j].status = "resolved"
  BY <1>1, <1>3, <1>7, <1>8, <1>9, <1>11
<1>13. Former(contras, contras') BY <1>12 DEF Former
<1>14. IdsIn(contras') = IdsIn(contras) BY <1>12 DEF IdsIn
<1>15. At(contras', k).status = "resolved" BY <1>1, <1>3, <1>7, <1>11 DEF At, w, i
<1>16. Resolved(contras') \subseteq Resolved(contras) \cup {w}
  <2> SUFFICES ASSUME NEW v \in Resolved(contras'), v # w PROVE v \in Resolved(contras)
    OBVIOUS
  <2>1. contras'[v] = contras[v] BY <1>11 DEF Resolved
  <2> QED BY <2>1 DEF Resolved
<1>17. ASSUME NEW j \in IdsIn(contras)
       PROVE  /\ At(contras', j).edges = At(contras, j).edges
              /\ At(contras', j).sides = At(contras, j).sides
  <2>1. j[1] \in Wordings /\ j[2] \in DOMAIN contras[j[1]] BY RowOfId
  <2> QED BY <2>1, <1>12 DEF At
<1> QED BY <1>10, <1>13, <1>14, <1>15, <1>16, <1>17 DEF w

LEMMA SetResolvedSyncs ==
  ASSUME Parts, NEW k \in IdsIn(contras), SetResolved(k), claims' = claims
  PROVE  /\ sync' \in [Syncers -> Sync]
         /\ \A s \in Syncers : /\ sync'[s].at = "idle" <=> sync'[s] = Idle
                               /\ HasRead(sync'[s], contras')
                               /\ IsCurrent(sync'[s], claims')
<1>1. contras \in Rows BY DEF Parts, Types, Rows
<1>2. /\ k[1] \in Wordings /\ Former(contras, contras')
      /\ Resolved(contras') \subseteq Resolved(contras) \cup {k[1]}
  BY <1>1, RowOfId, SetResolvedRows
<1>3. ASSUME NEW s \in Syncers
      PROVE  /\ sync'[s] \in Sync
             /\ sync'[s].at = "idle" <=> sync'[s] = Idle
             /\ HasRead(sync'[s], contras') /\ IsCurrent(sync'[s], claims')
  <2> DEFINE x == sync[s]
             y == [x EXCEPT !.missed = @ \cup {k[1]}]
  <2>1. /\ x \in Sync
        /\ x.at = "idle" <=> x = Idle
        /\ HasRead(x, contras) /\ IsCurrent(x, claims)
    BY DEF Parts, Types
  <2>2. sync'[s] = IF x.at # "resolved" THEN x ELSE y BY DEF SetResolved
  <2> HIDE DEF x
  <2>3. CASE x.at # "resolved"
    <3>1. HasRead(x, contras') BY <1>2, <2>1, <2>3, FormerOfFormer DEF HasRead
    <3> QED BY <2>1, <2>2, <2>3, <3>1
  <2>4. CASE x.at = "resolved"
    <3>1. /\ y \in Sync /\ y.at = "resolved" /\ y.missed = x.missed \cup {k[1]}
          /\ y.resolved = x.resolved /\ y.contras = x.contras
          /\ y.claims = x.claims /\ y.twin = x.twin /\ y.alone = x.alone
      BY <1>2, <2>1, <2>4 DEF Sync
    <3> HIDE DEF y
    <3>2. HasRead(y, contras') BY <1>2, <2>1, <2>4, <3>1, FormerOfFormer DEF HasRead
    <3>3. IsCurrent(y, claims') BY <2>1, <2>4, <3>1 DEF IsCurrent
    <3>4. y # Idle BY <3>1, IdleType
    <3> QED BY <2>2, <2>4, <3>1, <3>2, <3>3, <3>4
  <2> QED BY <2>3, <2>4
<1>4. sync' = [s \in Syncers |-> sync'[s]] BY DEF SetResolved
<1> QED BY <1>3, <1>4

LEMMA SetResolvedStep ==
  ASSUME Parts, NEW k \in Ids, SetResolved(k),
         NEW r \in Resolvers, NEW x \in Resolution, resolver' = [resolver EXCEPT ![r] = x],
         Working(x, contras'), Cascading(x, contras', unseen),
         UNCHANGED <<claims, goals, settled, evaluation, syncs, ghosts>>
  PROVE  Parts'
<1>1. contras \in Rows /\ k \in IdsIn(contras) BY IdsAreIn DEF Parts, Types, Rows
<1>2. /\ contras' \in Rows /\ Former(contras, contras') /\ IdsIn(contras') = IdsIn(contras)
      /\ \A j \in IdsIn(contras) : /\ At(contras', j).edges = At(contras, j).edges
                                   /\ At(contras', j).sides = At(contras, j).sides
  BY <1>1, SetResolvedRows
<1>3. /\ sync' \in [Syncers -> Sync]
      /\ \A s \in Syncers : /\ sync'[s].at = "idle" <=> sync'[s] = Idle
                            /\ HasRead(sync'[s], contras')
                            /\ IsCurrent(sync'[s], claims')
  BY <1>1, SetResolvedSyncs
<1>4. resolver \in [Resolvers -> Resolution] BY DEF Parts, Types
<1>5. Types' BY <1>2, <1>3, <1>4 DEF Parts, Types, Rows
<1>6. GrowsTo(contras, contras') BY <1>2 DEF GrowsTo, Parts, Stored
<1>7. NewsIn(contras, contras', unseen') BY <1>2 DEF NewsIn
<1>8. \A q \in Resolvers :
         \/ resolver'[q] = resolver[q]
         \/ Working(resolver'[q], contras') /\ Cascading(resolver'[q], contras', unseen')
  BY <1>4 DEF ghosts
<1>9. unseen' = unseen /\ cascaded' = cascaded /\ unseen' \subseteq IdsIn(contras')
  BY <1>2 DEF ghosts, Parts
<1> QED BY <1>2, <1>3, <1>5, <1>6, <1>7, <1>8, <1>9, GrowStep

LEMMA MarkResolvedKeeps ==
  ASSUME Parts, NEW r \in Resolvers, NEW k \in Ids, MarkResolved(r, k)
  PROVE  Parts'
<1> DEFINE x == [at |-> "cascade", id |-> k, sides |-> At(contras, k).sides, list |-> {}]
<1>1. contras \in Rows /\ k \in IdsIn(contras) BY IdsAreIn DEF Parts, Types, Rows
<1>2. /\ SetResolved(k) /\ resolver' = [resolver EXCEPT ![r] = x]
      /\ UNCHANGED <<claims, goals, settled, evaluation, syncs, ghosts>>
  BY DEF MarkResolved
<1>3. /\ contras' \in Rows /\ Former(contras, contras') /\ IdsIn(contras') = IdsIn(contras)
      /\ At(contras', k).status = "resolved"
  BY <1>1, <1>2, SetResolvedRows
<1>4. At(contras, k) \in ContraRow /\ k \in Wordings \X Nat BY <1>1, RowOfId, InIds
<1>5. Range(At(contras, k).sides) \subseteq Claims \cup IdsIn(contras)
  BY <1>1 DEF Parts, Stored
<1>6. x \in Resolution BY <1>4 DEF Resolution, ContraRow
<1>7. Working(x, contras') BY <1>1, <1>3, <1>5 DEF Working
<1>8. Cascading(x, contras', unseen) BY DEF Cascading
<1> HIDE DEF x
<1> QED BY <1>2, <1>6, <1>7, <1>8, SetResolvedStep

LEMMA MarkDuplicateKeeps ==
  ASSUME Parts, NEW r \in Resolvers, NEW k \in resolver[r].list, MarkDuplicate(r, k)
  PROVE  Parts'
<1> DEFINE old == resolver[r]
           x == [old EXCEPT !.list = @ \ {k}]
<1>1. contras \in Rows /\ old \in Resolution /\ old.at = "duplicates"
  BY DEF Parts, Types, Rows, MarkDuplicate
<1>2. Working(old, contras) /\ Cascading(old, contras, unseen) BY DEF Parts
<1>3. k \in IdsIn(contras) BY <1>1, <1>2 DEF Working
<1>4. /\ SetResolved(k) /\ resolver' = [resolver EXCEPT ![r] = x]
      /\ UNCHANGED <<claims, goals, settled, evaluation, syncs, ghosts>>
  BY DEF MarkDuplicate, Parts, Types
<1>5. /\ contras' \in Rows /\ Former(contras, contras') /\ IdsIn(contras') = IdsIn(contras)
      /\ At(contras', k).status = "resolved"
  BY <1>1, <1>3, <1>4, SetResolvedRows
<1>6. Working(old, contras') BY <1>1, <1>2, <1>5, GrownWorking
<1>7. NewsIn(contras, contras', unseen) BY <1>5 DEF NewsIn
<1>8. Cascading(old, contras', unseen) BY <1>1, <1>2, <1>5, <1>7, GrownCascading
<1> HIDE DEF old
<1>9. /\ x \in Resolution /\ x.at = "duplicates" /\ x.list = old.list \ {k}
      /\ x.id = old.id /\ x.sides = old.sides
  BY <1>1 DEF Resolution
<1> HIDE DEF x
<1>10. Working(x, contras') BY <1>1, <1>6, <1>9 DEF Working
<1>11. Cascading(x, contras', unseen) BY <1>1, <1>5, <1>8, <1>9 DEF Cascading
<1> QED BY <1>3, <1>4, <1>9, <1>10, <1>11, IdsAreIn, SetResolvedStep

LEMMA BackfillKeeps ==
  ASSUME Parts, NEW k \in Ids, NEW c \in Claims, Backfill(k, c)
  PROVE  Parts' /\ Former(contras, contras')
<1> DEFINE w == k[1]
           row == [status |-> "active", by |-> "edge-backfill", edges |-> {},
                   sides |-> <<k, c>>]
           q == Append(contras[w], row)
           n == Len(contras[w]) + 1
<1>1. contras \in Rows /\ k \in IdsIn(contras) BY IdsAreIn DEF Parts, Types, Rows
<1>2. w \in Wordings /\ k \in Wordings \X Nat BY <1>1, RowOfId, InIds
<1>3. contras' = [contras EXCEPT ![w] = q] BY DEF Backfill
<1>4. contras[w] \in Seq(ContraRow) BY <1>1, <1>2 DEF Rows
<1>5. /\ row \in ContraRow /\ row.status = "active" /\ row.by = "edge-backfill"
      /\ row.edges = {} /\ row.sides = <<k, c>>
  <2>1. <<k, c>> \in Seq(Claims \cup (Wordings \X Nat)) BY <1>2
  <2> QED BY <2>1 DEF ContraRow
<1>6. At(contras, k).by = "facts"
  <2>1. At(contras, k).edges # {} BY DEF Backfill
  <2>2. At(contras, k) \in ContraRow BY <1>1, RowOfId
  <2> QED BY <1>1, <2>1, <2>2 DEF Parts, Stored, ContraRow
<1> HIDE DEF row
<1>7. /\ q \in Seq(ContraRow) /\ Len(q) = n /\ q[n] = row
      /\ \A i \in 1..Len(contras[w]) : q[i] = contras[w][i]
  BY <1>4, <1>5, AppendProperties
<1>8. DOMAIN q = 1..n /\ DOMAIN contras[w] = 1..Len(contras[w]) /\ Len(contras[w]) \in Nat
  BY <1>4, <1>7, LenProperties
<1> HIDE DEF q, w
<1>9. \A v \in Wordings : contras'[v] = IF v = w THEN q ELSE contras[v]
  BY <1>1, <1>3 DEF Rows
<1>10. contras' \in Rows BY <1>1, <1>3, <1>7 DEF Rows
<1>11. ASSUME NEW v \in Wordings, NEW i \in DOMAIN contras[v]
       PROVE  i \in DOMAIN contras'[v] /\ contras'[v][i] = contras[v][i]
  BY <1>7, <1>8, <1>9
<1>12. Former(contras, contras') BY <1>11 DEF Former
<1>13. IdsIn(contras) \subseteq IdsIn(contras') BY <1>1, <1>10, <1>12, FormerRows
<1>14. \A j \in IdsIn(contras) : At(contras', j) = At(contras, j)
  BY <1>1, <1>11, RowOfId DEF At
<1>15. ASSUME NEW j \in IdsIn(contras'), j \notin IdsIn(contras)
       PROVE  At(contras', j) = row
  <2>1. j = <<j[1], j[2]>> /\ j[1] \in Wordings /\ j[2] \in DOMAIN contras'[j[1]]
    BY <1>10, RowOfId
  <2>2. j[2] \notin DOMAIN contras[j[1]] BY <1>1, <1>15, <2>1, IdOfRow
  <2>3. j[1] = w /\ j[2] = n BY <1>8, <1>9, <2>1, <2>2
  <2> QED BY <1>2, <1>7, <1>9, <2>3 DEF At
<1>16. Range(<<k, c>>) \subseteq Claims \cup IdsIn(contras)
  <2>1. <<k, c>> \in Seq(Claims \cup IdsIn(contras)) BY <1>1
  <2> QED BY <2>1, SeqByRange
<1>17. GrowsTo(contras, contras')
  <2>1. ASSUME NEW j \in IdsIn(contras')
        PROVE  Range(At(contras', j).sides) \subseteq Claims \cup IdsIn(contras')
    BY <1>5, <1>13, <1>14, <1>15, <1>16 DEF Parts, Stored
  <2>2. ASSUME NEW j \in IdsIn(contras') \ IdsIn(contras)
        PROVE  /\ At(contras', j).edges = {} /\ 1 \in DOMAIN At(contras', j).sides
               /\ At(contras', j).sides[1] = k
    BY <1>5, <1>15
  <2> QED BY <1>1, <1>6, <1>12, <1>14, <2>1, <2>2 DEF GrowsTo
<1>18. NewsIn(contras, contras', unseen') BY <1>5, <1>15 DEF NewsIn
<1>19. Resolved(contras') \subseteq Resolved(contras)
  <2> SUFFICES ASSUME NEW v \in Wordings, NEW i \in DOMAIN contras'[v],
                      contras'[v][i].status = "resolved"
               PROVE  v \in Resolved(contras)
    BY DEF Resolved
  <2>1. <<v, i>> \in IdsIn(contras') /\ At(contras', <<v, i>>) = contras'[v][i]
    BY <1>10, IdOfRow
  <2>2. <<v, i>> \in IdsIn(contras) BY <1>5, <1>15, <2>1
  <2> QED BY <1>1, <1>14, <2>1, <2>2, ResolvedWording
<1>20. UNCHANGED <<claims, goals, settled, sync, resolver, evaluation, syncs, cascaded, unseen>>
  BY DEF Backfill, ghosts
<1>21. Types' BY <1>10, <1>20 DEF Parts, Types, Rows
<1>22. \A s \in Syncers : HasRead(sync'[s], contras') /\ IsCurrent(sync'[s], claims')
  BY <1>12, <1>19, <1>20, GrownRead DEF Parts
<1>23. unseen' \subseteq IdsIn(contras') BY <1>13, <1>20 DEF Parts
<1> QED BY <1>10, <1>12, <1>17, <1>18, <1>20, <1>21, <1>22, <1>23, GrowStep

(***************************************************************************)
(* A commit changes no status, and the rows it adds are of contradictions  *)
(* it does not skip: of those resolved since it asked the ghost knows.     *)
(***************************************************************************)
LEMMA CommitGrows ==
  ASSUME Parts, NEW s \in Syncers, Commit(s)
  PROVE  /\ contras' \in Rows /\ GrowsTo(contras, contras')
         /\ Resolved(contras') \subseteq Resolved(contras)
         /\ unseen' \subseteq IdsIn(contras') /\ NewsIn(contras, contras', unseen')
<1> DEFINE y == sync[s]
<1>1. contras \in Rows /\ y \in Sync /\ y.at = "resolved" /\ HasRead(y, contras)
  BY DEF Parts, Types, Rows, Commit
<1>2. PICK match \in Matchings(y) :
        contras' = [w \in Wordings |-> ContradictionRows(y, match, w)]
  BY DEF Commit
<1>3. unseen' = unseen \cup
        {<<w, Len(contras'[w])>> :
           w \in {v \in Wordings : /\ Len(contras'[v]) > Len(contras[v])
                                   /\ \E u \in y.missed : <<v, u>> \in Alike}}
  BY DEF Commit
<1> HIDE DEF y
<1>4. /\ Former(y.contras, contras) /\ Resolved(y.contras) \subseteq y.resolved
      /\ Resolved(contras) \subseteq y.resolved \cup y.missed
  BY <1>1 DEF HasRead
<1>5. ASSUME NEW w \in Wordings
      PROVE  /\ contras'[w] \in Seq(ContraRow) /\ DOMAIN contras[w] \subseteq DOMAIN contras'[w]
             /\ \A i \in DOMAIN contras[w] :
                  /\ contras'[w][i].status = contras[w][i].status
                  /\ contras'[w][i].by = contras[w][i].by
                  /\ contras[w][i].by # "facts" => contras'[w][i] = contras[w][i]
                  /\ \A T : Claims \subseteq T /\ contras[w][i].sides \in Seq(T)
                              => contras'[w][i].sides \in Seq(T)
             /\ \A i \in DOMAIN contras'[w] : i \notin DOMAIN contras[w] =>
                  /\ i = Len(contras[w]) + 1 /\ Len(contras'[w]) = Len(contras[w]) + 1
                  /\ w \in Raised(y) /\ contras'[w][i].status = "active"
                  /\ contras'[w][i].by = "facts" /\ contras'[w][i].sides \in Seq(Claims)
  <2>1. contras'[w] = ContradictionRows(y, match, w) BY <1>2
  <2> QED BY <1>1, <1>4, <2>1, CommitRows
<1>6. contras' \in Rows
  <2>1. contras' = [w \in Wordings |-> contras'[w]] BY <1>2
  <2> QED BY <1>5, <2>1 DEF Rows
<1>7. Former(contras, contras') BY <1>5 DEF Former
<1>8. IdsIn(contras) \subseteq IdsIn(contras') BY <1>1, <1>6, <1>7, FormerRows
<1>9. ASSUME NEW j \in IdsIn(contras'), j \notin IdsIn(contras)
      PROVE  /\ j[1] \in Raised(y) /\ j[1] \in Wordings /\ j = <<j[1], Len(contras'[j[1]])>>
             /\ Len(contras'[j[1]]) > Len(contras[j[1]])
             /\ At(contras', j).by = "facts" /\ At(contras', j).sides \in Seq(Claims)
  <2>1. j = <<j[1], j[2]>> /\ j[1] \in Wordings /\ j[2] \in DOMAIN contras'[j[1]]
    BY <1>6, RowOfId
  <2>2. j[2] \notin DOMAIN contras[j[1]] BY <1>1, <1>9, <2>1, IdOfRow
  <2>3. Len(contras[j[1]]) \in Nat
    <3>1. contras[j[1]] \in Seq(ContraRow) BY <1>1, <2>1 DEF Rows
    <3> QED BY <3>1, LenProperties
  <2> QED BY <1>5, <2>1, <2>2, <2>3 DEF At
<1>10. GrowsTo(contras, contras')
  <2>1. ASSUME NEW j \in IdsIn(contras)
        PROVE  /\ Range(At(contras', j).sides) \subseteq Claims \cup IdsIn(contras)
               /\ At(contras, j).by # "facts" => At(contras', j) = At(contras, j)
    <3> DEFINE T == Claims \cup IdsIn(contras)
    <3>1. j[1] \in Wordings /\ j[2] \in DOMAIN contras[j[1]] /\ At(contras, j) \in ContraRow
      BY <1>1, RowOfId
    <3>2. Range(At(contras, j).sides) \subseteq T BY DEF Parts, Stored
    <3>3. At(contras, j).sides \in Seq(Claims \cup (Wordings \X Nat)) BY <3>1 DEF ContraRow
    <3>4. At(contras, j).sides \in Seq(T) BY <3>2, <3>3, SeqByRange
    <3>5. Claims \subseteq T OBVIOUS
    <3> HIDE DEF T
    <3>6. At(contras', j).sides \in Seq(T) BY <1>5, <3>1, <3>4, <3>5 DEF At
    <3>7. Range(At(contras', j).sides) \subseteq T BY <3>6, SeqByRange
    <3> QED BY <1>5, <3>1, <3>7 DEF At, T
  <2>2. ASSUME NEW j \in IdsIn(contras')
        PROVE  Range(At(contras', j).sides) \subseteq Claims \cup IdsIn(contras')
    <3>1. CASE j \in IdsIn(contras) BY <1>8, <2>1, <3>1
    <3>2. CASE j \notin IdsIn(contras)
      <4>1. At(contras', j).sides \in Seq(Claims) BY <1>9, <3>2
      <4> QED BY <4>1, SeqByRange
    <3> QED BY <3>1, <3>2
  <2> QED BY <1>7, <1>9, <2>1, <2>2 DEF GrowsTo
<1>11. Resolved(contras') \subseteq Resolved(contras)
  <2> SUFFICES ASSUME NEW w \in Wordings, NEW i \in DOMAIN contras'[w],
                      contras'[w][i].status = "resolved"
               PROVE  w \in Resolved(contras)
    BY DEF Resolved
  <2>1. i \in DOMAIN contras[w] BY <1>5
  <2> QED BY <1>5, <2>1 DEF Resolved
<1>12. unseen' \subseteq IdsIn(contras')
  <2>1. ASSUME NEW w \in Wordings, Len(contras'[w]) > Len(contras[w])
        PROVE  <<w, Len(contras'[w])>> \in IdsIn(contras')
    <3>1. /\ Len(contras'[w]) \in Nat /\ DOMAIN contras'[w] = 1..Len(contras'[w])
      BY <1>5, LenProperties
    <3>2. Len(contras[w]) \in Nat
      <4>1. contras[w] \in Seq(ContraRow) BY <1>1 DEF Rows
      <4> QED BY <4>1, LenProperties
    <3>3. Len(contras'[w]) \in DOMAIN contras'[w] BY <2>1, <3>1, <3>2
    <3> QED BY <1>6, <3>3, IdOfRow
  <2>2. unseen \subseteq IdsIn(contras') BY <1>8 DEF Parts
  <2> QED BY <1>3, <2>1, <2>2
<1>13. NewsIn(contras, contras', unseen')
  <2> SUFFICES ASSUME NEW j \in IdsIn(contras'), j \notin IdsIn(contras), j \notin unseen',
                      NEW k \in IdsIn(contras), At(contras, k).status = "resolved",
                      <<k[1], j[1]>> \in Alike
               PROVE  FALSE
    BY DEF NewsIn
  <2>1. k[1] \in Wordings /\ k[1] \in Resolved(contras) BY <1>1, RowOfId, ResolvedWording
  <2>2. j[1] \in Wordings /\ <<j[1], k[1]>> \in Alike BY <1>9, <2>1, RelationsAssumption
  <2>3. CASE k[1] \in y.resolved BY <1>9, <2>2, <2>3, NotSkipped
  <2>4. CASE k[1] \in y.missed
    <3>1. <<j[1], Len(contras'[j[1]])>> \in unseen' BY <1>3, <1>9, <2>2, <2>4
    <3> QED BY <1>9, <3>1
  <2> QED BY <1>4, <2>1, <2>3, <2>4
<1> QED BY <1>6, <1>10, <1>11, <1>12, <1>13

LEMMA CommitKeeps ==
  ASSUME Parts, NEW s \in Syncers, Commit(s)
  PROVE  Parts'
<1>1. /\ contras' \in Rows /\ GrowsTo(contras, contras')
      /\ Resolved(contras') \subseteq Resolved(contras)
      /\ unseen' \subseteq IdsIn(contras') /\ NewsIn(contras, contras', unseen')
  BY CommitGrows
<1>2. /\ UNCHANGED <<settled, resolver, evaluation, syncs, cascaded>>
      /\ unseen \subseteq unseen'
  BY DEF Commit
<1>3. sync[s] \in Sync BY DEF Parts, Types
<1>4. claims' \in [Claims -> Seq(ClaimRow)]
  <2>1. claims' = [c \in Claims |-> ClaimRows(sync[s], c)] BY DEF Commit
  <2> QED BY <1>3, <2>1, ClaimRowsType DEF Parts, Types
<1>5. goals' \in [Goals -> Seq(Statuses)]
  <2>1. goals' = [g \in Goals |-> GoalRows(sync[s], g)] BY DEF Commit
  <2> QED BY <1>3, <2>1, GoalRowsType DEF Parts, Types
<1>6. ASSUME NEW t \in Syncers
      PROVE  /\ sync'[t] \in Sync
             /\ sync'[t].at = "idle" <=> sync'[t] = Idle
             /\ HasRead(sync'[t], contras') /\ IsCurrent(sync'[t], claims')
  <2>1. CASE t = s
    <3>1. sync'[t] = Idle BY <2>1 DEF Commit
    <3> QED BY <3>1, IdleType DEF HasRead, IsCurrent
  <2>2. CASE t # s
    <3> DEFINE x == sync[t]
               b == x.at = "idle"
               y == [x EXCEPT !.alone = b]
    <3>1. sync'[t] = y BY <2>2 DEF Commit
    <3>2. /\ x \in Sync
          /\ x.at = "idle" <=> x = Idle
          /\ HasRead(x, contras)
      BY DEF Parts, Types
    <3>3. b \in BOOLEAN /\ (b <=> x.at = "idle") OBVIOUS
    <3> HIDE DEF b, x
    <3>4. /\ y \in Sync /\ y.at = x.at /\ y.alone = b /\ y.contras = x.contras
          /\ y.resolved = x.resolved /\ y.missed = x.missed
      BY <3>2, <3>3 DEF Sync
    <3>5. x.at = "idle" => y = Idle
      <4>1. SUFFICES ASSUME x.at = "idle" PROVE y = Idle OBVIOUS
      <4>2. b = TRUE /\ x = Idle BY <3>2, <3>3, <4>1
      <4>3. x.alone = b BY <4>2 DEF Idle
      <4> QED BY <3>2, <4>2, <4>3 DEF Sync
    <3> HIDE DEF y
    <3>6. HasRead(y, contras)  BY <3>2, <3>4 DEF HasRead
    <3>7. HasRead(y, contras') BY <1>1, <3>6, GrownRead DEF GrowsTo
    <3>8. IsCurrent(y, claims') BY <3>3, <3>4 DEF IsCurrent
    <3> QED BY <3>1, <3>4, <3>5, <3>7, <3>8, IdleType
  <2> QED BY <2>1, <2>2
<1>7. sync' \in [Syncers -> Sync]
  <2>1. sync' = [t \in Syncers |-> sync'[t]] BY DEF Commit
  <2> QED BY <1>6, <2>1
<1>8. Types' BY <1>1, <1>2, <1>4, <1>5, <1>6, <1>7 DEF Parts, Types, Rows
<1> QED BY <1>1, <1>2, <1>6, <1>8, GrowStep

-----------------------------------------------------------------------------
(***************************************************************************)
(* Evaluations of goals.                                                   *)
(***************************************************************************)
LEMMA GoalIds ==
  ASSUME Types
  PROVE  ActiveGoals \subseteq Goals \X Nat
<1>1. \A g \in Goals : DOMAIN goals[g] \subseteq Nat
  <2> SUFFICES ASSUME NEW g \in Goals PROVE DOMAIN goals[g] \subseteq Nat OBVIOUS
  <2>1. goals[g] \in Seq(Statuses) BY DEF Types
  <2> QED BY <2>1, LenProperties
<1> QED BY <1>1 DEF ActiveGoals

LEMMA EvaluateKeeps ==
  ASSUME Parts, NEW e \in Evaluators, Evaluate(e)
  PROVE  Parts' /\ UNCHANGED <<claims, contras>>
<1>1. UNCHANGED <<claims, contras, settled, syncs, sync, resolver, cascaded, unseen>>
  BY DEF Evaluate, ReadGoals, WriteGoals, graph, ghosts
<1>2. goals' \in [Goals -> Seq(Statuses)] /\ evaluation' \in [Evaluators -> SUBSET (Goals \X Nat)]
  <2>0. /\ goals \in [Goals -> Seq(Statuses)]
        /\ evaluation \in [Evaluators -> SUBSET (Goals \X Nat)] /\ Types
    BY DEF Parts, Types
  <2>1. CASE ReadGoals(e) BY <2>0, <2>1, GoalIds DEF ReadGoals, graph
  <2>2. ASSUME NEW done, NEW begun, WriteGoals(e, done, begun)
        PROVE  goals' \in [Goals -> Seq(Statuses)]
    <3> DEFINE state(g, i) == IF <<g, i>> \in done THEN "resolved"
                              ELSE IF <<g, i>> \in begun THEN "in_progress" ELSE goals[g][i]
               row(g) == [i \in DOMAIN goals[g] |-> state(g, i)]
    <3>1. goals' = [g \in Goals |-> row(g)] BY <2>2 DEF WriteGoals
    <3>2. ASSUME NEW g \in Goals PROVE row(g) \in Seq(Statuses)
      <4>1. goals[g] \in Seq(Statuses) BY <2>0
      <4>2. Len(goals[g]) \in Nat /\ DOMAIN goals[g] = 1..Len(goals[g]) BY <4>1, LenProperties
      <4>3. \A i \in DOMAIN goals[g] : goals[g][i] \in Statuses BY <4>1, <4>2, ElementOfSeq
      <4>4. \A i \in DOMAIN goals[g] : state(g, i) \in Statuses BY <4>3 DEF Statuses
      <4> HIDE DEF state
      <4>5. row(g) \in [1..Len(goals[g]) -> Statuses] BY <4>2, <4>4
      <4> QED BY <4>2, <4>5, FunIsSeq
    <3> HIDE DEF row
    <3> QED BY <3>1, <3>2
  <2>3. ASSUME NEW done, NEW begun, WriteGoals(e, done, begun)
        PROVE  evaluation' \in [Evaluators -> SUBSET (Goals \X Nat)]
    BY <2>0, <2>3 DEF WriteGoals
  <2> QED BY <2>1, <2>2, <2>3 DEF Evaluate
<1>3. Types' BY <1>1, <1>2 DEF Parts, Types
<1> QED BY <1>1, <1>3 DEF Parts

-----------------------------------------------------------------------------
(***************************************************************************)
(* The theorems.                                                           *)
(***************************************************************************)
LEMMA InitParts ==
  ASSUME Init
  PROVE  Parts
<1>1. Types BY EmptyType, IdleType DEF Init, Types, Rows, Resolution, NoResolution, NoId
<1>2. IdsIn(contras) = {} BY DEF Init, Empty, IdsIn
<1> QED BY <1>1, <1>2, IdleType
        DEF Init, Parts, Stored, Working, Cascading, HasRead, IsCurrent, NoResolution

LEMMA SynchroniseKeeps ==
  ASSUME Parts, NEW s \in Syncers, Synchronise(s)
  PROVE  Parts' /\ Former(contras, contras')
<1>1. CASE \E facts \in Extractions : Begin(s, facts)
  BY <1>1, BeginKeeps, FormerSame DEF Begin, graph
<1>2. CASE ReadContradictions(s)
  BY <1>2, ReadContradictionsKeeps, FormerSame DEF ReadContradictions, graph
<1>3. CASE ReadResolved(s) BY <1>3, ReadResolvedKeeps, FormerSame DEF ReadResolved, graph
<1>4. CASE Commit(s) BY <1>4, CommitKeeps, CommitGrows DEF GrowsTo
<1>5. CASE Rollback(s) BY <1>5, RollbackKeeps, FormerSame DEF Rollback, graph
<1> QED BY <1>1, <1>2, <1>3, <1>4, <1>5 DEF Synchronise

LEMMA ResolveKeeps ==
  ASSUME Parts, NEW r \in Resolvers, Resolve(r)
  PROVE  Parts' /\ Former(contras, contras') /\ claims' = claims
<1>0. contras \in Rows /\ IdsIn(contras) = Ids BY IdsAreIn DEF Parts, Types, Rows
<1>1. ASSUME NEW k \in Ids, MarkResolved(r, k)
      PROVE  Parts' /\ Former(contras, contras') /\ claims' = claims
  BY <1>0, <1>1, MarkResolvedKeeps, SetResolvedRows DEF MarkResolved
<1>2. ASSUME NEW k \in resolver[r].list, MarkDuplicate(r, k)
      PROVE  Parts' /\ Former(contras, contras') /\ claims' = claims
  <2>1. k \in IdsIn(contras) BY <1>2 DEF Parts, Working, MarkDuplicate
  <2> QED BY <1>0, <1>2, <2>1, MarkDuplicateKeeps, SetResolvedRows DEF MarkDuplicate
<1>3. CASE ReadDuplicates(r)
  BY <1>3, ReadDuplicatesKeeps, FormerSame DEF ReadDuplicates, graph
<1>4. CASE CascadeEnds(r) BY <1>4, CascadeEndsKeeps, FormerSame DEF CascadeEnds, graph
<1>5. CASE CascadeFails(r) BY <1>5, CascadeFailsKeeps, FormerSame DEF CascadeFails, graph
<1>6. CASE AppendEdges(r) BY <1>6, AppendEdgesKeeps, FormerSame DEF AppendEdges
<1> QED BY <1>1, <1>2, <1>3, <1>4, <1>5, <1>6 DEF Resolve

LEMMA NextKeeps ==
  ASSUME Parts, [Next]_vars
  PROVE  Parts' /\ Former(contras, contras')
<1>1. CASE UNCHANGED vars
  <2>1. UNCHANGED <<claims, goals, contras, settled, sync, resolver, evaluation, syncs,
                    cascaded, unseen>>
    BY <1>1 DEF vars, graph, ghosts
  <2>2. Types' BY <2>1 DEF Parts, Types
  <2> QED BY <2>1, <2>2, FormerSame DEF Parts
<1>2. CASE \E s \in Syncers : Synchronise(s) BY <1>2, SynchroniseKeeps
<1>3. CASE \E r \in Resolvers : Resolve(r) BY <1>3, ResolveKeeps
<1>4. CASE \E e \in Evaluators : Evaluate(e) BY <1>4, EvaluateKeeps, FormerSame
<1>5. CASE \E k \in Ids, c \in Claims : Backfill(k, c) BY <1>5, BackfillKeeps
<1> QED BY <1>1, <1>2, <1>3, <1>4, <1>5 DEF Next

\* The invariant is inductive: reads are old, cascades complete but for what
\* was raised by those that had asked before.
THEOREM Invariance == Spec => []IInv
<1>1. Init => IInv BY InitParts, InvIsParts
<1>2. IInv /\ [Next]_vars => IInv' BY NextKeeps, InvIsParts
<1> QED BY <1>1, <1>2, PTL DEF Spec

\* Goals are never irrelevant, and every row, edge, resolution and ghost names
\* rows that are stored.
THEOREM TypeCorrect == Spec => []TypeOK
<1>1. IInv => TypeOK BY DEF IInv
<1> QED BY <1>1, Invariance, PTL

\* Beside a contradiction resolved with its duplicates, an active one of its
\* kind comes from an extraction that had asked for resolved ones before.
THEOREM OnlyUnseenAreRaised == Spec => []RaisedOnlyUnseen
<1>1. IInv => RaisedOnlyUnseen BY DEF IInv
<1> QED BY <1>1, Invariance, PTL

\* No extraction, in whatever wording and however late, activates a resolved
\* contradiction again.
THEOREM ResolvedForGood == Spec => ResolvedStays
<1>1. ASSUME IInv, [Next]_vars
      PROVE  \A k \in Ids : At(contras, k).status = "resolved"
                              => At(contras', k).status = "resolved"
  <2>1. Parts /\ Parts' /\ Former(contras, contras') BY <1>1, InvIsParts, NextKeeps
  <2>2. contras \in Rows /\ contras' \in Rows BY <2>1 DEF Parts, Types, Rows
  <2> QED BY <2>1, <2>2, FormerRows, IdsAreIn
<1> QED BY <1>1, Invariance, PTL DEF Spec, ResolvedStays

(***************************************************************************)
(* Extractions that read the same row and are written one after the other  *)
(* leave the greater of their confidences.                                 *)
(***************************************************************************)
THEOREM ConfidenceGrows == Spec => ConfidenceOnlyIncreases
<1>1. ASSUME IInv, [Next]_vars, NEW c \in Claims, NEW i \in DOMAIN claims[c]
      PROVE  claims'[c][i].confidence >= claims[c][i].confidence
  <2>1. Parts BY <1>1, InvIsParts
  <2>2. claims \in [Claims -> Seq(ClaimRow)] /\ claims[c][i].confidence \in Nat
    <3>1. claims \in [Claims -> Seq(ClaimRow)] BY <2>1 DEF Parts, Types
    <3>2. claims[c][i] \in ClaimRow BY <3>1, ElementOfSeq, LenProperties
    <3> QED BY <3>1, <3>2 DEF ClaimRow
  <2>3. CASE claims' = claims BY <2>2, <2>3
  <2>4. ASSUME NEW s \in Syncers, Commit(s)
        PROVE  claims'[c][i].confidence >= claims[c][i].confidence
    <3>1. sync[s] \in Sync BY <2>1 DEF Parts, Types
    <3>2. claims'[c] = ClaimRows(sync[s], c) BY <2>4 DEF Commit
    <3> QED BY <2>2, <3>1, <3>2, ClaimRowsType
  <2>5. claims' = claims \/ \E s \in Syncers : Commit(s)
    <3>1. CASE UNCHANGED vars BY <3>1 DEF vars, graph
    <3>2. ASSUME NEW s \in Syncers, Synchronise(s) PROVE claims' = claims \/ Commit(s)
      BY <3>2 DEF Synchronise, Begin, ReadContradictions, ReadResolved, Rollback, graph
    <3>3. CASE \E r \in Resolvers : Resolve(r) BY <2>1, <3>3, ResolveKeeps
    <3>4. CASE \E e \in Evaluators : Evaluate(e) BY <2>1, <3>4, EvaluateKeeps
    <3>5. CASE \E k \in Ids, c2 \in Claims : Backfill(k, c2) BY <3>5 DEF Backfill
    <3> QED BY <1>1, <3>1, <3>2, <3>3, <3>4, <3>5 DEF Next
  <2> QED BY <2>3, <2>4, <2>5
<1>2. ASSUME IInv, [Next]_vars
      PROVE  \A c \in Claims : \A i \in DOMAIN claims[c] :
                claims'[c][i].confidence >= claims[c][i].confidence
  BY <1>1, <1>2
<1> QED BY <1>2, Invariance, PTL DEF Spec, ConfidenceOnlyIncreases

(***************************************************************************)
(* An extraction that no other one overtook leaves active what it said,    *)
(* each claim once, whatever twins and leftovers were stored before.       *)
(***************************************************************************)
THEOREM AloneSettles == Spec => LoneExtractionSettles
<1> DEFINE active(t, c) == {i \in DOMAIN t[c] : t[c][i].active}
<1>1. ASSUME IInv, NEW s \in Syncers, Commit(s), sync[s].alone, Confident(sync[s]),
             NEW c \in Claims
      PROVE  Cardinality(active(claims', c)) = IF c \in sync[s].facts.claims THEN 1 ELSE 0
  <2> DEFINE y == sync[s]
             read == claims[c]
             said == c \in Said(y)
             row(i) ==
               IF said /\ i = 1
                 THEN [confidence |-> Confidence(y, c, i),
                       active |-> read[i].active \/ ~ read[i].active]
                 ELSE [read[i] EXCEPT !.active = @ /\ ~ read[i].active]
             old == [i \in DOMAIN read |-> row(i)]
             first == [confidence |-> y.facts.confidence, active |-> TRUE]
             more == IF said /\ read = <<>> THEN <<first>> ELSE <<>>
             new == claims'[c]
  <2>1. Parts BY <1>1, InvIsParts
  <2>2. y \in Sync /\ y.at = "resolved" /\ IsCurrent(y, claims)
    BY <1>1, <2>1 DEF Parts, Types, Commit
  <2>3. y.claims = claims /\ y.twin[c] = 0 BY <1>1, <2>2 DEF IsCurrent
  <2>4. read \in Seq(ClaimRow) BY <2>1 DEF Parts, Types
  <2>5. Len(read) \in Nat /\ DOMAIN read = 1..Len(read) BY <2>4, LenProperties
  <2>6. new = old \o more
    <3>1. new = ClaimRows(y, c) BY <1>1 DEF Commit
    <3> QED BY <2>3, <3>1 DEF ClaimRows
  <2>7. first \in ClaimRow /\ first.active BY <2>2 DEF Sync, Facts, ClaimRow
  <2>8. ASSUME NEW i \in DOMAIN read
        PROVE  row(i) \in ClaimRow /\ (row(i).active <=> said /\ i = 1)
    <3>1. read[i] \in ClaimRow BY <2>4, <2>5, ElementOfSeq
    <3>2. Confidence(y, c, i) \in Nat
      BY <2>2, <3>1 DEF Confidence, Greater, Sync, Facts, ClaimRow
    <3>3. read[i].active \in BOOLEAN BY <3>1 DEF ClaimRow
    <3>4. CASE said /\ i = 1
      <4>1. row(i) = [confidence |-> Confidence(y, c, i), active |-> TRUE]
        BY <3>3, <3>4
      <4> QED BY <3>2, <3>4, <4>1 DEF ClaimRow
    <3>5. CASE ~ (said /\ i = 1)
      <4>1. row(i) = [read[i] EXCEPT !.active = FALSE] BY <3>3, <3>5
      <4> QED BY <3>1, <3>5, <4>1 DEF ClaimRow
    <3> QED BY <3>4, <3>5
  <2>9. \A i \in DOMAIN read : old[i] = row(i) OBVIOUS
  <2> HIDE DEF row, first
  <2>10. old \in [DOMAIN read -> ClaimRow] BY <2>8
  <2>11. more \in Seq(ClaimRow) BY <2>7
  <2>12. said <=> c \in y.facts.claims BY <1>1 DEF Said
  <2>13. Len(more) = (IF said /\ read = <<>> THEN 1 ELSE 0) /\ (Len(more) = 1 => more[1].active)
    BY <2>7
  <2>14. read = <<>> <=> Len(read) = 0 BY <2>4, EmptySeq
  <2> HIDE DEF old, more, said, read
  <2>15. Rewriting(new, read, old, more) BY <2>4, <2>6, <2>10, <2>11, Rewritten
  <2> HIDE DEF new
  <2>16. \A i \in DOMAIN new : new[i].active <=> said /\ i = 1
    <3> SUFFICES ASSUME NEW i \in DOMAIN new PROVE new[i].active <=> said /\ i = 1 OBVIOUS
    <3>1. CASE i \in DOMAIN read BY <2>8, <2>9, <2>15, <3>1 DEF Rewriting
    <3>2. CASE i \notin DOMAIN read
      <4>0. i - Len(read) \in 1..Len(more) /\ new[i] = more[i - Len(read)]
        BY <2>15, <3>2 DEF Rewriting
      <4>1. i \in Nat /\ i - Len(read) \in 1..Len(more) /\ new[i] = more[i - Len(read)]
        <5>1. Len(more) \in Nat BY <2>13
        <5>2. DOMAIN new = 1..(Len(read) + Len(more)) BY <2>15 DEF Rewriting
        <5> QED BY <2>5, <4>0, <5>1, <5>2
      <4>2. Len(more) = 1 /\ said /\ Len(read) = 0 BY <2>13, <2>14, <4>1
      <4>3. i = 1 BY <4>1, <4>2
      <4> QED BY <2>13, <4>1, <4>2, <4>3
    <3> QED BY <3>1, <3>2
  <2>17. said => 1 \in DOMAIN new BY <2>5, <2>13, <2>14, <2>15 DEF Rewriting
  <2>18. active(claims', c) = IF said THEN {1} ELSE {} BY <2>16, <2>17 DEF new
  <2> QED BY <2>12, <2>18, FS_EmptySet, FS_Singleton
<1>2. ASSUME IInv, [Next]_vars
      PROVE  \A s \in Syncers :
                Commit(s) /\ sync[s].alone /\ Confident(sync[s]) =>
                  \A c \in Claims :
                     Cardinality({i \in DOMAIN claims'[c] : claims'[c][i].active})
                       = IF c \in sync[s].facts.claims THEN 1 ELSE 0
  BY <1>1, <1>2
<1> QED BY <1>2, Invariance, PTL DEF Spec, LoneExtractionSettles
=============================================================================
