---------------------------- MODULE MemorySearch ----------------------------
(***************************************************************************)
(* memory_search (Search and fuse of internal/memory/store.go) over the    *)
(* tables of MemoryTable in motion: a search asks twice, by meaning and by *)
(* keyword, each question in a snapshot of its own, and fuses what the two *)
(* found while writes, edits, embeddings, deletions and revocations go on. *)
(*                                                                         *)
(* How similar a content is to the query, and how well its words match,    *)
(* are fixed per content; a score is represented by the content it was     *)
(* computed from.  Tags restrict both arms alike and are left out.         *)
(***************************************************************************)
EXTENDS MemoryTable, SequencesExt

CONSTANTS
  Limit,       \* hits asked for
  OverFetch,   \* times that, an arm asks for (4 in the code)
  Similarity,  \* of each content's vector to the query's
  MinScore,    \* the floor of the semantic arm
  Matches,     \* the rank of each content that has the query's words
  Asking, QueryReady, Failed  \* what an arm is at while it has no hits

ASSUME SearchAssumption ==
  /\ Limit \in Nat \ {0} /\ OverFetch \in Nat \ {0}
  /\ Similarity \in [Contents -> Nat] /\ MinScore \in Nat
  /\ DOMAIN Matches \subseteq Contents /\ Matches \in [DOMAIN Matches -> Nat]
  /\ Cardinality({Asking, QueryReady, Failed}) = 3

fetch == Limit * OverFetch
rrfK == 60

VARIABLE search  \* the call: its key, what each arm found, what it answers

searchVars == <<keys, rows, clock, tx, owner, search>>

Arms == {"vector", "keyword"}
Sibling(arm) == IF arm = "vector" THEN "keyword" ELSE "vector"
NoSearch == [pc |-> "idle"]
Busy(arm) == search.pc = "searching" /\ search[arm] \in {Asking, QueryReady}
-----------------------------------------------------------------------------
\* ORDER BY worth DESC LIMIT fetch, equals in any order.
Top(S, worth) ==
  LET n == IF Cardinality(S) < fetch THEN Cardinality(S) ELSE fetch
  IN  {s \in [1 .. n -> S] :
         /\ \A i, j \in 1 .. n : i < j => s[i] # s[j] /\ worth[s[i]] >= worth[s[j]]
         /\ \A i \in 1 .. n : \A x \in S \ {s[j] : j \in 1 .. n} : worth[s[i]] >= worth[x]}

Hit(i, score, source) ==
  [id |-> i, content |-> rows[i].content, score |-> score, source |-> source]
Found(ids, score, source) == [n \in DOMAIN ids |-> Hit(ids[n], score[ids[n]], source)]

\* Rows without a vector have no distance, and are not compared; the index
\* over the others (HNSW) is approximate, and may miss some.
vectorSearch(k) ==
  LET S == {i \in RowsOf(k) : rows[i].vec # NoVec /\ Similarity[rows[i].vec] >= MinScore}
      vec == [i \in S |-> rows[i].vec]
      near == [i \in S |-> Similarity[vec[i]]]
  IN  {Found(ids, vec, "vector") : ids \in UNION {Top(reached, near) : reached \in SUBSET S}}

keywordSearch(k) ==
  LET S == {i \in RowsOf(k) : rows[i].content \in DOMAIN Matches}
      text == [i \in S |-> rows[i].content]
  IN  {Found(ids, text, "keyword") : ids \in Top(S, [i \in S |-> Matches[text[i]]])}
-----------------------------------------------------------------------------
(***************************************************************************)
(* Reciprocal Rank Fusion: 1 / (rrfK + rank), summed over the arms.        *)
(***************************************************************************)
IdsOf(hits) == {hits[n].id : n \in DOMAIN hits}
RankOf(hits, i) == CHOOSE n \in DOMAIN hits : hits[n].id = i

\* A fraction, as a pair.
Rrf(vecHits, kwHits, i) ==
  LET v == rrfK + RankOf(vecHits, i)
      w == rrfK + RankOf(kwHits, i)
  IN  CASE i \notin IdsOf(kwHits) -> <<1, v>>
        [] i \notin IdsOf(vecHits) -> <<1, w>>
        [] OTHER -> <<v + w, v * w>>

More(p, q) == p[1] * q[2] > q[1] * p[2]

\* Mutant of Merged: a hit of both arms is the keyword arm's copy, with the
\* vector arm's score.
MergedFromKeyword(vecHits, kwHits, i) ==
  CASE i \notin IdsOf(vecHits) -> kwHits[RankOf(kwHits, i)]
    [] i \notin IdsOf(kwHits) -> vecHits[RankOf(vecHits, i)]
    [] OTHER -> [kwHits[RankOf(kwHits, i)] EXCEPT
                   !.score = vecHits[RankOf(vecHits, i)].score, !.source = "both"]

Merged(vecHits, kwHits, i) ==
  CASE i \notin IdsOf(vecHits) -> kwHits[RankOf(kwHits, i)]
    [] i \notin IdsOf(kwHits) -> vecHits[RankOf(vecHits, i)]
    [] OTHER -> [vecHits[RankOf(vecHits, i)] EXCEPT !.source = "both"]

\* Mutant of Settle: the comparison is the wrong way round.
SettleAscending(sorted, i, rrf) ==
  LET stops == {j \in DOMAIN sorted : ~More(rrf[sorted[j]], rrf[i])}
      at == IF stops = {} THEN 0 ELSE CHOOSE j \in stops : \A k \in stops : k <= j
  IN  InsertAt(sorted, at + 1, i)

\* A turn of the insertion sort: i moves left past what it beats.
Settle(sorted, i, rrf) ==
  LET stops == {j \in DOMAIN sorted : ~More(rrf[i], rrf[sorted[j]])}
      at == IF stops = {} THEN 0 ELSE CHOOSE j \in stops : \A k \in stops : k <= j
  IN  InsertAt(sorted, at + 1, i)

\* The entries, after each turn the first n of them in order.
Sorted(out, rrf) ==
  LET turn[n \in 0 .. Len(out)] == IF n = 0 THEN <<>> ELSE Settle(turn[n - 1], out[n], rrf)
  IN  turn[Len(out)]

\* The map is ranged over in any order.
fuse(vecHits, kwHits) ==
  LET ids == IdsOf(vecHits) \cup IdsOf(kwHits)
      rrf == [i \in ids |-> Rrf(vecHits, kwHits, i)]
  IN  {[n \in DOMAIN order |-> Merged(vecHits, kwHits, order[n])] :
         order \in {Sorted(out, rrf) : out \in SetToSeqs(ids)}}

Cut(hits) == IF Len(hits) > Limit THEN SubSeq(hits, 1, Limit) ELSE hits
-----------------------------------------------------------------------------
Ask(k) ==
  /\ search = NoSearch
  /\ search' = [pc |-> "searching", key |-> k, vector |-> Asking, keyword |-> Asking]

EmbedQuery ==
  /\ Busy("vector") /\ search.vector = Asking
  /\ search' = [search EXCEPT !.vector = QueryReady]

VectorArm ==
  /\ Busy("vector") /\ search.vector = QueryReady
  /\ \E hits \in vectorSearch(search.key) : search' = [search EXCEPT !.vector = hits]

KeywordArm ==
  /\ Busy("keyword")
  /\ \E hits \in keywordSearch(search.key) : search' = [search EXCEPT !.keyword = hits]

\* The query cannot be embedded, or the database refuses, or the caller leaves.
ArmFails(arm) ==
  /\ Busy(arm)
  /\ search' = [search EXCEPT ![arm] = Failed]

\* Mutant of Cancelled: the arms share no context.
CancelledNever(arm) ==
  /\ Busy(arm) /\ FALSE
  /\ search' = [search EXCEPT ![arm] = Failed]

\* The errgroup cancels the other arm.
Cancelled(arm) ==
  /\ Busy(arm) /\ search[Sibling(arm)] = Failed
  /\ search' = [search EXCEPT ![arm] = Failed]

\* Mutant of Erred: what the vector arm returns is not looked at.
ErredByKeyword == search.keyword = Failed

Erred == \E arm \in Arms : search[arm] = Failed
Done == search.pc = "searching" /\ \A arm \in Arms : ~Busy(arm)

Answer(hits) ==
  search' = [pc |-> "answered", key |-> search.key, vector |-> search.vector,
             keyword |-> search.keyword, hits |-> hits]

\* g.Wait with an error: whatever the other arm found is dropped.
WaitErr ==
  /\ Done /\ Erred
  /\ Answer(Failed)

\* An arm that has not returned hits has left its slice nil.
HitsOf(arm) == IF search[arm] = Failed THEN <<>> ELSE search[arm]

Wait ==
  /\ Done /\ ~Erred
  /\ \E hits \in fuse(HitsOf("vector"), HitsOf("keyword")) : Answer(Cut(hits))

Return ==
  /\ search.pc = "answered"
  /\ search' = NoSearch

Search ==
  /\ \/ \E k \in Keys : Ask(k)
     \/ EmbedQuery \/ VectorArm \/ KeywordArm
     \/ \E arm \in Arms : ArmFails(arm) \/ Cancelled(arm)
     \/ WaitErr \/ Wait
     \/ Return
  /\ UNCHANGED tableVars

SearchInit == TableInit /\ search = NoSearch

SearchNext == Search \/ (TableNext /\ UNCHANGED search)

SearchSpec == SearchInit /\ [][SearchNext]_searchVars

\* What a cancelled context ends is ended, and g.Wait returns.  Neither the
\* database nor the embedding service owes an answer.
FairSearch ==
  /\ SearchSpec
  /\ \A arm \in Arms : WF_searchVars(Cancelled(arm) /\ UNCHANGED tableVars)
  /\ WF_searchVars(WaitErr /\ UNCHANGED tableVars)
-----------------------------------------------------------------------------
Hits == IF search.pc = "answered" /\ search.hits # Failed THEN search.hits ELSE <<>>

\* A hit shows one version of its memory, and its score is that version's: the
\* arms read at different times, and between the two the row may have been
\* edited or embedded anew (store.go:457, fuse).
OneVersion == \A n \in DOMAIN Hits : Hits[n].score = Hits[n].content

\* An answer has what the arms found, each memory once, best fused rank first,
\* and leaves out no better one, whatever order the map gave and wherever the
\* limit cuts.
BestFirst ==
  search.pc = "answered" /\ search.hits # Failed =>
    LET rrf(i) == Rrf(search.vector, search.keyword, i)
        found == IdsOf(search.vector) \cup IdsOf(search.keyword)
    IN  /\ IdsOf(Hits) \subseteq found
        /\ Cardinality(IdsOf(Hits)) = Len(Hits)
        /\ Len(Hits) <= Limit
        /\ Len(Hits) < Limit => IdsOf(Hits) = found
        /\ \A m, n \in DOMAIN Hits : m < n => ~More(rrf(Hits[n].id), rrf(Hits[m].id))
        /\ \A n \in DOMAIN Hits : \A i \in found \ IdsOf(Hits) : ~More(rrf(i), rrf(Hits[n].id))

\* An arm that failed is never taken for one that found nothing: "Nothing
\* relevant is stored" is only said when both have looked.
NoHalfAnswer ==
  search.pc = "answered" /\ (\E arm \in Arms : search[arm] = Failed) => search.hits = Failed

\* A search one arm of which has failed ends, though the other arm's query
\* never would ("a dead vector index does not leave the keyword query hanging").
FailureEndsSearch ==
  search.pc = "searching" /\ (\E arm \in Arms : search[arm] = Failed) ~> search.pc = "answered"
=============================================================================
