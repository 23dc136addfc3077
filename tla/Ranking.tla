------------------------------ MODULE Ranking -------------------------------
(***************************************************************************)
(* The ranking pipeline of recall (retrieval/): the candidates a store     *)
(* gives, the sources that rank them, their fusion, the validity prior,    *)
(* the cross-encoder with the bridge hop, the weight of distilled lessons. *)
(*                                                                         *)
(* A ranking is a sequence of [id, score].  Texts, tokens and vectors are  *)
(* abstracted to the scores the sources give, which the caller chooses;    *)
(* weights and importances are tenths.  A fused score is known up to a     *)
(* factor all scores of a call share: nothing compares it with another     *)
(* call's.                                                                 *)
(***************************************************************************)
EXTENDS Integers, Sequences, FiniteSets, SequencesExt, FiniteSetsExt, TLC

(* No instant, no budget. *)
None == -1

(* A common multiple of 6 to 9, the denominators of four ranks at rrf_k = 5. *)
SCALE == 504
RRF_K == 5

Take(s, n) == SubSeq(s, 1, Min({Len(s), n}))

(* Python's stable sorts, by a key that orders pairs of elements. *)
StableSort(s, Before(_, _)) ==
    LET order == SortSeq([i \in DOMAIN s |-> i],
                         LAMBDA i, j : Before(s[i], s[j]) \/ (~Before(s[j], s[i]) /\ i < j))
    IN  [i \in DOMAIN s |-> s[order[i]]]

Descending(s) == StableSort(s, LAMBDA a, b : a.score > b.score)

IdsOf(s) == [i \in DOMAIN s |-> s[i].id]

(* The keys of a dict filled from s: first occurrences, in order. *)
Distinct(s) == FoldLeft(LAMBDA seen, x : IF Contains(seen, x) THEN seen ELSE Append(seen, x), <<>>, s)

PlaceOf(s, x) == CHOOSE i \in DOMAIN s : s[i] = x

-----------------------------------------------------------------------------
(* Validity: a row is open from `from` until `until`, and expires.          *)

Never == 99

Expired(row, at) == row.expires < at

IsOpenAt(row, asOf, now) ==
    /\ ~Expired(row, IF asOf = None THEN now ELSE asOf)
    /\ IF asOf = None THEN row.until = Never ELSE row.from <= asOf /\ asOf < row.until

(* Runs of equal fused scores are put newest first. *)
AgeDecay(ranking, row) ==
    LET run == [i \in DOMAIN ranking |->
                   Cardinality({j \in 2..i : ranking[j].score # ranking[j - 1].score})]
        order == StableSort([i \in DOMAIN ranking |-> i],
                    LAMBDA i, j : \/ run[i] < run[j]
                                  \/ run[i] = run[j] /\ row[ranking[i].id].from > row[ranking[j].id].from)
    IN  [i \in DOMAIN ranking |-> ranking[order[i]]]

(* apply_validity_prior, for recall's valid_from_min = None. *)
ApplyValidityPrior(ranking, row, q) ==
    LET open(c) == IsOpenAt(row[c.id], q.asOf, q.now)
        eligible == SelectSeq(ranking, open)
        ineligible == SelectSeq(ranking, LAMBDA c : ~open(c))
        aged == IF q.ageDecay THEN AgeDecay(eligible, row) ELSE eligible
    IN  IF q.includeSuperseded THEN aged \o ineligible ELSE aged

-----------------------------------------------------------------------------
(* Sources                                                                  *)

(* BM25: the positive scores; when there are none, the overlaps. *)
Bm25Search(ids, bm25, overlap, topK) ==
    LET scored(f) == [i \in DOMAIN ids |-> [id |-> ids[i], score |-> f[ids[i]]]]
        positive(s) == SelectSeq(s, LAMBDA c : c.score > 0)
    IN  Take(Descending(positive(IF \A i \in DOMAIN ids : bm25[ids[i]] <= 0
                                 THEN scored(overlap) ELSE scored(bm25))), topK)

(* Dense: the rows that have an admitted vector of the query's dimension. *)
DenseSearch(ids, cosine, comparable, queryVector, topK) ==
    IF ~queryVector THEN <<>>
    ELSE Take(Descending(SelectSeq([i \in DOMAIN ids |-> [id |-> ids[i], score |-> cosine[ids[i]]]],
                                   LAMBDA c : c.id \in comparable)), topK)

(* Word overlap ranks when neither of them found anything. *)
LexicalFallback(ids, overlap) ==
    Descending(SelectSeq([i \in DOMAIN ids |-> [id |-> ids[i], score |-> overlap[ids[i]]]],
                         LAMBDA c : c.score > 0))

Rankings(ids, m, bm25K, vectorK) ==
    LET found == SelectSeq(<<Bm25Search(ids, m.bm25, m.overlap, bm25K),
                             DenseSearch(ids, m.cosine, m.comparable, m.queryVector, vectorK)>>,
                           LAMBDA r : r # <<>>)
        lexical == LexicalFallback(ids, m.overlap)
    IN  IF found = <<>> /\ lexical # <<>> THEN <<lexical>> ELSE found

-----------------------------------------------------------------------------
(* Fusion                                                                   *)

RecencyRank(ids, freshness) ==
    Descending([i \in DOMAIN ids |-> [id |-> ids[i], score |-> freshness[ids[i]]]])

(* What a ranking gives to an id: the reciprocal of its rank, or nothing. *)
Reciprocal(ranking, id) ==
    IF \E i \in DOMAIN ranking : ranking[i].id = id
    THEN SCALE \div (RRF_K + PlaceOf(IdsOf(ranking), id)) ELSE 0

Fused(rankings, Score(_)) ==
    LET ids == Distinct(FlattenSeq([i \in DOMAIN rankings |-> IdsOf(rankings[i])]))
    IN  Descending([i \in DOMAIN ids |-> [id |-> ids[i], score |-> Score(ids[i])]])

(* Blended with the importance when alpha is below one, on the scale of the *)
(* best fused score.                                                        *)
RrfFuse(rankings, importance, alpha) ==
    LET rrf(id) == FoldLeft(LAMBDA sum, r : sum + Reciprocal(r, id), 0, rankings)
        best == Max({0} \cup {rrf(c.id) : c \in UNION {Range(r) : r \in Range(rankings)}})
    IN  Fused(rankings, LAMBDA id :
            IF alpha = 10 THEN rrf(id) ELSE 10 * alpha * rrf(id) + (10 - alpha) * importance[id] * best)

CombmaxFuse(rankings) ==
    Fused(rankings, LAMBDA id : Max({Reciprocal(r, id) : r \in Range(rankings)}))

(* Every row has a recency, so every candidate is ranked then, whether a    *)
(* source found it or not.                                                  *)
BlendRecency(fused, recency, weight) ==
    IF weight = 0 \/ fused = <<>> \/ recency = <<>> THEN fused
    ELSE LET best == Max({c.score : c \in Range(fused)})
             ids == Distinct(IdsOf(fused) \o IdsOf(recency))
             scoreIn(s, id) == IF \E i \in DOMAIN s : s[i].id = id THEN s[PlaceOf(IdsOf(s), id)].score ELSE 0
         IN  Descending([i \in DOMAIN ids |->
                 [id |-> ids[i],
                  score |-> 10 * (10 - weight) * scoreIn(fused, ids[i]) + weight * best * scoreIn(recency, ids[i])]])

-----------------------------------------------------------------------------
(* The cross-encoder: None when there is no model, or logits of which the   *)
(* rows at FLOOR and above are plausible.  Every recall has a floor, which  *)
(* hybrid_policy sets: the pipeline's way without one is not taken.         *)

FLOOR == 0
KEEP_AT_LEAST == 1

CrossEncodeScores(ids, logit) == Descending([i \in DOMAIN ids |-> [id |-> ids[i], score |-> logit[ids[i]]]])

(* extend_with_bridge: rows of the tail that hold a bridge term are scored  *)
(* too.                                                                     *)
ExtendWithBridge(scored, tail, bridged, logit) ==
    LET fresh == SelectSeq(bridged, LAMBDA id : Contains(tail, id))
    IN  IF scored = <<>> \/ fresh = <<>> THEN [scored |-> scored, tail |-> tail, bridged |-> FALSE]
        ELSE [scored |-> Descending(scored \o CrossEncodeScores(fresh, logit)),
              tail |-> SelectSeq(tail, LAMBDA id : ~Contains(fresh, id)), bridged |-> TRUE]

(* The order after re-ranking, and whether the fused scores still explain   *)
(* it: what the cross-encoder finds plausible, nothing that it did not see. *)
Rerank(order, m, q) ==
    LET input == Take(order, q.rerankCandidates)
        rest == SubSeq(order, Len(input) + 1, Len(order))
        hop == ExtendWithBridge(CrossEncodeScores(input, m.logit), rest, m.bridged, m.logit)
        plausible(i) == i <= KEEP_AT_LEAST \/ hop.scored[i].score >= FLOOR
        kept == SelectSeq([i \in DOMAIN hop.scored |-> i], plausible)
        after == [i \in DOMAIN kept |-> hop.scored[kept[i]].id]
    IN  IF ~m.crossEncoder \/ order = <<>> THEN [order |-> order, reranked |-> FALSE]
        ELSE [order |-> after,
              reranked |-> \/ hop.bridged \/ Take(after, Len(input)) # input
                           \/ Len(after) # Len(input) + Len(hop.tail)]

-----------------------------------------------------------------------------
(* The weight of distilled lessons, applied once: before the cut.  A result *)
(* is [id, score, basis, weighted, pre]; `pre` is its place before.         *)

UNIT == 12        \* the positions' scores 1, 1/2, 1/3, 1/4, in twelfths

WeightDistilled(rows, distilled, weight) ==
    Descending([i \in DOMAIN rows |->
        LET weighted == rows[i].id \in distilled IN
        [rows[i] EXCEPT !.score = IF weighted THEN @ * weight ELSE @ * 10, !.weighted = weighted]])

Relevance(rankings, ids, row, q) ==
    IF q.fusionMode = "combmax" THEN CombmaxFuse(rankings)
    ELSE RrfFuse(rankings, [id \in Range(ids) |-> row[id].importance], q.alpha)

(* The rows of an order: with their fused scores, or where the order is no  *)
(* longer theirs, with scores of their places.                              *)
ScoredRows(order, fused, explained) ==
    [i \in DOMAIN order |->
        [id |-> order[i], weighted |-> FALSE, pre |-> i, basis |-> IF explained THEN "fused" ELSE "position",
         score |-> IF explained THEN fused[PlaceOf(IdsOf(fused), order[i])].score ELSE UNIT \div i]]

HybridSearchScored(ids, row, m, q) ==
    LET rankings == Rankings(ids, m, q.bm25K, q.vectorK)
        recency == RecencyRank(ids, [id \in Range(ids) |-> row[id].fresh])
        fused == BlendRecency(Relevance(rankings, ids, row, q), recency, q.recencyWeight)
        valid == ApplyValidityPrior(fused, row, q)
        ranked == Rerank(IdsOf(valid), m, q)
        explained == valid = SelectSeq(fused, LAMBDA c : c \in Range(valid)) /\ ~ranked.reranked
        rows == ScoredRows(ranked.order, fused, explained)
    IN  IF rankings = <<>> THEN <<>>
        ELSE Take(IF q.distilledWeight = 10 THEN rows
                  ELSE WeightDistilled(rows, {id \in Range(ids) : row[id].family = "git_distilled"}, q.distilledWeight),
                  q.topK)
=============================================================================
