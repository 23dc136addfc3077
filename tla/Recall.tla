------------------------------- MODULE Recall -------------------------------
(***************************************************************************)
(* One recall, by the SDK (MemoryClient.recall) or by the memory_recall    *)
(* tool: the pool of candidates, the pipeline of Ranking over it, the rows *)
(* that only the tiers or another project of the org have, and what is     *)
(* answered of all these.  The rows do not change while it runs: it works  *)
(* on the copies it acquired (MemoryRows has the changes between).         *)
(*                                                                         *)
(* Importances, freshness and source weights are tenths.  Requests without *)
(* tags, types and min_score, by the default recall_preserve_hybrid_order; *)
(* a caller's own source weights come as that of semantic memories.        *)
(***************************************************************************)
EXTENDS Ranking, Functions

CONSTANTS
    Pool,      \* rows of the namespace, in the order the store lists them
    Tier,      \* rows the tiers have, best first
    Org,       \* shared rows of other projects, best first
    Choose,    \* what may be asked of what: pairs <<row, req>>
    Source     \* what the sources and models may say of the pool's rows

Id == Range(Pool) \cup Range(Tier) \cup Range(Org)

VARIABLES
    row,       \* id -> its row (for one of a tier only, its snapshot)
    req,       \* the request with its resolved configuration
    phase,     \* acquire, rank, supplement, answer, done
    pool,      \* ids acquired
    ranked,    \* the pipeline's result, or the SDK's fallback
    extra,     \* supplements: ids from the tiers and the org
    answer     \* the rows answered, with the keys that sorted them

vars == <<row, req, phase, pool, ranked, extra, answer>>

Init ==
    /\ \E choice \in Choose : row = choice[1] /\ req = choice[2]
    /\ phase = "acquire"
    /\ pool = <<>> /\ ranked = <<>> /\ extra = <<>> /\ answer = <<>>

-----------------------------------------------------------------------------
(* Source policy and admission                                              *)

Weight(family) ==
    IF family = "git_distilled" THEN req.distilledWeight
    ELSE [unknown |-> 10, semantic_memory |-> req.semanticWeight, lifecycle |-> 5][family]

Transient == {"lifecycle", "episodic"}

(* SourcePolicy.allows, with expired rows of transient families excluded.   *)
SourceAllows(r) ==
    /\ r.family \notin req.excludeKinds
    /\ ~(r.family \in Transient /\ Expired(r, req.now))
    /\ Weight(r.family) > 0

(* apply_admission_filter *)
Admits(r) ==
    /\ req.currentOnly => ~r.historical
    /\ r.importance >= req.confidenceFloor

(* RecallInvocation.allows_entry; a mutant admits without the policies. *)
AllowsAnyActive(id) == row[id].status = "active" /\ ~row[id].canary

AllowsEntry(id) ==
    LET r == row[id] IN
    r.status = "active" /\ ~r.canary /\ SourceAllows(r) /\ Admits(r)

Eligible(id) == IsOpenAt(row[id], req.asOf, req.now)

(* SourcePolicy.rank_key: the bucket, and the score on the family's weight. *)
Bucket(id) == IF row[id].family \in Transient THEN 2 ELSE IF Contains(Org, id) THEN 1 ELSE 0

Weighted(id, score, pipelineWeighted) ==
    score * (IF pipelineWeighted /\ row[id].family = "git_distilled" THEN 10 ELSE Weight(row[id].family))

-----------------------------------------------------------------------------
(* Acquisition                                                              *)

(* RecallInvocation.acquire: open rows before the rest, durable ones before *)
(* transient ones, as long as there is room.                                *)
Acquire(source, limit) ==
    LET leg(open, bucket) ==
            SelectSeq(source, LAMBDA id : AllowsEntry(id) /\ Eligible(id) = open /\ Bucket(id) = bucket)
    IN  Take(leg(TRUE, 0) \o leg(TRUE, 2)
             \o (IF req.includeSuperseded THEN leg(FALSE, 0) \o leg(FALSE, 2) ELSE <<>>), limit)

(* The tool asks for rows of one status. *)
AcquireActive(source, limit) == Take(SelectSeq(source, LAMBDA id : row[id].status = "active"), limit)

Matching == SelectSeq(Pool, LAMBDA id : row[id].matches)

(* The newest rows, then those the full text finds past them.               *)
AcquireCandidates ==
    LET leg(source, limit) ==
            IF req.surface = "sdk" THEN Acquire(source, limit) ELSE AcquireActive(source, limit)
    IN  /\ phase = "acquire" /\ phase' = "rank"
        /\ pool' = Distinct(leg(Pool, req.poolSize) \o leg(Matching, req.ftsTopK))
        /\ UNCHANGED <<row, req, ranked, extra, answer>>

(* An SDK recall that ranked nothing scores what a search of the store finds. *)
Fallback ==
    LET found == Acquire(Matching, 3 * req.limit)
    IN  [i \in DOMAIN found |-> [id |-> found[i], score |-> row[found[i]].importance,
                                 basis |-> "fallback", weighted |-> FALSE, pre |-> i]]

(* try_hybrid_recall, build_scored_candidates *)
Rank ==
    /\ phase = "rank" /\ phase' = "supplement"
    /\ \E m \in Source :
          LET scored == HybridSearchScored(pool, row, m, req)
          IN  ranked' = IF req.surface = "sdk" /\ scored = <<>> THEN Fallback ELSE scored
    /\ UNCHANGED <<row, req, pool, extra, answer>>

(* What a mirror still shows as active, superseded or not.                  *)
MirrorCandidates == SelectSeq(Tier, LAMBDA id : row[id].status = "active")

(* Discovery admits as the pool does, and skips what a complete pool ranked: *)
(* one that did not fill its acquisition of the newest rows.                *)
DiscoverCandidates ==
    LET complete == Len(Acquire(Pool, req.poolSize)) < req.poolSize
    IN  SelectSeq(Tier, LAMBDA id : /\ AllowsEntry(id) /\ (Eligible(id) \/ req.includeSuperseded)
                                    /\ ~(complete /\ Contains(pool, id)))

(* The cross-encoder may find warm rows implausible, where there are hits. *)
Plausible(found) ==
    IF ranked = <<>> THEN {found}
    ELSE {SelectSeq(found, LAMBDA id : id \notin gone) : gone \in SUBSET Range(found)}

OrgShared ==
    SelectSeq(Org, LAMBDA id : IF req.surface = "sdk"
                               THEN AllowsEntry(id) /\ (Eligible(id) \/ req.includeSuperseded)
                               ELSE row[id].status = "active")

Supplement ==
    /\ phase = "supplement" /\ phase' = "answer"
    /\ \E tiers \in IF req.surface = "sdk" THEN Plausible(DiscoverCandidates) ELSE {MirrorCandidates} :
          extra' = tiers \o OrgShared
    /\ UNCHANGED <<row, req, pool, ranked, answer>>

-----------------------------------------------------------------------------
(* The SDK's answer                                                         *)

(* Mutant: a row is scored by its place after the distilled weight. *)
PositionalScoresAfter(rows) == [i \in DOMAIN rows |-> Weighted(rows[i].id, UNIT \div i, TRUE)]

(* positional_scores: a row is scored by its place before the weight; a     *)
(* weighted one is raised to the best of the others ranked behind it and    *)
(* cut to the worst of those ranked ahead of it, in its bucket.             *)
PositionalScores(rows) ==
    LET n == Len(rows)
        own(i) == UNIT \div Cardinality({j \in 1..n : rows[j].pre <= rows[i].pre})
        same(i, j) == Bucket(rows[i].id) = Bucket(rows[j].id)
        effective(i) == Weighted(rows[i].id, own(i), TRUE)
        floor(i) == Max({0} \cup {effective(j) : j \in {k \in i + 1..n : same(i, k) /\ ~rows[k].weighted}})
        score[i \in 1..n] ==
            IF rows[i].weighted
            THEN Min({Max({floor(i), effective(i)})} \cup {score[j] : j \in {k \in 1..i - 1 : same(i, k)}})
            ELSE effective(i)
    IN  score

Candidate(id, score, fallback) ==
    [id |-> id, score |-> score, key |-> <<IF Eligible(id) THEN 0 ELSE 1, Bucket(id), fallback>>]

Before(a, b) ==
    \/ \E k \in 1..3 : a.key[k] < b.key[k] /\ \A l \in 1..k - 1 : a.key[l] = b.key[l]
    \/ a.key = b.key /\ a.score > b.score

(* filter_conflicts: of two local rows in conflict the less important one   *)
(* goes, unless it lost its rival to another conflict before.               *)
Settled(rows) ==
    LET local == IdsOf(SelectSeq(rows, LAMBDA c : ~Contains(Org, c.id)))
        against(lost, id) ==
            FoldLeft(LAMBDA gone, other :
                         IF {id, other} \cap gone # {} \/ {id, other} \notin req.conflicts THEN gone
                         ELSE gone \cup {x \in {id, other} : \E y \in {id, other} :
                                            row[x].importance < row[y].importance},
                     lost, local)
        gone == FoldLeft(against, {}, local)
    IN  SelectSeq(rows, LAMBDA c : c.id \notin gone)

(* apply_token_budget: as many as fit, and the first in any case.           *)
ApplyTokenBudget(rows) ==
    LET used(n) == FoldLeft(LAMBDA sum, c : sum + row[c.id].length, 0, SubSeq(rows, 1, n))
        fit == {n \in 1..Len(rows) : \A k \in 2..n : used(k) <= req.budget}
    IN  IF req.budget = None \/ rows = <<>> THEN rows ELSE Take(rows, Max(fit))

(* The recall filter: a row whose text is not the one signed is withheld.   *)
Secured(rows) == SelectSeq(rows, LAMBDA c : ~row[c.id].drifted /\ ~row[c.id].canary)

LocalRows ==
    LET score == IF \E c \in Range(ranked) : c.basis = "fallback"
                 THEN [i \in DOMAIN ranked |-> Weighted(ranked[i].id, ranked[i].score, FALSE)]
                 ELSE PositionalScores(ranked)
    IN  [i \in DOMAIN ranked |-> Candidate(ranked[i].id, score[i], 0)]

(* Tier rows come after all hits of their bucket, unless the caller weighs. *)
MoreRows ==
    LET more == SelectSeq(extra, LAMBDA id : ~Contains(IdsOf(ranked), id))
    IN  [i \in DOMAIN more |->
            Candidate(more[i], Weighted(more[i], row[more[i]].importance, FALSE),
                      IF Contains(Tier, more[i]) /\ ranked # <<>> /\ ~req.explicitWeights THEN 1 ELSE 0)]

SdkRows ==
    StableSort(SelectSeq(LocalRows \o MoreRows,
                         LAMBDA c : AllowsEntry(c.id) /\ (Eligible(c.id) \/ req.includeSuperseded)),
               Before)

(* finish_candidates, _finalize_recall *)
SdkAnswer == Secured(ApplyTokenBudget(Take(Settled(SdkRows), req.limit)))

-----------------------------------------------------------------------------
(* The tool's answer                                                        *)

(* Supplements are put below the weakest row that retrieval scored, in      *)
(* their order; where there are rows of one kind only, scores stay.         *)
RescaleSupplementaryScores(rows, supplements) ==
    LET floor == Min({c.score : c \in Range(rows)})
        n == Len(supplements)
    IN  IF rows = <<>> \/ supplements = <<>> THEN rows \o supplements
        ELSE [i \in DOMAIN rows |-> [rows[i] EXCEPT !.score = @ * (n + 1)]]
             \o [i \in 1..n |-> [supplements[i] EXCEPT !.score = floor * (n + 1 - i)]]

Scored(id, score) == [id |-> id, score |-> score, key |-> <<>>]

ToolLocal == [i \in DOMAIN ranked |-> Scored(ranked[i].id, ranked[i].score)]

Unranked(source) ==
    LET fresh == SelectSeq(extra, LAMBDA id : Contains(source, id) /\ ~Contains(IdsOf(ranked), id))
    IN  [i \in DOMAIN fresh |-> Scored(fresh[i], row[fresh[i]].importance)]

Admitted(rows) == SelectSeq(rows, LAMBDA c : Admits(row[c.id]))

MergedTiers == Descending(Unranked(Tier))

OrgResults == Unranked(Org)

(* Admission, the org's rows, scores, sources, security and expiry, and     *)
(* only then the budget and the limit.                                      *)
ToolRows ==
    LET rescaled == RescaleSupplementaryScores(Admitted(ToolLocal), Admitted(MergedTiers) \o OrgResults)
    IN  SelectSeq(Secured(SelectSeq(rescaled, LAMBDA c : SourceAllows(row[c.id]))),
                  LAMBDA c : ~Expired(row[c.id], req.now))

ToolAnswer == Take(ApplyTokenBudget(ToolRows), req.limit)

Answer ==
    /\ phase = "answer" /\ phase' = "done"
    /\ answer' = IF req.surface = "sdk" THEN SdkAnswer ELSE ToolAnswer
    /\ UNCHANGED <<row, req, pool, ranked, extra>>

Next == AcquireCandidates \/ Rank \/ Supplement \/ Answer

Spec == Init /\ [][Next]_vars

-----------------------------------------------------------------------------
(* Correctness                                                              *)

Hits == Range(IdsOf(ranked))

Ahead(i, j) == PlaceOf(IdsOf(ranked), answer[i].id) < PlaceOf(IdsOf(ranked), answer[j].id)

(* The tool's scores explain its order where there are hits of retrieval,   *)
(* and no supplement is above a hit (tools/recall.py:358).  The SDK answers open rows before superseded ones *)
(* and durable before transient ones, and never a distilled row above a row *)
(* of its bucket that the weighted pipeline put ahead of it                 *)
(* (_client_recall_hybrid.py:298).                                          *)
OrderExplained ==
    \A i, j \in DOMAIN answer : i < j =>
        IF req.surface = "tool"
        THEN /\ (\E id \in Hits : Admits(row[id])) => answer[i].score >= answer[j].score
             /\ answer[j].id \in Hits => answer[i].id \in Hits
        ELSE /\ answer[i].key[1] <= answer[j].key[1]
             /\ answer[i].key[1] = answer[j].key[1] => answer[i].key[2] <= answer[j].key[2]
             /\ /\ {answer[i].id, answer[j].id} \subseteq Hits
                /\ answer[i].key = answer[j].key
                /\ row[answer[i].id].family = "git_distilled" /\ req.distilledWeight < 10
                => Ahead(i, j) \/ ranked[1].basis = "fallback"

(* What is answered is active, allowed, unexpired and as it was signed,     *)
(* whichever of pool, tier and org it came from.  What the tool answers     *)
(* from tiers or org may be superseded: only the pipeline's rows are open.  *)
NothingHidden ==
    \A i \in DOMAIN answer :
        LET id == answer[i].id IN
        /\ row[id].status = "active" /\ ~row[id].canary /\ ~row[id].drifted
        /\ SourceAllows(row[id])
        /\ (Contains(Org, id) /\ req.surface = "tool") \/ Admits(row[id])
        /\ req.surface = "tool" => ~Expired(row[id], req.now)
        /\ (req.surface = "sdk" \/ id \in Hits) /\ ~req.includeSuperseded => Eligible(id)

Deliverable(rows) == {c.id : c \in Range(rows)}

(* No open durable row is left out of the pool for another kind of row; a   *)
(* row that is withheld gives its place to the next (tools/recall.py:204),  *)
(* in the SDK unless it is withheld after the cut.  The budget holds, but   *)
(* for an answer of one row.                                                *)
NothingCrowdedOut ==
    /\ phase # "acquire" /\ req.surface = "sdk" =>
          \A id \in Range(Pool) \ Range(pool) :
              AllowsEntry(id) /\ Eligible(id) /\ Bucket(id) = 0 =>
                  /\ Len(pool) >= req.poolSize
                  /\ \A k \in 1..req.poolSize : Eligible(pool[k]) /\ Bucket(pool[k]) = 0
    /\ phase = "done" =>
          LET settled == Settled(SdkRows)
              rows == IF req.surface = "tool" THEN ToolRows ELSE settled
              withheld == IF req.surface = "tool" THEN {} ELSE Range(settled) \ Range(Secured(settled))
              cost == FoldLeft(LAMBDA sum, c : sum + row[c.id].length, 0, answer)
          IN  /\ req.budget = None =>
                    Len(answer) >= Min({req.limit, Cardinality(Deliverable(rows))}) - Cardinality(withheld)
              /\ req.budget # None /\ Len(answer) > 1 => cost <= req.budget
=============================================================================
