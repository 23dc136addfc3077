------------------------------- MODULE MCRows -------------------------------
(***************************************************************************)
(* A row under everybody who writes it, on small instances of four modules:*)
(* the tools of one daemon (MemoryRows), its quarantine and review         *)
(* (Review), its enrichment across two stores (GraphEnrich), and a         *)
(* deduplication (Dedup).  The modules share no state: a behaviour runs    *)
(* one while the others rest.                                              *)
(*                                                                         *)
(* MemoryRows has two rows, which a consolidation may merge.  Every other  *)
(* call is about the first: a store with and one without a model, an edit, *)
(* a retirement, a revival, a forget; a recall and a re-embed see both.    *)
(* Of these nine calls, any MAX_CALLS are made.  Review has two holds,     *)
(* three reviews, a forget, a store and a removal, and one kill.           *)
(* GraphEnrich has an enrichment and a backfill of one process, two rows   *)
(* and three sibling rows, of which two are compared; one may be missing   *)
(* at first.                                                               *)
(***************************************************************************)
EXTENDS MemoryRows, Review

CONSTANTS HomeId, SiblingId, Enrichment, Backfill, CANDIDATE_LIMIT, MAX_CACHED_BYTES, MAX_ROW_WRITES,
          LAST, Sims

VARIABLES part,
          rev, validations, edges, graphLane, rmw, recent, token, pass, view, cache, nbytes, unstated,
          rowWrites,
          sim, usable, cfg, encoder, original, updated, skipped, place, dedup, changed

MCKind == [s |-> "store", k |-> "store", e |-> "edit", r |-> "retire", a |-> "revive",
           f |-> "forget", m |-> "merge", q |-> "recall", v |-> "reembed"]

MCJob == DOMAIN MCKind

MCOn == [j \in MCJob |-> "x"]

(* The calls of the reviews, by what they do. *)
MCRole == [h1 |-> "hold", h2 |-> "hold", a1 |-> "approve", a2 |-> "approve", r1 |-> "reject",
         f1 |-> "forget", w1 |-> "write", d1 |-> "remove"]

MCCall == DOMAIN MCRole

MCTextOf == [c \in MCCall |-> IF c \in {"h2", "w1"} THEN "second" ELSE "first"]

MCProcOf == [p \in Enrichment |-> "q1"]

Enrich == INSTANCE GraphEnrich WITH Pass <- Enrichment, ProcOf <- MCProcOf, lane <- graphLane

enrichVars == <<rev, validations, edges, graphLane, rmw, recent, token, pass, view, cache, nbytes, unstated,
                rowWrites>>

(* The shipped thresholds, a pair the encoder's anchors make equal, and one *)
(* that is refused; entries by status, trust, evidence and label.           *)
MCConfigs == {[skip |-> 950, merge |-> 850], [skip |-> 850, merge |-> 750], [skip |-> 850, merge |-> 900]}

MCMarks ==
    {[status |-> "active", trust |-> 0, earned |-> FALSE, label |-> 0],
     [status |-> "active", trust |-> 2, earned |-> TRUE, label |-> 1],
     [status |-> "active", trust |-> 1, earned |-> FALSE, label |-> 1],
     [status |-> "obsolete", trust |-> 2, earned |-> TRUE, label |-> 1]}

Dups == INSTANCE Dedup WITH Configs <- MCConfigs, Marks <- MCMarks

dedupVars == <<sim, usable, cfg, encoder, original, updated, skipped, place, dedup, changed>>

allVars == <<part, vars, reviewVars, enrichVars, dedupVars>>

(* The module that runs begins in its initial states.  MemoryRows rests     *)
(* without rows and Review before its first call; the others are away.      *)
AllInit ==
    /\ part \in {"tools", "review", "enrich", "dedup"}
    /\ IF part = "tools" THEN Init
       ELSE /\ rows = NoRows /\ vec = NoVecs /\ tier = NoRows /\ lane = None
            /\ pc = [j \in Job |-> "idle"] /\ seen = [j \in Job |-> NoRows] /\ records = [j \in Job |-> NoVecs]
    /\ ReviewInit
    /\ IF part = "enrich" THEN Enrich!EnrichInit /\ {i \in HomeId \cup SiblingId : rev[i] = 0} \subseteq {"t"}
       ELSE /\ rev = 0 /\ validations = 0 /\ edges = 0 /\ graphLane = 0 /\ rmw = 0 /\ recent = 0 /\ token = 0 /\ pass = 0
            /\ view = 0 /\ cache = 0 /\ nbytes = 0 /\ unstated = 0 /\ rowWrites = 0
    /\ IF part = "dedup" THEN Dups!DedupInit
       ELSE /\ sim = 0 /\ usable = 0 /\ cfg = 0 /\ encoder = 0 /\ original = 0 /\ updated = 0 /\ skipped = 0
            /\ place = 0 /\ dedup = 0 /\ changed = 0

ToolStep == /\ part = "tools" /\ Next
            /\ UNCHANGED <<part, reviewVars, enrichVars, dedupVars>>

ReviewStep == /\ part = "review" /\ ReviewNext
              /\ UNCHANGED <<part, vars, enrichVars, dedupVars>>

EnrichStep == /\ part = "enrich" /\ Enrich!EnrichNext
              /\ UNCHANGED <<part, vars, reviewVars, dedupVars>>

DedupStep == /\ part = "dedup" /\ Dups!DedupNext
             /\ UNCHANGED <<part, vars, reviewVars, enrichVars>>

AllNext == ToolStep \/ ReviewStep \/ EnrichStep \/ DedupStep

AllSpec == AllInit /\ [][AllNext]_allVars

-----------------------------------------------------------------------------
(* A match counts once, a row is compared with the last written sibling     *)
(* rows that were there, the cache is accounted for, a backfill files no    *)
(* edge to a forgotten row (GraphEnrich); one deduplication is enough for   *)
(* the texts it was given, what it retires is carried by a row that is      *)
(* active, and no merge raises a trust that was not earned (Dedup).         *)
SimilarRowsSound ==
    /\ part = "enrich" => Enrich!EnrichmentSound
    /\ part = "dedup" => Dups!DedupSound
=============================================================================
