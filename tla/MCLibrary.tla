----------------------------- MODULE MCLibrary -----------------------------
(* The library above the store on small instances of four modules that     *)
(* share no state; a behaviour runs one while the others rest.             *)
(*   answer   a recall (Recall) over three rows of the namespace, one of    *)
(*            them in a tier too, a row of the tiers only, and one of       *)
(*            another project                                              *)
(*   tiers    two processes' stores, recalls, a forget and an archival of   *)
(*            two entries, four with the faults together (Tiers)            *)
(*   spaces   a rename and a merge of two ids, one row to a batch, with     *)
(*            two writes of other tenants and a kill (Namespaces)           *)
(*   upkeep   two maintenance or verify calls over three places, two rows   *)
(*            to a page and a window, and three of two days, one write of   *)
(*            another hand and one fault or kill (Maintenance)              *)
EXTENDS Recall, Namespaces, Maintenance

CONSTANTS
    Entry, TierCall, HOT_MAX, COMPACT_MIN_DEAD, MAX_TIER_CALLS, MAX_TIER_FAULTS

VARIABLES
    part,
    canon, hot, file, cache, cold, tierLock, tcall, tierFaults, forgotten, entrusted, contended, mirrored

MCPool == <<1, 2, 3>>
MCTier == <<3, 4>>
MCOrg == <<5>>

Plain == [family |-> "unknown", importance |-> 5, fresh |-> 5, from |-> 1, until |-> Never,
          expires |-> Never, status |-> "active", canary |-> FALSE, historical |-> FALSE,
          drifted |-> FALSE, matches |-> TRUE, length |-> 2]

Kinds ==
    {[Plain EXCEPT !.importance = 8, !.fresh = 3],
     [Plain EXCEPT !.family = "semantic_memory", !.importance = 3],
     [Plain EXCEPT !.family = "git_distilled", !.fresh = 8, !.length = 3],
     [Plain EXCEPT !.family = "lifecycle", !.matches = FALSE, !.length = 1],
     [Plain EXCEPT !.family = "lifecycle", !.expires = 2],
     [Plain EXCEPT !.until = 2, !.from = 0],
     [Plain EXCEPT !.expires = 2, !.fresh = 9],
     [Plain EXCEPT !.drifted = TRUE, !.historical = TRUE, !.matches = FALSE],
     [Plain EXCEPT !.canary = TRUE]}

Thirds == {k \in Kinds : k.until = 2 \/ k.fresh = 8 \/ k.importance = 3 \/ k.length = 1}

Others ==
    {[Plain EXCEPT !.importance = 8],
     [Plain EXCEPT !.importance = 8, !.until = 2],
     [Plain EXCEPT !.status = "obsolete"],
     [Plain EXCEPT !.family = "lifecycle", !.importance = 9, !.expires = 2]}

Ask == [surface |-> "sdk", asOf |-> None, now |-> 3, ageDecay |-> FALSE, includeSuperseded |-> FALSE,
        bm25K |-> 3, vectorK |-> 3, fusionMode |-> "rrf", alpha |-> 10, recencyWeight |-> 0,
        rerankCandidates |-> 3, distilledWeight |-> 7,
        semanticWeight |-> 9, explicitWeights |-> FALSE, topK |-> 3,
        poolSize |-> 2, ftsTopK |-> 1, excludeKinds |-> {}, currentOnly |-> FALSE,
        confidenceFloor |-> 0, limit |-> 2, budget |-> None, conflicts |-> {}]

Requests ==
    {[Ask EXCEPT !.conflicts = {{1, 2}, {2, 4}}],
     [Ask EXCEPT !.includeSuperseded = TRUE, !.ageDecay = TRUE, !.alpha = 7, !.budget = 6, !.limit = 3, !.poolSize = 3,
                 !.semanticWeight = 6, !.explicitWeights = TRUE],
     [Ask EXCEPT !.asOf = 1, !.recencyWeight = 5, !.currentOnly = TRUE, !.poolSize = 4],
     [Ask EXCEPT !.surface = "tool", !.poolSize = 3, !.limit = 3],
     [Ask EXCEPT !.surface = "tool", !.fusionMode = "combmax", !.excludeKinds = {"semantic_memory"},
                 !.confidenceFloor = 4, !.rerankCandidates = 2, !.budget = 3]}

MCChoose ==
    {<<<<first, second, third, other, other>>, ask>> :
        first \in Kinds, second \in Kinds, third \in Thirds, other \in Others, ask \in Requests}

Silent == [bm25 |-> [i \in 1..3 |-> 0], overlap |-> [i \in 1..3 |-> 0], cosine |-> [i \in 1..3 |-> 0],
           comparable |-> {}, queryVector |-> FALSE, crossEncoder |-> FALSE,
           logit |-> [i \in 1..3 |-> 0], bridged |-> <<>>]

MCSource ==
    {Silent,
     [Silent EXCEPT !.bm25 = <<3, 2, 1>>],
     [Silent EXCEPT !.overlap = <<0, 1, 1>>, !.queryVector = TRUE, !.comparable = {2, 3}, !.cosine = <<9, 1, 2>>],
     [Silent EXCEPT !.bm25 = <<1, 2, 0>>, !.queryVector = TRUE, !.comparable = {1, 3}, !.cosine = <<2, 3, 5>>],
     [Silent EXCEPT !.bm25 = <<3, 2, 1>>, !.crossEncoder = TRUE, !.logit = <<-1, 0, 2>>],
     [Silent EXCEPT !.bm25 = <<3, 2, 1>>, !.crossEncoder = TRUE, !.logit = <<1, -1, 2>>, !.bridged = <<3>>]}

KindOf == [s |-> "store", t |-> "store", u |-> "store", f |-> "forget", r |-> "recall", q |-> "recall",
           v |-> "archive"]

EntryOf == [s |-> "a", t |-> "a", u |-> "b", f |-> "a", r |-> "none", q |-> "none", v |-> "a"]

Runs == [s |-> "d", t |-> "e", u |-> "d", f |-> "d", r |-> "d", q |-> "e", v |-> "e"]

Shows == [root |-> TRUE, held |-> {}, results |-> <<"passes", "passes">>, anchors |-> "none"]

MCTree ==
    {Shows,
     [Shows EXCEPT !.results = <<"fails", "fails">>],
     [Shows EXCEPT !.results = <<"fails", "fails">>, !.held = {1}],
     [Shows EXCEPT !.results = <<"passes", "unknown">>, !.anchors = "broken"],
     [Shows EXCEPT !.root = FALSE]}

Tiers == INSTANCE Tiers WITH row <- canon

tierVars == <<canon, hot, file, cache, cold, tierLock, tcall, tierFaults, forgotten, entrusted, contended,
              mirrored>>

allVars == <<part, vars, tierVars, spaceVars, sweepVars>>

AllInit ==
    /\ part \in {"answer", "tiers", "spaces", "upkeep"}
    /\ Tiers!TierInit /\ SpaceInit /\ SweepInit
    /\ part # "spaces" => shared /\ withheld = {} /\ \A k \in Key : rows["source"][k] # 0
    /\ part # "upkeep" => tree = Shows /\ due = 1..LAST
    /\ IF part = "answer" THEN Init
       ELSE /\ phase = "acquire" /\ row = <<>> /\ req = <<>>
            /\ pool = <<>> /\ ranked = <<>> /\ extra = <<>> /\ answer = <<>>

AllNext ==
    \/ part = "answer" /\ Next /\ UNCHANGED <<part, tierVars, spaceVars, sweepVars>>
    \/ part = "tiers" /\ Tiers!TierNext /\ UNCHANGED <<part, vars, spaceVars, sweepVars>>
    \/ part = "spaces" /\ SpaceNext /\ UNCHANGED <<part, vars, tierVars, sweepVars>>
    \/ part = "upkeep" /\ SweepNext /\ UNCHANGED <<part, vars, tierVars, spaceVars>>

AllSpec == AllInit /\ [][AllNext]_allVars

(* The tiers alone. *)
TiersSpec == part = "tiers" /\ AllSpec

-----------------------------------------------------------------------------
(* A recall answers nothing that is hidden from its caller, and leaves out  *)
(* no row for one that should have given way (Recall).                      *)
AnswerComplete == NothingHidden /\ NothingCrowdedOut

(* The sidecar answers for each id its newest mirrored text, and no entry   *)
(* is lost between row and archive, through the interleaved appends,        *)
(* rewrites, promotions and archivals of two processes (Tiers).             *)
TiersKept == Tiers!SidecarExact /\ Tiers!CopiesKept

(* What _runtime.py says of delete_entry_from_tiers: a forgotten entry is   *)
(* in no tier (Tiers).                                                      *)
ErasedEverywhere == Tiers!ErasedEverywhere

(* A move that says it is complete, and a maintenance that says it          *)
(* succeeded, have done so (Namespaces, Maintenance).                       *)
SaysWhatIsDone ==
    [][/\ part = "spaces" => MoveHonest
       /\ part = "upkeep" => StampHonest]_allVars
=============================================================================
