----------------------------- MODULE GraphEnrich -----------------------------
(***************************************************************************)
(* The enrichment of rows that were just stored, and of a namespace's      *)
(* existing rows (_graph_batch.py, _graph_edges.py, _graph_backfill.py):   *)
(* the edges of a row in its own store, then its cross-validation against  *)
(* the rows of other projects' stores, whose vectors every pass of a       *)
(* process shares through a cache (_graph_sibling_index.py,                *)
(* _graph_cross_project.py).  Rows of the home store are written by        *)
(* tenants, on the write lane, and rows of the sibling store by another    *)
(* process.                                                                *)
(*                                                                         *)
(* All vectors are alike: every candidate that is read matches.            *)
(***************************************************************************)
EXTENDS Naturals, Sequences, SequencesExt, FiniteSets, FiniteSetsExt

CONSTANTS
    HomeId, SiblingId,
    Pass,              \* enrichments: one of one row each
    ProcOf,            \* pass -> the process it runs in
    Backfill,          \* passes of memory_graph_backfill, on the write lane
    CANDIDATE_LIMIT,   \* rows of a sibling namespace that are compared, the last written ones
    MAX_CACHED_BYTES,  \* in vectors
    MAX_ROW_WRITES

Process == {ProcOf[p] : p \in Pass}

VARIABLES
    rev,          \* id -> revision of its row, 0 when there is none
    validations,  \* id -> "cross_validated" events of the other project in its history
    edges,        \* <<pass, source, target>> of the home store
    lane,         \* the backfill step on the lane, or None
    rmw,          \* store -> the pass that has its lock, or None
    recent,       \* rows of the sibling store by their updated_at, the last written one at the end
    token,        \* stat of the sibling store's files
    pass,         \* pass -> [at, entry, rev, near, token, view, todo, remote, there]
    view,         \* pass that loaded it -> [token, listed, aged]
    cache,        \* process -> the view it has cached, or None
    nbytes,       \* process -> bytes the cache accounts for
    unstated,     \* rows stored within one tick of the file's stamp and of its size
    rowWrites

enrichVars == <<rev, validations, edges, lane, rmw, recent, token, pass, view, cache, nbytes, unstated, rowWrites>>

None == "none"

NotLoaded == {None}

GraphId == HomeId \cup SiblingId

Store == {"home", "sibling"}

NoRow == 0

Present(ids) == {i \in ids : rev[i] # NoRow}

At(p, step) == pass[p].at = step

Goes(p, new) == pass' = [pass EXCEPT ![p] = new]

Moves(p, step) == Goes(p, [pass[p] EXCEPT !.at = step])

Ends(p) == Moves(p, "done")

-----------------------------------------------------------------------------
(* What others write.                                                      *)

Writes == rowWrites < MAX_ROW_WRITES /\ rowWrites' = rowWrites + 1

(* A sibling row is no longer what the passes under way found it to be.     *)
Differs(i) == [p \in Pass |-> [pass[p] EXCEPT !.there = @ \ {i}]]

Written(i) == recent' = Append(SelectSeq(recent, LAMBDA j : j # i), i)

(* A tenant of the home store stores or forgets a row, with its edges.      *)
TenantStores(i) ==
    /\ Writes /\ lane = None
    /\ rev' = [rev EXCEPT ![i] = @ + 1] /\ validations' = [validations EXCEPT ![i] = 0]
    /\ UNCHANGED <<edges, lane, rmw, token, pass, view, cache, nbytes, unstated, recent>>

TenantForgets(i) ==
    /\ Writes /\ lane = None /\ i \in Present(HomeId)
    /\ rev' = [rev EXCEPT ![i] = NoRow] /\ validations' = [validations EXCEPT ![i] = 0]
    /\ edges' = {e \in edges : i \notin {e[2], e[3]}}
    /\ UNCHANGED <<lane, rmw, token, pass, view, cache, nbytes, unstated, recent>>

(* Another process writes the sibling store; a second write within the tick *)
(* of the file's stamp that leaves its size does not change the stat.       *)
SiblingStores(i, seen) ==
    /\ Writes
    /\ rev' = [rev EXCEPT ![i] = @ + 1] /\ validations' = [validations EXCEPT ![i] = 0]
    /\ token' = IF seen THEN token + 1 ELSE token
    /\ unstated' = IF seen THEN unstated ELSE unstated \cup {i}
    /\ Written(i) /\ pass' = Differs(i)
    /\ UNCHANGED <<edges, lane, rmw, view, cache, nbytes>>

SiblingForgets(i) ==
    /\ Writes /\ i \in Present(SiblingId)
    /\ rev' = [rev EXCEPT ![i] = NoRow] /\ validations' = [validations EXCEPT ![i] = 0]
    /\ token' = token + 1 /\ pass' = Differs(i)
    /\ UNCHANGED <<edges, lane, rmw, view, cache, nbytes, unstated, recent>>

-----------------------------------------------------------------------------
(* A pass: its row and vector were read when it was queued.                *)
Queue(p, i) ==
    /\ At(p, "idle") /\ i \in Present(HomeId)
    /\ Goes(p, [pass[p] EXCEPT !.at = "queued", !.entry = i, !.rev = rev[i]])
    /\ UNCHANGED <<rev, validations, edges, lane, rmw, token, view, cache, nbytes, unstated, rowWrites, recent>>

JobStarts(p) ==
    /\ At(p, "queued") /\ p \notin Backfill /\ Moves(p, "near")
    /\ UNCHANGED <<rev, validations, edges, lane, rmw, token, view, cache, nbytes, unstated, rowWrites, recent>>

Stale(p) == rev[pass[p].entry] # pass[p].rev

BackfillStarts(p) ==
    /\ At(p, "queued") /\ p \in Backfill /\ lane = None
    /\ IF Stale(p) THEN Ends(p) /\ UNCHANGED lane ELSE Moves(p, "near") /\ lane' = p
    /\ UNCHANGED <<rev, validations, edges, rmw, token, view, cache, nbytes, unstated, rowWrites, recent>>

ReadCandidates(p) ==
    /\ At(p, "near")
    /\ Goes(p, [pass[p] EXCEPT !.at = "edges", !.near = Present(HomeId)])
    /\ UNCHANGED <<rev, validations, edges, lane, rmw, token, view, cache, nbytes, unstated, rowWrites, recent>>

BothWays(p, e, near) == UNION {{<<p, e, n>>, <<p, n, e>>} : n \in near}

(* Similarity edges go both ways, in one commit, whatever became of the rows. *)
FileEdges(p) ==
    /\ At(p, "edges") /\ Moves(p, "sibling")
    /\ edges' = edges \cup BothWays(p, pass[p].entry, pass[p].near \ {pass[p].entry})
    /\ UNCHANGED <<rev, validations, lane, rmw, token, view, cache, nbytes, unstated, rowWrites, recent>>

-----------------------------------------------------------------------------
(* SiblingStoreView and its cache.                                         *)
StatSibling(p) ==
    /\ At(p, "sibling")
    /\ Goes(p, [pass[p] EXCEPT !.at = "lookup", !.token = token, !.there = Present(SiblingId)])
    /\ UNCHANGED <<rev, validations, edges, lane, rmw, token, view, cache, nbytes, unstated, rowWrites, recent>>

Cached(p) == cache[ProcOf[p]]

Servable(p) == Cached(p) # None /\ ~view[Cached(p)].aged /\ view[Cached(p)].token = pass[p].token

(* lookup: a view of another token, or too old, is dropped.                 *)
Lookup(p) ==
    /\ At(p, "lookup")
    /\ IF Servable(p)
       THEN Goes(p, [pass[p] EXCEPT !.at = "load", !.view = Cached(p)]) /\ UNCHANGED <<cache, nbytes>>
       ELSE /\ Moves(p, "list")
            /\ cache' = [cache EXCEPT ![ProcOf[p]] = None]
            /\ nbytes' = [nbytes EXCEPT ![ProcOf[p]] = 0]
    /\ UNCHANGED <<rev, validations, edges, lane, rmw, token, view, unstated, rowWrites, recent>>

Size(v) == IF view[v].listed = NotLoaded THEN 0 ELSE Cardinality(view[v].listed)

(* install: replaces what another pass of the process installed meanwhile.  *)
Install(p) ==
    /\ At(p, "list")
    /\ view' = [view EXCEPT ![p] = [token |-> pass[p].token, listed |-> NotLoaded, aged |-> FALSE]]
    /\ cache' = [cache EXCEPT ![ProcOf[p]] = p]
    /\ nbytes' = [nbytes EXCEPT ![ProcOf[p]] = 0]
    /\ Goes(p, [pass[p] EXCEPT !.at = "load", !.view = p])
    /\ UNCHANGED <<rev, validations, edges, lane, rmw, token, unstated, rowWrites, recent>>

Accounted(p) == Cached(p) = pass[p].view

(* recent_vector_records: the rows last written, so many of them.           *)
Newer(i, j) == \E n, m \in DOMAIN recent : recent[n] = i /\ recent[m] = j /\ n > m

Candidates ==
    {i \in Present(SiblingId) : Cardinality({j \in Present(SiblingId) : Newer(j, i)}) < CANDIDATE_LIMIT}

(* candidates: loaded once per view, and evicted when the cache is full.    *)
Load(p) ==
    LET v == pass[p].view
        listed == IF view[v].listed = NotLoaded THEN Candidates ELSE view[v].listed
        bytes == IF Accounted(p) /\ view[v].listed = NotLoaded
                 THEN nbytes[ProcOf[p]] + Cardinality(listed) ELSE nbytes[ProcOf[p]]
        full == Cached(p) # None /\ bytes > MAX_CACHED_BYTES
    IN
    /\ At(p, "load")
    /\ view' = [view EXCEPT ![v].listed = listed]
    /\ cache' = [cache EXCEPT ![ProcOf[p]] = IF full THEN None ELSE @]
    /\ nbytes' = [nbytes EXCEPT ![ProcOf[p]] = IF full THEN bytes - (IF Cached(p) = v THEN Cardinality(listed) ELSE Size(Cached(p))) ELSE bytes]
    /\ Goes(p, [pass[p] EXCEPT !.at = "match", !.todo = listed])
    /\ UNCHANGED <<rev, validations, edges, lane, rmw, token, unstated, rowWrites, recent>>

Ages(v) ==
    /\ \E q \in Process : cache[q] = v
    /\ ~view[v].aged /\ view' = [view EXCEPT ![v].aged = TRUE]
    /\ UNCHANGED <<rev, validations, edges, lane, rmw, token, pass, cache, nbytes, unstated, rowWrites, recent>>

-----------------------------------------------------------------------------
(* cross_validate_entries: each match is recorded on both rows.            *)
Match(p, r) ==
    /\ At(p, "match") /\ r \in pass[p].todo
    /\ Goes(p, [pass[p] EXCEPT !.at = IF rev[r] = NoRow THEN "match" ELSE "read home",
                               !.todo = @ \ {r}, !.remote = r])
    /\ UNCHANGED <<rev, validations, edges, lane, rmw, token, view, cache, nbytes, unstated, rowWrites, recent>>

PassEnds(p) ==
    /\ At(p, "match") /\ pass[p].todo = {} /\ Ends(p)
    /\ lane' = IF lane = p THEN None ELSE lane
    /\ UNCHANGED <<rev, validations, edges, rmw, token, view, cache, nbytes, unstated, rowWrites, recent>>

(* entry_update_lock, and lock_for_rmw on the store's file.                 *)
BothLocks(p, s) == rmw[s] = None

Merged(p, s) == IF s = "home" THEN pass[p].entry ELSE pass[p].remote

After(s) == IF s = "home" THEN "read sibling" ELSE "match"

(* merge_cross_validated_entry: a row has one event of each project.        *)
MergeRead(p, s) ==
    LET i == Merged(p, s)
    IN
    /\ At(p, IF s = "home" THEN "read home" ELSE "read sibling") /\ BothLocks(p, s)
    /\ IF rev[i] = NoRow \/ validations[i] > 0
       THEN Moves(p, After(s)) /\ UNCHANGED rmw
       ELSE /\ Moves(p, IF s = "home" THEN "write home" ELSE "write sibling")
            /\ rmw' = [rmw EXCEPT ![s] = p]
    /\ UNCHANGED <<rev, validations, edges, lane, token, view, cache, nbytes, unstated, rowWrites, recent>>

(* The update of a row deleted since fails, and the pass with it.           *)
MergeWrite(p, s) ==
    LET i == Merged(p, s)
    IN
    /\ At(p, IF s = "home" THEN "write home" ELSE "write sibling")
    /\ rmw' = [rmw EXCEPT ![s] = None]
    /\ IF rev[i] = NoRow
       THEN Ends(p) /\ lane' = (IF lane = p THEN None ELSE lane) /\ UNCHANGED <<validations, token, recent>>
       ELSE /\ validations' = [validations EXCEPT ![i] = @ + 1]
            /\ IF s = "sibling" THEN token' = token + 1 /\ Written(i) ELSE UNCHANGED <<token, recent>>
            /\ pass' = [Differs(i) EXCEPT ![p].at = After(s)] /\ UNCHANGED lane
    /\ UNCHANGED <<rev, edges, view, cache, nbytes, unstated, rowWrites>>

-----------------------------------------------------------------------------
EnrichInit ==
    /\ rev \in {r \in [GraphId -> {NoRow, 1}] : \E i \in HomeId : r[i] # NoRow}
    /\ validations = [i \in GraphId |-> 0] /\ edges = {} /\ lane = None
    /\ rmw = [s \in Store |-> None] /\ token = 1
    /\ recent = SetToSeq(SiblingId)
    /\ pass = [p \in Pass |-> [at |-> "idle", entry |-> None, rev |-> 0, near |-> {}, token |-> 0, view |-> None,
                               todo |-> {}, remote |-> None, there |-> {}]]
    /\ view = [p \in Pass |-> [token |-> 0, listed |-> NotLoaded, aged |-> FALSE]]
    /\ cache = [q \in Process |-> None] /\ nbytes = [q \in Process |-> 0]
    /\ unstated = {} /\ rowWrites = 0

EnrichNext ==
    \/ \E i \in HomeId : TenantStores(i) \/ TenantForgets(i)
    \/ \E i \in SiblingId : SiblingForgets(i) \/ \E seen \in BOOLEAN : SiblingStores(i, seen)
    \/ \E p \in Pass :
          \/ \E i \in HomeId : Queue(p, i)
          \/ JobStarts(p) \/ BackfillStarts(p) \/ ReadCandidates(p) \/ FileEdges(p)
          \/ StatSibling(p) \/ Lookup(p) \/ Install(p) \/ Load(p) \/ PassEnds(p)
          \/ \E r \in SiblingId : Match(p, r)
          \/ \E s \in Store : MergeRead(p, s) \/ MergeWrite(p, s)
          \/ Ages(p)

EnrichSpec == EnrichInit /\ [][EnrichNext]_enrichVars

-----------------------------------------------------------------------------
(* A row is validated by a project once, however many passes match it.      *)
ValidatedOnce == \A i \in GraphId : validations[i] <= 1

(* A pass compares its row with every row that was in the sibling store     *)
(* when it looked at the file and is still there as it was, except behind   *)
(* as many rows as it may compare, each written later than that one.        *)
SiblingsSeen ==
    \A p \in Pass : At(p, "match") =>
        LET listed == view[pass[p].view].listed IN
        \A i \in (pass[p].there \ unstated) \ listed :
            Cardinality(listed) = CANDIDATE_LIMIT /\ \A l \in listed : Newer(l, i)

(* The cache accounts for exactly what it keeps.                            *)
BytesTrue == \A q \in Process : nbytes[q] = IF cache[q] = None THEN 0 ELSE Size(cache[q])

(* A backfill files edges only between rows that are there.                 *)
BackfillSound == \A e \in edges : e[1] \in Backfill => {e[2], e[3]} \subseteq Present(HomeId)

EnrichmentSound == ValidatedOnce /\ SiblingsSeen /\ BytesTrue /\ BackfillSound
=============================================================================
