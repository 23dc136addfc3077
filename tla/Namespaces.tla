---------------------------- MODULE Namespaces -----------------------------
(***************************************************************************)
(* Rename and merge of a namespace (namespaces/curate.py) as the daemon    *)
(* serves them (tools/namespace_admin.py): one batch of rows, with their   *)
(* vectors and edges, per job of the write lane and per transaction, the   *)
(* progress kept in memory and, after each commit, in a file; and as the   *)
(* command line runs them over two store files, one transaction in each.   *)
(* Other tenants write and delete rows of both namespaces between two      *)
(* batches, and the process may be killed.                                 *)
(*                                                                         *)
(* A row is its stamp: the write that made it, which also orders the       *)
(* keyset scan, newest first.                                              *)
(***************************************************************************)
EXTENDS Integers, FiniteSets, FiniteSetsExt

CONSTANTS
    Key,           \* ids of rows
    BATCH_LIMIT,   \* rows of a batch
    MAX_TENANT,    \* writes and deletes of other tenants
    MAX_MOVE_KILLS \* kills and failed writes of the progress file

ASSUME NamespacesAssumption == IsFiniteSet(Key) /\ BATCH_LIMIT \in Nat \ {0}

Space == {"source", "destination"}

Verb == {"rename", "merge"}

VARIABLES
    shared,        \* both namespaces are in one store file
    rows,          \* Space -> Key -> the stamp of its row, or 0
    vecs,          \* Space -> Key -> the stamp of the row its vector was stored for, or 0
    links,         \* Space -> its graph edges
    withheld,      \* keys of the source whose rows the quarantine ledger withholds from reads
    lastStamp,     \* the last stamp given
    moves,         \* Verb -> its progress in memory (_MOVES), or NoProgress
    saved,         \* Verb -> its progress in the file, or NoProgress
    torn,          \* the progress file was left half written
    job,           \* the verb whose batch has committed and whose progress is being saved, or "none"
    halfway,       \* keys that a move over two files has still to take out of the source
    kills,
    alive,         \* stamps of rows no tenant has replaced or deleted
    embedded,      \* stamps of rows stored with a vector
    linked,        \* edges tenants made whose ends no tenant deleted
    brought,       \* Verb -> keys its move has put in the destination
    left,          \* Verb -> keys its scan has skipped in this pass
    disturbed      \* Verb -> spaces another hand took rows out of since the move began

spaceVars == <<shared, rows, vecs, links, withheld, lastStamp, moves, saved, torn, job, halfway, kills,
               alive, embedded, linked, brought, left, disturbed>>

NoProgress == [started |-> FALSE, complete |-> FALSE, source |-> 0, moved |-> 0, skipped |-> 0,
               passMoved |-> 0, cursor |-> 0]

Held(space) == {k \in Key : rows[space][k] # 0}

Count(space) == Cardinality(Held(space))

-----------------------------------------------------------------------------
(* move_batch over one store.                                              *)

(* list_entries: the newest rows after the cursor, none withheld.           *)
Listed(after) ==
    LET keys == {k \in Held("source") \ withheld : after = 0 \/ rows["source"][k] < after}
    IN {k \in keys : Cardinality({j \in keys : rows["source"][j] > rows["source"][k]}) < BATCH_LIMIT}

(* _move_entries: copies with their vectors, then the source rows go, and   *)
(* with them their vectors and edges.                                       *)
Copied(moving) ==
    [rows EXCEPT !["destination"] = [k \in Key |-> IF k \in moving THEN rows["source"][k] ELSE @[k]],
                 !["source"] = [k \in Key |-> IF k \in moving THEN 0 ELSE @[k]]]

VectorsCopied(moving) ==
    [vecs EXCEPT !["destination"] = [k \in Key |-> IF k \in moving THEN vecs["source"][k] ELSE @[k]],
                 !["source"] = [k \in Key |-> IF k \in moving THEN 0 ELSE @[k]]]

Touching(edges, keys) == {e \in edges : e \cap keys # {}}

LinksCopied(batch, moving) ==
    [links EXCEPT !["destination"] = @ \cup Touching(links["source"], batch),
                  !["source"] = @ \ Touching(@, moving)]

(* Mutant: a scan at its end is a finished move, whatever was stored behind *)
(* its cursor.                                                              *)
EndOfScan(progress, remaining) == [progress EXCEPT !.complete = TRUE]

(* _end_of_pass: complete when exactly the skipped rows are left; another   *)
(* pass when this one moved rows; an error otherwise.                       *)
EndOfPass(progress, remaining) ==
    IF remaining = progress.skipped THEN [progress EXCEPT !.complete = TRUE]
    ELSE [progress EXCEPT !.cursor = 0, !.skipped = 0, !.passMoved = 0]

Stuck(progress, remaining) == remaining # progress.skipped /\ progress.passMoved = 0

(* The progress a batch starts from: memory, else the file, else none.      *)
Found(v) == IF moves[v] # NoProgress THEN moves[v] ELSE saved[v]

Starting(v) ==
    IF Found(v).started THEN Found(v)
    ELSE [NoProgress EXCEPT !.started = TRUE, !.source = Count("source")]

NeverAny(v) == ~Found(v).started /\ Count("source") = 0

Fresh(v) == Found(v) = NoProgress

Ghosts(v, moving, skipped) ==
    /\ brought' = [brought EXCEPT ![v] = (IF Fresh(v) THEN {} ELSE @) \cup moving]
    /\ left' = [left EXCEPT ![v] = (IF Starting(v).cursor = 0 THEN {} ELSE @) \cup skipped]
    /\ disturbed' = [x \in Verb |-> IF x # v THEN disturbed[x] \cup (IF moving = {} THEN {} ELSE Space)
                                   ELSE IF Fresh(v) THEN {} ELSE disturbed[v]]

Report(v, progress) ==
    /\ moves' = [moves EXCEPT ![v] = progress]
    /\ job' = v

Reads(v) == job = "none" /\ halfway = {} /\ (moves[v] = NoProgress => ~torn)

(* The scan has rows left: one batch of them moves, unless a rename finds   *)
(* rows in the destination that it did not move there.                      *)
MoveBatch(v) ==
    LET start == Starting(v)
        batch == Listed(start.cursor)
        taken == batch \cap Held("destination")
        moving == batch \ taken
        progress == [start EXCEPT !.cursor = Min({rows["source"][k] : k \in batch}),
                                  !.moved = @ + Cardinality(moving),
                                  !.skipped = @ + Cardinality(taken),
                                  !.passMoved = @ + Cardinality(moving)]
        remaining == Count("source") - Cardinality(moving)
        last == Cardinality(batch) < BATCH_LIMIT
        reached == IF last THEN EndOfPass(progress, remaining) ELSE progress
    IN
    /\ shared /\ Reads(v) /\ ~NeverAny(v) /\ batch # {}
    /\ v = "rename" => Count("destination") = start.moved /\ taken = {}
    /\ ~(last /\ Stuck(progress, remaining))
    /\ rows' = Copied(moving) /\ vecs' = VectorsCopied(moving)
    /\ links' = LET carried == LinksCopied(batch, moving) IN
                IF last /\ remaining = progress.skipped
                THEN [carried EXCEPT !["destination"] = @ \cup carried["source"]] ELSE carried
    /\ Ghosts(v, moving, taken)
    /\ Report(v, reached)
    /\ UNCHANGED <<shared, withheld, lastStamp, saved, torn, halfway, kills, alive, embedded, linked>>

(* The scan is at its end already, or there never was a row.                *)
MoveNothing(v) ==
    LET start == Starting(v)
        reached == IF NeverAny(v) THEN [start EXCEPT !.complete = TRUE]
                   ELSE EndOfPass(start, Count("source"))
    IN
    /\ shared /\ Reads(v)
    /\ ~NeverAny(v) => Listed(start.cursor) = {} /\ ~Stuck(start, Count("source"))
    /\ links' = IF ~NeverAny(v) /\ Count("source") = start.skipped
                THEN [links EXCEPT !["destination"] = @ \cup links["source"]] ELSE links
    /\ Ghosts(v, {}, {})
    /\ Report(v, reached)
    /\ UNCHANGED <<shared, rows, vecs, withheld, lastStamp, saved, torn, halfway, kills, alive, embedded, linked>>

(* _save_move_progress or _forget_move_progress, after the commit; a file   *)
(* that cannot be read refuses either and leaves what memory has, as does a *)
(* write that fails halfway.                                                *)
Writes(v) == moves[v].complete => saved[v] # NoProgress

SaveProgress(v) ==
    /\ job = v /\ ~torn
    /\ saved' = [saved EXCEPT ![v] = IF moves[v].complete THEN NoProgress ELSE moves[v]]
    /\ moves' = [moves EXCEPT ![v] = IF moves[v].complete THEN NoProgress ELSE @]
    /\ job' = "none"
    /\ UNCHANGED <<shared, rows, vecs, links, withheld, lastStamp, torn, halfway, kills, alive, embedded, linked,
                   brought, left, disturbed>>

SaveRefused(v) ==
    /\ job = v
    /\ \/ torn /\ UNCHANGED <<torn, kills>>
       \/ ~torn /\ Writes(v) /\ kills < MAX_MOVE_KILLS /\ torn' = TRUE /\ kills' = kills + 1
    /\ job' = "none"
    /\ UNCHANGED <<shared, rows, vecs, links, withheld, lastStamp, moves, saved, halfway, alive, embedded, linked,
                   brought, left, disturbed>>

(* "Inspect it and remove it if it is corrupt": the operator does.          *)
RemoveFile ==
    /\ torn /\ torn' = FALSE
    /\ saved' = [v \in Verb |-> NoProgress]
    /\ UNCHANGED <<shared, rows, vecs, links, withheld, lastStamp, moves, job, halfway, kills, alive, embedded, linked,
                   brought, left, disturbed>>

-----------------------------------------------------------------------------
(* _move_all over two files: the whole move in one transaction of each,     *)
(* the destination's committed first.                                       *)
MoveAll(v) ==
    LET listed == Held("source") \ withheld
        taken == listed \cap Held("destination")
        moving == listed \ taken
    IN
    /\ ~shared /\ halfway = {}
    /\ listed # {} /\ withheld = {}
    /\ v = "rename" => Held("destination") = {}
    /\ rows' = [Copied(moving) EXCEPT !["source"] = rows["source"]]
    /\ vecs' = [VectorsCopied(moving) EXCEPT !["source"] = vecs["source"]]
    /\ links' = [links EXCEPT !["destination"] = @ \cup links["source"]]
    /\ halfway' = moving
    /\ UNCHANGED <<shared, withheld, lastStamp, moves, saved, torn, job, kills, alive, embedded, linked,
                   brought, left, disturbed>>

(* Mutant: the source namespace is emptied, skipped rows with it.           *)
EmptySource ==
    /\ halfway # {}
    /\ rows' = [rows EXCEPT !["source"] = [k \in Key |-> 0]]
    /\ vecs' = [vecs EXCEPT !["source"] = [k \in Key |-> 0]]
    /\ links' = [links EXCEPT !["source"] = {}]
    /\ halfway' = {}
    /\ UNCHANGED <<shared, withheld, lastStamp, moves, saved, torn, job, kills, alive, embedded, linked,
                   brought, left, disturbed>>

CommitSource ==
    /\ halfway # {}
    /\ LET moving == halfway IN
       /\ rows' = [rows EXCEPT !["source"] = [k \in Key |-> IF k \in moving THEN 0 ELSE @[k]]]
       /\ vecs' = [vecs EXCEPT !["source"] = [k \in Key |-> IF k \in moving THEN 0 ELSE @[k]]]
       /\ links' = [links EXCEPT !["source"] = @ \ Touching(@, moving)]
    /\ halfway' = {}
    /\ UNCHANGED <<shared, withheld, lastStamp, moves, saved, torn, job, kills, alive, embedded, linked,
                   brought, left, disturbed>>

(* A kill: memory is lost, a save may be left half written, a transaction   *)
(* that has not committed is rolled back.                                   *)
KillMove ==
    /\ kills < MAX_MOVE_KILLS /\ kills' = kills + 1
    /\ job # "none" \/ halfway # {}
    /\ moves' = [v \in Verb |-> NoProgress]
    /\ torn' \in {torn, torn \/ (job # "none" /\ Writes(job))}
    /\ job' = "none" /\ halfway' = {}
    /\ UNCHANGED <<shared, rows, vecs, links, withheld, lastStamp, saved, alive, embedded, linked, brought, left,
                   disturbed>>

-----------------------------------------------------------------------------
(* Other tenants: a store or an edit of a row, its deletion, a new edge.    *)
(* Both files are locked while a move over two files commits.               *)
TenantMay == halfway = {} /\ lastStamp < MAX_TENANT + Cardinality(Key)

TenantStore(space, k) ==
    /\ TenantMay
    /\ lastStamp' = lastStamp + 1
    /\ rows' = [rows EXCEPT ![space][k] = lastStamp']
    /\ \E embeds \in BOOLEAN :
          /\ vecs' = [vecs EXCEPT ![space][k] = IF embeds THEN lastStamp' ELSE 0]
          /\ embedded' = IF embeds THEN embedded \cup {lastStamp'} ELSE embedded
    /\ alive' = (alive \ {rows[space][k]}) \cup {lastStamp'}
    /\ UNCHANGED <<shared, links, withheld, moves, saved, torn, job, halfway, kills, linked, brought, left, disturbed>>

TenantDelete(space, k) ==
    /\ TenantMay /\ rows[space][k] # 0
    /\ lastStamp' = lastStamp + 1
    /\ rows' = [rows EXCEPT ![space][k] = 0] /\ vecs' = [vecs EXCEPT ![space][k] = 0]
    /\ links' = [links EXCEPT ![space] = @ \ Touching(@, {k})]
    /\ withheld' = IF space = "source" THEN withheld \ {k} ELSE withheld
    /\ alive' = alive \ {rows[space][k]}
    /\ linked' = linked \ Touching(linked, {k})
    /\ disturbed' = [v \in Verb |-> disturbed[v] \cup {space}]
    /\ UNCHANGED <<shared, moves, saved, torn, job, halfway, kills, embedded, brought, left>>

TenantLink(j, k) ==
    /\ TenantMay /\ j # k /\ {j, k} \subseteq Held("source")
    /\ lastStamp' = lastStamp + 1
    /\ links' = [links EXCEPT !["source"] = @ \cup {{j, k}}]
    /\ linked' = linked \cup {{j, k}}
    /\ UNCHANGED <<shared, rows, vecs, withheld, moves, saved, torn, job, halfway, kills, alive, embedded,
                   brought, left, disturbed>>

-----------------------------------------------------------------------------
SpaceInit ==
    LET stampOf == CHOOSE s \in [Key -> 1..Cardinality(Key)] : \A j, k \in Key : s[j] = s[k] => j = k
        At(keys) == [k \in Key |-> IF k \in keys THEN stampOf[k] ELSE 0]
    IN
    /\ shared \in BOOLEAN
    /\ \E source, destination \in SUBSET Key :
          /\ source # {} /\ source \cap destination = {}
          /\ rows = [source |-> At(source), destination |-> At(destination)]
          /\ vecs = rows
          /\ links = [source |-> {e \in SUBSET source : Cardinality(e) = 2}, destination |-> {}]
          /\ withheld \in {w \in SUBSET source : Cardinality(w) <= 1}
          /\ alive = {stampOf[k] : k \in source \cup destination}
    /\ embedded = alive
    /\ linked = links["source"]
    /\ lastStamp = Cardinality(Key)
    /\ moves = [v \in Verb |-> NoProgress] /\ saved = [v \in Verb |-> NoProgress]
    /\ torn = FALSE /\ job = "none" /\ halfway = {} /\ kills = 0
    /\ brought = [v \in Verb |-> {}] /\ left = [v \in Verb |-> {}] /\ disturbed = [v \in Verb |-> {}]

SpaceNext ==
    \/ \E v \in Verb : MoveBatch(v) \/ MoveNothing(v) \/ SaveProgress(v) \/ SaveRefused(v) \/ MoveAll(v)
    \/ CommitSource \/ RemoveFile \/ KillMove
    \/ \E space \in Space, k \in Key : TenantStore(space, k) \/ TenantDelete(space, k)
    \/ \E j, k \in Key : TenantLink(j, k)

SpaceSpec == SpaceInit /\ [][SpaceNext]_spaceVars

-----------------------------------------------------------------------------
(* A row some tenant stored, and none has replaced or deleted, is in one of *)
(* the two namespaces, beside the vector it was stored with; and an edge    *)
(* somebody made is kept as long as its ends are.                           *)
RowsTravel ==
    /\ \A s \in alive :
          \E space \in Space, k \in Key :
             rows[space][k] = s /\ (s \in embedded => vecs[space][k] = s)
    /\ \A e \in linked : e \in links["source"] \cup links["destination"]

(* A move that reports it is complete has left only rows it had skipped for *)
(* a conflict, unless a row of the source was deleted meanwhile or the move *)
(* had been complete before and its record could not be removed; and a      *)
(* rename puts a row only beside rows it put there itself, unless one of    *)
(* the destination was deleted meanwhile.                                   *)
Completes(v) ==
    /\ job' = v /\ job = "none"
    /\ moves'[v].complete /\ ~Starting(v).complete /\ moves'[v].source > 0

Brings(v) == job' = v /\ job = "none" /\ Held("destination")' # Held("destination")

MoveHonest ==
    \A v \in Verb :
        /\ Completes(v) /\ "source" \notin disturbed'[v] => Held("source")' \subseteq left'[v]
        /\ v = "rename" /\ Brings(v) /\ "destination" \notin disturbed'[v]
              => Held("destination") \subseteq brought'[v]

-----------------------------------------------------------------------------
(* The inductive invariant behind RowsTravel and MoveHonest.                *)

Progress ==
    [started : BOOLEAN, complete : BOOLEAN, source : Nat, moved : Nat, skipped : Nat, passMoved : Nat,
     cursor : Nat]

SpaceTypeOK ==
    /\ shared \in BOOLEAN
    /\ rows \in [Space -> [Key -> Nat]] /\ \A space \in Space, k \in Key : rows[space][k] <= lastStamp
    /\ vecs \in [Space -> [Key -> Nat]]
    /\ links \in [Space -> SUBSET SUBSET Key]
    /\ withheld \subseteq Key
    /\ lastStamp \in Nat
    /\ moves \in [Verb -> Progress]
    /\ saved \in [Verb -> Progress]
    /\ torn \in BOOLEAN
    /\ job \in Verb \cup {"none"}
    /\ halfway \subseteq Key
    /\ alive \subseteq 1..lastStamp /\ embedded \subseteq 1..lastStamp
    /\ linked \subseteq SUBSET Key
    /\ brought \in [Verb -> SUBSET Key]
    /\ left \in [Verb -> SUBSET Key]
    /\ disturbed \in [Verb -> SUBSET Space]

(* While a move over two files has committed in the destination only, both  *)
(* have what it moves, and no batched move has begun.                       *)
HalfwayIsCopied ==
    /\ halfway # {} => ~shared /\ links["source"] \subseteq links["destination"]
    /\ \A k \in halfway :
          /\ rows["destination"][k] = rows["source"][k]
          /\ vecs["destination"][k] = vecs["source"][k]
    /\ ~shared => /\ job = "none"
                  /\ \A v \in Verb : moves[v] = NoProgress /\ saved[v] = NoProgress

(* What the file says is what memory says, but for the batch in progress,   *)
(* and a progress is kept once it has started.                              *)
SavedIsCurrent ==
    \A v \in Verb :
        /\ ~torn /\ job # v /\ moves[v] # NoProgress => saved[v] \in {NoProgress, moves[v]}
        /\ moves[v] = NoProgress \/ moves[v].started
        /\ saved[v] = NoProgress \/ saved[v].started

(* The source rows that the scan of a progress does not visit any more.     *)
Passed(progress) == {k \in Held("source") : progress.cursor > 0 /\ rows["source"][k] >= progress.cursor}

(* They are at least as many as it counts skipped, and if as many, they are *)
(* those it skipped.                                                        *)
SkipsMatch(v, progress) ==
    /\ progress.cursor = 0 => progress.skipped = 0
    /\ "source" \notin disturbed[v] =>
          /\ progress.skipped <= Cardinality(Passed(progress))
          /\ progress.skipped = Cardinality(Passed(progress)) => Passed(progress) \subseteq left[v]

SkipsCounted ==
    \A v \in Verb : SkipsMatch(v, moves[v]) /\ (~torn => SkipsMatch(v, saved[v]))

(* What a move counts as moved it has put in the destination, where it      *)
(* still is.                                                                *)
MovesCounted ==
    \A v \in Verb : "destination" \notin disturbed[v] =>
        /\ brought[v] \subseteq Held("destination")
        /\ moves[v].moved <= Cardinality(brought[v])
        /\ ~torn => saved[v].moved <= Cardinality(brought[v])

SpaceIInv ==
    SpaceTypeOK /\ RowsTravel /\ HalfwayIsCopied /\ SavedIsCurrent /\ SkipsCounted /\ MovesCounted
=============================================================================
