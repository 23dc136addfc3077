------------------------------ MODULE MCStores ------------------------------
(***************************************************************************)
(* Stores under everybody who reads and writes them, on small instances of *)
(* nine modules: what writes make of the tables of a SQLite store         *)
(* (SqliteStore), the reads that take it by pages while others write       *)
(* (PagedReads), the trail the writes leave in the audit log (AuditTrail), *)
(* the store of one file per row (YamlStore), the import of a checkout's   *)
(* store (CheckoutImport), the index of its vectors that enrichment keeps  *)
(* in memory (GraphIndex), the walks over its edges (GraphWalk), the life  *)
(* of a team's namespace (TeamSpaces), and the models that its threads     *)
(* load and share for the vectors (EmbedCache).  The modules share no      *)
(* state: a behaviour runs one while the others rest.                      *)
(*                                                                         *)
(* The store has two namespaces that share two ids, a process with the     *)
(* extensions and one without.  A read asks for 2 of 4 places, of which    *)
(* two may be empty, undecodable, refused or blocked.  The writes audited  *)
(* are a tool's and a batch's in one process and an SDK's in another,      *)
(* under a limit of one write in a window.  Ten calls may be made to a     *)
(* directory of two rows; a checkout of three rows is imported twice;      *)
(* two rows are indexed, with a feed of one; three graphs of four rows are *)
(* walked; a team stores two rows; two threads ask for two models, of      *)
(* which one has code of its own.                                          *)
(***************************************************************************)
EXTENDS SqliteStore, YamlStore, CheckoutImport, TeamSpaces, EmbedCache, TLC

CONSTANTS MAX_PLACE, LIMIT, PAGE, OVERFETCH, MAX_READ_WRITES,
          WRITES_PER_MINUTE, MINUTE, RETENTION, BATCH, MAX_NOW,
          Node, SCAN_MULTIPLIER, NO_CAP, MIN_SIZE, MIN_CONNECTIVITY, MAX_GRAPH_WRITES,
          Member, FEED_LIMIT, RECONCILE, MAX_INDEX_ROWS, MAX_CLOCK, MAX_VECTOR_WRITES,
          t1, t2

VARIABLES part,
          rowAt, blocked, body, vector, read, touched, moved, readWrites,
          now, log, manifest, logLock, headCache, maintained, compacting, stamps, overtaken, revision,
          call, written, faults,
          edges, status, walk, steady, graphWrites,
          member, writeClock, proofs, epoch, fileId, index, pass, dirty, unseen, vectorWrites

MCSample == {[text |-> "x", tags |-> {"t"}, files |-> {}, status |-> "active"],
             [text |-> "y", tags |-> {}, files |-> {"f"}, status |-> "active"]}

MCBatch == LET x == CHOOSE r \in MCSample : r.text = "x"
               y == CHOOSE r \in MCSample : r.text = "y" IN
           {<< <<<<"n", "a">>, x>>, <<<<"m", "a">>, y>> >>, << <<<<"n", "b">>, x>>, <<<<"n", "b">>, y>> >>}

MCChange == {[text |-> "y"], [tags |-> {}, files |-> {"f"}], [status |-> "obsolete"]}

Reads == INSTANCE PagedReads

ASSUME Reads!ReadsAssumption

readVars == <<rowAt, blocked, body, vector, read, touched, moved, readWrites>>

Call == {"t", "s", "b"}

Path == [t |-> "tool", s |-> "sdk", b |-> "bulk"]

Flaws == [t |-> {"none", "pii", "payload"}, s |-> {"none"}, b |-> {"none", "inputs"}]

ProcessOf == [t |-> "p", s |-> "q", b |-> "p"]

Trail == INSTANCE AuditTrail

trailVars == <<now, log, manifest, logLock, headCache, maintained, compacting, stamps, overtaken,
               revision, call, written, faults>>

(* The calls to the directory, and the rows it may begin with. *)
Asked == [kind |-> "update", ns |-> "n", id |-> "a", text |-> "none", claim |-> "none", note |-> "none"]

MCDoes ==
    [s |-> [Asked EXCEPT !.kind = "store", !.text = "x", !.claim = "unsupported", !.note = "p"],
     r |-> [Asked EXCEPT !.kind = "store", !.ns = "m", !.text = "y", !.claim = "plain", !.note = "p"],
     u |-> [Asked EXCEPT !.note = "q"],
     v |-> [Asked EXCEPT !.text = "z"],
     w |-> [Asked EXCEPT !.ns = "m", !.claim = "unsupported"],
     t |-> [Asked EXCEPT !.kind = "touch"],
     d |-> [Asked EXCEPT !.kind = "delete"],
     p |-> [Asked EXCEPT !.kind = "purge"],
     l |-> [Asked EXCEPT !.kind = "list"],
     m |-> [Asked EXCEPT !.kind = "list", !.ns = "m"]]

MCBlocked == {<<"m", "a">>}

FileRow == [ns |-> "n", text |-> "x", claim |-> "plain", note |-> "p", count |-> 0, whole |-> TRUE]

MCStored ==
    LET none == [ns |-> "none"]
        other == [FileRow EXCEPT !.ns = "m"]
    IN  {[a |-> f, b |-> g] :
            f \in {none, FileRow, other, [FileRow EXCEPT !.claim = "unsupported"], [FileRow EXCEPT !.whole = FALSE]},
            g \in {none, FileRow, other}}

(* Three versions of the checkout's rows: an edit, a vector of another      *)
(* model, and a pinned row that the last version marks.                     *)
MCContents ==
    LET row(t, v) == [text |-> t, vec |-> v]
    IN  [v \in 1..3 |-> [a |-> row(IF v = 1 THEN "t1" ELSE "t2", "1"), b |-> row("t1", "other"),
                        c |-> row(IF v < 3 THEN "pinned" ELSE "marked", "1")]]

MCForeign == {[text |-> "t1", vec |-> "1"], [text |-> "t3", vec |-> "none"]}

Index == INSTANCE GraphIndex WITH clock <- writeClock

indexVars == <<member, writeClock, proofs, epoch, fileId, index, pass, dirty, unseen, vectorWrites>>

(* A fan with a second type of edge, a cycle of two with a tail, a cycle.   *)
MCGraphs ==
    LET edge(n, f, t, y) == [row |-> n, from |-> f, to |-> t, type |-> y]
    IN  {{edge(1, 1, 2, 1), edge(2, 1, 3, 1), edge(3, 1, 4, 1), edge(4, 3, 4, 1), edge(5, 1, 3, 2)},
         {edge(1, 1, 2, 1), edge(2, 2, 1, 1), edge(3, 2, 3, 2), edge(4, 3, 4, 1)},
         {edge(1, 1, 2, 1), edge(2, 2, 3, 1), edge(3, 3, 1, 2), edge(4, 3, 4, 1), edge(5, 4, 2, 1)}}

MCAsked ==
    {[roots |-> {1, 2}, depth |-> 2, max |-> 2, scoped |-> FALSE, active |-> FALSE],
     [roots |-> {1, 2}, depth |-> 1, max |-> 2, scoped |-> FALSE, active |-> FALSE],
     [roots |-> {1}, depth |-> 2, max |-> 0, scoped |-> TRUE, active |-> TRUE],
     [roots |-> {1, 3}, depth |-> 1, max |-> 1, scoped |-> TRUE, active |-> FALSE]}

Walk == INSTANCE GraphWalk WITH Graphs <- MCGraphs, Asked <- MCAsked

walkVars == <<edges, status, walk, steady, graphWrites>>

MCThread == {t1, t2}

MCSymmetry == Permutations(MCThread)

allVars ==
    <<part, storeVars, readVars, trailVars, fileVars, importVars, indexVars, walkVars, teamVars, embedVars>>

(* The module that runs begins in its initial states; the others are away,  *)
(* or rest in one of theirs.                                                *)
AllInit ==
    /\ part \in {"tables", "reads", "trail", "yaml", "import", "index", "walk", "team", "embed"}
    /\ IF part = "tables" THEN StoreInit
       ELSE db = 0 /\ legacy = 0 /\ unindexed = 0 /\ stray = 0 /\ astray = 0 /\ orphans = 0 /\ writes = 0
    /\ IF part = "reads"
       THEN Reads!ReadsInit /\ Cardinality({p \in DOMAIN rowAt : rowAt[p] # "ok" \/ p \in blocked}) <= 2
       ELSE /\ rowAt = 0 /\ blocked = 0 /\ body = 0 /\ vector = 0 /\ read = 0 /\ touched = 0 /\ moved = 0
            /\ readWrites = 0
    /\ IF part = "trail" THEN Trail!AuditInit
       ELSE /\ now = 0 /\ log = 0 /\ manifest = 0 /\ logLock = 0 /\ headCache = 0 /\ maintained = 0
            /\ compacting = 0 /\ stamps = 0 /\ overtaken = 0 /\ revision = 0 /\ call = 0 /\ written = 0 /\ faults = 0
    /\ FileInit /\ (part = "yaml" \/ files = CHOOSE f \in StoredFiles : TRUE)
    /\ ImportInit
    /\ TeamInit /\ (part = "team" \/ layout = "one file")
    /\ EmbedInit /\ (part = "embed" \/ \A k \in Model : disk[k] = "absent")
    /\ IF part = "index" THEN Index!IndexInit
       ELSE /\ member = 0 /\ writeClock = 0 /\ proofs = 0 /\ epoch = 0 /\ fileId = 0 /\ index = 0 /\ pass = 0
            /\ dirty = 0 /\ unseen = 0 /\ vectorWrites = 0
    /\ IF part = "walk" THEN Walk!WalkInit
       ELSE edges = 0 /\ status = 0 /\ walk = 0 /\ steady = 0 /\ graphWrites = 0

TableStep == /\ part = "tables" /\ StoreNext
             /\ UNCHANGED <<part, readVars, trailVars, fileVars, importVars, indexVars, walkVars, teamVars, embedVars>>

ReadStep == /\ part = "reads" /\ Reads!ReadsNext
            /\ UNCHANGED <<part, storeVars, trailVars, fileVars, importVars, indexVars, walkVars, teamVars, embedVars>>

TrailStep == /\ part = "trail" /\ Trail!AuditNext
             /\ UNCHANGED <<part, storeVars, readVars, fileVars, importVars, indexVars, walkVars, teamVars, embedVars>>

YamlStep == /\ part = "yaml" /\ FileNext
            /\ UNCHANGED <<part, storeVars, readVars, trailVars, importVars, indexVars, walkVars, teamVars, embedVars>>

ImportStep == /\ part = "import" /\ ImportNext
              /\ UNCHANGED <<part, storeVars, readVars, trailVars, fileVars, indexVars, walkVars, teamVars, embedVars>>

IndexStep == /\ part = "index" /\ Index!IndexNext
             /\ UNCHANGED <<part, storeVars, readVars, trailVars, fileVars, importVars, walkVars, teamVars, embedVars>>

WalkStep == /\ part = "walk" /\ Walk!WalkNext
            /\ UNCHANGED <<part, storeVars, readVars, trailVars, fileVars, importVars, indexVars, teamVars, embedVars>>

TeamStep == /\ part = "team" /\ TeamNext
            /\ UNCHANGED <<part, storeVars, readVars, trailVars, fileVars, importVars, indexVars, walkVars, embedVars>>

EmbedStep == /\ part = "embed" /\ EmbedNext
             /\ UNCHANGED <<part, storeVars, readVars, trailVars, fileVars, importVars, indexVars, walkVars, teamVars>>

AllNext ==
    \/ TableStep \/ ReadStep \/ TrailStep \/ YamlStep \/ ImportStep \/ IndexStep \/ WalkStep \/ TeamStep
    \/ EmbedStep

AllSpec == AllInit /\ [][AllNext]_allVars

-----------------------------------------------------------------------------
(* The indexes of the store have what its rows say, whatever order calls    *)
(* and processes with and without the extensions write in (SqliteStore); a  *)
(* paged read answers every row it owes once, and a re-embed gives no row   *)
(* the vector of another text, whatever others write between its pages      *)
(* (PagedReads).                                                            *)
ReadsExact ==
    /\ part = "tables" => IndexesFollowRows
    /\ part = "reads" => Reads!AnswerExact /\ Reads!ReembedExact

(* The audit log verifies and has lost no record, and a reported write has  *)
(* one, through appends, compactions, failures and kills of two processes;  *)
(* and no minute has more of the session's stored writes than its limit,    *)
(* however late a conflict gives its slot back, unless a charge overtook    *)
(* one of an earlier clock about that time.                                 *)
TrailKept == part = "trail" => Trail!TrailKept /\ Trail!RateKept

(* The index an enrichment compares with has every active row's vector, but *)
(* for rows written while it is refreshed or in ways its token cannot see   *)
(* (GraphIndex); a walk over the edges answers what is in reach, once and   *)
(* the nearest first, and no row is in two clusters (GraphWalk).            *)
GraphAnswers == (part = "index" => Index!IndexFresh) /\ (part = "walk" => Walk!WalksSound)
=============================================================================
