---------------------------- MODULE SqliteStore -----------------------------
(***************************************************************************)
(* The tables of a SQLite store and what a write does to each of them      *)
(* (storage/_crud_ops.py, _crud_index_ops.py, _vector_ops.py,              *)
(* _anchor_index.py, _namespace_purge.py), with the schema 5 rebuild and   *)
(* the repair of the full-text table that an open makes.  A write is one   *)
(* transaction (_transaction.py holds the connection lock and SQLite's     *)
(* write lock for its whole body, and rolls back on an error), so it is    *)
(* one action, and one that fails is none.                                 *)
(*                                                                         *)
(* Several processes write one store file.  Each loads sqlite-vec and FTS5 *)
(* if its Python has them and does without if not, so an index may miss    *)
(* the writes of some processes.  `db` holds the tables.                   *)
(***************************************************************************)
EXTENDS Integers, Sequences, FiniteSets, SequencesExt, FiniteSetsExt, TLC

CONSTANTS
    Ns, Id,         \* namespaces and entry ids; a row's key is the pair
    Default,        \* the namespace "default"
    Tag, File,      \* tags and anchored files
    Sample,         \* the rows that are stored: [text, tags, files, status]
    Batch,          \* the batches stored: sequences of <<key, row>>
    Change,         \* the updates made: functions from some of these fields
    Process,
    VecProcess,     \* those with sqlite-vec
    FtsProcess,     \* those with FTS5
    MAX_WRITES      \* bound on the writes of a behaviour

Key == Ns \X Id

Terminal == {"obsolete", "obsolete_poisoned", "archived", "resolved"}

NoRow == [text |-> "none", tags |-> {}, files |-> {}, status |-> "none"]

NoVec == "none"

ASSUME SqliteStoreAssumption ==
    /\ Default \in Ns /\ NoRow \notin Sample
    /\ VecProcess \subseteq Process /\ FtsProcess \subseteq Process
    /\ MAX_WRITES \in Nat

VARIABLES
    db,         \* the tables
    legacy,     \* what a store from before schema 5 has instead, or None
    unindexed,  \* keys last written by a process without FTS5
    stray,      \* keys a process without sqlite-vec wrote over a vector
    astray,     \* a row of memories_fts_rowid was left without its document
    orphans,    \* edges filed with a row of theirs already gone
    writes

storeVars == <<db, legacy, unindexed, stray, astray, orphans, writes>>

None == [vec |-> {}, edges |-> {}]

-----------------------------------------------------------------------------
(* memories_fts and memories_fts_rowid *)

Doc(row) == <<row.text, row.tags>>

Has(d, k) == d.memories[k] # NoRow

(* A full-text row takes the rowid after the highest in the table. *)
NextRowid(fts) == Max({x.rowid : x \in fts} \cup {0}) + 1

FtsDelete(d, k) ==
    [d EXCEPT !.fts = {x \in @ : x.rowid # d.rowid[k]}, !.rowid[k] = 0]

FtsInsert(d, k, row) ==
    LET new == NextRowid(d.fts) IN
    [d EXCEPT !.fts = @ \cup {[rowid |-> new, key |-> k, doc |-> Doc(row)]}, !.rowid[k] = new]

FtsDropped(p, d, ks) == IF p \in FtsProcess THEN FoldSet(LAMBDA k, e : FtsDelete(e, k), d, ks) ELSE d

FtsReplaced(p, d, k, row) == IF p \in FtsProcess THEN FtsInsert(FtsDelete(d, k), k, row) ELSE d

-----------------------------------------------------------------------------
(* The other tables kept beside memories *)

TagsReplaced(d, k, row) == [d EXCEPT !.tags[k] = row.tags]

AnchorsReplaced(d, k, row) == [d EXCEPT !.anchors[k] = row.files]

PostingsPurged(d, ks) ==
    [d EXCEPT !.tags = [k \in Key |-> IF k \in ks THEN {} ELSE @[k]],
              !.anchors = [k \in Key |-> IF k \in ks THEN {} ELSE @[k]]]

VectorsPurged(p, d, ks) ==
    IF p \in VecProcess THEN [d EXCEPT !.vec = [k \in Key |-> IF k \in ks THEN NoVec ELSE @[k]]] ELSE d

EdgesPurged(d, ks) ==
    [d EXCEPT !.edges = {e \in @ : <<e[1], e[2]>> \notin ks /\ <<e[1], e[3]>> \notin ks}]

(* An edge from or to a row that is not there. *)
Dangles(d, e) == ~(Has(d, <<e[1], e[2]>>) /\ Has(d, <<e[1], e[3]>>))

OrphansPurged(d) == [d EXCEPT !.edges = {e \in @ : ~Dangles(d, e)}]

-----------------------------------------------------------------------------
(* The writes, as what they make of the tables *)

Stored(p, d, k, row) ==
    AnchorsReplaced(TagsReplaced(FtsReplaced(p, [d EXCEPT !.memories[k] = row], k, row), k, row), k, row)

(* store_many: the last row of a key is the one indexed, and all old        *)
(* documents go before the new ones come.                                   *)
StoredMany(p, d, entries) ==
    LET ks == {entries[i][1] : i \in 1..Len(entries)}
        rows == FoldLeft(LAMBDA m, e : [m EXCEPT ![e[1]] = e[2]], d.memories, entries)
        cleared == FtsDropped(p, [d EXCEPT !.memories = rows], ks) IN
    FoldSet(LAMBDA k, e : Stored(p, e, k, rows[k]), cleared, ks)

(* update: an index moves only when a field it holds is named; a row that   *)
(* enters a terminal status loses its vector.                               *)
Updated(p, d, k, change) ==
    LET row == change @@ d.memories[k]
        retires == row.status \in Terminal /\ row.status # d.memories[k].status
        d1 == [d EXCEPT !.memories[k] = row]
        d2 == IF retires THEN VectorsPurged(p, d1, {k}) ELSE d1
        d3 == IF DOMAIN change \cap {"text", "tags"} # {} THEN FtsReplaced(p, d2, k, row) ELSE d2
        d4 == IF "tags" \in DOMAIN change THEN TagsReplaced(d3, k, row) ELSE d3 IN
    IF "files" \in DOMAIN change THEN AnchorsReplaced(d4, k, row) ELSE d4

RowsRemoved(d, ks) == [d EXCEPT !.memories = [k \in Key |-> IF k \in ks THEN NoRow ELSE @[k]]]

Deleted(p, d, ks) ==
    PostingsPurged(EdgesPurged(FtsDropped(p, VectorsPurged(p, RowsRemoved(d, ks), ks), ks), ks), ks)

(* delete_by_namespace: every document without a row goes, of whatever      *)
(* namespace, but the rowids of this namespace only.                        *)
GhostsPurged(p, d, ns) ==
    IF p \in FtsProcess
    THEN [d EXCEPT !.fts = {x \in @ : Has(d, x.key)},
                   !.rowid = [k \in Key |-> IF k[1] = ns THEN 0 ELSE @[k]]]
    ELSE d

NamespaceDeleted(p, d, ns) ==
    LET ks == {k \in Key : k[1] = ns /\ Has(d, k)}
        rest == GhostsPurged(p, RowsRemoved(d, ks), ns) IN
    VectorsPurged(p, PostingsPurged(OrphansPurged(EdgesPurged(rest, ks)), ks), ks)

(* upsert_vector: in a savepoint, so a failure keeps the old vector and its *)
(* proof while the row's transaction may commit.                            *)
VectorPut(p, d, k) ==
    IF p \in VecProcess THEN {[d EXCEPT !.vec[k] = d.memories[k].text], d} ELSE {d}

-----------------------------------------------------------------------------
(* The actions *)

Writes == legacy = None /\ writes < MAX_WRITES /\ writes' = writes + 1

(* These edges were filed whatever rows there are. *)
Filed(edges) == orphans' = {e \in db'.edges : Dangles(db', e) /\ e \in orphans \cup edges}

(* What the indexes missed of a write of these keys. *)
Missed(p, ks, indexed) ==
    /\ Filed({})
    /\ unindexed' = IF ~indexed THEN unindexed
                    ELSE IF p \in FtsProcess THEN unindexed \ ks ELSE unindexed \cup ks
    /\ stray' = {k \in Key : db'.vec[k] # NoVec /\ (k \in stray \/ (k \in ks /\ p \notin VecProcess))}

Left == astray' = (astray \/ \E k \in Key : db'.rowid[k] # 0 /\ ~\E x \in db'.fts : x.rowid = db'.rowid[k] /\ x.key = k)

Store(p) ==
    \E k \in Key, row \in Sample, embeds \in BOOLEAN :
        /\ Writes
        /\ db' \in LET d == Stored(p, db, k, row) IN IF embeds THEN VectorPut(p, d, k) ELSE {d}
        /\ Missed(p, {k}, TRUE) /\ Left
        /\ UNCHANGED legacy

StoreMany(p) ==
    \E entries \in Batch :
        /\ Writes
        /\ db' = StoredMany(p, db, entries)
        /\ Missed(p, {entries[i][1] : i \in 1..Len(entries)}, TRUE) /\ Left
        /\ UNCHANGED legacy

Update(p) ==
    \E k \in Key, change \in Change :
        /\ Writes /\ Has(db, k)
        /\ db' = Updated(p, db, k, change)
        /\ Missed(p, {k}, DOMAIN change \cap {"text", "tags"} # {}) /\ Left
        /\ UNCHANGED legacy

(* delete and delete_many, of the rows that are there. *)
Delete(p) ==
    \E ns \in Ns, ids \in SUBSET Id :
        LET ks == {<<ns, i>> : i \in ids} IN
        /\ Writes /\ ks # {} /\ \A k \in ks : Has(db, k)
        /\ db' = Deleted(p, db, ks)
        /\ Missed(p, ks, TRUE) /\ Left
        /\ UNCHANGED legacy

DeleteNamespace(p) ==
    \E ns \in Ns :
        /\ Writes /\ \E k \in Key : k[1] = ns /\ Has(db, k)
        /\ db' = NamespaceDeleted(p, db, ns)
        /\ Missed(p, {k \in Key : k[1] = ns /\ Has(db, k)}, TRUE) /\ Left
        /\ UNCHANGED legacy

(* A graph edge, filed without a look at its rows: an enrichment read them  *)
(* earlier, and a row that moves to a namespace brings the edges it had.    *)
Link ==
    \E ns \in Ns, i, j \in Id :
        /\ Writes /\ i # j
        /\ db' = [db EXCEPT !.edges = @ \cup {<<ns, i, j>>}]
        /\ Filed({<<ns, i, j>>})
        /\ UNCHANGED <<legacy, unindexed, stray, astray>>

-----------------------------------------------------------------------------
(* An open *)

(* An empty full-text table is filled from the rows, and a document without *)
(* a rowid entry gets one.                                                  *)
FtsEnsured(d) ==
    LET filled == IF d.fts = {} THEN FoldSet(LAMBDA k, e : FtsInsert(e, k, d.memories[k]), d, {k \in Key : Has(d, k)})
                  ELSE d IN
    [filled EXCEPT !.rowid = [k \in Key |->
        IF @[k] # 0 THEN @[k] ELSE Max({x.rowid : x \in {y \in filled.fts : y.key = k}} \cup {0})]]

EnsureFts(p) ==
    /\ Writes /\ p \in FtsProcess
    /\ db' = FtsEnsured(db)
    /\ unindexed' = IF db.fts = {} THEN {} ELSE unindexed
    /\ Left
    /\ UNCHANGED <<legacy, stray, orphans>>

(* Before schema 5 a row had its id for a key, and so had its vector and    *)
(* its edges: the namespace is the row's, or "default" without a row.       *)
NamespaceOf(i) == IF \E ns \in Ns : Has(db, <<ns, i>>) THEN CHOOSE ns \in Ns : Has(db, <<ns, i>>) ELSE Default

VecRebuilt == [k \in Key |-> IF k[2] \in legacy.vec /\ NamespaceOf(k[2]) = k[1]
                             THEN IF Has(db, k) THEN db.memories[k].text ELSE "lost" ELSE NoVec]

EdgesRebuilt == {<<NamespaceOf(e[1]), e[1], e[2]>> : e \in legacy.edges}

(* The tag and anchor postings are new tables, filled from the rows. *)
PostingsRebuilt ==
    [db EXCEPT !.vec = VecRebuilt, !.edges = EdgesRebuilt, !.fts = {},
               !.tags = [k \in Key |-> db.memories[k].tags],
               !.anchors = [k \in Key |-> db.memories[k].files]]

(* Counted before and after; a difference rolls the migration back. *)
SameCensus ==
    /\ Cardinality({k \in Key : VecRebuilt[k] # NoVec}) = Cardinality(legacy.vec)
    /\ Cardinality(EdgesRebuilt) = Cardinality(legacy.edges)

MigrateNamespaces(p) ==
    /\ legacy # None /\ SameCensus
    /\ db' = IF p \in FtsProcess THEN FtsEnsured(PostingsRebuilt) ELSE PostingsRebuilt
    /\ legacy' = None
    /\ unindexed' = IF p \in FtsProcess THEN {} ELSE {k \in Key : Has(db, k)}
    /\ stray' = {k \in Key : VecRebuilt[k] = "lost"}
    /\ Filed(EdgesRebuilt)
    /\ UNCHANGED <<astray, writes>>

-----------------------------------------------------------------------------
Empty == [memories |-> [k \in Key |-> NoRow], fts |-> {}, rowid |-> [k \in Key |-> 0],
          tags |-> [k \in Key |-> {}], anchors |-> [k \in Key |-> {}],
          vec |-> [k \in Key |-> NoVec], edges |-> {}]

(* A new store, or one of schema 4 with a row or two and one write to come. *)
StoreInit ==
    /\ \/ db = Empty /\ legacy = None /\ writes = 0
       \/ \E at \in [Id -> Ns], row \in Sample, held, vectors \in SUBSET Id, edges \in SUBSET (Id \X Id) :
            /\ held # {} /\ \A e \in edges : e[1] # e[2]
            /\ db = [Empty EXCEPT !.memories = [k \in Key |-> IF k[2] \in held /\ at[k[2]] = k[1] THEN row ELSE NoRow]]
            /\ legacy = [vec |-> vectors, edges |-> edges] /\ legacy # None
            /\ writes = Max({MAX_WRITES - 1, 0})
    /\ unindexed = {} /\ stray = {} /\ astray = FALSE /\ orphans = {}

StoreNext ==
    \/ \E p \in Process : Store(p) \/ StoreMany(p) \/ Update(p) \/ Delete(p) \/ DeleteNamespace(p)
                          \/ EnsureFts(p) \/ MigrateNamespaces(p)
    \/ Link

-----------------------------------------------------------------------------
(* Reads *)

Tagged(ns, tag) == {k \in Key : k[1] = ns /\ tag \in db.tags[k]}

AnchoredEntries(ns, file) == {k \in Key : k[1] = ns /\ file \in db.anchors[k] /\ Has(db, k)}

(* The rows a scan of the namespace finds. *)
Scan(ns) == {k \in Key : k[1] = ns /\ Has(db, k)}

-----------------------------------------------------------------------------
(* Properties *)

Documents(k) == {x \in db.fts : x.key = k}

FtsFollowsRows ==
    \A k \in Key \ unindexed :
        Documents(k) = IF Has(db, k) THEN {[rowid |-> db.rowid[k], key |-> k, doc |-> Doc(db.memories[k])]} ELSE {}

(* Every index answers what a scan of the rows would, after any sequence of *)
(* writes in two namespaces that share ids: each row has one document, of   *)
(* its own text and tags, and the postings, vectors and edges of a row that *)
(* is gone are gone.  A key that a process without the extension wrote last *)
(* is excepted, and so are the documents once a rowid entry is astray, and  *)
(* the edges that came after their row had gone or were migrated without it.*)
IndexesFollowRows ==
    legacy = None =>
        /\ ~astray => FtsFollowsRows
        /\ \A ns \in Ns, t \in Tag : Tagged(ns, t) = {k \in Scan(ns) : t \in db.memories[k].tags}
        /\ \A ns \in Ns, f \in File : AnchoredEntries(ns, f) = {k \in Scan(ns) : f \in db.memories[k].files}
        /\ \A k \in Key \ stray : db.vec[k] # NoVec => Has(db, k)
        /\ \A e \in db.edges \ orphans : ~Dangles(db, e)
=============================================================================
