----------------------------- MODULE MemoryRows -----------------------------
(***************************************************************************)
(* The rows of one namespace under the tools of one daemon: memory_store,  *)
(* memory_recall and memory_reembed run in worker threads, memory_update,  *)
(* memory_forget and the write of a consolidated cluster on the write lane *)
(* (whose order is DaemonLane's).  A SQLite transaction, or a statement    *)
(* outside one, is one action; what a tool does between two of them, such  *)
(* as encoding a text, interleaves with the others.                        *)
(*                                                                         *)
(* A text is its summary and its detail, each the job that wrote it; `by`, *)
(* the last writer, stands for the rest of a row's revision.  The tier     *)
(* mirror (hot and warm, written together under one lock) holds a copy of  *)
(* a row as it was stored or recalled.  Every query matches every row.     *)
(***************************************************************************)
EXTENDS Naturals, FiniteSets

CONSTANTS
    Id,          \* ids of stored rows
    Job,         \* tool calls; a merge's name is also its new row's id
    Kind,        \* what each job is
    On,          \* the id a store, an update or a forget is about
    Embeds,      \* the jobs that get an embedding model
    MIN_CLUSTER, \* consolidation_min_cluster
    MAX_CALLS    \* bound on the calls made

None == "none"

ASSUME MemoryRowsAssumption ==
    /\ On \in [Job -> Id] /\ None \notin Job
    /\ Id \cap {j \in Job : Kind[j] = "merge"} = {}

Merge == {j \in Job : Kind[j] = "merge"}
Entry == Id \cup Merge

NoRow == [text |-> <<None, None>>, status |-> None, into |-> None, by |-> None]
NoVec == [of |-> <<None, None>>, space |-> None]
NoRows == [i \in Entry |-> NoRow]
NoVecs == [i \in Entry |-> NoVec]

VARIABLES
    rows,     \* id -> its row
    vec,      \* id -> its vector: the text it encodes, in the "active" space or another
    tier,     \* id -> its copy in the tier mirror
    lane,     \* the job that has the write lane
    pc,       \* job -> where it is
    seen,     \* job -> the rows it works from
    records   \* job -> the vector records it read

vars == <<rows, vec, tier, lane, pc, seen, records>>

Init ==
    /\ \E present \in SUBSET Id, space \in {"active", "old", None}, mirrored \in BOOLEAN :
          LET row(i) == IF i \in present
                        THEN [text |-> <<"init", "init">>, status |-> "active", into |-> None, by |-> "init"]
                        ELSE NoRow IN
          /\ rows = [i \in Entry |-> row(i)]
          /\ vec = [i \in Entry |-> IF i \in present /\ space # None
                                    THEN [of |-> row(i).text, space |-> space] ELSE NoVec]
          /\ tier = [i \in Entry |-> IF mirrored THEN row(i) ELSE NoRow]
    /\ lane = None
    /\ pc = [j \in Job |-> "idle"]
    /\ seen = [j \in Job |-> NoRows]
    /\ records = [j \in Job |-> NoVecs]

Goto(j, label) == pc' = [pc EXCEPT ![j] = label]

Starts(j) == pc[j] = "idle" /\ Cardinality({k \in Job : pc[k] # "idle"}) < MAX_CALLS

See(j, found) == seen' = [seen EXCEPT ![j] = found]

(* A job that ends has no copies any more. *)
Forgotten(j) == See(j, NoRows) /\ records' = [records EXCEPT ![j] = NoVecs]

TakeLane(j) == lane = None /\ lane' = j

Active(found) == {i \in Entry : found[i].status = "active"}

Vector(text) == [of |-> text, space |-> "active"]

-----------------------------------------------------------------------------
(* memory_store, off the lane: read the row, build its revision and encode  *)
(* it, write it if the row is still the one read, mirror it.                *)

StoreRead(j) ==
    /\ Kind[j] = "store" /\ Starts(j)
    /\ Goto(j, "read")
    /\ See(j, [NoRows EXCEPT ![On[j]] = rows[On[j]]])
    /\ UNCHANGED <<rows, vec, tier, lane, records>>

(* new_entry, or revise_entry: a revision keeps the status it found. *)
Revision(j, existing) ==
    [text |-> <<j, j>>, into |-> existing.into, by |-> j,
     status |-> IF existing = NoRow THEN "active" ELSE existing.status]

WriteEntry(j, i, row) ==
    /\ rows' = [rows EXCEPT ![i] = row]
    /\ vec' = IF j \in Embeds THEN [vec EXCEPT ![i] = Vector(row.text)] ELSE vec

StoreConflict(j) ==
    /\ Kind[j] = "store" /\ pc[j] = "read"
    /\ rows[On[j]] # seen[j][On[j]]
    /\ Goto(j, "conflict")
    /\ UNCHANGED <<rows, vec, tier, lane, seen, records>>

(* Mutant: the store writes over whatever row is there. *)
StoreCommitBlind(j) ==
    LET i == On[j] IN
    /\ Kind[j] = "store" /\ pc[j] = "read"
    /\ WriteEntry(j, i, Revision(j, seen[j][i]))
    /\ Goto(j, "stored")
    /\ UNCHANGED <<tier, lane, seen, records>>

StoreCommit(j) ==
    LET i == On[j] IN
    /\ Kind[j] = "store" /\ pc[j] = "read"
    /\ rows[i] = seen[j][i]
    /\ WriteEntry(j, i, Revision(j, seen[j][i]))
    /\ Goto(j, "stored")
    /\ UNCHANGED <<tier, lane, seen, records>>

(* remember_entry_in_tiers: the entry this call built, whatever came since. *)
StoreMirror(j) ==
    LET i == On[j] IN
    /\ Kind[j] = "store" /\ pc[j] = "stored"
    /\ tier' = [tier EXCEPT ![i] = Revision(j, seen[j][i])]
    /\ Goto(j, "done")
    /\ Forgotten(j)
    /\ UNCHANGED <<rows, vec, lane>>

-----------------------------------------------------------------------------
(* memory_update, on the lane: an edit of the summary, a retirement or a    *)
(* revival.  The patched text is encoded before the transaction, for a row  *)
(* that has a vector; the patch applies to the row as it is then.           *)

Updates == {"edit", "retire", "revive"}

UpdateRead(j) ==
    LET i == On[j] IN
    /\ Kind[j] \in Updates /\ Starts(j)
    /\ TakeLane(j)
    /\ Goto(j, IF rows[i] = NoRow THEN "ending" ELSE "read")
    /\ See(j, [NoRows EXCEPT ![i] = rows[i]])
    /\ records' = [records EXCEPT ![j][i] = vec[i]]
    /\ UNCHANGED <<rows, vec, tier>>

Patched(j, current) ==
    CASE Kind[j] = "edit" -> [current EXCEPT !.text = <<j, @[2]>>, !.by = j]
      [] Kind[j] = "retire" -> [current EXCEPT !.status = "obsolete", !.by = j]
      [] Kind[j] = "revive" -> [current EXCEPT !.status = "active", !.by = j]

(* Mutant: the vector encoded before the transaction is stored unchecked. *)
PatchedVectorUnchecked(j, i) ==
    LET encoded == Patched(j, seen[j][i]).text IN
    IF /\ Kind[j] = "edit" /\ vec[i] # NoVec
       /\ j \in Embeds /\ records[j][i] # NoVec
    THEN Vector(encoded)
    ELSE NoVec

(* The row's vector after the patch: a new text's, if it is the text that   *)
(* was encoded, and none beside a retired row.                              *)
PatchedVector(j, i) ==
    LET encoded == Patched(j, seen[j][i]).text IN
    IF Kind[j] = "edit" /\ vec[i] # NoVec
    THEN IF j \in Embeds /\ records[j][i] # NoVec /\ Patched(j, rows[i]).text = encoded
         THEN Vector(encoded) ELSE NoVec
    ELSE IF Kind[j] = "retire" /\ rows[i].status # "obsolete" THEN NoVec ELSE vec[i]

UpdateCommit(j) ==
    LET i == On[j] IN
    /\ Kind[j] \in Updates /\ pc[j] = "read"
    /\ rows' = [rows EXCEPT ![i] = Patched(j, @)]
    /\ vec' = [vec EXCEPT ![i] = PatchedVector(j, i)]
    /\ Goto(j, "committed")
    /\ UNCHANGED <<tier, lane, seen, records>>

(* _refresh_tiers reads the row anew, then mirrors or removes it. *)
RefreshRead(j) ==
    LET i == On[j] IN
    /\ Kind[j] \in Updates /\ pc[j] = "committed"
    /\ See(j, [NoRows EXCEPT ![i] = rows[i]])
    /\ Goto(j, "refreshing")
    /\ UNCHANGED <<rows, vec, tier, lane, records>>

RefreshTiers(j) ==
    LET i == On[j] IN
    /\ Kind[j] \in Updates /\ pc[j] = "refreshing"
    /\ tier' = [tier EXCEPT ![i] = IF i \in Active(seen[j]) THEN seen[j][i] ELSE NoRow]
    /\ Goto(j, "ending")
    /\ UNCHANGED <<rows, vec, lane, seen, records>>

-----------------------------------------------------------------------------
(* memory_forget, on the lane: the row with its vector, then every tier.    *)

ForgetDelete(j) ==
    LET i == On[j] IN
    /\ Kind[j] = "forget" /\ Starts(j)
    /\ TakeLane(j)
    /\ Goto(j, IF rows[i] = NoRow THEN "ending" ELSE "deleted")
    /\ rows' = [rows EXCEPT ![i] = NoRow]
    /\ vec' = [vec EXCEPT ![i] = NoVec]
    /\ UNCHANGED <<tier, seen, records>>

ForgetTiers(j) ==
    /\ Kind[j] = "forget" /\ pc[j] = "deleted"
    /\ tier' = [tier EXCEPT ![On[j]] = NoRow]
    /\ Goto(j, "ending")
    /\ UNCHANGED <<rows, vec, lane, seen, records>>

-----------------------------------------------------------------------------
(* Consolidation: find_clusters and the summary off the lane, then          *)
(* _write_cluster as one lane job.                                          *)

Mergeable == {i \in Id : rows[i].status = "active" /\ rows[i].into = None}

MergeFind(j) ==
    /\ Kind[j] = "merge" /\ Starts(j) /\ j \in Embeds
    /\ \E cluster \in SUBSET Mergeable :
          /\ Cardinality(cluster) >= MIN_CLUSTER
          /\ See(j, [i \in Entry |-> IF i \in cluster THEN rows[i] ELSE NoRow])
    /\ Goto(j, "found")
    /\ UNCHANGED <<rows, vec, tier, lane, records>>

Cluster(j) == {i \in Id : seen[j][i] # NoRow}

(* Its rows re-read: a cluster of which any changed is skipped. *)
MergeCheck(j) ==
    /\ Kind[j] = "merge" /\ pc[j] = "found"
    /\ TakeLane(j)
    /\ Goto(j, IF \A i \in Cluster(j) : rows[i] = seen[j][i] THEN "checked" ELSE "ending")
    /\ UNCHANGED <<rows, vec, tier, seen, records>>

(* _create_consolidated_entry, with the text of the longest member. *)
MergeCreate(j) ==
    /\ Kind[j] = "merge" /\ pc[j] = "checked"
    /\ \E i \in Cluster(j) :
          WriteEntry(j, j, [text |-> seen[j][i].text, status |-> "active", into |-> None, by |-> j])
    /\ Goto(j, "created")
    /\ UNCHANGED <<tier, lane, seen, records>>

Archived(j, row) == [row EXCEPT !.status = "archived", !.into = j, !.by = j]

(* _archive_originals: all of them in one transaction, as they are now. *)
MergeArchive(j) ==
    /\ Kind[j] = "merge" /\ pc[j] = "created"
    /\ \A i \in Cluster(j) : rows[i] # NoRow
    /\ rows' = [i \in Entry |-> IF i \in Cluster(j) THEN Archived(j, rows[i]) ELSE rows[i]]
    /\ vec' = [i \in Entry |-> IF i \in Cluster(j) THEN NoVec ELSE vec[i]]
    /\ Goto(j, "ending")
    /\ UNCHANGED <<tier, lane, seen, records>>

(* A row is gone, or the lane's deadline interrupts a statement. *)
MergeFails(j) ==
    /\ Kind[j] = "merge" /\ pc[j] \in {"checked", "created"}
    /\ Goto(j, IF pc[j] = "created" THEN "undoing" ELSE "failing")
    /\ UNCHANGED <<rows, vec, tier, lane, seen, records>>

(* _restore_originals: a field is put back while it holds what archival wrote. *)
Restored(j, i) ==
    IF rows[i].into # j THEN rows[i]
    ELSE [rows[i] EXCEPT
            !.into = seen[j][i].into,
            !.status = IF @ = "archived" THEN seen[j][i].status ELSE @,
            !.by = IF @ = j THEN seen[j][i].by ELSE @]

(* _rollback_consolidation: the new entry is deleted with its vector.  Its  *)
(* first transaction, the originals', finds archival's rolled back already. *)
MergeRollback(j) ==
    /\ Kind[j] = "merge" /\ pc[j] = "undoing"
    /\ rows' = [i \in Entry |-> IF i = j THEN NoRow ELSE Restored(j, i)]
    /\ vec' = [vec EXCEPT ![j] = NoVec]
    /\ Goto(j, "failing")
    /\ UNCHANGED <<tier, lane, seen, records>>

-----------------------------------------------------------------------------
(* A lane job ends, by its answer or by an error, and the lane is free. *)
EndJob(j) ==
    /\ lane = j /\ pc[j] \in {"ending", "failing"}
    /\ lane' = None
    /\ Goto(j, IF pc[j] = "ending" THEN "done" ELSE "failed")
    /\ Forgotten(j)
    /\ UNCHANGED <<rows, vec, tier>>

(* The lane's deadline interrupts an update's read or transaction. *)
UpdateFails(j) ==
    /\ Kind[j] \in Updates /\ pc[j] \in {"read", "committed"}
    /\ Goto(j, "failing")
    /\ UNCHANGED <<rows, vec, tier, lane, seen, records>>

-----------------------------------------------------------------------------
(* memory_recall, off the lane: rank the active rows, append the copies     *)
(* only the tiers have, mirror what is answered.                            *)

RecallRead(j) ==
    /\ Kind[j] = "recall" /\ Starts(j)
    /\ See(j, rows)
    /\ Goto(j, "read")
    /\ UNCHANGED <<rows, vec, tier, lane, records>>

(* warmup_tier_manager: empty tiers are seeded with the active rows. *)
Warmed == IF \E i \in Entry : tier[i] # NoRow THEN tier
          ELSE [i \in Entry |-> IF i \in Active(rows) THEN rows[i] ELSE NoRow]

RecallTiers(j) ==
    /\ Kind[j] = "recall" /\ pc[j] = "read"
    /\ tier' = Warmed
    /\ See(j, [i \in Entry |-> IF i \in Active(seen[j]) THEN seen[j][i]
                               ELSE IF i \in Active(Warmed) THEN Warmed[i] ELSE NoRow])
    /\ Goto(j, "served")
    /\ UNCHANGED <<rows, vec, lane, records>>

RecallRemember(j) ==
    /\ Kind[j] = "recall" /\ pc[j] = "served"
    /\ tier' = [i \in Entry |-> IF seen[j][i] # NoRow THEN seen[j][i] ELSE tier[i]]
    /\ Goto(j, "done")
    /\ Forgotten(j)
    /\ UNCHANGED <<rows, vec, lane>>

-----------------------------------------------------------------------------
(* memory_reembed, off the lane: a page of rows without a vector of the     *)
(* active space is encoded, then written where nothing changed.             *)

ReembedRead(j) ==
    /\ Kind[j] = "reembed" /\ Starts(j) /\ j \in Embeds
    /\ See(j, [i \in Entry |-> IF vec[i].space # "active" THEN rows[i] ELSE NoRow])
    /\ records' = [records EXCEPT ![j] = vec]
    /\ Goto(j, "read")
    /\ UNCHANGED <<rows, vec, tier, lane>>

ReembedCommit(j) ==
    /\ Kind[j] = "reembed" /\ pc[j] = "read"
    /\ vec' = [i \in Entry |->
                  IF /\ seen[j][i] # NoRow /\ rows[i].text = seen[j][i].text
                     /\ vec[i] = records[j][i]
                  THEN Vector(seen[j][i].text) ELSE vec[i]]
    /\ Goto(j, "done")
    /\ Forgotten(j)
    /\ UNCHANGED <<rows, tier, lane>>

-----------------------------------------------------------------------------
(* The daemon dies; the rows, vectors and the warm tier are on disk. *)
Crash ==
    /\ \E j \in Job : pc[j] \notin {"idle", "done", "failed", "conflict", "dead"}
    /\ pc' = [j \in Job |-> IF pc[j] \in {"idle", "done", "failed", "conflict"} THEN pc[j] ELSE "dead"]
    /\ lane' = None
    /\ seen' = [j \in Job |-> NoRows] /\ records' = [j \in Job |-> NoVecs]
    /\ UNCHANGED <<rows, vec, tier>>

Store(j) == StoreRead(j) \/ StoreConflict(j) \/ StoreCommit(j) \/ StoreMirror(j)
Update(j) == UpdateRead(j) \/ UpdateCommit(j) \/ RefreshRead(j) \/ RefreshTiers(j) \/ UpdateFails(j)
Forget(j) == ForgetDelete(j) \/ ForgetTiers(j)
Consolidate(j) ==
    \/ MergeFind(j) \/ MergeCheck(j) \/ MergeCreate(j)
    \/ MergeArchive(j) \/ MergeFails(j) \/ MergeRollback(j)
Recall(j) == RecallRead(j) \/ RecallTiers(j) \/ RecallRemember(j)
Reembed(j) == ReembedRead(j) \/ ReembedCommit(j)

Next ==
    \/ \E j \in Job : Store(j) \/ Update(j) \/ Forget(j) \/ Consolidate(j)
                      \/ Recall(j) \/ Reembed(j) \/ EndJob(j)
    \/ Crash

Spec == Init /\ [][Next]_vars

-----------------------------------------------------------------------------
(* A vector is never left beside text it was not computed from, whatever    *)
(* lands between a job's encoding and its transaction (correction.py,       *)
(* _client_reembed.py), nor beside no row.  The one text that keeps an      *)
(* older vector is one stored while the model was refused.                  *)
Keyword == {<<j, j>> : j \in Job \ Embeds}

VectorMatchesText ==
    \A i \in Entry : vec[i] # NoVec =>
        /\ rows[i] # NoRow
        /\ vec[i].of = rows[i].text \/ rows[i].text \in Keyword

(* What was forgotten does not come back, and what was retired is not       *)
(* active again, by the write of a job that read the row before: only a     *)
(* store that found no row writes one anew, and only a correction that asks *)
(* for it makes a retired row active.                                       *)
NothingComesBack ==
    [][\A i \in Id :
          /\ rows[i] = NoRow /\ rows'[i] # NoRow => seen[rows'[i].by][i] = NoRow
          /\ rows[i] # NoRow /\ rows[i].status # "active" /\ rows'[i].status = "active"
                => Kind[rows'[i].by] = "revive"]_vars

(* A merge happens as a whole or not at all, a crash of the daemon apart:   *)
(* no original is archived into a row that is not there, and one that was   *)
(* rolled back left neither a row nor an archived original.                 *)
MergedWhole ==
    /\ \A i \in Id : rows[i].into # None => rows[rows[i].into] # NoRow
    /\ \A j \in Merge : pc[j] = "failed" =>
          rows[j] = NoRow /\ \A i \in Id : rows[i].into # j

(* A stored vector is of the stored text, and a merge keeps what it retires,*)
(* whatever is killed and whichever writes overlap.                         *)
RowsWhole == VectorMatchesText /\ MergedWhole

-----------------------------------------------------------------------------
(* The inductive invariant of rows and vectors: an update that may commit   *)
(* has the lane and its row, a merge's row is there from its creation and   *)
(* named by no original before they are archived.                           *)

Text == (Job \cup {"init"}) \X (Job \cup {"init"})

Row == [text : Text, status : {"active", "obsolete", "archived"},
        into : Merge \cup {None}, by : Job \cup {"init"}]

Label == {"idle", "read", "conflict", "stored", "done", "ending", "committed", "refreshing", "deleted",
          "found", "checked", "created", "undoing", "failing", "failed", "served", "dead"}

Copies == [Entry -> Row \cup {NoRow}]

Vectors == [Entry -> [of : Text, space : {"active", "old"}] \cup {NoVec}]

TypeOK ==
    /\ rows \in Copies /\ vec \in Vectors /\ tier \in Copies
    /\ pc \in [Job -> Label] /\ seen \in [Job -> Copies] /\ records \in [Job -> Vectors]

UpdateHasRow == \A j \in Job : Kind[j] \in Updates /\ pc[j] = "read" => lane = j /\ rows[On[j]] # NoRow

(* No original names the merged row of j. *)
Unnamed(j) == \A i \in Entry : rows[i].into # j

MergesInOrder ==
    \A j \in Merge :
        /\ pc[j] \in {"idle", "found", "checked", "failing", "failed"} => rows[j] = NoRow /\ Unnamed(j)
        /\ pc[j] = "created" => rows[j] # NoRow /\ Unnamed(j)
        /\ pc[j] = "undoing" => Unnamed(j)

IInv == TypeOK /\ UpdateHasRow /\ MergesInOrder /\ RowsWhole
=============================================================================
