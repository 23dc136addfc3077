----------------------------- MODULE YamlStore ------------------------------
(***************************************************************************)
(* The store of one YAML file per id (storage/yaml_backend.py) under the   *)
(* calls of several processes.  A file is replaced whole by a rename, so a *)
(* reader sees one row or another; an update reads and rewrites it under   *)
(* the file's lock, which neither a store, a delete, a purge nor a listing *)
(* takes.  A process may be killed at any step.                            *)
(*                                                                         *)
(* The file is named by the id alone: a row of another namespace with the  *)
(* same id is replaced by a store, and moved by an update, which sets the  *)
(* namespace it was called with.                                           *)
(***************************************************************************)
EXTENDS Naturals, FiniteSets

CONSTANTS
    FileId,      \* ids of entries
    Does,        \* call -> [kind, ns, id, text, claim, note], what it is asked to do
    StoredFiles, \* files there may be at first
    Blocked,     \* <<ns, id>> the quarantine ledger withholds
    FileValue,   \* what the fields of rows and calls hold
    MAX_FILE_CALLS,
    MAX_FILE_KILLS

FileCall == DOMAIN Does

VARIABLES
    files,       \* id -> its row, or NoFile
    locker,      \* id -> the call that has the lock of its file, or Nothing
    doing,       \* call -> [at, seen, todo, found]
    began, fileKills,
    owed,        \* id -> the changes of updates no later write has replaced
    undecoded,   \* ids whose file came with evidence that does not parse, and was not replaced
    oldClaims,   \* <<id, text>> of the unsupported claims there were at first
    steadyRows   \* listing -> ids that were there, and in its namespace, since it began

fileVars == <<files, locker, doing, began, fileKills, owed, undecoded, oldClaims, steadyRows>>

Nothing == "none"

NoFile == [ns |-> Nothing]

StoredRow == [ns : FileValue \ {Nothing}, text : FileValue, claim : FileValue, note : FileValue,
              count : Nat, whole : BOOLEAN]

ASSUME YamlStoreAssumption ==
    /\ Nothing \notin FileCall /\ "demoted" \in FileValue
    /\ Does \in [FileCall -> [kind : {"store", "touch", "update", "delete", "list", "purge"},
                            ns : FileValue \ {Nothing}, id : FileId, text : FileValue, claim : FileValue,
                            note : FileValue]]
    /\ StoredFiles \subseteq [FileId -> StoredRow \cup {NoFile}]

Exists(id) == files[id] # NoFile

IdleCall == [at |-> "idle", seen |-> NoFile, todo |-> {}, found |-> {}]

CallAt(c, step) == doing[c].at = step

Moves(c, step) == doing' = [doing EXCEPT ![c].at = step]

Ends(c) == Moves(c, "done")

-----------------------------------------------------------------------------
(* _evidence_invariant.py: a claim of `verified` without the evidence.     *)

(* refuse_new_violation: unless the same claim was already there.           *)
NewViolation(existing, row) ==
    row.claim = "unsupported" /\ ~(existing # NoFile /\ existing.claim = "unsupported" /\ existing.text = row.text)

(* _locate_scoped, with the rows a ledger withholds.                        *)
LocateScoped(id, ns) == Exists(id) /\ files[id].ns = ns

Admits(ns, id) == <<ns, id>> \notin Blocked

-----------------------------------------------------------------------------
BeginCall(c) == CallAt(c, "idle") /\ Cardinality(began) < MAX_FILE_CALLS /\ began' = began \cup {c}

Entered(c) ==
    [ns |-> Does[c].ns, text |-> Does[c].text, claim |-> Does[c].claim, note |-> Does[c].note,
     count |-> 0, whole |-> TRUE]

(* Every write of a file: what listings and later reads can rely on.        *)
Written(id, row) ==
    /\ files' = [files EXCEPT ![id] = row]
    /\ steadyRows' = [l \in DOMAIN steadyRows |-> IF row.ns = Does[l].ns THEN steadyRows[l] ELSE steadyRows[l] \ {id}]

(* store: the evidence rule looks at the row of that namespace, if any.     *)
StoreCheck(c) ==
    LET id == Does[c].id
        existing == IF Exists(id) /\ files[id].ns = Does[c].ns THEN files[id] ELSE NoFile
    IN
    /\ Does[c].kind = "store" /\ BeginCall(c)
    /\ IF NewViolation(existing, Entered(c)) THEN Ends(c) ELSE Moves(c, "write")
    /\ UNCHANGED <<files, locker, fileKills, owed, undecoded, oldClaims, steadyRows>>

(* write_yaml: a new file is renamed over the old one.                      *)
StoreWrite(c) ==
    LET id == Does[c].id IN
    /\ Does[c].kind = "store" /\ CallAt(c, "write")
    /\ Written(id, Entered(c)) /\ Ends(c)
    /\ owed' = [owed EXCEPT ![id] = [f \in {} |-> Nothing]]
    /\ undecoded' = undecoded \ {id}
    /\ UNCHANGED <<locker, began, fileKills, oldClaims>>

(* increment_recall_access: the row is read, then updated.                  *)
TouchRead(c) ==
    LET id == Does[c].id IN
    /\ Does[c].kind = "touch" /\ BeginCall(c)
    /\ IF LocateScoped(id, Does[c].ns) /\ Admits(Does[c].ns, id)
       THEN doing' = [doing EXCEPT ![c] = [@ EXCEPT !.at = "found", !.seen = files[id]]]
       ELSE Ends(c)
    /\ UNCHANGED <<files, locker, fileKills, owed, undecoded, oldClaims, steadyRows>>

(* update: no file, or a blocked row, is absent.  Its namespace is not asked. *)
UpdateStart(c) ==
    LET id == Does[c].id IN
    /\ \/ Does[c].kind = "update" /\ BeginCall(c)
       \/ Does[c].kind = "touch" /\ CallAt(c, "found") /\ UNCHANGED began
    /\ IF Exists(id) /\ Admits(files[id].ns, id) THEN Moves(c, "lock") ELSE Ends(c)
    /\ UNCHANGED <<files, locker, fileKills, owed, undecoded, oldClaims, steadyRows>>

(* The fields a call sets, its namespace among them.                        *)
Wanted(c) ==
    IF Does[c].kind = "touch" THEN [ns |-> Does[c].ns, count |-> doing[c].seen.count + 1]
    ELSE [f \in {g \in {"ns", "text", "claim", "note"} : Does[c][g] # Nothing} |-> Does[c][f]]

(* dict_to_entry: a row without the evidence that did not parse.            *)
Parsed(row) == [row EXCEPT !.whole = TRUE]

(* The parsed row with the change, which is what is written back.           *)
Applied(row, change) == [f \in DOMAIN row |-> IF f \in DOMAIN change THEN change[f] ELSE Parsed(row)[f]]

(* Mutant: the lock is one of threads and not of processes.                 *)
LockInProcess(c) == TRUE

(* lock_for_rmw: of threads first, then of the lock file.                   *)
LockForRmw(c) == locker[Does[c].id] = Nothing

(* ParsedRow.partial: some of its evidence did not parse and was left out.  *)
Partial(row) == ~row.whole

(* A row that parsed in part is not rewritten, nor a new violation written. *)
RefusesUpdate(row, c) == Partial(row) \/ NewViolation(row, Applied(row, Wanted(c)))

UpdateRead(c) ==
    LET id == Does[c].id IN
    /\ CallAt(c, "lock") /\ LockForRmw(c)
    /\ IF ~Exists(id) \/ RefusesUpdate(files[id], c) THEN Ends(c) /\ UNCHANGED locker
       ELSE /\ doing' = [doing EXCEPT ![c] = [@ EXCEPT !.at = "rewrite", !.found = {Applied(files[id], Wanted(c))}]]
            /\ locker' = [locker EXCEPT ![id] = c]
    /\ UNCHANGED <<files, began, fileKills, owed, undecoded, oldClaims, steadyRows>>

UpdateWrite(c) ==
    LET id == Does[c].id
        row == CHOOSE r \in doing[c].found : TRUE
    IN
    /\ CallAt(c, "rewrite")
    /\ Written(id, row) /\ Ends(c)
    /\ locker' = [locker EXCEPT ![id] = Nothing]
    /\ owed' = [owed EXCEPT ![id] = [f \in DOMAIN @ \cup DOMAIN Wanted(c) |->
                                        IF f \in DOMAIN Wanted(c) THEN Wanted(c)[f] ELSE @[f]]]
    /\ UNCHANGED <<began, fileKills, undecoded, oldClaims>>

-----------------------------------------------------------------------------
Removed(id) ==
    /\ files' = [files EXCEPT ![id] = NoFile]
    /\ owed' = [owed EXCEPT ![id] = [f \in {} |-> Nothing]]
    /\ undecoded' = undecoded \ {id}
    /\ steadyRows' = [l \in DOMAIN steadyRows |-> steadyRows[l] \ {id}]

(* delete: a row of that namespace, withheld or not, and then the file.     *)
DeleteFind(c) ==
    /\ Does[c].kind = "delete" /\ BeginCall(c)
    /\ IF LocateScoped(Does[c].id, Does[c].ns) THEN Moves(c, "unlink") ELSE Ends(c)
    /\ UNCHANGED <<files, locker, fileKills, owed, undecoded, oldClaims, steadyRows>>

DeleteUnlink(c) ==
    /\ Does[c].kind = "delete" /\ CallAt(c, "unlink") /\ Ends(c)
    /\ Removed(Does[c].id)
    /\ UNCHANGED <<locker, began, fileKills, oldClaims>>

(* _iter_all: the names of the files there are, then one file after another. *)
ListBegin(c) ==
    /\ Does[c].kind \in {"list", "purge"} /\ BeginCall(c)
    /\ doing' = [doing EXCEPT ![c] = [@ EXCEPT !.at = "read", !.todo = {id \in FileId : Exists(id)}]]
    /\ steadyRows' = [l \in DOMAIN steadyRows \cup {c} |->
                     IF l = c THEN {id \in FileId : LocateScoped(id, Does[c].ns) /\ Admits(Does[c].ns, id)}
                     ELSE steadyRows[l]]
    /\ UNCHANGED <<files, locker, fileKills, owed, undecoded, oldClaims>>

(* A file that cannot be read is skipped.                                   *)
ReadOver(c, id) == doing[c].todo \ {id}

(* served_view: an unsupported claim is served as an unverified one.        *)
Served(row) == IF row.claim = "unsupported" THEN [row EXCEPT !.claim = "demoted"] ELSE row

(* Of the namespace, and unless it is purged not withheld.                  *)
Matches(c, id) == LocateScoped(id, Does[c].ns) /\ (Does[c].kind = "purge" \/ Admits(Does[c].ns, id))

ListRead(c) ==
    /\ CallAt(c, "read")
    /\ \E id \in doing[c].todo :
          LET answered == IF Matches(c, id) THEN {[id |-> id, row |-> Served(Parsed(files[id]))]} ELSE {}
          IN doing' = [doing EXCEPT ![c].todo = ReadOver(c, id), ![c].found = @ \cup answered]
    /\ UNCHANGED <<files, locker, began, fileKills, owed, undecoded, oldClaims, steadyRows>>

Ids(found) == {f.id : f \in found}

ListEnd(c) ==
    /\ CallAt(c, "read") /\ doing[c].todo = {}
    /\ IF Does[c].kind = "list" THEN Ends(c)
       ELSE doing' = [doing EXCEPT ![c] = [@ EXCEPT !.at = "purge", !.todo = Ids(doing[c].found)]]
    /\ UNCHANGED <<files, locker, began, fileKills, owed, undecoded, oldClaims, steadyRows>>

(* delete_by_namespace: the files of the rows it read, whatever they hold now. *)
PurgeUnlink(c) ==
    /\ CallAt(c, "purge")
    /\ \/ \E id \in doing[c].todo : Removed(id) /\ doing' = [doing EXCEPT ![c].todo = @ \ {id}]
       \/ doing[c].todo = {} /\ Ends(c) /\ UNCHANGED <<files, owed, undecoded, steadyRows>>
    /\ UNCHANGED <<locker, began, fileKills, oldClaims>>

(* A kill leaves the file as it was, and its locks are the kernel's.        *)
KillCall(c) ==
    /\ ~CallAt(c, "idle") /\ ~CallAt(c, "done") /\ fileKills < MAX_FILE_KILLS
    /\ fileKills' = fileKills + 1
    /\ Moves(c, "killed")
    /\ locker' = [id \in FileId |-> IF locker[id] = c THEN Nothing ELSE locker[id]]
    /\ UNCHANGED <<files, began, owed, undecoded, oldClaims, steadyRows>>

-----------------------------------------------------------------------------
FileInit ==
    /\ files \in StoredFiles
    /\ locker = [id \in FileId |-> Nothing]
    /\ doing = [c \in FileCall |-> IdleCall]
    /\ began = {} /\ fileKills = 0
    /\ owed = [id \in FileId |-> [f \in {} |-> Nothing]]
    /\ undecoded = {id \in FileId : Exists(id) /\ ~files[id].whole}
    /\ oldClaims = {<<id, files[id].text>> : id \in {i \in FileId : Exists(i) /\ files[i].claim = "unsupported"}}
    /\ steadyRows = [l \in {} |-> {}]

FileNext ==
    \E c \in FileCall :
        \/ StoreCheck(c) \/ StoreWrite(c) \/ TouchRead(c)
        \/ UpdateStart(c) \/ UpdateRead(c) \/ UpdateWrite(c)
        \/ DeleteFind(c) \/ DeleteUnlink(c)
        \/ ListBegin(c) \/ ListRead(c) \/ ListEnd(c) \/ PurgeUnlink(c)
        \/ KillCall(c)

FileSpec == FileInit /\ [][FileNext]_fileVars

-----------------------------------------------------------------------------
(* What an update set stays until a write that replaces it: two updates of  *)
(* one row in two processes both have their effect.                         *)
UpdatesCompose ==
    \A id \in FileId : \A f \in DOMAIN owed[id] : Exists(id) /\ files[id][f] = owed[id][f]

(* Evidence that did not parse is only lost with its row, and no claim is   *)
(* unsupported that was not before, however checks and writes interleave.   *)
EvidenceGuarded ==
    /\ \A id \in undecoded : Exists(id) /\ ~files[id].whole
    /\ \A id \in FileId : Exists(id) /\ files[id].claim = "unsupported" => <<id, files[id].text>> \in oldClaims

(* A listing answers every row that was there and in its namespace from its *)
(* beginning to its end, whatever is replaced and removed while it reads.   *)
ListsWhole ==
    \A l \in DOMAIN steadyRows : Does[l].kind = "list" /\ CallAt(l, "done") => steadyRows[l] \subseteq Ids(doing[l].found)

FilesKept == UpdatesCompose /\ EvidenceGuarded /\ ListsWhole

-----------------------------------------------------------------------------
(* Why: the inductive invariant.                                            *)

FileTypeOK ==
    /\ files \in [FileId -> StoredRow \cup {NoFile}] /\ locker \in [FileId -> FileCall \cup {Nothing}]
    /\ doing \in [FileCall ->
          [at : {"idle", "write", "found", "lock", "rewrite", "unlink", "read", "purge", "done", "killed"},
           seen : StoredRow \cup {NoFile}, todo : SUBSET FileId,
           found : SUBSET (StoredRow \cup [id : FileId, row : StoredRow])]]
    /\ undecoded \subseteq FileId /\ DOMAIN owed = FileId
    /\ \A id \in FileId : DOMAIN owed[id] \subseteq {"ns", "text", "claim", "note", "count"}
    /\ DOMAIN steadyRows \subseteq FileCall /\ \A l \in DOMAIN steadyRows : steadyRows[l] \subseteq FileId

(* Which calls a step is of.                                                *)
StepKind(c) ==
    /\ CallAt(c, "found") => Does[c].kind = "touch"
    /\ CallAt(c, "lock") \/ CallAt(c, "rewrite") => Does[c].kind \in {"touch", "update"}
    /\ Does[c].kind = "touch" /\ (CallAt(c, "found") \/ CallAt(c, "lock") \/ CallAt(c, "rewrite")) =>
          doing[c].seen \in StoredRow
    /\ CallAt(c, "idle") => doing[c].found = {}
    /\ CallAt(c, "read") => c \in DOMAIN steadyRows /\ doing[c].found \subseteq [id : FileId, row : StoredRow]
    /\ CallAt(c, "purge") => Does[c].kind = "purge"

(* A row about to be written has what is owed of the fields it does not     *)
(* set, replaces no row with evidence that did not parse, and makes no      *)
(* claim that was not there.                                                *)
Rewrites(c, row) ==
    /\ row \in StoredRow /\ doing[c].found = {row}
    /\ \A f \in DOMAIN Wanted(c) : row[f] = Wanted(c)[f]
    /\ \A f \in DOMAIN owed[Does[c].id] \ DOMAIN Wanted(c) : row[f] = owed[Does[c].id][f]
    /\ row.claim = "unsupported" => <<Does[c].id, row.text>> \in oldClaims

WriteHolds(c) ==
    /\ CallAt(c, "write") /\ Does[c].claim = "unsupported" => <<Does[c].id, Does[c].text>> \in oldClaims
    /\ CallAt(c, "rewrite") =>
          /\ locker[Does[c].id] = c /\ Does[c].id \notin undecoded
          /\ \E row \in doing[c].found : Rewrites(c, row)

(* A listing that reads has the steady rows behind it or before it.         *)
SteadyIsThere(l) ==
    /\ Does[l].kind \in {"list", "purge"} /\ ~CallAt(l, "idle")
    /\ \A id \in steadyRows[l] : LocateScoped(id, Does[l].ns) /\ Admits(Does[l].ns, id)
    /\ CallAt(l, "read") => steadyRows[l] \subseteq Ids(doing[l].found) \cup doing[l].todo

FileIInv ==
    /\ FileTypeOK
    /\ \A c \in FileCall : StepKind(c) /\ WriteHolds(c)
    /\ \A l \in DOMAIN steadyRows : SteadyIsThere(l)
    /\ FilesKept
=============================================================================
