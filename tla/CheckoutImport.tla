--------------------------- MODULE CheckoutImport ---------------------------
(***************************************************************************)
(* memory_import_checkout (tools/checkout_import.py and                    *)
(* _checkout_merge.py): the daemon copies a checkout's store while its     *)
(* owner may be writing it, compares the copy with the namespace off the   *)
(* write lane, and merges it in one transaction on the lane, with other    *)
(* tenants' writes between any two steps.                                  *)
(*                                                                         *)
(* A store file is two halves, each of a version of the content; a row is  *)
(* a text and a vector, and a vector of another dimension is "other".      *)
(***************************************************************************)
EXTENDS Naturals, FiniteSets

CONSTANTS
    ImportId, Canary,  \* ids; those of the pinned canaries
    Contents,          \* a version of the checkout's store -> its rows: [id -> row]
    RowText, RowVec,   \* texts and vectors of rows
    TenantRows,        \* rows other tenants store in the namespace
    MAX_IMPORTS, MAX_OWNER_WRITES, MAX_TENANT_WRITES,
    MAX_OTHER_WRITES   \* the owner's and the tenants' together

VARIABLES
    source,            \* [main, side, next, exclusive, stat]: the checkout's store file
    import,            \* the import in progress
    reply,             \* what the last import answered
    merged,            \* whether that import's merge was committed
    dest,              \* id -> row of the namespace, or Absent
    foreign,           \* ids that other tenants wrote or deleted
    taken,             \* versions merged so far
    ownerWrites, imports, tenantWrites

importVars == <<source, import, reply, merged, dest, foreign, taken, ownerWrites, imports, tenantWrites>>

Version == 1..Cardinality(DOMAIN Contents)

Absent == [text |-> "none", vec |-> "none"]

SomeRow == [text : RowText, vec : RowVec]

ASSUME CheckoutImportAssumption ==
    /\ IsFiniteSet(ImportId)
    /\ IsFiniteSet(DOMAIN Contents) /\ DOMAIN Contents = Version /\ 1 \in Version
    /\ \A v \in DOMAIN Contents : Contents[v] \in [ImportId -> SomeRow]
    /\ \A v \in DOMAIN Contents : \A i \in ImportId :
          Contents[v][i].text = "none" => Contents[v][i] = Absent
    /\ Absent \in SomeRow /\ TenantRows \subseteq SomeRow

Half == {1, 2}

NoImport == [at |-> "idle"]

ImportAt(step) == import.at = step

Locked == ImportAt("copy") \/ ImportAt("copied")   \* sqlite_read_lock on the source

-----------------------------------------------------------------------------
(* The checkout's own process writes its store, in WAL mode or with a      *)
(* rollback journal; SQLite's locks keep it out only where they say.       *)

OwnerSteps(new) == source' = new /\ UNCHANGED <<import, reply, merged, dest, foreign, taken, imports, tenantWrites>>

Room == ownerWrites + tenantWrites < MAX_OTHER_WRITES

Counted == Room /\ ownerWrites < MAX_OWNER_WRITES /\ ownerWrites' = ownerWrites + 1

WalCommit ==
    /\ Counted /\ source.side \in {"none", "wal"} /\ source.next + 1 \in Version
    /\ OwnerSteps([source EXCEPT !.side = "wal", !.next = @ + 1])

JournalBegin ==
    /\ Counted /\ source.side = "none" /\ source.next + 1 \in Version
    /\ OwnerSteps([source EXCEPT !.side = "journal", !.next = @ + 1])

(* A checkpoint needs no lock a reader holds; a journalled write needs all. *)
WriteHalf(h) ==
    /\ source.side # "none" /\ source.main[h] # source.next
    /\ source.side = "journal" => ~Locked
    /\ OwnerSteps([source EXCEPT !.main[h] = source.next, !.stat = @ + 1, !.exclusive = source.side = "journal"])
    /\ UNCHANGED ownerWrites

(* The journal goes at the commit, the WAL with its last connection.        *)
SideGone ==
    /\ source.side # "none" /\ ~Locked /\ \A h \in Half : source.main[h] = source.next
    /\ OwnerSteps([source EXCEPT !.side = "none", !.exclusive = FALSE])
    /\ UNCHANGED ownerWrites

(* The writer dies with a hot journal; the next opener rolls it back.       *)
OwnerDies == source.exclusive /\ OwnerSteps([source EXCEPT !.exclusive = FALSE]) /\ UNCHANGED ownerWrites

RollBack ==
    /\ source.side = "journal" /\ ~source.exclusive /\ ~Locked
    /\ OwnerSteps([source EXCEPT !.side = "none", !.next = @ - 1, !.main = [h \in Half |-> source.next - 1],
                                 !.stat = @ + 1])
    /\ UNCHANGED ownerWrites

-----------------------------------------------------------------------------
(* Other tenants of the namespace, each write a transaction of its own.     *)
TenantWrites(i, row) ==
    /\ Room /\ tenantWrites < MAX_TENANT_WRITES /\ tenantWrites' = tenantWrites + 1
    /\ dest' = [dest EXCEPT ![i] = row]
    /\ foreign' = foreign \cup {i}
    /\ UNCHANGED <<source, import, reply, merged, taken, ownerWrites, imports>>

-----------------------------------------------------------------------------
Copy == Contents[import.parts[1]]

Pinned(i) == i \in Canary /\ Copy[i].text \in {"pinned", "marked"}

Tampered == {i \in ImportId : Pinned(i) /\ Copy[i].text = "marked"}

(* The rows a merge carries: all but the copy's own canaries.               *)
Carried == {i \in ImportId : Copy[i] # Absent /\ ~Pinned(i)}

(* As the namespace's vector write leaves a row: another space is skipped.  *)
Placed(i) == IF Copy[i].vec = "other" THEN [Copy[i] EXCEPT !.vec = "none"] ELSE Copy[i]

Step(next) == import' = next /\ UNCHANGED <<source, dest, foreign, taken, ownerWrites, imports, tenantWrites>>

Go(next) == Step(next) /\ UNCHANGED <<reply, merged>>

Answer(status) == Step(NoImport) /\ reply' = status /\ UNCHANGED merged

(* _quiet_source_state: a store with a sidecar is not copied.               *)
QuietState == IF source.side = "none" THEN source.stat ELSE 0

ImportBegins ==
    /\ ImportAt("idle") /\ imports < MAX_IMPORTS /\ imports' = imports + 1
    /\ reply' = (IF QuietState = 0 THEN "refused" ELSE "none") /\ merged' = FALSE
    /\ import' = IF QuietState = 0 THEN NoImport
                 ELSE [at |-> "opened", before |-> QuietState, parts |-> <<0, 0>>, held |-> dest, plan |-> {}]
    /\ UNCHANGED <<source, dest, foreign, taken, ownerWrites, tenantWrites>>

TakeReadLock ==
    /\ ImportAt("opened")
    /\ IF source.exclusive THEN Answer("refused")
       ELSE Go([import EXCEPT !.at = "copy", !.parts = <<source.main[1], 0>>])

CopyRest == ImportAt("copy") /\ Go([import EXCEPT !.at = "copied", !.parts[2] = source.main[2]])

(* Mutant: the source is not looked at again under the lock.                *)
UnchangedTrusted == TRUE

UnchangedSince == QuietState = import.before

EndCopy ==
    /\ ImportAt("copied")
    /\ IF UnchangedSince THEN Go([import EXCEPT !.at = "private"]) ELSE Answer("refused")

-----------------------------------------------------------------------------
(* plan_import: the namespace's rows are read, then their vectors.          *)
ReadHeld == ImportAt("private") /\ Go([import EXCEPT !.at = "held", !.held = dest])

HeldRows == {i \in Carried : import.held[i] # Absent}

Seen(i) == [import.held[i] EXCEPT !.vec = dest[i].vec]

VectorDiffers(i) == Copy[i].vec # "other" /\ Copy[i].vec # Seen(i).vec

Conflicts == {i \in HeldRows : Copy[i].text # Seen(i).text \/ VectorDiffers(i)}

Compare ==
    /\ ImportAt("held")
    /\ IF Tampered # {} \/ Conflicts # {} THEN Answer("conflict")
       ELSE Go([import EXCEPT !.at = "compared", !.plan = HeldRows, !.held = [i \in ImportId |-> Seen(i)]])

Submit == ImportAt("compared") /\ Go([import EXCEPT !.at = "queued"])

LaneRuns == ImportAt("queued") /\ Go([import EXCEPT !.at = "running"])

(* The lane stayed busy: write.cancel() takes back a step it has not begun. *)
QueueTimeout == ImportAt("queued") /\ Answer("busy")

UntilCommitted == ImportAt("held") \/ ImportAt("running")

Deadline == UntilCommitted /\ Answer("busy")

Changed == \E i \in import.plan : dest[i] # import.held[i]

Present == {i \in Carried : dest[i] # Absent}

(* write_import: re-check, merge, and the count of what the merge skipped.  *)
Merge ==
    /\ ImportAt("running")
    /\ \/ Changed /\ Answer("busy")
       \/ ~Changed /\ Cardinality(Present) # Cardinality(import.plan) /\ Answer("conflict")
       \/ /\ ~Changed /\ Cardinality(Present) = Cardinality(import.plan)
          /\ dest' = [i \in ImportId |-> IF i \in Carried \ Present THEN Placed(i) ELSE dest[i]]
          /\ import' = [import EXCEPT !.at = "committed"] /\ merged' = TRUE
          /\ taken' = taken \cup {import.parts[1]}
          /\ UNCHANGED <<source, reply, foreign, ownerWrites, imports, tenantWrites>>

CopyCommits == ImportAt("committed") /\ \E status \in {"ok", "uncertain"} : Answer(status)

(* The daemon is killed: its copy is swept when the next one starts.        *)
DaemonDies == ~ImportAt("idle") /\ Answer("lost")

-----------------------------------------------------------------------------
ImportInit ==
    /\ source = [main |-> [h \in Half |-> 1], side |-> "none", next |-> 1, exclusive |-> FALSE, stat |-> 1]
    /\ import = NoImport /\ reply = "none" /\ merged = FALSE
    /\ dest = [i \in ImportId |-> Absent] /\ foreign = {} /\ taken = {}
    /\ ownerWrites = 0 /\ imports = 0 /\ tenantWrites = 0

ImportNext ==
    \/ WalCommit \/ JournalBegin \/ SideGone \/ OwnerDies \/ RollBack
    \/ \E h \in Half : WriteHalf(h)
    \/ \E i \in ImportId, row \in TenantRows \cup {Absent} : TenantWrites(i, row)
    \/ ImportBegins \/ TakeReadLock \/ CopyRest \/ EndCopy \/ ReadHeld \/ Compare \/ Submit \/ LaneRuns
    \/ QueueTimeout \/ Deadline \/ Merge \/ CopyCommits \/ DaemonDies

ImportSpec == ImportInit /\ [][ImportNext]_importVars

-----------------------------------------------------------------------------
(* A copy that is used is one committed version of the checkout's store.    *)
CopyWhole ==
    ~ImportAt("idle") /\ ~ImportAt("opened") /\ ~Locked => import.parts[1] = import.parts[2]

(* An import that answers that it failed changed nothing, one that answers  *)
(* "ok" or "uncertain" was merged.                                          *)
AnswerTrue ==
    /\ reply \in {"refused", "busy", "conflict"} => ~merged
    /\ reply \in {"ok", "uncertain"} => merged

(* The merge overwrites no row of the namespace, and after it the namespace *)
(* holds every row of the copy as the copy has it.                          *)
MergesExactly ==
    merged' /\ ~merged =>
        /\ \A i \in ImportId : dest[i] # Absent => dest'[i] = dest[i]
        /\ \A i \in Carried :
              /\ dest'[i].text = Copy[i].text
              /\ Copy[i].vec # "other" => dest'[i].vec = Copy[i].vec

(* A conflict found by the compare is about rows others wrote or another    *)
(* version of the store: a rerun of what was merged converges.              *)
Converges ==
    ImportAt("held") /\ reply' = "conflict" =>
        Tampered # {} \/ Conflicts \cap foreign # {} \/ taken \ {import.parts[1]} # {}

(* An import copies one committed version of the checkout's store, answers  *)
(* what it did, merges over nobody's row, and can be run again.             *)
ImportSound == [][MergesExactly /\ Converges /\ CopyWhole' /\ AnswerTrue']_importVars

-----------------------------------------------------------------------------
(* Why: the inductive invariant.                                            *)

Copies == [at : {"opened", "copy", "copied", "private", "held", "compared", "queued", "running", "committed"},
           before : Nat \ {0}, parts : (Version \cup {0}) \X (Version \cup {0}),
           held : [ImportId -> SomeRow], plan : SUBSET ImportId]

ImportTypeOK ==
    /\ source \in [main : [Half -> Version], side : {"none", "wal", "journal"}, next : Version,
                   exclusive : BOOLEAN, stat : Nat \ {0}]
    /\ import = NoImport \/ import \in Copies
    /\ reply \in {"none", "refused", "busy", "conflict", "ok", "uncertain", "lost"} /\ merged \in BOOLEAN
    /\ dest \in [ImportId -> SomeRow] /\ foreign \subseteq ImportId /\ taken \subseteq Version

(* A store without a sidecar is one version in both halves, and a journal   *)
(* has a version before it to go back to.                                   *)
QuietIsWhole ==
    /\ source.side = "none" => source.main = [h \in Half |-> source.next]
    /\ source.side = "journal" => source.next - 1 \in Version

(* While the store file has not changed, what was read of it is what it is. *)
ReadIsCurrent ==
    /\ ~ImportAt("idle") => import.before <= source.stat
    /\ (ImportAt("opened") \/ Locked) /\ source.stat = import.before => source.main[1] = source.main[2]
    /\ Locked => import.parts[1] \in Version /\ (source.stat = import.before => import.parts[1] = source.main[1])
    /\ ImportAt("copied") => import.parts[2] \in Version
                            /\ (source.stat = import.before => import.parts[2] = source.main[2])

(* A copy that is used is of one version.                                   *)
UsedIsVersion ==
    ~ImportAt("idle") /\ ~ImportAt("opened") /\ ~Locked =>
        import.parts[1] = import.parts[2] /\ import.parts[1] \in Version

(* Only an import that was merged and not answered is "committed".          *)
MergedIsCommitted ==
    /\ ~ImportAt("idle") => reply = "none" /\ (merged <=> ImportAt("committed"))
    /\ reply = "none" /\ ImportAt("idle") => ~merged
    /\ AnswerTrue

(* What the plan holds is in the copy and does not differ from it.          *)
PlanAgrees ==
    ImportAt("compared") \/ ImportAt("queued") \/ ImportAt("running") =>
        \A i \in import.plan :
            /\ i \in Carried /\ import.held[i].text = Copy[i].text
            /\ Copy[i].vec # "other" => import.held[i].vec = Copy[i].vec

(* A row no tenant wrote was put there by a merge.                          *)
RowsAreCopies ==
    \A i \in ImportId \ foreign :
        /\ dest[i] # Absent =>
              \E v \in taken : /\ dest[i].text = Contents[v][i].text
                               /\ Contents[v][i].vec # "other" => dest[i].vec = Contents[v][i].vec
        /\ ImportAt("held") => import.held[i] = dest[i]

ImportIInv ==
    /\ ImportTypeOK /\ QuietIsWhole /\ ReadIsCurrent /\ UsedIsVersion /\ MergedIsCommitted /\ PlanAgrees
    /\ RowsAreCopies
=============================================================================
