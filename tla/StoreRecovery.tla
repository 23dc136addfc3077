--------------------------- MODULE StoreRecovery ---------------------------
(***************************************************************************)
(* The opening of a store file and what an open may do to it: the recovery *)
(* of a damaged one (storage/_recovery.py, _recovery_preflight.py,         *)
(* _corrupt_backup.py, _cold_rebuild.py), the migration of an old one      *)
(* (_schema.py, _schema_backup.py), and the operator's snapshot and        *)
(* restore (_snapshot.py, cli_storage.py), by several processes over the   *)
(* store lock.  One action is one step on the files, so that a process may *)
(* die, and another act, between any two.  A store file has rows in its    *)
(* pages and rows committed to the -wal beside it.  The store lock is what *)
(* StoreLock promises: an exclusive operation is alone on the store.       *)
(***************************************************************************)
EXTENDS Integers, Sequences, FiniteSetsExt

CONSTANTS
    Proc,
    Row,
    Old,        \* rows the store may have at first
    Cold,       \* rows the cold tier may have
    KEEP,       \* corrupt_backup_keep
    MAX_FILES,  \* bound on the files ever made at the store's path
    MAX_DAMAGE, \* bound on damage done to the store file
    MAX_KILLS,  \* bound on kills, failed inserts and backups out of order
    MAX_OPENS   \* bound on opens, snapshots and restores, past one for each process killed

ASSUME StoreRecoveryAssumption ==
    /\ Old \subseteq Row /\ Cold \subseteq Row /\ Old \cap Cold = {}
    /\ KEEP \in 1..50 /\ MAX_FILES \in Nat \ {0}
    /\ MAX_DAMAGE \in Nat /\ MAX_KILLS \in Nat /\ MAX_OPENS \in Nat

VARIABLES
    policy,     \* recovery_policy, rebuild_from_cold, the cold tier's rows, and the
                \* room that backups with old names leave of KEEP for new ones
    file,       \* the file at the store's path, or NoFile
    wal,        \* the -wal at the path: the file it was written for, its rows
    backups,    \* rotated files with their -wal, the oldest first
    marker,     \* the file <db>.recovering names, 0 when there is none
    verdict,    \* <db>.recovery.json: a status, and what it is bound to
    snap,       \* the latest snapshot, or NoFile
    copies,     \* row sets of the pre-migration copies
    pc, hold, rescue, \* per process: its step, its store lock, its recovery
    owed,       \* committed rows nothing has destroyed
    ruined,     \* a store nothing could be read from was damaged, not replaced
    migrated,   \* the rows of the store when it was last migrated
    slip,       \* which of the windows named at Slip was hit
    made, damage, kills, opens

fs == <<file, wal, backups, marker, verdict>>
archive == <<snap, copies>>
history == <<owed, ruined, migrated, slip>>
counts == <<made, damage, kills, opens>>
recoveryVars == <<policy, file, wal, backups, marker, verdict, snap, copies, pc, hold, rescue,
          owed, ruined, migrated, slip, made, damage, kills, opens>>

Current == 2    \* SCHEMA_VERSION; 0 is an empty file, 1 an older store, 3 a newer one

NoFile == [id |-> 0, rows |-> {}, hurt |-> {}, head |-> TRUE, ver |-> 0]
NoWal == [of |-> 0, rows |-> {}]
NoJob == [of |-> 0, owns |-> FALSE, resumed |-> FALSE, got |-> {}, class |-> "fast", refuse |-> FALSE]

Exists == file # NoFile

Fresh == [NoFile EXCEPT !.id = made + 1]

(* Up to two backups with names of before the rotation count against KEEP   *)
(* and are never pruned.                                                    *)
Room == {IF n < KEEP THEN KEEP - n ELSE 0 : n \in 0..2}

RecoveryInit ==
    /\ policy \in [strict : BOOLEAN, knob : BOOLEAN, cold : {{}, Cold}, room : Room]
    /\ file \in {NoFile} \cup {[NoFile EXCEPT !.id = 1, !.rows = Old, !.ver = v] : v \in 1..3}
    /\ wal = NoWal /\ made = file.id
    /\ backups \in {<<>>, <<[store |-> [NoFile EXCEPT !.ver = 1], wal |-> {}]>>}
    /\ marker = 0 /\ verdict = [status |-> "none", bound |-> "none"]
    /\ snap = NoFile /\ copies = {}
    /\ pc = [p \in Proc |-> "idle"] /\ hold = [p \in Proc |-> "none"] /\ rescue = [p \in Proc |-> NoJob]
    /\ owed = file.rows /\ ruined = FALSE /\ migrated = {} /\ slip = {}
    /\ damage = 0 /\ kills = 0 /\ opens = 0

-----------------------------------------------------------------------------
(* Files *)

Broken(f) == ~f.head \/ f.hurt # {}

(* _attempt_primary_salvage: every row off a damaged page, none when the *)
(* schema cannot be read.                                                *)
Readable(f) == IF f.head THEN f.rows \ f.hurt ELSE {}

(* A connection at the path: SQLite deletes a -wal it finds beside an     *)
(* empty file, and recovers one left by another file over a file that has *)
(* pages.                                                                 *)
Foreign == wal.rows # {} /\ wal.of # file.id

AtPath == IF Foreign /\ file.ver > 0 THEN [file EXCEPT !.head = FALSE] ELSE file

BesidePath == IF Foreign \/ wal.rows = {} THEN NoWal ELSE wal

Rows == Readable(AtPath) \cup (IF file.head THEN BesidePath.rows ELSE {})

(* A checkpoint: the -wal's rows are written to the file. *)
Checkpointed == [AtPath EXCEPT !.rows = @ \cup BesidePath.rows, !.hurt = @ \ BesidePath.rows]

(* Any change of the file's content or entry moves its change time, which  *)
(* a recorded verdict is bound to.                                         *)
Unbound == [verdict EXCEPT !.bound = IF @ = "here" THEN "gone" ELSE @]

Written(f, w) == file' = f /\ wal' = w /\ verdict' = (IF f # file THEN Unbound ELSE verdict)

Record(status) == verdict' = [status |-> status, bound |-> IF Exists THEN "here" ELSE "none"]

-----------------------------------------------------------------------------
(* The store lock, and steps *)

Alone(p) == \A q \in Proc \ {p} : hold[q] = "none"

Shareable(p) == \A q \in Proc \ {p} : hold[q] \in {"none", "open"}

Step(p, next, h) == pc' = [pc EXCEPT ![p] = next] /\ hold' = [hold EXCEPT ![p] = h]

Goto(p, next) == Step(p, next, hold[p])

(* The process is done with the store: it raised, or has nothing open. *)
Leave(p) == Step(p, "idle", "none") /\ rescue' = [rescue EXCEPT ![p] = NoJob]

Start(p) == pc[p] = "idle" /\ opens < MAX_OPENS + kills /\ opens' = opens + 1

-----------------------------------------------------------------------------
(* An open: SQLiteBackend.__init__ *)

(* The file is created when it is missing, empty and under no lock. *)
Prepare(p) ==
    /\ Start(p)
    /\ IF Exists THEN UNCHANGED <<file, made>>
       ELSE made < MAX_FILES /\ file' = Fresh /\ made' = made + 1
    /\ Goto(p, "resume")
    /\ UNCHANGED <<policy, wal, backups, marker, verdict, archive, rescue, history, damage, kills>>

(* find_rotated_backup *)
Rotated(id) == {i \in DOMAIN backups : backups[i].store.id = id /\ id # 0}

NoResume(p) ==
    /\ pc[p] = "resume" /\ marker = 0
    /\ Goto(p, "peek")
    /\ UNCHANGED <<policy, fs, archive, rescue, history, counts>>

(* A marker stands: under the recover operation it is read again, and a   *)
(* recovery that rotated the store is taken up where its backup is.       *)
Resume(p) ==
    /\ pc[p] = "resume" /\ marker # 0 /\ Alone(p)
    /\ IF marker # file.id /\ Rotated(marker) # {}
       THEN /\ Step(p, "salvage", "recover")
            /\ rescue' = [rescue EXCEPT ![p] = [NoJob EXCEPT !.of = marker, !.owns = ~Exists, !.resumed = TRUE]]
            /\ UNCHANGED marker
       ELSE /\ marker' = 0
            /\ Step(p, "peek", "none") /\ UNCHANGED rescue
    /\ UNCHANGED <<policy, file, wal, backups, verdict, archive, history, counts>>

ResumeBusy(p) ==
    /\ pc[p] = "resume" /\ marker # 0 /\ ~Alone(p)
    /\ Leave(p)
    /\ UNCHANGED <<policy, fs, archive, history, counts>>

(* _migration_due: a file that cannot be read is left to the checked open. *)
Due == file.ver = 0 \/ (AtPath.head /\ file.ver < Current)

MigrationHold(p) ==
    /\ pc[p] = "peek"
    /\ IF Due THEN Alone(p) /\ Step(p, "preflight", "migrate") ELSE Goto(p, "preflight")
    /\ UNCHANGED <<policy, fs, archive, rescue, history, counts>>

MigrationBusy(p) ==
    /\ pc[p] = "peek" /\ Due /\ ~Alone(p)
    /\ Leave(p)
    /\ UNCHANGED <<policy, fs, archive, history, counts>>

(* _read_persisted_recovery_status *)
Standing == IF verdict.bound = "gone" THEN "none" ELSE verdict.status

Pending == {"running", "degraded"}

(* The windows the code leaves open.  torn: killed between the move of the *)
(* store and of its -wal.  unrecorded: a strict refusal has removed the    *)
(* store and its marker, and its verdict is not written, or is written     *)
(* over.  stale: killed with the -wal of a store that could not be         *)
(* checkpointed beside the restored one.  late: an open that looked for    *)
(* the marker before there was one opens a store whose recovery was        *)
(* killed.  remarked: it recovers that store, and its marker replaces the  *)
(* one that stands.  another: it recovers a store that is not the one it   *)
(* found damaged.  pruned: the backup just made is pruned before it is     *)
(* salvaged.  dropped: the insert of a salvaged row failed.                *)
Slip(window) == slip' = slip \cup window

Concluding(q) == pc[q] = "refused" /\ marker = 0

Late(window) == IF marker \notin {0, file.id} THEN {window} ELSE {}

Preflight(p) ==
    /\ pc[p] = "preflight"
    /\ IF Standing = "hard_fail" /\ policy.strict
       THEN Leave(p)
       ELSE /\ Goto(p, "check")
            /\ \E oversize \in {FALSE, file.ver > 0} :
                  rescue' = [rescue EXCEPT ![p].class = IF oversize \/ Standing \in Pending THEN "degraded" ELSE "fast"]
    /\ Slip(IF \E q \in Proc : Concluding(q) THEN {"unrecorded"} ELSE {})
    /\ UNCHANGED <<policy, fs, archive, owed, ruined, migrated, counts>>

(* A connection at the path, under the hold it takes: a missing file is made. *)
ConnectedFile == IF Exists THEN AtPath ELSE Fresh

Opening(p) ==
    /\ Shareable(p) /\ (Exists \/ made < MAX_FILES)
    /\ made' = (IF Exists THEN made ELSE made + 1)

Held(p) == IF hold[p] = "none" THEN "open" ELSE hold[p]

OpenBusy(p) ==
    /\ pc[p] = "check" /\ ~Shareable(p)
    /\ Leave(p)
    /\ UNCHANGED <<policy, fs, archive, history, counts>>

(* open_and_configure: the integrity check passed. *)
OpenChecked(p) ==
    /\ pc[p] = "check" /\ Opening(p)
    /\ ~Broken(ConnectedFile)
    /\ Written(ConnectedFile, BesidePath)
    /\ Step(p, "schema", Held(p)) /\ Slip(Late("late"))
    /\ UNCHANGED <<policy, backups, marker, archive, rescue, owed, ruined, migrated, damage, kills, opens>>

(* classify_open_error says io or lock after the retries: the store is     *)
(* opened unchecked, if its version can be read.                           *)
OpenUnchecked(p) ==
    /\ pc[p] = "check" /\ Opening(p) /\ file.ver > 0
    /\ file' = AtPath /\ wal' = BesidePath
    /\ Record("degraded")
    /\ IF AtPath.head THEN Step(p, "schema", Held(p)) /\ UNCHANGED rescue ELSE Leave(p)
    /\ Slip(Late("late"))
    /\ UNCHANGED <<policy, backups, marker, archive, owed, ruined, migrated, damage, kills, opens>>

(* It says other: the error is raised and the file stays. *)
OpenFailed(p) ==
    /\ pc[p] = "check" /\ Opening(p)
    /\ Written(ConnectedFile, BesidePath) /\ Leave(p)
    /\ UNCHANGED <<policy, backups, marker, archive, history, damage, kills, opens>>

(* It says corrupt, and the open may recover the store within its startup. *)
FoundCorrupt(p) ==
    /\ pc[p] = "check" /\ Opening(p) /\ Broken(ConnectedFile)
    /\ file' = ConnectedFile /\ wal' = BesidePath
    /\ IF rescue[p].class = "degraded"
       THEN Record("degraded") /\ Leave(p)
       ELSE UNCHANGED verdict /\ Goto(p, "corrupt") /\ rescue' = [rescue EXCEPT ![p].of = ConnectedFile.id]
    /\ UNCHANGED <<policy, backups, marker, archive, history, damage, kills, opens>>

(* The verdict says running, and the migrate hold is let go. *)
RecordRunning(p) ==
    /\ pc[p] = "corrupt"
    /\ Record("running")
    /\ Slip(IF verdict.status = "hard_fail" \/ ~Exists THEN {"unrecorded"} ELSE {})
    /\ Step(p, "recover", "none")
    /\ UNCHANGED <<policy, file, wal, backups, marker, archive, rescue, owed, ruined, migrated, counts>>

-----------------------------------------------------------------------------
(* recover_db *)

RecoverBusy(p) ==
    /\ pc[p] = "recover" /\ ~Alone(p)
    /\ Leave(p)
    /\ UNCHANGED <<policy, fs, archive, history, counts>>

(* The marker is written before anything moves.  A store another open has *)
(* removed since has no identity, and its move fails.                     *)
WriteMarker(p) ==
    /\ pc[p] = "recover" /\ Alone(p)
    /\ IF Exists THEN marker' = file.id /\ Step(p, "rotate", "recover") /\ UNCHANGED rescue
       ELSE UNCHANGED marker /\ Leave(p)
    /\ Slip(IF Exists THEN Late("remarked") \cup (IF file.id # rescue[p].of THEN {"another"} ELSE {}) ELSE {})
    /\ UNCHANGED <<policy, file, wal, backups, verdict, archive, owed, ruined, migrated, counts>>

(* rotate_corrupt_backup: the store moves first, its -wal next. *)
MoveStore(p) ==
    /\ pc[p] = "rotate" /\ Exists
    /\ backups' = Append(backups, [store |-> file, wal |-> {}])
    /\ Written(NoFile, wal)
    /\ Goto(p, "sidecars")
    /\ rescue' = [rescue EXCEPT ![p] = [NoJob EXCEPT !.of = file.id, !.owns = TRUE]]
    /\ UNCHANGED <<policy, marker, archive, history, counts>>

MoveSidecars(p) ==
    /\ pc[p] = "sidecars"
    /\ backups' = [backups EXCEPT ![Len(backups)].wal = wal.rows]
    /\ wal' = NoWal
    /\ Goto(p, "prune")
    /\ UNCHANGED <<policy, file, marker, verdict, archive, rescue, history, counts>>

(* Mutant: the oldest stay. *)
KeptOldest(all) == SubSeq(all, 1, Min({policy.room, Len(all)}))

(* The newest stay, as many as there is room for. *)
Kept(all) == SubSeq(all, Max({1, Len(all) - policy.room + 1}), Len(all))

(* prune_corrupt_backups, by the time in the names to the second.  A backup *)
(* made in the second of another, or by a clock moved back, may sort before *)
(* the others and go instead of them.                                       *)
Prune(p) ==
    /\ pc[p] = "prune"
    /\ \/ backups' = Kept(backups) /\ Slip(IF policy.room = 0 THEN {"pruned"} ELSE {}) /\ UNCHANGED kills
       \/ /\ policy.room \in 1..(Len(backups) - 1) /\ kills < MAX_KILLS /\ kills' = kills + 1
          /\ backups' = Kept(SubSeq(backups, 1, Len(backups) - 1)) /\ Slip({"pruned"})
    /\ Goto(p, "salvage")
    /\ UNCHANGED <<policy, file, wal, marker, verdict, archive, rescue, owed, ruined, migrated, made, damage, opens>>

-----------------------------------------------------------------------------
(* _salvage_into *)

(* A backup that is gone reads as an empty one. *)
Backup(p) ==
    IF Rotated(rescue[p].of) = {} THEN [store |-> NoFile, wal |-> {}]
    ELSE backups[CHOOSE i \in Rotated(rescue[p].of) : TRUE]

(* What a salvage reads of a backup: with the schema readable, its rows off *)
(* the damaged pages and those of its -wal; else what `sqlite3 .recover`    *)
(* finds, which may be nothing.                                             *)
Scanned(b) == Readable(b.store) \cup (IF b.store.head THEN b.wal ELSE {})

Salvages(b) ==
    IF Scanned(b) # {} THEN {Scanned(b)} ELSE {{}, b.store.rows \ b.store.hurt}

Salvage(p) ==
    /\ pc[p] = "salvage"
    /\ \E got \in Salvages(Backup(p)) :
          rescue' = [rescue EXCEPT ![p].got = got,
                             ![p].refuse = got = {} /\ Backup(p).store.ver > 0 /\ policy.strict]
    /\ Goto(p, "decide")
    /\ UNCHANGED <<policy, fs, archive, history, counts>>

(* ensure_schema on a connection that is alone on the store: a store with *)
(* rows is copied, then migrated and stamped in one transaction.          *)
Ensured(f) ==
    /\ Written([f EXCEPT !.ver = Current], BesidePath)
    /\ IF f.ver < Current /\ Rows # {}
       THEN copies' = copies \cup {Rows} /\ migrated' = Rows
       ELSE UNCHANGED <<copies, migrated>>

CanEnsure(f) == f.head /\ f.ver <= Current

(* _open_recovered_conn, unless there is nothing left to open a store for. *)
OpenRecovered(p) ==
    /\ pc[p] = "decide" /\ (rescue[p].refuse => policy.knob \/ ~rescue[p].owns)
    /\ Exists \/ made < MAX_FILES
    /\ made' = (IF Exists THEN made ELSE made + 1)
    /\ IF CanEnsure(ConnectedFile)
       THEN Ensured(ConnectedFile) /\ UNCHANGED rescue
            /\ Goto(p, IF rescue[p].refuse THEN "rebuild" ELSE "restore")
       ELSE Written(ConnectedFile, BesidePath) /\ Leave(p) /\ UNCHANGED <<copies, migrated>>
    /\ UNCHANGED <<policy, backups, marker, snap, owed, ruined, slip, damage, kills, opens>>

NothingLeft(p) ==
    /\ pc[p] = "decide" /\ rescue[p].refuse /\ ~policy.knob /\ rescue[p].owns
    /\ Goto(p, "refuse")
    /\ UNCHANGED <<policy, fs, archive, rescue, history, counts>>

(* INSERT OR IGNORE, in one transaction *)
Committed(rows) == Written(file, [of |-> file.id, rows |-> wal.rows \cup (rows \ file.rows)])

(* rebuild_from_cold counts the rows it inserted, none when it failed.  A  *)
(* store already at the path that has rows is a recovered one.             *)
Rebuild(p) ==
    /\ pc[p] = "rebuild"
    /\ \E found \in {{}, IF policy.knob THEN policy.cold \ Rows ELSE {}} :
          /\ Committed(found)
          /\ IF found # {} \/ (~rescue[p].owns /\ Rows # {}) THEN Goto(p, "restored")
             ELSE IF rescue[p].owns THEN Goto(p, "refuse")
             ELSE Step(p, "refused", "none")
    /\ UNCHANGED <<policy, backups, marker, archive, rescue, history, counts>>

(* _restore_rows: a row whose insert fails is passed over. *)
RestoreRows(p) ==
    /\ pc[p] = "restore"
    /\ \E done \in SUBSET rescue[p].got :
          /\ Committed(done) /\ Slip(IF done = rescue[p].got THEN {} ELSE {"dropped"})
          /\ IF done = rescue[p].got THEN UNCHANGED kills ELSE kills < MAX_KILLS /\ kills' = kills + 1
    /\ Goto(p, "restored")
    /\ UNCHANGED <<policy, backups, marker, archive, rescue, owed, ruined, migrated, made, damage, opens>>

ClearMarker(p) ==
    /\ pc[p] = "restored"
    /\ marker' = 0
    /\ Step(p, "recovered", "open")
    /\ UNCHANGED <<policy, file, wal, backups, verdict, archive, rescue, history, counts>>

RecordRecovered(p) ==
    /\ pc[p] = "recovered"
    /\ Record("recovered")
    /\ Goto(p, "open") /\ rescue' = [rescue EXCEPT ![p] = NoJob]
    /\ UNCHANGED <<policy, file, wal, backups, marker, archive, history, counts>>

(* _cleanup_strict_refuse: the store this call made is removed. *)
RemoveStore(p) ==
    /\ pc[p] = "refuse"
    /\ Written(NoFile, NoWal)
    /\ Goto(p, "conclude")
    /\ UNCHANGED <<policy, backups, marker, archive, rescue, history, counts>>

Conclude(p) ==
    /\ pc[p] = "conclude"
    /\ marker' = 0
    /\ Step(p, "refused", "none")
    /\ UNCHANGED <<policy, file, wal, backups, verdict, archive, rescue, history, counts>>

RecordRefused(p) ==
    /\ pc[p] = "refused"
    /\ Record("hard_fail") /\ Leave(p)
    /\ UNCHANGED <<policy, file, wal, backups, marker, archive, history, counts>>

-----------------------------------------------------------------------------
(* ensure_schema, once the store is open *)

SchemaCurrent(p) ==
    /\ pc[p] = "schema" /\ file.ver = Current
    /\ Step(p, "open", "open") /\ rescue' = [rescue EXCEPT ![p] = NoJob]
    /\ UNCHANGED <<policy, fs, archive, history, counts>>

(* _guard_downgrade, and an old store under no migrate hold. *)
SchemaRefused(p) ==
    /\ pc[p] = "schema" /\ (file.ver > Current \/ (file.ver < Current /\ hold[p] # "migrate"))
    /\ Leave(p)
    /\ UNCHANGED <<policy, fs, archive, history, counts>>

(* snapshot_before_migration, which may fail. *)
CopyBeforeMigration(p) ==
    /\ pc[p] = "schema" /\ file.ver < Current /\ hold[p] = "migrate"
    /\ \/ /\ copies' = (IF Rows = {} THEN copies ELSE copies \cup {Rows})
          /\ Goto(p, "migrate") /\ UNCHANGED rescue
       \/ Rows # {} /\ Leave(p) /\ UNCHANGED copies
    /\ UNCHANGED <<policy, fs, snap, history, counts>>

(* The deltas and the version, in one transaction; or rolled back. *)
Migrate(p) ==
    /\ pc[p] = "migrate"
    /\ \/ /\ Written([file EXCEPT !.ver = Current], wal)
          /\ migrated' = Rows
          /\ Step(p, "open", "open") /\ rescue' = [rescue EXCEPT ![p] = NoJob]
       \/ Leave(p) /\ UNCHANGED <<file, wal, verdict, migrated>>
    /\ UNCHANGED <<policy, backups, marker, archive, owed, ruined, slip, counts>>

-----------------------------------------------------------------------------
(* An open store *)

Write(p, r) ==
    /\ pc[p] = "open" /\ ~Broken(file) /\ r \notin Rows \cup policy.cold
    /\ Committed({r})
    /\ owed' = owed \cup {r}
    /\ UNCHANGED <<policy, backups, marker, archive, pc, hold, rescue, ruined, migrated, slip, counts>>

(* The last connection out checkpoints the -wal and deletes it. *)
Close(p) ==
    /\ pc[p] = "open"
    /\ IF Alone(p) /\ file.head THEN Written(Checkpointed, NoWal) ELSE UNCHANGED <<file, wal, verdict>>
    /\ Leave(p)
    /\ UNCHANGED <<policy, backups, marker, archive, history, counts>>

Checkpoint(p) ==
    /\ pc[p] = "open" /\ wal.rows # {} /\ file.head
    /\ Written(Checkpointed, NoWal)
    /\ UNCHANGED <<policy, backups, marker, archive, pc, hold, rescue, history, counts>>

-----------------------------------------------------------------------------
(* The operator: snapshots and restores *)

(* create_snapshot: VACUUM INTO a file beside it, renamed over the last one. *)
CreateSnapshot(p) ==
    /\ Start(p) /\ Shareable(p) /\ file.ver > 0
    /\ Written(AtPath, BesidePath)
    /\ IF Broken(AtPath) THEN UNCHANGED snap
       ELSE snap' = [NoFile EXCEPT !.id = file.id, !.rows = Rows, !.ver = file.ver]
    /\ UNCHANGED <<policy, backups, marker, copies, pc, hold, rescue, history, made, damage, kills>>

(* restore_from_snapshot: staged beside the store, under the restore op. *)
StageRestore(p) ==
    /\ Start(p) /\ Alone(p) /\ snap # NoFile
    /\ Step(p, "staged", "restore")
    /\ UNCHANGED <<policy, fs, archive, rescue, history, made, damage, kills>>

(* _checkpoint: a store too damaged to checkpoint keeps its -wal. *)
CheckpointOld(p) ==
    /\ pc[p] = "staged"
    /\ \/ Exists /\ AtPath.head /\ Written(Checkpointed, NoWal)
       \/ Exists /\ Broken(AtPath) /\ Written(AtPath, BesidePath)
       \/ ~Exists /\ UNCHANGED <<file, wal, verdict>>
    /\ Goto(p, "folded")
    /\ UNCHANGED <<policy, backups, marker, archive, rescue, history, counts>>

(* The rename.  What the operator restores is what the store owes now. *)
Replace(p) ==
    /\ pc[p] = "folded" /\ made < MAX_FILES
    /\ made' = made + 1
    /\ Written([snap EXCEPT !.id = made + 1], wal)
    /\ owed' = snap.rows /\ ruined' = FALSE /\ migrated' = {}
    /\ Goto(p, "replaced")
    /\ UNCHANGED <<policy, backups, marker, archive, rescue, slip, damage, kills, opens>>

ClearSidecars(p) ==
    /\ pc[p] = "replaced"
    /\ wal' = NoWal /\ Leave(p)
    /\ UNCHANGED <<policy, file, backups, marker, verdict, archive, history, counts>>

(* handle_restore without a snapshot: the cold tier's rows, into whatever   *)
(* store is at the path.                                                    *)
RestoreCold(p) ==
    /\ Start(p) /\ Alone(p) /\ policy.cold # {}
    /\ Exists \/ made < MAX_FILES
    /\ made' = (IF Exists THEN made ELSE made + 1)
    /\ IF CanEnsure(ConnectedFile)
       THEN /\ LET full == [Checkpointed EXCEPT !.ver = Current, !.id = ConnectedFile.id] IN
               Written([full EXCEPT !.rows = @ \cup policy.cold], NoWal)
            /\ IF ConnectedFile.ver < Current /\ Rows # {}
               THEN copies' = copies \cup {Rows} /\ migrated' = Rows
               ELSE UNCHANGED <<copies, migrated>>
            /\ ruined' = FALSE
       ELSE Written(ConnectedFile, BesidePath) /\ UNCHANGED <<copies, migrated, ruined>>
    /\ UNCHANGED <<policy, backups, marker, snap, pc, hold, rescue, owed, slip, damage, kills>>

-----------------------------------------------------------------------------
(* The environment *)

(* Pages of some rows, or those the schema is read from, become unreadable. *)
Damage ==
    /\ damage < MAX_DAMAGE /\ damage' = damage + 1
    /\ file.ver > 0
    /\ \/ \E r \in file.rows : file' = [file EXCEPT !.hurt = @ \cup {r}] /\ owed' = owed \ {r} /\ UNCHANGED ruined
       \/ file.head /\ file' = [file EXCEPT !.head = FALSE] /\ owed' = {} /\ ruined' = TRUE
    /\ UNCHANGED <<policy, wal, backups, marker, verdict, archive, pc, hold, rescue, migrated, slip, made, kills, opens>>

Kill(p) ==
    /\ pc[p] # "idle" /\ kills < MAX_KILLS /\ kills' = kills + 1
    /\ Leave(p)
    /\ Slip((IF pc[p] = "sidecars" /\ wal.rows # {} THEN {"torn"} ELSE {})
            \cup (IF Concluding(p) THEN {"unrecorded"} ELSE {})
            \cup (IF pc[p] = "replaced" /\ wal.rows # {} THEN {"stale"} ELSE {}))
    /\ UNCHANGED <<policy, fs, archive, owed, ruined, migrated, made, damage, opens>>

Open(p) ==
    \/ Prepare(p) \/ NoResume(p) \/ Resume(p) \/ ResumeBusy(p) \/ MigrationHold(p) \/ MigrationBusy(p)
    \/ Preflight(p) \/ OpenBusy(p) \/ OpenChecked(p) \/ OpenUnchecked(p) \/ OpenFailed(p) \/ FoundCorrupt(p)
    \/ RecordRunning(p)

Recover(p) ==
    \/ RecoverBusy(p) \/ WriteMarker(p) \/ MoveStore(p) \/ MoveSidecars(p) \/ Prune(p)
    \/ Salvage(p) \/ OpenRecovered(p) \/ NothingLeft(p) \/ Rebuild(p) \/ RestoreRows(p)
    \/ ClearMarker(p) \/ RecordRecovered(p) \/ RemoveStore(p) \/ Conclude(p) \/ RecordRefused(p)

Schema(p) == SchemaCurrent(p) \/ SchemaRefused(p) \/ CopyBeforeMigration(p) \/ Migrate(p)

Operate(p) == CreateSnapshot(p) \/ StageRestore(p) \/ CheckpointOld(p) \/ Replace(p) \/ ClearSidecars(p) \/ RestoreCold(p)

Use(p) == Close(p) \/ Checkpoint(p) \/ \E r \in Row : Write(p, r)

RecoveryNext == Damage \/ \E p \in Proc : Open(p) \/ Recover(p) \/ Schema(p) \/ Operate(p) \/ Use(p) \/ Kill(p)

RecoverySpec == RecoveryInit /\ [][RecoveryNext]_recoveryVars

-----------------------------------------------------------------------------
(* Properties *)

(* Committed rows that nothing destroyed are in the store at the path, or   *)
(* in a rotated backup that the marker names, or under the exclusive hold   *)
(* of a process between two moves; so no open, rotation, pruning, salvage,  *)
(* refusal, migration or restore loses them, whoever acts or dies between   *)
(* its steps, except in the windows torn, stale, remarked, pruned, dropped. *)
InHand == {i \in DOMAIN backups : backups[i].store.id = marker}

Kin(i) == Readable(backups[i].store) \cup backups[i].wal

Moving ==
    (IF \E p \in Proc : pc[p] = "sidecars" THEN wal.rows ELSE {})
    \cup (IF \E p \in Proc : pc[p] = "replaced" THEN file.rows ELSE {})

Clear == slip \cap {"torn", "stale", "remarked", "pruned", "dropped"} = {}

RowsReachable ==
    Clear =>
       owed \subseteq Rows \cup Moving \cup UNION {Kin(i) : i \in InHand}

(* A store that opened has every owed row. *)
OpenHasRows ==
    \A p \in Proc : pc[p] = "open" /\ slip \subseteq {"unrecorded", "another"} => owed \subseteq Rows

(* Under the strict policy a store of which nothing was left is not opened  *)
(* empty: it opens with rows the salvage or the cold tier gave, readable or *)
(* damaged since, or not at all until the operator has restored it.  The    *)
(* window is unrecorded.                                                    *)
Emptied == file.head /\ file.rows \cup wal.rows = {}

StrictNotEmptied == \A p \in Proc : policy.strict /\ pc[p] = "open" /\ ruined /\ slip = {} => ~Emptied

(* A store that was migrated has a copy of the rows it had before. *)
MigratedHasCopy == migrated # {} => \E c \in copies : migrated \subseteq c

(* A store that opens has what was committed, a migrated one its copy, and  *)
(* what has to be restored is still to be found.                            *)
StoreRecovers == RowsReachable /\ OpenHasRows /\ StrictNotEmptied /\ MigratedHasCopy

-----------------------------------------------------------------------------
(* Why: the inductive invariant behind StoreRecovers.                       *)

Quiet == {"idle", "resume", "peek", "recover", "refused"}
Checking == {"preflight", "check", "corrupt"}
Rescuing == {"salvage", "decide", "rebuild", "restore", "restored", "refuse", "conclude"}
Recovering == {"rotate", "sidecars", "prune"} \cup Rescuing
Opened == {"schema", "migrate", "open", "recovered"}
Restoring == {"staged", "folded", "replaced"}
Steps == Quiet \cup Checking \cup Recovering \cup Opened \cup Restoring

Exclusive == {"migrate", "recover", "restore"}

StoreFile == [id : Nat, rows : SUBSET Row, hurt : SUBSET Row, head : BOOLEAN, ver : 0..3]

Rescue == [of : Nat, owns : BOOLEAN, resumed : BOOLEAN, got : SUBSET Row, class : {"fast", "degraded"},
           refuse : BOOLEAN]

Verdict == [status : {"none", "running", "degraded", "recovered", "hard_fail"}, bound : {"none", "here", "gone"}]

Windows == {"torn", "unrecorded", "stale", "late", "remarked", "another", "pruned", "dropped"}

RecoveryTypeOK ==
    /\ policy \in [strict : BOOLEAN, knob : BOOLEAN, cold : SUBSET Row, room : Nat]
    /\ file \in StoreFile /\ wal \in [of : Nat, rows : SUBSET Row]
    /\ backups \in Seq([store : StoreFile, wal : SUBSET Row]) /\ marker \in Nat
    /\ verdict \in Verdict
    /\ snap \in StoreFile /\ copies \subseteq SUBSET Row
    /\ pc \in [Proc -> Steps]
    /\ hold \in [Proc -> {"none", "open"} \cup Exclusive] /\ rescue \in [Proc -> Rescue]
    /\ owed \subseteq Row /\ ruined \in BOOLEAN /\ migrated \subseteq Row
    /\ slip \subseteq Windows /\ made \in Nat

(* Who has which hold, and that an exclusive one is alone.                  *)
HoldFits(step, h) ==
    /\ step \in Quiet => h = "none"
    /\ step \in Checking => h \in {"none", "migrate"}
    /\ step \in Recovering => h = "recover"
    /\ step = "schema" => h \in {"open", "migrate"}
    /\ step = "migrate" => h = "migrate"
    /\ step \in {"open", "recovered"} => h = "open"
    /\ step \in Restoring => h = "restore"

HoldsFit == \A p \in Proc : HoldFits(pc[p], hold[p])

ExclusiveIsAlone ==
    \A p, q \in Proc : p # q /\ hold[p] \in Exclusive => hold[q] = "none"

(* No file has the number of another, and an empty one has nothing in it.   *)
FilesDiffer ==
    /\ file.id <= made /\ (file.id = 0 => file = NoFile)
    /\ file.ver = 0 => file.rows = {} /\ file.hurt = {} /\ file.head
    /\ wal.rows # {} => wal.of > 0 /\ wal.of <= made /\ (wal.of = file.id => file.ver > 0)
    /\ snap.hurt = {} /\ snap.head /\ (snap # NoFile => snap.ver > 0)
    /\ \A i \in DOMAIN backups :
          /\ backups[i].store.id <= made
          /\ backups[i].store.id = 0 => backups[i].store.rows = {} /\ backups[i].wal = {}
          /\ backups[i].store.id # 0 =>
                /\ backups[i].store.id # file.id
                /\ \A j \in DOMAIN backups : backups[i].store.id = backups[j].store.id => i = j
    /\ verdict.bound = "here" => Exists

(* Where a recovery is, the marker names what it rotated.                   *)
LastRotated == backups[Len(backups)]

MarkerStands == marker # 0 /\ Rotated(marker) # {}

StepFits(p) ==
    /\ rescue[p].of <= made
    /\ pc[p] \in {"corrupt", "recover"} => rescue[p].of # 0 /\ (rescue[p].of = file.id => file.ver > 0)
    /\ pc[p] \in Opened => Exists /\ ("late" \notin slip => marker \in {0, file.id})
    /\ pc[p] \in {"open", "recovered", "rebuild", "restore", "restored"} => Exists /\ file.ver = Current
    /\ pc[p] = "migrate" => Rows = {} \/ \E c \in copies : Rows \subseteq c
    /\ pc[p] = "rotate" => Exists /\ marker = file.id
    /\ pc[p] \in {"sidecars", "prune"} =>
          /\ backups # <<>> /\ LastRotated.store.id = marker /\ marker # 0 /\ rescue[p].of = marker
          /\ file.ver = 0 /\ rescue[p].owns
          /\ IF pc[p] = "prune" THEN wal.rows = {} ELSE LastRotated.wal = {}
    /\ pc[p] \in Rescuing =>
          /\ marker \notin {0, file.id} /\ rescue[p].of = marker
          /\ "pruned" \notin slip => MarkerStands
    /\ pc[p] \in {"salvage", "decide"} => (rescue[p].owns => file.ver = 0)
    /\ pc[p] \in {"rebuild", "refuse"} => rescue[p].refuse /\ (rescue[p].owns => file.rows = {})
    /\ pc[p] = "refuse" => rescue[p].owns
    /\ pc[p] = "restore" => ~rescue[p].refuse
    /\ pc[p] \in Rescuing \ {"salvage"} => (rescue[p].refuse => rescue[p].got = {})
    /\ pc[p] = "conclude" => file.ver = 0 /\ wal.rows = {}
    /\ pc[p] \in {"staged", "folded"} => snap # NoFile
    /\ pc[p] = "replaced" => file.ver > 0 /\ (ruined => ~file.head)

(* Outside the windows, a -wal is that of the file beside it, and owed rows *)
(* are in the two or in the backup the marker names; what a recovery read   *)
(* of that is all it has of them.                                           *)
Salvageable == UNION {Scanned(backups[i]) : i \in InHand}

RowsKept ==
    /\ wal.rows # {} /\ (\A p \in Proc : pc[p] \notin {"sidecars", "replaced"}) => wal.of = file.id
    /\ owed \cap file.hurt = {} /\ (~file.head => owed = {})
    /\ owed \subseteq file.rows \cup wal.rows \cup Salvageable

StepKeeps(p) ==
    /\ pc[p] = "sidecars" => (~LastRotated.store.head => owed = {})
    /\ pc[p] \in {"salvage", "decide", "rebuild", "refuse"} /\ rescue[p].owns => wal.rows = {}
    /\ pc[p] \in {"decide", "rebuild", "restore", "refuse"} => Salvageable \subseteq rescue[p].got
    /\ pc[p] \in {"restored", "conclude"} => owed \subseteq file.rows \cup wal.rows
    /\ pc[p] = "replaced" => owed \subseteq file.rows

(* Outside every window, a ruined store under the strict policy is there,   *)
(* holds something again, awaits its recovery, or was refused.              *)
Refused ==
    /\ file.ver = 0 /\ marker = 0
    /\ (\E p \in Proc : Concluding(p)) \/ (verdict.status = "hard_fail" /\ verdict.bound # "gone")
    /\ \A p \in Proc : hold[p] = "migrate" => pc[p] = "preflight"

RuinedIsKnown ==
    /\ \A i \in DOMAIN backups : backups[i].store.ver > 0
    /\ policy.strict /\ ruined => ~Emptied \/ (MarkerStands /\ marker # file.id) \/ Refused

StepKnows(p) ==
    /\ pc[p] = "rotate" => file.ver > 0
    /\ pc[p] \in {"decide", "restore"} /\ policy.strict /\ ~rescue[p].refuse => rescue[p].got # {}
    /\ pc[p] = "restored" /\ policy.strict /\ ruined => ~Emptied

Fits(p) == StepFits(p) /\ (Clear => StepKeeps(p)) /\ (slip = {} => StepKnows(p))

RecoveryIInv ==
    /\ RecoveryTypeOK /\ HoldsFit /\ ExclusiveIsAlone /\ FilesDiffer /\ MigratedHasCopy
    /\ Clear => RowsKept
    /\ slip = {} => RuinedIsKnown
    /\ \A p \in Proc : Fits(p)
============================================================================
