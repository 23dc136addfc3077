----------------------------- MODULE AuditTrail -----------------------------
(***************************************************************************)
(* The intake of a write and its trail: the rate-limit window of a writer  *)
(* session (security/runtime.py), the stages of prepare_entry_for_store,   *)
(* the commit of the three store paths (tools/store.py, _client_store.py,  *)
(* _client_bulk_store.py) and the hash-chained audit log with its cached   *)
(* head, compaction and manifest (security/audit.py), under several        *)
(* processes, a clock, failed appends and kills.                           *)
(*                                                                         *)
(* The hash of a record is a function of the one before it and of its own  *)
(* payload, and has no collisions: it is the sequence of the records under *)
(* it.  All calls are of one session and write the row of one id; a batch  *)
(* has rows of its own.                                                    *)
(***************************************************************************)
EXTENDS Integers, Sequences, SequencesExt, FiniteSets, FiniteSetsExt

CONSTANTS
    Call,           \* store calls
    Path,           \* Call -> "tool", "sdk", "bulk"
    Flaws,          \* Call -> what its input may have: "none", "inputs", "payload", "pii"
    ProcessOf,      \* Call -> process
    WRITES_PER_MINUTE,
    MINUTE,         \* ticks of the window
    RETENTION,      \* ticks a record is kept by a compaction
    BATCH,          \* rows of a bulk_store
    MAX_NOW,
    MAX_FAULTS      \* kills and failed writes

AuditProcess == {ProcessOf[c] : c \in Call}

VARIABLES
    now,
    log,            \* the file: its whole records, whether a torn line follows, and a
                    \* number every new file has of its own (its inode and times)
    manifest,       \* chain heads pinned before a compaction
    logLock,        \* the process that has the log's lock, or "free"
    headCache,      \* AuditProcess -> <<identity, head>> or NoHead
    maintained,     \* processes that compacted the log
    compacting,     \* AuditProcess -> the step of its compaction
    stamps,         \* the session's charged times
    overtaken,      \* from the clock of a late charge to that of the last one before it
    revision,       \* of the row of the id
    call,           \* Call -> [at, flaw, read, clock, receipt, rows, reported]
    written,        \* every record ever appended whole
    faults

auditVars == <<now, log, manifest, logLock, headCache, maintained, compacting, stamps, overtaken,
               revision, call, written, faults>>

window == <<stamps, overtaken>>

NoHead == <<>>

Genesis == <<>>

None == -1

NewCall == [at |-> "start", flaw |-> "none", read |-> None, clock |-> None, receipt |-> None, rows |-> 0, reported |-> FALSE]

EmptyLog == [ino |-> 0, recs |-> <<>>, torn |-> FALSE]

-----------------------------------------------------------------------------
(* security/audit.py *)

Hash(prev, of) == Append(prev, of)

(* _file_identity.  No two files have the same: the rewrite of equal size   *)
(* within one tick of the file times, which audit.py names, is left out.    *)
FileIdentity == <<log.ino, Len(log.recs)>>

LastHash == IF log.recs = <<>> THEN Genesis ELSE Last(log.recs).hash

(* A torn line makes every read of the whole file raise. *)
Readable == ~log.torn

CacheHit(p) == headCache[p] # NoHead /\ headCache[p][1] = FileIdentity /\ Readable

ChainHead(p) == IF CacheHit(p) THEN headCache[p][2] ELSE LastHash

(* verify_chain *)
ChainValid(recs) ==
    \A i \in DOMAIN recs :
        /\ recs[i].prev = IF i = 1 THEN Genesis ELSE recs[i - 1].hash
        /\ recs[i].hash = Hash(recs[i].prev, recs[i].of)

Rechained(recs) ==
    LET payloads == [i \in DOMAIN recs |-> recs[i].of] IN
    [i \in DOMAIN recs |-> [of   |-> payloads[i],
                            prev |-> SubSeq(payloads, 1, i - 1),
                            hash |-> SubSeq(payloads, 1, i)]]

(* Mutant: the head it read is kept, not the one it wrote. *)
AppendedHeadBefore(p, of) ==
    LET prev == ChainHead(p) IN
    /\ log' = [log EXCEPT !.recs = Append(@, [of |-> of, prev |-> prev, hash |-> Hash(prev, of)])]
    /\ headCache' = [headCache EXCEPT ![p] = <<<<log.ino, Len(log.recs) + 1>>, prev>>]
    /\ written' = written \union {of}

(* append: the record under the log's lock. *)
Appended(p, of) ==
    LET prev == ChainHead(p)
        recs == Append(log.recs, [of |-> of, prev |-> prev, hash |-> Hash(prev, of)]) IN
    /\ log' = [log EXCEPT !.recs = recs]
    /\ headCache' = [headCache EXCEPT ![p] = <<<<log.ino, Len(recs)>>, Hash(prev, of)>>]
    /\ written' = written \union {of}

Cutoff == now - RETENTION

(* compact, before its lock: the oldest record is read without it. *)
NothingDue == log.recs # <<>> /\ log.recs[1].of.ts >= Cutoff

-----------------------------------------------------------------------------
(* ensure_security_maintenance: once in a process, at its first write or    *)
(* audit record.                                                            *)

Maintained(p) == p \in maintained

To(c, step) == call' = [call EXCEPT ![c].at = step]

CompactSkipped(p) ==
    /\ compacting[p] = "oldest" /\ NothingDue /\ Readable
    /\ compacting' = [compacting EXCEPT ![p] = "idle"] /\ maintained' = maintained \union {p}
    /\ UNCHANGED <<now, log, manifest, logLock, headCache, window, revision, call, written, faults>>

CompactDue(p) ==
    /\ compacting[p] = "oldest" /\ ~NothingDue
    /\ compacting' = [compacting EXCEPT ![p] = "lock"]
    /\ UNCHANGED <<now, log, manifest, logLock, headCache, maintained, window, revision, call, written, faults>>

(* _write_compact_manifest: the head first. *)
CompactPin(p) ==
    /\ compacting[p] = "lock" /\ logLock = "free" /\ Readable
    /\ manifest' = IF log.recs = <<>> THEN manifest ELSE Append(manifest, LastHash)
    /\ logLock' = p /\ compacting' = [compacting EXCEPT ![p] = "rewrite"]
    /\ UNCHANGED <<now, log, headCache, maintained, window, revision, call, written, faults>>

(* The retained records re-chained in a new file that replaces the log; an  *)
(* empty log is unlinked.                                                   *)
CompactRewrite(p) ==
    LET kept == SelectSeq(log.recs, LAMBDA r : r.of.ts >= Cutoff) IN
    /\ compacting[p] = "rewrite"
    /\ log' = [ino |-> log.ino + 1, recs |-> Rechained(kept), torn |-> FALSE]
    /\ logLock' = "free" /\ maintained' = maintained \union {p}
    /\ compacting' = [compacting EXCEPT ![p] = "idle"]
    /\ UNCHANGED <<now, manifest, headCache, window, revision, call, written, faults>>

(* A read of a torn line raises, and the call that maintains ends in error; *)
(* the next one tries again.                                                *)
CompactRaises(p) ==
    /\ ~Readable
    /\ \/ compacting[p] = "oldest" /\ NothingDue
       \/ compacting[p] = "lock" /\ logLock = "free"
    /\ compacting' = [compacting EXCEPT ![p] = "idle"]
    /\ call' = [c \in Call |-> IF ProcessOf[c] = p /\ call[c].at = "maintain"
                                 THEN [call[c] EXCEPT !.at = "failed"] ELSE call[c]]
    /\ UNCHANGED <<now, log, manifest, logLock, headCache, maintained, window, revision, written, faults>>

-----------------------------------------------------------------------------
(* security/runtime.py: the window *)

(* The stamps of the minute before a clock; those after it are dropped too. *)
Recent(clock) == SelectSeq(stamps, LAMBDA t : clock - t >= 0 /\ clock - t < MINUTE)

(* _charge_write_slot, under the lock of the state file *)
RateRefused(clock) == Len(Recent(clock)) >= WRITES_PER_MINUTE

LastCharged == Max({call[c].receipt : c \in Call})

Charged(clock) ==
    /\ stamps' = Append(Recent(clock), clock)
    /\ overtaken' = IF clock < LastCharged THEN overtaken \cup clock..LastCharged ELSE overtaken

(* refund_write_slot: the stamp the receipt names, if it is still there.    *)
RefundWriteSlot(receipt) ==
    stamps' = IF Contains(stamps, receipt) THEN RemoveFirst(stamps, receipt) ELSE stamps

-----------------------------------------------------------------------------
(* The store paths *)

Busy(c) == \E d \in Call \ {c} : ProcessOf[d] = ProcessOf[c] /\ call[d].at \notin {"start", "done", "failed"}

(* validate_store_inputs, validate_entry_payload, apply_runtime_pii_policy. *)
InputsRefused(flaw) == flaw = "inputs"

PayloadRefused(flaw) == flaw = "payload"

PiiBlocked(flaw) == flaw = "pii"

(* The row is read first; maintenance comes before anything is charged or   *)
(* audited.                                                                 *)
Begin(c) ==
    /\ call[c].at = "start" /\ ~Busy(c)
    /\ \E flaw \in Flaws[c] : call' = [call EXCEPT ![c].read = revision, ![c].flaw = flaw, ![c].at = "maintain"]
    /\ compacting' = [compacting EXCEPT ![ProcessOf[c]] = IF Maintained(ProcessOf[c]) THEN @ ELSE "oldest"]
    /\ UNCHANGED <<now, log, manifest, logLock, headCache, maintained, window, revision, written, faults>>

(* Inputs refused by validate_store_inputs are not charged: a tool and the  *)
(* SDK audit the refusal, a batch only counts it.                           *)
MaintainedNow(c) ==
    /\ call[c].at = "maintain" /\ Maintained(ProcessOf[c])
    /\ To(c, IF ~InputsRefused(call[c].flaw) THEN "clock" ELSE IF Path[c] = "bulk" THEN "close" ELSE "rejected")
    /\ UNCHANGED <<now, log, manifest, logLock, headCache, maintained, compacting, window, revision, written, faults>>

(* The clock is read before the lock of the state file is asked for. *)
ReadClock(c) ==
    /\ call[c].at = "clock"
    /\ call' = [call EXCEPT ![c].clock = now, ![c].at = "charge"]
    /\ UNCHANGED <<now, log, manifest, logLock, headCache, maintained, compacting, window, revision, written, faults>>

(* enforce_write_rate_limit: a batch is charged once for all its rows, and  *)
(* a refusal is that of all of them.                                        *)
Charge(c) ==
    /\ call[c].at = "charge" /\ ~RateRefused(call[c].clock)
    /\ Charged(call[c].clock)
    /\ call' = [call EXCEPT ![c].receipt = call[c].clock, ![c].at = "validate"]
    /\ UNCHANGED <<now, log, manifest, logLock, headCache, maintained, compacting, revision, written, faults>>

ChargeRefused(c) ==
    /\ call[c].at = "charge" /\ RateRefused(call[c].clock)
    /\ To(c, "rejected")
    /\ UNCHANGED <<now, log, manifest, logLock, headCache, maintained, compacting, window, revision, written, faults>>

(* A refusal after the charge keeps the slot.  A batch goes on without the  *)
(* row; here its flaw is in all of them.                                    *)
Validate(c) ==
    /\ call[c].at = "validate"
    /\ To(c, IF PayloadRefused(call[c].flaw) \/ PiiBlocked(call[c].flaw) THEN "rejected" ELSE "commit")
    /\ UNCHANGED <<now, log, manifest, logLock, headCache, maintained, compacting, window, revision, written, faults>>

(* The revision check and the row in one transaction. *)
CommitTool(c) ==
    /\ Path[c] = "tool" /\ call[c].at = "commit" /\ call[c].read = revision
    /\ revision' = revision + 1
    /\ call' = [call EXCEPT ![c].rows = 1, ![c].at = "audit"]
    /\ UNCHANGED <<now, log, manifest, logLock, headCache, maintained, compacting, window, written, faults>>

(* A row that changed is left alone and the slot given back, inside the     *)
(* transaction; no record tells of it.                                      *)
Conflict(c) ==
    /\ Path[c] = "tool" /\ call[c].at = "commit" /\ call[c].read # revision
    /\ RefundWriteSlot(call[c].receipt) /\ To(c, "done")
    /\ UNCHANGED <<now, log, manifest, logLock, headCache, maintained, compacting, overtaken, revision, written, faults>>

(* The SDK compares nothing. *)
CommitSdk(c) ==
    /\ Path[c] = "sdk" /\ call[c].at = "commit"
    /\ revision' = revision + 1
    /\ call' = [call EXCEPT ![c].rows = 1, ![c].at = "audit"]
    /\ UNCHANGED <<now, log, manifest, logLock, headCache, maintained, compacting, window, written, faults>>

(* bulk_store: a commit for each row. *)
CommitBulk(c) ==
    /\ Path[c] = "bulk" /\ call[c].at = "commit"
    /\ call' = [call EXCEPT ![c].rows = @ + 1, ![c].at = IF call[c].rows + 1 = BATCH THEN "close" ELSE "commit"]
    /\ UNCHANGED <<now, log, manifest, logLock, headCache, maintained, compacting, window, revision, written, faults>>

(* A commit that fails stores nothing more and raises: the rows of a batch  *)
(* before it stay, and no record is written.                                *)
CommitFails(c) ==
    /\ call[c].at = "commit" /\ faults < MAX_FAULTS
    /\ To(c, "failed") /\ faults' = faults + 1
    /\ UNCHANGED <<now, log, manifest, logLock, headCache, maintained, compacting, window, revision, written>>

-----------------------------------------------------------------------------
(* append_audit_event, after the commit or at the refusal.  A refused batch *)
(* has the records of its rows, then its own.                               *)

Auditing(c) == call[c].at \in {"audit", "close", "rejected"}

RecordOf(c) ==
    [call |-> c, ts |-> now,
     op |-> IF call[c].at = "rejected" THEN "store_rejected"
            ELSE IF Path[c] = "bulk" THEN "bulk_store" ELSE "store"]

Audit(c) ==
    /\ Auditing(c) /\ logLock = "free" /\ (CacheHit(ProcessOf[c]) \/ Readable)
    /\ Appended(ProcessOf[c], RecordOf(c))
    /\ call' = [call EXCEPT ![c].at = IF call[c].at = "rejected" /\ Path[c] = "bulk" THEN "close" ELSE "done",
                            ![c].reported = call[c].rows > 0]
    /\ UNCHANGED <<now, manifest, logLock, maintained, compacting, window, revision, faults>>

(* A torn log, or a write that fails: truncated back, raised; the row stays. *)
AuditRaises(c) ==
    /\ Auditing(c) /\ logLock = "free"
    /\ \/ ~Readable /\ ~CacheHit(ProcessOf[c]) /\ UNCHANGED faults
       \/ Readable /\ faults < MAX_FAULTS /\ faults' = faults + 1
    /\ To(c, "failed")
    /\ UNCHANGED <<now, log, manifest, logLock, headCache, maintained, compacting, window, revision, written>>

-----------------------------------------------------------------------------
(* The machine or the process dies; a line may be half written. *)
Kill(p) ==
    /\ faults < MAX_FAULTS /\ faults' = faults + 1
    /\ \E c \in Call : ProcessOf[c] = p /\ call[c].at \notin {"start", "done", "failed"}
    /\ log' \in {log} \union
          {[log EXCEPT !.torn = TRUE] : c \in {d \in Call : ProcessOf[d] = p /\ Auditing(d) /\ logLock = "free"}}
    /\ call' = [c \in Call |-> IF ProcessOf[c] = p /\ call[c].at # "start" /\ call[c].at # "done"
                                 THEN [call[c] EXCEPT !.at = "failed"] ELSE call[c]]
    /\ logLock' = IF logLock = p THEN "free" ELSE logLock
    /\ headCache' = [headCache EXCEPT ![p] = NoHead]
    /\ maintained' = maintained \ {p}
    /\ compacting' = [compacting EXCEPT ![p] = "idle"]
    /\ UNCHANGED <<now, manifest, window, revision, written>>

Tick ==
    /\ now < MAX_NOW /\ now' = now + 1
    /\ UNCHANGED <<log, manifest, logLock, headCache, maintained, compacting, window, revision, call, written, faults>>

-----------------------------------------------------------------------------
AuditInit ==
    /\ now = 0 /\ log = EmptyLog /\ manifest = <<>> /\ logLock = "free"
    /\ headCache = [p \in AuditProcess |-> NoHead] /\ maintained = {}
    /\ compacting = [p \in AuditProcess |-> "idle"] /\ stamps = <<>> /\ overtaken = {}
    /\ revision = 0
    /\ call = [c \in Call |-> NewCall] /\ written = {} /\ faults = 0

AuditNext ==
    \/ Tick
    \/ \E p \in AuditProcess : CompactSkipped(p) \/ CompactDue(p) \/ CompactPin(p) \/ CompactRewrite(p)
                          \/ CompactRaises(p) \/ Kill(p)
    \/ \E c \in Call : Begin(c) \/ MaintainedNow(c) \/ ReadClock(c) \/ Charge(c) \/ ChargeRefused(c) \/ Validate(c)
                       \/ CommitTool(c) \/ Conflict(c) \/ CommitSdk(c) \/ CommitBulk(c) \/ CommitFails(c)
                       \/ Audit(c) \/ AuditRaises(c)

-----------------------------------------------------------------------------
(* The log verifies, and every record ever appended is in it or, older than *)
(* the retention, under a head in the manifest, whichever process appends,  *)
(* compacts or dies in between; and a write reported stored has its record. *)
TrailKept ==
    /\ ChainValid(log.recs)
    /\ \A of \in written :
          \/ \E i \in DOMAIN log.recs : log.recs[i].of = of
          \/ of.ts < Cutoff /\ \E i \in DOMAIN manifest : Contains(manifest[i], of)
    /\ \A c \in Call : call[c].reported => \E of \in written : of.call = c /\ of.op # "store_rejected"

(* No window of a minute has more writes of the session that stored than    *)
(* the limit: a slot given back for a conflict is never that of a write     *)
(* that stored, however late it is given back.  A window is excepted that   *)
(* meets the time by which one charge overtook another on its way from the  *)
(* clock to the lock: the late one drops the stamps after its clock.        *)
RateKept ==
    \A t \in 0..now :
        LET minute == (t - MINUTE + 1)..t IN
        minute \cap overtaken = {} =>
            Cardinality({c \in Call : call[c].rows > 0 /\ call[c].receipt \in minute}) <= WRITES_PER_MINUTE
=============================================================================
