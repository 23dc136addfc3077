------------------------------ MODULE SyncRows ------------------------------
(***************************************************************************)
(* The revision bookkeeping between a stored row, the publishes of its     *)
(* snapshots and their acknowledgements: storage/_crud_ops.py (store,      *)
(* update), _client_store.py and _client_lifecycle.py (publish_entry, the  *)
(* retry drain) and sync/delta.py (ack_revision).  Rows do not interact,   *)
(* so the model has one.  Its content stands for its sync_hash; a SQLite   *)
(* transaction is one action; everything around it interleaves.  The       *)
(* queue's own file protocol is RetryQueue's, the daemon's push is         *)
(* PushCycle's.                                                            *)
(***************************************************************************)
EXTENDS Integers, Sequences, FiniteSets

CONSTANTS
    Content,        \* texts a row can have
    First,          \* the text it starts with
    Writer,         \* MemoryClients that store() under this id
    Job,            \* background publishes, each used once
    MAX_EDITS,      \* bound on edits
    MAX_RETRIES,
    MAX_FAILS       \* bound on sends that fail

Gone == "gone"

NoSeq == -1

ASSUME SyncRowsAssumption ==
    /\ First \in Content /\ Gone \notin Content
    /\ MAX_EDITS \in Nat /\ MAX_RETRIES \in Nat /\ MAX_FAILS \in Nat

VARIABLES
    row,        \* [text, seq, clean]; clean: last_synced_at is set
    copy,       \* writer -> sync_seq of the row it read, NoSeq when not storing
    job,        \* job -> [st, snap]
    queue,      \* retry records: snapshots
    todo, seen, kept, acks, \* the drain: records left, taken, kept and sent
    platform,   \* the text the platform has
    accepted,   \* every text it accepted
    lost,       \* some publish was given up unacknowledged
    reused,     \* a revision number has been given to a second revision
    edits, fails

drain == <<todo, seen, kept, acks>>
local == <<reused, edits>>

vars == <<row, copy, job, queue, todo, seen, kept, acks, platform, accepted, lost,
          reused, edits, fails>>

NoRow == [text |-> Gone, seq |-> 0, clean |-> FALSE]

NoSnap == [text |-> Gone, seq |-> 0, retries |-> 0]

Snap == [text |-> row'.text, seq |-> row'.seq, retries |-> 0]

Init ==
    /\ row = [text |-> First, seq |-> 1, clean |-> FALSE]
    /\ copy = [w \in Writer |-> NoSeq]
    /\ job = [j \in Job |-> [st |-> "free", snap |-> NoSnap]]
    /\ queue = <<>> /\ todo = <<>> /\ seen = <<>> /\ kept = <<>> /\ acks = <<>>
    /\ platform = Gone /\ accepted = {} /\ lost = FALSE
    /\ reused = FALSE /\ edits = 0 /\ fails = 0

-----------------------------------------------------------------------------
(* Local writes *)

(* MemoryClient.store reads the row, then awaits the gate and the embedding. *)
StoreRead(w) ==
    /\ copy[w] = NoSeq /\ edits < MAX_EDITS
    /\ edits' = edits + 1
    /\ copy' = [copy EXCEPT ![w] = row.seq]
    /\ UNCHANGED <<row, job, queue, drain, platform, accepted, lost, reused, fails>>

(* store(): the revision is numbered from the writer's copy, whatever the   *)
(* row has become; its publish is scheduled.                                *)
StoreWrite(w, t) ==
    /\ copy[w] # NoSeq
    /\ row' = [text |-> t, seq |-> copy[w] + 1, clean |-> FALSE]
    /\ reused' = (reused \/ copy[w] # row.seq)
    /\ copy' = [copy EXCEPT ![w] = NoSeq]
    /\ \E j \in Job :
        /\ job[j].st = "free"
        /\ job' = [job EXCEPT ![j] = [st |-> "sending", snap |-> Snap]]
    /\ UNCHANGED <<queue, drain, platform, accepted, lost, edits, fails>>

(* update(), or memory_store conditional on the revision it read: one       *)
(* transaction from the read of sync_seq to its write.                      *)
Edit(t) ==
    /\ edits < MAX_EDITS /\ row # NoRow
    /\ edits' = edits + 1
    /\ row' = [text |-> t, seq |-> row.seq + 1, clean |-> FALSE]
    /\ UNCHANGED <<copy, job, queue, drain, platform, accepted, lost, reused, fails>>

(* forget deletes the row; a later store under the id starts at 0. *)
Forget ==
    /\ row # NoRow
    /\ row' = NoRow /\ reused' = TRUE
    /\ UNCHANGED <<copy, job, queue, drain, platform, accepted, lost, edits, fails>>

StoreNew(t) ==
    /\ row = NoRow /\ edits < MAX_EDITS
    /\ edits' = edits + 1
    /\ row' = [text |-> t, seq |-> 1, clean |-> FALSE]
    /\ UNCHANGED <<copy, job, queue, drain, platform, accepted, lost, reused, fails>>

-----------------------------------------------------------------------------
(* Mutant: the sequence number alone decides. *)
AckRevisionBySeq(text, seq) ==
    row' = IF row = NoRow THEN row
           ELSE IF row.seq = seq THEN [row EXCEPT !.clean = TRUE]
           ELSE [row EXCEPT !.seq = @ + 1, !.clean = FALSE]

(* ack_revision: stamped while the row is still that revision, else its     *)
(* update() numbers a new, dirty one.                                       *)
AckRevision(text, seq) ==
    row' = IF row = NoRow THEN row
           ELSE IF row.seq = seq /\ row.text = text THEN [row EXCEPT !.clean = TRUE]
           ELSE [row EXCEPT !.seq = @ + 1, !.clean = FALSE]

Accept(t) == platform' = t /\ accepted' = accepted \cup {t}

(* publish_entry: the POST.  It succeeds, is refused for good (switch,      *)
(* importance, label, ledger), or fails, with or without having arrived.    *)
Send(j) ==
    LET s == job[j].snap IN
    /\ job[j].st = "sending"
    /\ \/ Accept(s.text) /\ job' = [job EXCEPT ![j].st = "sent"] /\ UNCHANGED <<fails, lost>>
       \/ job' = [job EXCEPT ![j].st = "done"] /\ lost' = TRUE /\ UNCHANGED <<platform, accepted, fails>>
       \/ /\ fails < MAX_FAILS /\ fails' = fails + 1
          /\ job' = [job EXCEPT ![j].st = "failed"]
          /\ Accept(s.text) \/ UNCHANGED <<platform, accepted>>
          /\ UNCHANGED lost
    /\ UNCHANGED <<row, copy, queue, drain, local>>

AckPublish(j) ==
    /\ job[j].st = "sent"
    /\ AckRevision(job[j].snap.text, job[j].snap.seq)
    /\ job' = [job EXCEPT ![j].st = "done"]
    /\ UNCHANGED <<copy, queue, drain, platform, accepted, lost, local, fails>>

(* The failed publish is queued with its revision, or the queue is full. *)
Enqueue(j) ==
    /\ job[j].st = "failed"
    /\ job' = [job EXCEPT ![j].st = "done"]
    /\ \/ queue' = Append(queue, job[j].snap) /\ UNCHANGED lost
       \/ UNCHANGED queue /\ lost' = TRUE
    /\ UNCHANGED <<row, copy, drain, platform, accepted, local, fails>>

(* The process dies with the publish. *)
Die(j) ==
    /\ job[j].st \in {"sent", "failed"}
    /\ job' = [job EXCEPT ![j].st = "done"]
    /\ lost' = TRUE
    /\ UNCHANGED <<row, copy, queue, drain, platform, accepted, local, fails>>

-----------------------------------------------------------------------------
(* The retry drain *)

(* The drain works on a snapshot; what is enqueued meanwhile comes after. *)
DrainBegin ==
    /\ todo = <<>> /\ seen = <<>> /\ acks = <<>> /\ queue # <<>>
    /\ todo' = queue /\ queue' = <<>>
    /\ UNCHANGED <<row, copy, job, seen, kept, acks, platform, accepted, lost, local, fails>>

(* One record: evicted, sent, failed with or without having arrived, or     *)
(* withheld because the row is gone or not admitted any more.               *)
DrainRecord ==
    LET s == Head(todo) IN
    /\ todo # <<>>
    /\ todo' = Tail(todo) /\ seen' = Append(seen, s)
    /\ \/ /\ s.retries >= MAX_RETRIES
          /\ lost' = TRUE
          /\ UNCHANGED <<kept, acks, platform, accepted, fails>>
       \/ /\ s.retries < MAX_RETRIES /\ row # NoRow
          /\ Accept(s.text) /\ acks' = Append(acks, s)
          /\ UNCHANGED <<kept, lost, fails>>
       \/ /\ s.retries < MAX_RETRIES
          /\ \/ fails < MAX_FAILS /\ fails' = fails + 1 /\ row # NoRow /\ Accept(s.text)
             \/ fails < MAX_FAILS /\ fails' = fails + 1 /\ UNCHANGED <<platform, accepted>>
             \/ row = NoRow /\ UNCHANGED <<fails, platform, accepted>>
          /\ kept' = Append(kept, [s EXCEPT !.retries = @ + 1])
          /\ UNCHANGED <<acks, lost>>
    /\ UNCHANGED <<row, copy, job, queue, local>>

(* The queue file is replaced. *)
DrainWrite ==
    /\ todo = <<>> /\ seen # <<>>
    /\ queue' = kept \o queue
    /\ kept' = <<>> /\ seen' = <<>>
    /\ UNCHANGED <<row, copy, job, todo, acks, platform, accepted, lost, local, fails>>

(* The entry is acknowledged once, at the last of its records sent. *)
Latest == acks[Len(acks)]

DrainAck ==
    /\ seen = <<>> /\ acks # <<>>
    /\ AckRevision(Latest.text, Latest.seq)
    /\ acks' = <<>>
    /\ UNCHANGED <<copy, job, queue, todo, seen, kept, platform, accepted, lost, local, fails>>

(* The process dies in the drain: before the write the file is as it was,   *)
(* after it the acknowledgement is lost.                                    *)
DrainDies ==
    /\ seen # <<>> \/ acks # <<>>
    /\ queue' = seen \o todo \o queue
    /\ lost' = (lost \/ seen = <<>>)
    /\ todo' = <<>> /\ seen' = <<>> /\ kept' = <<>> /\ acks' = <<>>
    /\ UNCHANGED <<row, copy, job, platform, accepted, local, fails>>

-----------------------------------------------------------------------------
Next ==
    \/ \E w \in Writer : StoreRead(w) \/ \E t \in Content : StoreWrite(w, t)
    \/ \E t \in Content : Edit(t) \/ StoreNew(t)
    \/ Forget
    \/ \E j \in Job : Send(j) \/ AckPublish(j) \/ Enqueue(j) \/ Die(j)
    \/ DrainBegin \/ DrainRecord \/ DrainWrite \/ DrainAck \/ DrainDies

Spec == Init /\ [][Next]_vars

-----------------------------------------------------------------------------
(* Properties *)

(* No edit is marked synced unpushed: the text of a clean row has been      *)
(* accepted by the platform, however writers, sends and acks overtake each  *)
(* other.                                                                   *)
SyncedWasSent == row # NoRow /\ row.clean => row.text \in accepted

Unacknowledged ==
    \/ \E j \in Job : job[j].st \in {"sending", "sent", "failed"}
    \/ queue # <<>> \/ acks # <<>> \/ todo # <<>> \/ seen # <<>>

(* When the dust settles a clean row is what the platform has: an older     *)
(* snapshot that was delivered late makes the row dirty again when it is    *)
(* acknowledged, so it is pushed over.  Only a publish given up (refused,   *)
(* out of retries, or lost with its process) is excepted, and a row with a  *)
(* revision number that two stores used, each from its own stale copy, or   *)
(* that was forgotten and numbered from 1 again.                            *)
SyncedIsCurrent == row # NoRow /\ row.clean /\ ~Unacknowledged /\ ~lost /\ ~reused => platform = row.text

(* Both: a row is clean for what the platform took, and in the end has. *)
SyncedIsPushed == SyncedWasSent /\ SyncedIsCurrent

-----------------------------------------------------------------------------
(* The inductive invariant: every snapshot on its way is of a revision that *)
(* the row had; what counts as sent was accepted; a drain forgets nothing   *)
(* before it has written; and when the platform has another text than a row *)
(* that is clean, or is about to be, the snapshot of it has an              *)
(* acknowledgement to come, which will make the row dirty.                  *)

Snapshot == [text : Content \cup {Gone}, seq : Nat, retries : Nat]

JobState == {"free", "sending", "sent", "failed", "done"}

TypeOK ==
    /\ row \in [text : Content \cup {Gone}, seq : Nat, clean : BOOLEAN]
    /\ copy \in [Writer -> Nat \cup {NoSeq}]
    /\ job \in [Job -> [st : JobState, snap : Snapshot]]
    /\ queue \in Seq(Snapshot) /\ todo \in Seq(Snapshot)
    /\ seen \in Seq(Snapshot) /\ kept \in Seq(Snapshot) /\ acks \in Seq(Snapshot)
    /\ platform \in Content \cup {Gone} /\ accepted \subseteq Content \cup {Gone}
    /\ lost \in BOOLEAN /\ reused \in BOOLEAN

Elems(s) == {s[i] : i \in DOMAIN s}

(* The snapshots that have not been settled, by where they are. *)
InJob(st) == {job[j].snap : j \in {k \in Job : job[k].st \in st}}

Newest == IF acks = <<>> THEN {} ELSE {Latest}

OnTheWay == InJob({"sending", "sent", "failed"}) \cup Elems(queue) \cup Elems(todo)
                \cup Elems(seen) \cup Elems(kept) \cup Elems(acks)

(* Those that the platform may have, and that will be acknowledged or sent. *)
Outstanding == InJob({"sent", "failed"}) \cup Elems(queue) \cup Elems(todo) \cup Elems(kept) \cup Newest

Revisions == ~reused => /\ row.seq > 0
                        /\ \A s \in OnTheWay : s.seq <= row.seq /\ (s.seq = row.seq => s.text = row.text)

SentIsAccepted ==
    /\ \A s \in InJob({"sent"}) \cup Elems(acks) : s.text \in accepted
    /\ SyncedWasSent

SeenHolds(s) == \E x \in Elems(seen) : x.text = s.text /\ x.seq = s.seq

DrainRemembers ==
    /\ \A s \in Elems(kept) : SeenHolds(s)
    /\ seen # <<>> \/ todo # <<>> => \A s \in Elems(acks) : SeenHolds(s)

Acknowledged == row.clean \/ \E s \in InJob({"sent"}) \cup Newest : s.text = row.text /\ s.seq = row.seq

OvertakenIsOutstanding ==
    ~lost /\ ~reused /\ Acknowledged
        => platform = row.text \/ \E s \in Outstanding : s.text = platform

IInv == TypeOK /\ Revisions /\ SentIsAccepted /\ DrainRemembers /\ OvertakenIsOutstanding
=============================================================================
