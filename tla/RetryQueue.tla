----------------------------- MODULE RetryQueue -----------------------------
(***************************************************************************)
(* trw_memory/sync/retry_queue.py: the JSONL queue of failed publishes,    *)
(* shared by every client of a storage root.  A section under the queue's  *)
(* file lock (a read, or a read and an atomic replace of the file) is one  *)
(* action.  A drain holds a lock of its own from its snapshot to its write *)
(* and publishes in between without the file lock, so enqueues land while  *)
(* it works, and a crash or an unexpected error leaves the file as it was. *)
(* A record is its key, the (entry_id, queued_at) pair.                    *)
(***************************************************************************)
EXTENDS Integers, Sequences, FiniteSets

CONSTANTS
    Key,                \* record keys, each enqueued at most once
    NsOf,               \* key -> the namespace that queued it
    Drainer,            \* clients that drain
    Owns,               \* drainer -> the namespaces whose records it sends
    MAX_QUEUE_DEPTH,
    MAX_RETRIES,
    MAX_MISHAPS         \* bound on crashes, damaged lines and records cleared

None == "none"

ASSUME RetryQueueAssumption ==
    /\ IsFiniteSet(Key) /\ None \notin Drainer
    /\ DOMAIN NsOf = Key /\ DOMAIN Owns = Drainer
    /\ MAX_QUEUE_DEPTH \in Nat \ {0} /\ MAX_RETRIES \in Nat \ {0}
    /\ MAX_MISHAPS \in Nat

VARIABLES
    file,       \* lines of the queue file: [key, retries, torn]
    drainer,    \* holder of the drain lock, or None
    entries,    \* its snapshot
    at,         \* the record it is at
    remaining,  \* the records it keeps
    status,     \* key -> new, refused, queued, sent, exhausted, torn, cleared
    posts,      \* key -> times the platform accepted it
    attempts,   \* key -> times it was tried
    interrupts, \* drains that ended without a write
    tears       \* lines damaged so far

vars == <<file, drainer, entries, at, remaining, status, posts, attempts, interrupts, tears>>

Init ==
    /\ file = <<>> /\ drainer = None
    /\ entries = <<>> /\ at = 1 /\ remaining = <<>>
    /\ status = [k \in Key |-> "new"]
    /\ posts = [k \in Key |-> 0] /\ attempts = [k \in Key |-> 0]
    /\ interrupts = 0 /\ tears = 0

-----------------------------------------------------------------------------
KeysIn(s) == {s[i].key : i \in 1..Len(s)}

(* The lines of s at the places P, in their order. *)
Pick(s, P) ==
    LET nth(n) == CHOOSE i \in P : Cardinality({j \in P : j <= i}) = n IN
    [n \in 1..Cardinality(P) |-> s[nth(n)]]

MayHappen == interrupts + tears + Cardinality({k \in Key : status[k] = "cleared"}) < MAX_MISHAPS

(* _read_all: a line that does not decode or parse is skipped, the others   *)
(* are read as if it were not there.                                        *)
ReadAll == Pick(file, {i \in 1..Len(file) : ~file[i].torn})

-----------------------------------------------------------------------------
(* enqueue: one read and one write under the file lock. *)

Enqueue(k) ==
    /\ status[k] = "new"
    /\ Len(ReadAll) < MAX_QUEUE_DEPTH
    /\ file' = Append(ReadAll, [key |-> k, retries |-> 0, torn |-> FALSE])
    /\ status' = [status EXCEPT ![k] = "queued"]
    /\ UNCHANGED <<drainer, entries, at, remaining, posts, attempts, interrupts, tears>>

(* At the depth cap, or over the byte cap whatever the depth: False. *)
EnqueueRefused(k) ==
    /\ status[k] = "new"
    /\ status' = [status EXCEPT ![k] = "refused"]
    /\ UNCHANGED <<file, drainer, entries, at, remaining, posts, attempts, interrupts, tears>>

(* clear() does not take the drain lock. *)
Clear ==
    /\ file # <<>> /\ MayHappen
    /\ file' = <<>>
    /\ status' = [k \in Key |-> IF k \in KeysIn(file) /\ status[k] = "queued" THEN "cleared" ELSE status[k]]
    /\ UNCHANGED <<drainer, entries, at, remaining, posts, attempts, interrupts, tears>>

-----------------------------------------------------------------------------
(* _drain_serialized *)

(* The drain lock is taken and the snapshot read; an empty queue ends it. *)
DrainBegin(d) ==
    /\ drainer = None /\ Len(ReadAll) > 0
    /\ drainer' = d /\ entries' = ReadAll /\ at' = 1 /\ remaining' = <<>>
    /\ UNCHANGED <<file, status, posts, attempts, interrupts, tears>>

Draining == drainer # None /\ at <= Len(entries)

Here == entries[at]

Keep(r) == remaining' = Append(remaining, r) /\ at' = at + 1

(* A record out of retries leaves the queue, whoever owns it. *)
DrainEvict ==
    /\ Draining /\ Here.retries >= MAX_RETRIES
    /\ at' = at + 1
    /\ UNCHANGED <<file, drainer, entries, remaining, status, posts, attempts, interrupts, tears>>

(* A record of another namespace is kept exactly as it is. *)
DrainForeign ==
    /\ Draining /\ Here.retries < MAX_RETRIES
    /\ NsOf[Here.key] \notin Owns[drainer]
    /\ Keep(Here)
    /\ UNCHANGED <<file, drainer, entries, status, posts, attempts, interrupts, tears>>

(* Mutant: at its last retry a record is neither sent nor evicted. *)
MineBelowLast == Draining /\ Here.retries + 1 < MAX_RETRIES /\ NsOf[Here.key] \in Owns[drainer]

(* A record this drain sends. *)
Mine == Draining /\ Here.retries < MAX_RETRIES /\ NsOf[Here.key] \in Owns[drainer]

(* publish_fn: the platform accepts the record. *)
DrainSent ==
    /\ Mine
    /\ posts' = [posts EXCEPT ![Here.key] = @ + 1]
    /\ attempts' = [attempts EXCEPT ![Here.key] = @ + 1]
    /\ at' = at + 1
    /\ UNCHANGED <<file, drainer, entries, remaining, status, interrupts, tears>>

(* publish_fn returns False or raises an error the loop expects. *)
DrainFailed ==
    /\ Mine
    /\ attempts' = [attempts EXCEPT ![Here.key] = @ + 1]
    /\ Keep([Here EXCEPT !.retries = @ + 1])
    /\ UNCHANGED <<file, drainer, entries, status, posts, interrupts, tears>>

(* Mutant: the file becomes what the drain kept. *)
ArrivalsNone == <<>>

(* Records queued while the drain worked. *)
Arrivals == Pick(ReadAll, {i \in 1..Len(ReadAll) : ReadAll[i].key \notin KeysIn(entries)})

(* A record that was processed and not kept was sent, or is exhausted. *)
Outcome(k) == IF posts[k] > 0 THEN "sent" ELSE "exhausted"

(* The file is read again and replaced by the kept records and the arrivals. *)
DrainEnd ==
    /\ drainer # None /\ at > Len(entries)
    /\ file' = remaining \o Arrivals
    /\ status' = [k \in Key |->
                    IF k \in KeysIn(entries) \ KeysIn(remaining) THEN Outcome(k)
                    ELSE IF k \in KeysIn(remaining) /\ status[k] = "torn" THEN "queued"
                    ELSE status[k]]
    /\ drainer' = None /\ entries' = <<>> /\ at' = 1 /\ remaining' = <<>>
    /\ UNCHANGED <<posts, attempts, interrupts, tears>>

(* The process dies, or publish_fn raises an error the loop does not        *)
(* expect: the locks go, nothing is written.                                *)
Interrupt ==
    /\ drainer # None /\ MayHappen
    /\ interrupts' = interrupts + 1
    /\ drainer' = None /\ entries' = <<>> /\ at' = 1 /\ remaining' = <<>>
    /\ UNCHANGED <<file, status, posts, attempts, tears>>

(* A line of the file is damaged from outside. *)
Tear ==
    \E i \in 1..Len(file) :
        /\ ~file[i].torn
        /\ MayHappen /\ tears' = tears + 1
        /\ file' = [file EXCEPT ![i].torn = TRUE]
        /\ status' = [status EXCEPT ![file[i].key] = "torn"]
        /\ UNCHANGED <<drainer, entries, at, remaining, posts, attempts, interrupts>>

-----------------------------------------------------------------------------
DrainStep == DrainEvict \/ DrainForeign \/ DrainSent \/ DrainFailed \/ DrainEnd

Next ==
    \/ \E k \in Key : Enqueue(k) \/ EnqueueRefused(k)
    \/ \E d \in Drainer : DrainBegin(d)
    \/ DrainStep \/ Interrupt \/ Tear \/ Clear

Spec == Init /\ [][Next]_vars

(* A drain runs to its end, its sends have a timeout, and every client      *)
(* drains again when it is entered or stores.                               *)
FairSpec ==
    /\ Spec
    /\ WF_vars(DrainStep)
    /\ \A d \in Drainer : SF_vars(DrainBegin(d))

-----------------------------------------------------------------------------
(* Properties *)

Line == [key : Key, retries : 0..MAX_RETRIES, torn : BOOLEAN]

TypeOK ==
    /\ file \in Seq(Line) /\ entries \in Seq(Line) /\ remaining \in Seq(Line)
    /\ drainer \in Drainer \cup {None}
    /\ at \in Nat \ {0}
    /\ status \in [Key -> {"new", "refused", "queued", "sent", "exhausted", "torn", "cleared"}]
    /\ posts \in [Key -> Nat] /\ attempts \in [Key -> Nat]
    /\ interrupts \in Nat /\ tears \in Nat

(* A publish accepted by enqueue stays in the file until it is sent or out  *)
(* of retries, whatever drains, enqueues, crashes and torn lines come       *)
(* between: the write at a drain's end drops nothing it did not process.    *)
(* It is there once, so no retry count is split, and not at all after that. *)
NoRecordLost ==
    \A k \in Key :
        LET lines == {i \in 1..Len(file) : file[i].key = k} IN
        /\ status[k] = "queued" => Cardinality(lines) = 1
        /\ status[k] \in {"sent", "exhausted"} => lines = {}

(* A record is sent once more only for a drain that was interrupted between *)
(* its send and its write.                                                  *)
SentOnce == \A k \in Key : posts[k] <= 1 + interrupts

(* A record is given up only after MAX_RETRIES tries of its own; another    *)
(* namespace's drain spends none of them.                                   *)
ExhaustedWasTried == \A k \in Key : status[k] = "exhausted" => attempts[k] >= MAX_RETRIES

(* A record stays until it was sent or tried often enough, and is sent once. *)
RecordsKept == NoRecordLost /\ SentOnce /\ ExhaustedWasTried

-----------------------------------------------------------------------------
(* The inductive invariant: a record is in the file once, what was sent or  *)
(* given up is in no file and no snapshot, a drain keeps only records it    *)
(* has been at, and a record it may still send was sent by no drain but     *)
(* those that were interrupted.                                             *)

Rows(s) == {s[i] : i \in 1..Len(s)}

KeysOnce(s) == \A i, j \in 1..Len(s) : s[i].key = s[j].key => i = j

(* The records the drain has been at, and those of them it does not keep. *)
Past == {entries[i].key : i \in 1..(at - 1)}

Done == Past \ KeysIn(remaining)

IdleIsEmpty == drainer = None => entries = <<>> /\ at = 1 /\ remaining = <<>>

DrainKeepsPast ==
    /\ at <= Len(entries) + 1 /\ KeysIn(remaining) \subseteq Past
    /\ \A r \in Rows(entries) \cup Rows(remaining) : ~r.torn

StatusAgrees ==
    \A k \in Key :
        /\ status[k] = "queued" => \E r \in Rows(file) : r.key = k /\ ~r.torn
        /\ status[k] \in {"new", "refused", "sent", "exhausted"} => k \notin KeysIn(file) \cup KeysIn(entries)
        /\ status[k] = "new" => posts[k] = 0

UnsentOfDrain == \A k \in (KeysIn(file) \cup KeysIn(entries)) \ Done : posts[k] <= interrupts

TriesCounted ==
    \A r \in Rows(file) \cup Rows(entries) \cup Rows(remaining) : r.retries <= attempts[r.key]

DoneIsOver == \A k \in Done : posts[k] > 0 \/ attempts[k] >= MAX_RETRIES

IInv ==
    /\ TypeOK
    /\ KeysOnce(file) /\ KeysOnce(entries) /\ KeysOnce(remaining)
    /\ IdleIsEmpty /\ DrainKeepsPast /\ StatusAgrees
    /\ UnsentOfDrain /\ SentOnce /\ TriesCounted /\ DoneIsOver /\ ExhaustedWasTried

-----------------------------------------------------------------------------
(* No record is retried for ever, or stuck behind records of other          *)
(* namespaces: each leaves the queue.                                       *)
QueuedLeaves == \A k \in Key : status[k] = "queued" ~> status[k] # "queued"
=============================================================================
