----------------------------- MODULE PushCycle ------------------------------
(***************************************************************************)
(* The daemon's side of a push: sync/delta.py get_dirty_entries and        *)
(* mark_synced under tools/sync.py, with the sync client that calls them   *)
(* (outside this repository) as it uses them: pages through the dirty rows *)
(* of a namespace by keyset on (sync_seq, id), sends what it does not hold *)
(* back, marks what it sent, goes on behind the last row it was given, and *)
(* starts over after a short page.  Rows the quarantine ledger blocks are  *)
(* left out of a page but still advance its position.  Rows are edited,    *)
(* stored from a stale copy, forgotten, stored again and blocked between   *)
(* any two steps.                                                          *)
(***************************************************************************)
EXTENDS Integers, FiniteSets

CONSTANTS
    MAX_ID,     \* ids are 1..MAX_ID, ordered like the id column
    LIMIT,      \* page size
    Held,       \* ids the client holds back
    Writer,     \* calls that store a row from a copy of their own
    MAX_EDITS,  \* bound on writes and forgets
    MAX_MOVES,  \* bound on changes of the ledger
    MAX_FAILS   \* bound on sends that fail

Id == 1..MAX_ID

ASSUME PushCycleAssumption ==
    /\ MAX_ID \in Nat \ {0} /\ LIMIT \in Nat \ {0} /\ Held \subseteq Id
    /\ MAX_EDITS \in Nat /\ MAX_MOVES \in Nat /\ MAX_FAILS \in Nat

VARIABLES
    seq,        \* id -> sync_seq, 0 when there is no row
    text,       \* id -> its content, numbered by the edits of the id
    dirty,      \* ids of rows whose last_synced_at is not set
    blocked,    \* ids the quarantine ledger blocks
    after,      \* keyset position of the next query, <<sync_seq, id>>
    page,       \* rows of the page being filled: <<sync_seq, id, text>>, in that order
    given,      \* the page the client works on
    got,        \* id -> how often it was given this cycle
    step,       \* query, send, mark, end
    copy,       \* writer -> <<id, sync_seq>> of the row it read, NoCopy when it stores none
    reused,     \* ids that may have given one number to two revisions
    steady,     \* ids dirty, admitted and unedited since the cycle began
    platform,   \* id -> the text the platform has, 0 when none
    accepted,   \* id -> texts it has accepted
    edits, moves, fails

rows == <<seq, text, dirty, blocked, copy, reused>>
paging == <<after, page, given, got, step>>
remote == <<platform, accepted>>

pushVars == <<seq, text, dirty, blocked, after, page, given, got, step, copy, reused,
              steady, platform, accepted, edits, moves, fails>>

NoCopy == <<0, 0>>

Copy == (Id \X Nat) \cup {NoCopy}

Begin ==
    after' = <<0, 0>> /\ page' = {} /\ given' = {} /\ got' = [i \in Id |-> 0] /\ step' = "query"

PushInit ==
    /\ seq = [i \in Id |-> 1] /\ text = [i \in Id |-> 1]
    /\ dirty = Id /\ blocked \in SUBSET Id
    /\ after = <<0, 0>> /\ page = {} /\ given = {} /\ got = [i \in Id |-> 0] /\ step = "query"
    /\ copy = [w \in Writer |-> NoCopy] /\ reused = {} /\ steady = dirty \ blocked
    /\ platform = [i \in Id |-> 0] /\ accepted = [i \in Id |-> {}]
    /\ edits = 0 /\ moves = 0 /\ fails = 0

-----------------------------------------------------------------------------
(* Paging *)

Before(r, s) == r[1] < s[1] \/ (r[1] = s[1] /\ r[2] < s[2])

Row(i) == <<seq[i], i, text[i]>>

(* Mutant: the position is compared by sync_seq alone. *)
BehindPast == {Row(i) : i \in {j \in dirty : after[1] < seq[j]}}

(* The dirty rows behind the position. *)
Behind == {Row(i) : i \in {j \in dirty : Before(after, <<seq[j], j>>)}}

(* ORDER BY sync_seq, id LIMIT, and page[:limit]. *)
Cut(some) == {r \in some : Cardinality({q \in some : Before(q, r)}) < LIMIT}

(* The last of some rows. *)
Last(some) == CHOOSE r \in some : \A q \in some : q = r \/ Before(q, r)

(* filter_quarantined *)
Admitted(some) == {r \in some : r[2] \notin blocked}

(* Mutant: what the blocked rows leave of a query is the page. *)
PageFullAlways(found, filled) == TRUE

PageFull(found, filled) == Cardinality(found) < LIMIT \/ Cardinality(filled) >= LIMIT

(* One query of get_dirty_entries: the page is returned when it is full or  *)
(* the rows ran out, else it is filled from the rows behind.                *)
Query ==
    LET found == Cut(Behind)
        filled == page \cup Admitted(found) IN
    /\ step = "query"
    /\ IF PageFull(found, filled)
       THEN /\ given' = Cut(filled) /\ got' = [i \in Id |-> got[i] + Cardinality({r \in given' : r[2] = i})]
            /\ page' = {} /\ step' = "send"
            /\ UNCHANGED after
       ELSE /\ page' = filled
            /\ after' = <<Last(found)[1], Last(found)[2]>>
            /\ UNCHANGED <<given, got, step>>
    /\ UNCHANGED <<rows, steady, remote, edits, moves, fails>>

(* The client sends the page, but for what it holds back.  A send that      *)
(* fails, whether or not it arrived, ends the cycle.                        *)
Sent == {r \in given : r[2] \notin Held}

SentOf(i) == {r \in Sent : r[2] = i}

Arrive ==
    /\ platform' = [i \in Id |-> IF SentOf(i) = {} THEN platform[i] ELSE Last(SentOf(i))[3]]
    /\ accepted' = [i \in Id |-> accepted[i] \cup {r[3] : r \in SentOf(i)}]

Send ==
    /\ step = "send"
    /\ \/ Arrive /\ step' = "mark" /\ UNCHANGED fails
       \/ /\ fails < MAX_FAILS /\ fails' = fails + 1
          /\ Arrive \/ UNCHANGED remote
          /\ step' = "end"
    /\ UNCHANGED <<rows, after, page, given, got, steady, edits, moves>>

(* The row is there and still has the sync_seq it was paged at. *)
Marks(r) == seq[r[2]] > 0 /\ seq[r[2]] = r[1]

(* mark_synced in one transaction.  The next page starts behind the last    *)
(* row given; a page shorter than asked for was the last.                   *)
MarkSynced ==
    /\ step = "mark"
    /\ dirty' = dirty \ {r[2] : r \in {x \in Sent : Marks(x)}}
    /\ IF Cardinality(given) < LIMIT
       THEN step' = "end" /\ UNCHANGED <<after, given>>
       ELSE /\ step' = "query" /\ given' = {}
            /\ after' = <<Last(given)[1], Last(given)[2]>>
    /\ UNCHANGED <<seq, text, blocked, copy, reused, page, got, steady, remote, edits, moves, fails>>

NewCycle ==
    /\ step = "end" /\ Begin
    /\ steady' = dirty \ blocked
    /\ UNCHANGED <<rows, remote, edits, moves, fails>>

-----------------------------------------------------------------------------
(* Other calls *)

Touch(i) == steady' = steady \ {i} /\ UNCHANGED <<paging, remote, fails>>

Renumber(i, n) ==
    /\ seq' = [seq EXCEPT ![i] = n] /\ text' = [text EXCEPT ![i] = @ + 1]
    /\ dirty' = dirty \cup {i}

(* update() numbers a revision from the row, in one transaction; a store of *)
(* a forgotten id starts at 1.                                              *)
Edit(i) ==
    /\ edits < MAX_EDITS /\ edits' = edits + 1
    /\ Renumber(i, seq[i] + 1)
    /\ Touch(i) /\ UNCHANGED <<blocked, copy, reused, moves>>

(* A call that stores reads the row, and awaits its gate and its embedding. *)
StoreRead(w, i) ==
    /\ copy[w] = NoCopy /\ edits < MAX_EDITS /\ edits' = edits + 1
    /\ copy' = [copy EXCEPT ![w] = <<i, seq[i]>>]
    /\ UNCHANGED <<seq, text, dirty, blocked, reused, paging, steady, remote, moves, fails>>

(* store() numbers the revision from the writer's copy, whatever the row    *)
(* has become meanwhile.                                                    *)
StoreWrite(w) ==
    /\ copy[w] # NoCopy
    /\ LET i == copy[w][1] IN
        /\ Renumber(i, copy[w][2] + 1)
        /\ reused' = IF copy[w][2] = seq[i] THEN reused ELSE reused \cup {i}
        /\ Touch(i)
    /\ copy' = [copy EXCEPT ![w] = NoCopy]
    /\ UNCHANGED <<blocked, edits, moves>>

Forget(i) ==
    /\ seq[i] > 0 /\ edits < MAX_EDITS /\ edits' = edits + 1
    /\ seq' = [seq EXCEPT ![i] = 0] /\ dirty' = dirty \ {i}
    /\ reused' = reused \cup {i}
    /\ Touch(i) /\ UNCHANGED <<text, blocked, copy, moves>>

Block(i) ==
    /\ moves < MAX_MOVES /\ moves' = moves + 1
    /\ blocked' = IF i \in blocked THEN blocked \ {i} ELSE blocked \cup {i}
    /\ Touch(i) /\ UNCHANGED <<seq, text, dirty, copy, reused, edits>>

-----------------------------------------------------------------------------
Cycle == Query \/ Send \/ MarkSynced \/ NewCycle

PushNext ==
    \/ Cycle
    \/ \E i \in Id : Edit(i) \/ Forget(i) \/ Block(i)
    \/ \E w \in Writer : StoreWrite(w) \/ \E i \in Id : StoreRead(w, i)

PushSpec == PushInit /\ [][PushNext]_pushVars

(* The client comes back every cycle, and a send that may fail only so      *)
(* often succeeds when it is tried again.                                   *)
PushFairSpec == PushSpec /\ WF_pushVars(Cycle)

-----------------------------------------------------------------------------
(* Properties *)

Clean(i) == seq[i] > 0 /\ i \notin dirty

(* No edit is marked synced unpushed: the text of a clean row has been      *)
(* accepted by the platform, and is the one it has, wherever the edit fell  *)
(* between the page, the send and the mark.  The mark compares sync_seq     *)
(* alone, so an id that gave one number to two revisions is excepted: one   *)
(* that was stored from a stale copy, or forgotten and numbered from 1.     *)
SyncedIsCurrent == \A i \in Id \ reused : Clean(i) => text[i] \in accepted[i] /\ platform[i] = text[i]

(* A cycle that was not cut short reaches every row that needed a push when *)
(* it began and stayed so, and none twice: rows acknowledged, edited or     *)
(* blocked between pages shift nobody else out of the paging.               *)
EveryRowOnce == step = "end" /\ Cardinality(given) < LIMIT => \A i \in steady : got[i] = 1

(* Both: a cycle marks what it pushed and pages what it owes. *)
CycleExact == SyncedIsCurrent /\ EveryRowOnce

(* Every dirty row the ledger admits and the client does not hold back is   *)
(* pushed, though rows in front of it never are.                            *)
DirtyIsPushed == \A i \in Id \ Held : i \in dirty \ blocked ~> i \notin dirty \/ i \in blocked

-----------------------------------------------------------------------------
(* Why: the inductive invariant behind CycleExact.                          *)

Paged == Nat \X Id \X Nat

PushTypeOK ==
    /\ seq \in [Id -> Nat] /\ text \in [Id -> Nat] /\ dirty \subseteq Id /\ blocked \subseteq Id
    /\ after \in Nat \X (0..MAX_ID) /\ page \subseteq Paged /\ given \subseteq Paged /\ got \in [Id -> Nat]
    /\ IsFiniteSet(page) /\ IsFiniteSet(given)
    /\ step \in {"query", "send", "mark", "end"} /\ reused \subseteq Id /\ steady \subseteq Id
    /\ copy \in [Writer -> Copy]
    /\ platform \in [Id -> Nat] /\ accepted \in [Id -> SUBSET Nat]

(* A row's sync_seq counts its edits, but for an id whose numbers came      *)
(* twice.                                                                   *)
NumbersAgree ==
    /\ \A i \in Id \ reused : seq[i] = text[i] /\ seq[i] > 0
    /\ \A i \in dirty : seq[i] > 0

(* The rows of a page are of different revisions; of a row that was there   *)
(* all along no later than its own, and it is dirty; of a row that was not  *)
(* edited either, its own.                                                  *)
PageHolds(some) ==
    /\ \A q, r \in some : q[1] = r[1] /\ q[2] = r[2] => q = r
    /\ \A r \in some : r[2] \notin reused => r[1] = r[3] /\ r[3] <= text[r[2]] /\ r[2] \in dirty
    /\ \A r \in some : r[2] \in steady => r = Row(r[2])

PagesHold ==
    /\ PageHolds(page) /\ Cardinality(page) < LIMIT /\ \A r \in page : ~Before(after, r)
    /\ step # "query" => page = {}
    /\ step \in {"send", "mark"} => PageHolds(given)

(* What was sent has been accepted, and of each id the platform has the     *)
(* last text that was sent.                                                 *)
SentIsThere ==
    step = "mark" =>
        \A r \in Sent : r[3] \in accepted[r[2]] /\ platform[r[2]] = Last(SentOf(r[2]))[3]

(* A steady row was given once and is behind the position, or is still to   *)
(* be given: in the page being filled, or before the position.              *)
Ahead(place, i) == Before(place, <<seq[i], i>>)

SteadyOwed(i) ==
    /\ i \notin blocked /\ got[i] \in {0, 1} /\ (got[i] = 0 => i \in dirty \/ step = "end")
    /\ step = "query" => IF got[i] = 1 THEN ~Ahead(after, i) /\ Row(i) \notin page
                                       ELSE Ahead(after, i) \/ Row(i) \in page
    /\ step \in {"send", "mark"} =>
          IF got[i] = 1 THEN Cardinality(given) >= LIMIT => ~Ahead(Last(given), i)
                        ELSE Cardinality(given) >= LIMIT /\ Ahead(Last(given), i)
    /\ step = "end" /\ Cardinality(given) < LIMIT => got[i] = 1

PushIInv ==
    /\ PushTypeOK /\ NumbersAgree /\ PagesHold /\ SentIsThere /\ SyncedIsCurrent
    /\ \A i \in steady : SteadyOwed(i)
=============================================================================
