----------------------------- MODULE LiveStores -----------------------------
(***************************************************************************)
(* trw_memory/_live_stores.py: how the SQLite connections of one process   *)
(* and its other descriptors on the same files coexist.  POSIX locks       *)
(* belong to the process and the inode, so close() on ANY descriptor of a  *)
(* file drops the locks a live connection has on it.  The registry counts  *)
(* connections per store inode, leases the inode of a plain reader, parks  *)
(* a reader descriptor that turned out to be a live store's, and defers a  *)
(* close under a SQLite read lock.  Each FD_LOCK section is one action.    *)
(* Files are inodes; a name swapped between a check and the open shows as  *)
(* a reader that opens another inode than the one it checked.              *)
(***************************************************************************)
EXTENDS Integers, FiniteSets

CONSTANTS
    Store,      \* inodes of store files
    Side,       \* inodes of their sidecars (-wal, -shm)
    SideOf,     \* store inode -> sidecar inode (it exists beforehand)
    Conn,       \* SQLite connections
    ConnAt,     \* connection -> the store it opens
    Fd,         \* reader descriptors, each used once
    FdAt,       \* descriptor -> the inode it names
    MAX_PARKED

Inode == Store \cup Side

ASSUME LiveStoresAssumption ==
    /\ IsFiniteSet(Conn) /\ IsFiniteSet(Fd)
    /\ Store \cap Side = {}
    /\ SideOf \in [Store -> Side]
    /\ ConnAt \in [Conn -> Store]
    /\ FdAt \in [Fd -> Inode]
    /\ MAX_PARKED \in Nat

VARIABLES
    conn,       \* connection -> none, waiting, open, wal, closing, collected
    open,       \* _OPEN: store -> open_connections (0: no entry)
    fd,         \* descriptor -> none, leased, byhand, deferred, parked, closed
    readLock,   \* _READ_LOCKS: inode -> holders
    holder,     \* descriptors inside sqlite_read_lock
    klocks      \* inodes the kernel has a lock of this process on

vars == <<conn, open, fd, readLock, holder, klocks>>

Init ==
    /\ conn = [c \in Conn |-> "none"]
    /\ open = [s \in Store |-> 0]
    /\ fd = [f \in Fd |-> "none"]
    /\ readLock = [i \in Inode |-> 0]
    /\ holder = {}
    /\ klocks = {}

-----------------------------------------------------------------------------
(* The locks left when the descriptors fs are closed. *)
AfterClose(fs) == klocks \ {FdAt[f] : f \in fs}

(* SQLite itself: the stores and sidecars with an open connection. *)
Connected(s) == {c \in Conn : ConnAt[c] = s /\ conn[c] \in {"open", "wal"}}

(* _live_identities: the open stores and their sidecars; a name whose       *)
(* sidecar is not recorded yet is probed before every answer.               *)
LiveIdentities(o) ==
    {s \in Store : o[s] > 0} \cup {SideOf[s] : s \in {t \in Store : o[t] > 0}}

(* Mutant: a lease closed by hand is never found stale. *)
LeasesKeptForever(i) == {f \in Fd : FdAt[f] = i /\ fd[f] \in {"leased", "deferred", "byhand"}}

(* _live_leases: descriptors closed by hand are dropped when looked at. *)
LiveLeases(i) == {f \in Fd : FdAt[f] = i /\ fd[f] \in {"leased", "deferred"}}

DropStale(i) == [f \in Fd |-> IF FdAt[f] = i /\ fd[f] = "byhand" THEN "closed" ELSE fd[f]]

(* The registry after the counts of the connections cs are dropped: a store *)
(* without connections leaves _OPEN, and parked descriptors on an inode     *)
(* that is not live any more are closed (_apply_release, _close_unparked).  *)
Dropped(cs) == [s \in Store |-> open[s] - Cardinality({c \in cs : ConnAt[c] = s})]

Unparked(o) == {f \in Fd : fd[f] = "parked" /\ FdAt[f] \notin LiveIdentities(o)}

Finalized == {c \in Conn : conn[c] = "collected"}

(***************************************************************************)
(* _locked(): FD_LOCK is held and every collected connection's release is  *)
(* applied before the registry is read.  The operations below say what     *)
(* they do to a drained registry; this action is the drain itself, which   *)
(* is why each of them requires it.                                        *)
(***************************************************************************)
Drain ==
    LET o == Dropped(Finalized) IN
    /\ Finalized # {}
    /\ conn' = [c \in Conn |-> IF c \in Finalized THEN "none" ELSE conn[c]]
    /\ open' = o
    /\ fd' = [f \in Fd |-> IF f \in Unparked(o) THEN "closed" ELSE fd[f]]
    /\ klocks' = AfterClose(Unparked(o))
    /\ UNCHANGED <<readLock, holder>>

Locked == Finalized = {}

-----------------------------------------------------------------------------
(* Connections *)

(* connect_registered is called: from here it waits for the store's leases. *)
Wait(c) ==
    /\ conn[c] = "none"
    /\ conn' = [conn EXCEPT ![c] = "waiting"]
    /\ UNCHANGED <<open, fd, readLock, holder, klocks>>

(* _connect_counted: only once no reader leases the store's inode. *)
Connect(c) ==
    LET s == ConnAt[c] IN
    /\ conn[c] = "waiting" /\ Locked
    /\ LiveLeases(s) = {}
    /\ conn' = [conn EXCEPT ![c] = "open"]
    /\ open' = [open EXCEPT ![s] = @ + 1]
    /\ fd' = DropStale(s)
    /\ klocks' = klocks \cup {s}
    /\ UNCHANGED <<readLock, holder>>

(* The connection enters WAL mode and takes its first read; SQLite locks    *)
(* the -shm, whose inode is live from the connect on.                       *)
EnterWal(c) ==
    LET s == ConnAt[c] IN
    /\ conn[c] = "open" /\ Locked
    /\ conn' = [conn EXCEPT ![c] = "wal"]
    /\ klocks' = klocks \cup {SideOf[s]}
    /\ UNCHANGED <<open, fd, readLock, holder>>

(* SQLite's side of an end: the last connection to a store gives up its     *)
(* locks on the store and the sidecar; SQLite itself closes nothing before. *)
SQLiteDrops(c) ==
    LET s == ConnAt[c] IN
    IF Connected(s) \ {c} = {} THEN klocks \ {s, SideOf[s]} ELSE klocks

(* close(): the driver closes first; the count is released after. *)
CloseDriver(c) ==
    /\ conn[c] \in {"open", "wal"}
    /\ conn' = [conn EXCEPT ![c] = "closing"]
    /\ klocks' = SQLiteDrops(c)
    /\ UNCHANGED <<open, fd, readLock, holder>>

Release(c) ==
    LET o == Dropped({c}) IN
    /\ conn[c] = "closing" /\ Locked
    /\ conn' = [conn EXCEPT ![c] = "none"]
    /\ open' = o
    /\ fd' = [f \in Fd |-> IF f \in Unparked(o) THEN "closed" ELSE fd[f]]
    /\ klocks' = AfterClose(Unparked(o))
    /\ UNCHANGED <<readLock, holder>>

(* The garbage collector takes a connection: its finalizer only queues. *)
Collect(c) ==
    /\ conn[c] \in {"open", "wal"}
    /\ conn' = [conn EXCEPT ![c] = "collected"]
    /\ klocks' = SQLiteDrops(c)
    /\ UNCHANGED <<open, fd, readLock, holder>>

-----------------------------------------------------------------------------
(* Readers *)

(***************************************************************************)
(* open_component_at: the name check, the open and the admission are one   *)
(* FD_LOCK section.  The name checked named inode i; the descriptor is on  *)
(* FdAt[f], which is another inode when the name was swapped in between.   *)
(***************************************************************************)
KnownLive(i) ==
    \/ Cardinality({f \in Fd : fd[f] = "parked"}) >= MAX_PARKED
    \/ i \in LiveIdentities(open)

(* Mutant: every descriptor on a live inode is leased like any other. *)
OpenLeased(f, i) ==
    /\ fd[f] = "none" /\ Locked
    /\ fd' = [fd EXCEPT ![f] = "leased"]
    /\ UNCHANGED <<conn, open, readLock, holder, klocks>>

OpenReader(f, i) ==
    /\ fd[f] = "none" /\ Locked
    /\ ~KnownLive(i)
    /\ fd' = [fd EXCEPT ![f] = IF FdAt[f] \in LiveIdentities(open) THEN "parked" ELSE "leased"]
    /\ UNCHANGED <<conn, open, readLock, holder, klocks>>

(* close_reader_fd: deferred while the inode is read-locked. *)
CloseReader(f) ==
    /\ fd[f] = "leased" /\ f \notin holder /\ Locked
    /\ IF readLock[FdAt[f]] > 0
       THEN fd' = [fd EXCEPT ![f] = "deferred"] /\ UNCHANGED klocks
       ELSE fd' = [fd EXCEPT ![f] = "closed"] /\ klocks' = AfterClose({f})
    /\ UNCHANGED <<conn, open, readLock, holder>>

(* A reader closes its descriptor itself: the lease stays in the table. *)
CloseByHand(f) ==
    /\ fd[f] = "leased" /\ readLock[FdAt[f]] = 0
    /\ fd' = [fd EXCEPT ![f] = "byhand"]
    /\ klocks' = AfterClose({f})
    /\ UNCHANGED <<conn, open, readLock, holder>>

(* sqlite_read_lock on an admitted descriptor of a database file. *)
ReadLock(f) ==
    LET i == FdAt[f] IN
    /\ fd[f] = "leased" /\ f \notin holder /\ i \in Store /\ Locked
    /\ holder' = holder \cup {f}
    /\ readLock' = [readLock EXCEPT ![i] = @ + 1]
    /\ klocks' = klocks \cup {i}
    /\ UNCHANGED <<conn, open, fd>>

ReadUnlock(f) ==
    LET i == FdAt[f]
        last == readLock[i] = 1
        due == IF last THEN {g \in Fd : FdAt[g] = i /\ fd[g] = "deferred"} ELSE {}
    IN  /\ f \in holder /\ Locked
        /\ holder' = holder \ {f}
        /\ readLock' = [readLock EXCEPT ![i] = @ - 1]
        /\ fd' = [g \in Fd |-> IF g \in due THEN "closed" ELSE fd[g]]
        /\ klocks' = IF last THEN klocks \ {i} ELSE klocks
        /\ UNCHANGED <<conn, open>>

-----------------------------------------------------------------------------
Next ==
    \/ Drain
    \/ \E c \in Conn :
          \/ Wait(c) \/ Connect(c) \/ EnterWal(c)
          \/ CloseDriver(c) \/ Release(c) \/ Collect(c)
    \/ \E f \in Fd :
          \/ \E i \in Inode : OpenReader(f, i)
          \/ CloseReader(f) \/ CloseByHand(f) \/ ReadLock(f) \/ ReadUnlock(f)

Spec == Init /\ [][Next]_vars

(* Readers close and unlock in finally clauses, and a waiting connect looks *)
(* again every half second.  Strong fairness only bridges the drain, which  *)
(* in the code is part of the same FD_LOCK section, and a reader that locks *)
(* and unlocks before it closes.                                            *)
FairSpec ==
    /\ Spec
    /\ WF_vars(Drain)
    /\ \A c \in Conn : SF_vars(Connect(c)) /\ SF_vars(Release(c))
    /\ \A f \in Fd : SF_vars(CloseReader(f)) /\ SF_vars(ReadUnlock(f))

-----------------------------------------------------------------------------
(* Properties *)

TypeOK ==
    /\ conn \in [Conn -> {"none", "waiting", "open", "wal", "closing", "collected"}]
    /\ open \in [Store -> Nat]
    /\ fd \in [Fd -> {"none", "leased", "byhand", "deferred", "parked", "closed"}]
    /\ readLock \in [Inode -> Nat]
    /\ holder \subseteq Fd
    /\ klocks \subseteq Inode

(* No descriptor of this process is ever closed on a store with an open     *)
(* connection: the kernel keeps SQLite's locks from connect to close        *)
(* (rule C15 of the module docstring).                                      *)
StoreLocksKept == \A c \in Conn : conn[c] \in {"open", "wal"} => ConnAt[c] \in klocks

(* A snapshot reader keeps SQLite's SHARED lock until the last holder of    *)
(* the inode lets go, whoever else closes a descriptor on the file.         *)
ReadLocksKept == \A f \in holder : FdAt[f] \in klocks

(* Both: no close by this process costs a store or a reader its locks. *)
LocksKept == StoreLocksKept /\ ReadLocksKept

-----------------------------------------------------------------------------
(* The inductive invariant: the registry's counts are true, a lease and a   *)
(* connection are never on one store, a lock holder keeps its descriptor,   *)
(* and a parked descriptor is one of a live file.                           *)

Counted(s) == {c \in Conn : ConnAt[c] = s /\ conn[c] \in {"open", "wal", "closing", "collected"}}

HoldersAt(i) == {f \in holder : FdAt[f] = i}

CountsRight == \A s \in Store : open[s] = Cardinality(Counted(s))

ReadersRight == \A i \in Inode : readLock[i] = Cardinality(HoldersAt(i))

HoldersLeased == \A f \in holder : fd[f] = "leased" /\ FdAt[f] \in Store

LeaseOrOpen ==
    \A f \in Fd : fd[f] \in {"leased", "deferred"} /\ FdAt[f] \in Store => open[FdAt[f]] = 0

ParkedLive == \A f \in Fd : fd[f] = "parked" => FdAt[f] \in LiveIdentities(open)

IInv ==
    /\ TypeOK
    /\ CountsRight /\ ReadersRight
    /\ HoldersLeased /\ LeaseOrOpen /\ ParkedLive
    /\ LocksKept

-----------------------------------------------------------------------------
(* A connect waits for readers but not for ever: a lease ends, or is found  *)
(* stale when its descriptor was closed by hand.                            *)
ConnectEnds == \A c \in Conn : conn[c] = "waiting" ~> conn[c] = "open"
=============================================================================
