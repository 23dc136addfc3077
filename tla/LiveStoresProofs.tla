-------------------------- MODULE LiveStoresProofs --------------------------
(***************************************************************************)
(* Proofs about what a process may do to the store files it has open.      *)
(*                                                                         *)
(* LiveStores, for any stores, connections and readers: the inductive      *)
(* invariant IInv, and that no close of a descriptor drops a lock that a   *)
(* connection or a read lock relies on.                                    *)
(*                                                                         *)
(* StoreRecovery, for any processes, rows, damage and kills: the inductive *)
(* invariant RecoveryIInv, step by step, and that no open, recovery,       *)
(* migration, snapshot or restore loses a committed row outside the        *)
(* windows the module names.                                               *)
(***************************************************************************)
EXTENDS LiveStores, StoreRecovery, FiniteSetTheorems, TLAPS

(* Sets of connections and of readers are finite; adding and removing one   *)
(* counts by one.                                                           *)
LEMMA Counting ==
    ASSUME NEW S, S \subseteq Conn \/ S \subseteq Fd
    PROVE  /\ IsFiniteSet(S)
           /\ Cardinality(S) \in Nat
           /\ Cardinality(S) = 0 <=> S = {}
           /\ \A x : x \notin S => Cardinality(S \cup {x}) = Cardinality(S) + 1
           /\ \A x \in S : Cardinality(S \ {x}) = Cardinality(S) - 1
  <1>1. IsFiniteSet(S)
    BY FS_Subset, LiveStoresAssumption
  <1>2. Cardinality(S) \in Nat
    BY <1>1, FS_CardinalityType
  <1>3. Cardinality(S) = 0 <=> S = {}
    BY <1>1, FS_EmptySet
  <1>4. \A x : x \notin S => Cardinality(S \cup {x}) = Cardinality(S) + 1
    BY <1>1, FS_AddElement
  <1>5. \A x \in S : Cardinality(S \ {x}) = Cardinality(S) - 1
    BY <1>1, FS_RemoveElement
  <1> QED
    BY <1>1, <1>2, <1>3, <1>4, <1>5

(* A store is no sidecar, and its sidecar is an inode. *)
LEMMA Places ==
    /\ \A s \in Store : s \in Inode /\ SideOf[s] \in Inode /\ SideOf[s] \notin Store
    /\ \A c \in Conn : ConnAt[c] \in Store
    /\ \A f \in Fd : FdAt[f] \in Inode
  BY LiveStoresAssumption DEF Inode

(* A store with a connection is one of the live identities. *)
LEMMA OpenIsLive ==
    ASSUME IInv, NEW c \in Conn, conn[c] \in {"open", "wal", "closing", "collected"}
    PROVE  open[ConnAt[c]] > 0
  <1>1. ConnAt[c] \in Store /\ c \in Counted(ConnAt[c])
    BY Places DEF Counted
  <1>2. Counted(ConnAt[c]) \subseteq Conn
    BY DEF Counted
  <1>3. Cardinality(Counted(ConnAt[c])) # 0 /\ Cardinality(Counted(ConnAt[c])) \in Nat
    BY <1>1, <1>2, Counting
  <1> QED
    BY <1>1, <1>3 DEF IInv, CountsRight

(* A read lock is held on a store without connections. *)
LEMMA HolderAlone ==
    ASSUME IInv, NEW f \in holder
    PROVE  /\ f \in Fd /\ FdAt[f] \in Store /\ open[FdAt[f]] = 0
           /\ readLock[FdAt[f]] > 0
  <1>1. f \in Fd /\ FdAt[f] \in Store /\ open[FdAt[f]] = 0
    BY DEF IInv, TypeOK, HoldersLeased, LeaseOrOpen
  <1>2. HoldersAt(FdAt[f]) \subseteq Fd /\ f \in HoldersAt(FdAt[f])
    BY DEF HoldersAt, IInv, TypeOK
  <1>3. Cardinality(HoldersAt(FdAt[f])) \in Nat \ {0}
    BY <1>2, Counting
  <1> QED
    BY <1>1, <1>3, Places DEF IInv, ReadersRight

LEMMA InitKeeps == Init => IInv
  <1> SUFFICES ASSUME Init PROVE IInv
    OBVIOUS
  <1>1. TypeOK
    BY DEF Init, TypeOK
  <1>2. \A s \in Store : Counted(s) = {}
    BY DEF Init, Counted
  <1>3. \A i \in Inode : HoldersAt(i) = {}
    BY DEF Init, HoldersAt
  <1>4. CountsRight /\ ReadersRight
    BY <1>2, <1>3, FS_EmptySet DEF Init, CountsRight, ReadersRight
  <1> QED
    BY <1>1, <1>4 DEF Init, IInv, HoldersLeased, LeaseOrOpen, ParkedLive, LocksKept, StoreLocksKept, ReadLocksKept

(***************************************************************************)
(* Connections                                                             *)
(***************************************************************************)
LEMMA WaitKeeps ==
    ASSUME IInv, NEW c \in Conn, Wait(c)
    PROVE  IInv'
  <1> USE DEF IInv, Wait
  <1>1. TypeOK'
    BY DEF TypeOK
  <1>2. \A s \in Store : Counted(s)' = Counted(s)
    BY DEF Counted, TypeOK
  <1>3. CountsRight'
    BY <1>2 DEF CountsRight
  <1>4. ReadersRight'
    BY DEF ReadersRight, HoldersAt
  <1>5. LocksKept'
    BY DEF LocksKept, StoreLocksKept, ReadLocksKept, TypeOK
  <1> QED
    BY <1>1, <1>3, <1>4, <1>5 DEF HoldersLeased, LeaseOrOpen, ParkedLive, LiveIdentities

(* A connect finds no lease on its store, so no read lock either. *)
LEMMA ConnectKeeps ==
    ASSUME IInv, NEW c \in Conn, Connect(c)
    PROVE  IInv'
  <1> DEFINE s == ConnAt[c]
  <1> USE DEF IInv
  <1>s. s \in Store
    BY Places
  <1>1. TypeOK'
    BY <1>s, Places DEF Connect, TypeOK, DropStale
  <1>2. CountsRight'
    <2>1. Counted(s)' = Counted(s) \cup {c} /\ c \notin Counted(s)
      BY DEF Connect, Counted, TypeOK
    <2>2. \A t \in Store \ {s} : Counted(t)' = Counted(t)
      BY DEF Connect, Counted, TypeOK
    <2>3. Counted(s) \subseteq Conn
      BY DEF Counted
    <2>4. Cardinality(Counted(s)') = Cardinality(Counted(s)) + 1
      BY <2>1, <2>3, Counting
    <2> QED
      BY <1>s, <2>2, <2>4 DEF Connect, CountsRight, TypeOK
  <1>3. ReadersRight'
    BY DEF Connect, ReadersRight, HoldersAt
  <1>4. \A f \in Fd : FdAt[f] = s => fd[f] \notin {"leased", "deferred"}
    BY DEF Connect, LiveLeases
  <1>5. \A f \in holder : FdAt[f] # s
    BY <1>4 DEF HoldersLeased, TypeOK
  <1>6. HoldersLeased'
    BY <1>5 DEF Connect, DropStale, HoldersLeased, TypeOK
  <1>7. LeaseOrOpen'
    BY <1>s, <1>4 DEF Connect, DropStale, LeaseOrOpen, TypeOK
  <1>8. ParkedLive'
    <2>1. LiveIdentities(open) \subseteq LiveIdentities(open')
      BY <1>s DEF Connect, LiveIdentities, TypeOK
    <2> QED
      BY <2>1 DEF Connect, DropStale, ParkedLive
  <1>9. LocksKept'
    BY DEF Connect, LocksKept, StoreLocksKept, ReadLocksKept, TypeOK
  <1> QED
    BY <1>1, <1>2, <1>3, <1>6, <1>7, <1>8, <1>9

LEMMA EnterWalKeeps ==
    ASSUME IInv, NEW c \in Conn, EnterWal(c)
    PROVE  IInv'
  <1> USE DEF IInv, EnterWal
  <1>1. TypeOK'
    BY Places DEF TypeOK
  <1>2. \A s \in Store : Counted(s)' = Counted(s)
    BY DEF Counted, TypeOK
  <1>3. CountsRight'
    BY <1>2 DEF CountsRight
  <1>4. ReadersRight'
    BY DEF ReadersRight, HoldersAt
  <1>5. LocksKept'
    BY DEF LocksKept, StoreLocksKept, ReadLocksKept, TypeOK
  <1> QED
    BY <1>1, <1>3, <1>4, <1>5 DEF HoldersLeased, LeaseOrOpen, ParkedLive, LiveIdentities

(* SQLite gives up its locks on a store: no connection is left there, and   *)
(* no read lock was.                                                        *)
LEMMA EndKeeps ==
    ASSUME IInv, NEW c \in Conn, CloseDriver(c) \/ Collect(c)
    PROVE  IInv'
  <1> DEFINE s == ConnAt[c]
  <1> USE DEF IInv
  <1>0. PICK to \in {"closing", "collected"} :
          /\ conn[c] \in {"open", "wal"}
          /\ conn' = [conn EXCEPT ![c] = to]
          /\ klocks' = SQLiteDrops(c)
          /\ UNCHANGED <<open, fd, readLock, holder>>
    BY DEF CloseDriver, Collect
  <1>s. s \in Store /\ open[s] > 0
    BY <1>0, Places, OpenIsLive
  <1>1. TypeOK'
    BY <1>0 DEF TypeOK, SQLiteDrops
  <1>2. \A t \in Store : Counted(t)' = Counted(t)
    BY <1>0 DEF Counted, TypeOK
  <1>3. CountsRight'
    BY <1>0, <1>2 DEF CountsRight
  <1>4. ReadersRight'
    BY <1>0 DEF ReadersRight, HoldersAt
  <1>5. StoreLocksKept'
    <2> SUFFICES ASSUME NEW d \in Conn, conn'[d] \in {"open", "wal"}
                 PROVE  ConnAt[d] \in klocks'
      BY DEF StoreLocksKept
    <2>1. d # c /\ conn[d] \in {"open", "wal"} /\ ConnAt[d] \in klocks
      BY <1>0 DEF TypeOK, LocksKept, StoreLocksKept
    <2>2. CASE ConnAt[d] = s
      <3>1. d \in Connected(s) \ {c}
        BY <2>1, <2>2 DEF Connected
      <3> QED
        BY <1>0, <2>1, <3>1 DEF SQLiteDrops
    <2>3. CASE ConnAt[d] # s
      BY <1>0, <1>s, <2>1, <2>3, Places DEF SQLiteDrops
    <2> QED
      BY <2>2, <2>3
  <1>6. ReadLocksKept'
    <2> SUFFICES ASSUME NEW f \in holder PROVE FdAt[f] \in klocks'
      BY <1>0 DEF ReadLocksKept
    <2>1. FdAt[f] \in Store /\ FdAt[f] # s
      BY <1>s, HolderAlone
    <2> QED
      BY <1>0, <1>s, <2>1, Places DEF SQLiteDrops, LocksKept, ReadLocksKept
  <1> QED
    BY <1>0, <1>1, <1>3, <1>4, <1>5, <1>6
    DEF HoldersLeased, LeaseOrOpen, ParkedLive, LiveIdentities, LocksKept

(* The counts of ended connections are dropped, by a release or by the      *)
(* drain of the finalizers' queue, and what was parked on a file that is no *)
(* longer live is closed: nothing there is relied on.                       *)
LEMMA DropKeeps ==
    ASSUME IInv,
           NEW cs \in SUBSET Conn, \A c \in cs : conn[c] \in {"closing", "collected"},
           conn' = [c \in Conn |-> IF c \in cs THEN "none" ELSE conn[c]],
           open' = Dropped(cs),
           fd' = [f \in Fd |-> IF f \in Unparked(Dropped(cs)) THEN "closed" ELSE fd[f]],
           klocks' = AfterClose(Unparked(Dropped(cs))),
           UNCHANGED <<readLock, holder>>
    PROVE  IInv'
  <1> DEFINE At(s) == {c \in cs : ConnAt[c] = s}
  <1> USE DEF IInv
  <1>1. \A s \in Store : Counted(s)' = Counted(s) \ At(s) /\ At(s) \subseteq Counted(s)
    BY DEF Counted, TypeOK
  <1>2. \A s \in Store : /\ Cardinality(Counted(s)') = Cardinality(Counted(s)) - Cardinality(At(s))
                         /\ Cardinality(Counted(s)') \in Nat /\ Cardinality(At(s)) \in Nat
    <2> TAKE s \in Store
    <2>1. /\ Counted(s) \subseteq Conn /\ At(s) \subseteq Conn /\ Counted(s)' \subseteq Conn
          /\ Counted(s) \cap At(s) = At(s)
      BY <1>1 DEF Counted
    <2>2. IsFiniteSet(Counted(s)) /\ Cardinality(Counted(s)') \in Nat /\ Cardinality(At(s)) \in Nat
      BY <2>1, Counting
    <2>3. Cardinality(Counted(s) \ At(s)) = Cardinality(Counted(s)) - Cardinality(Counted(s) \cap At(s))
      BY <2>2, FS_Difference
    <2> QED
      BY <1>1, <2>1, <2>2, <2>3
  <1>3. \A s \in Store : open'[s] = Cardinality(Counted(s)') /\ open'[s] <= open[s] /\ open'[s] \in Nat
    BY <1>2 DEF Dropped, CountsRight, TypeOK
  <1>o. open' = [s \in Store |-> open'[s]]
    BY DEF Dropped
  <1>4. CountsRight'
    BY <1>3 DEF CountsRight
  <1>5. TypeOK'
    BY <1>3, <1>o DEF TypeOK, AfterClose
  <1>6. ReadersRight'
    BY DEF ReadersRight, HoldersAt
  <1>7. \A f \in Fd : fd[f] # "parked" => fd'[f] = fd[f]
    BY DEF Unparked
  <1>8. HoldersLeased'
    BY <1>7 DEF HoldersLeased, TypeOK
  <1>9. LeaseOrOpen'
    <2>1. \A f \in Fd : fd'[f] \in {"leased", "deferred"} => fd[f] = fd'[f]
      BY DEF Unparked
    <2> QED
      BY <1>3, <2>1 DEF LeaseOrOpen, TypeOK
  <1>10. ParkedLive'
    BY DEF ParkedLive, Unparked
  <1>11. StoreLocksKept'
    <2> SUFFICES ASSUME NEW d \in Conn, conn'[d] \in {"open", "wal"}
                 PROVE  ConnAt[d] \in klocks'
      BY DEF StoreLocksKept
    <2>1. conn[d] \in {"open", "wal"} /\ ConnAt[d] \in klocks /\ ConnAt[d] \in Store
      BY Places DEF LocksKept, StoreLocksKept
    <2>2. d \in Counted(ConnAt[d])'
      BY DEF Counted
    <2>3. Counted(ConnAt[d])' \subseteq Conn
      BY DEF Counted
    <2>4. open'[ConnAt[d]] > 0
      BY <1>3, <2>1, <2>2, <2>3, Counting
    <2>5. ConnAt[d] \in LiveIdentities(Dropped(cs))
      BY <2>1, <2>4 DEF LiveIdentities
    <2> QED
      BY <2>1, <2>5 DEF AfterClose, Unparked
  <1>12. ReadLocksKept'
    <2> SUFFICES ASSUME NEW g \in holder PROVE FdAt[g] \in klocks'
      BY DEF ReadLocksKept
    <2>1. FdAt[g] \in Store /\ open[FdAt[g]] = 0
      BY HolderAlone
    <2>2. FdAt[g] \notin LiveIdentities(open)
      BY <2>1, Places DEF LiveIdentities
    <2>3. \A f \in Unparked(Dropped(cs)) : FdAt[f] # FdAt[g]
      BY <2>2 DEF Unparked, ParkedLive
    <2> QED
      BY <2>3 DEF AfterClose, LocksKept, ReadLocksKept
  <1> QED
    BY <1>4, <1>5, <1>6, <1>8, <1>9, <1>10, <1>11, <1>12 DEF LocksKept

LEMMA ReleaseKeeps ==
    ASSUME IInv, NEW c \in Conn, Release(c)
    PROVE  IInv'
  <1>1. conn[c] = "closing" /\ conn' = [d \in Conn |-> IF d \in {c} THEN "none" ELSE conn[d]]
    BY DEF Release, IInv, TypeOK
  <1> QED
    BY <1>1, DropKeeps DEF Release

LEMMA DrainKeeps ==
    ASSUME IInv, Drain
    PROVE  IInv'
  <1>1. Finalized \in SUBSET Conn /\ \A c \in Finalized : conn[c] = "collected"
    BY DEF Finalized
  <1> QED
    BY <1>1, DropKeeps DEF Drain

(***************************************************************************)
(* Readers                                                                 *)
(***************************************************************************)

(* A descriptor that turns out to be a live store's is parked, not leased. *)
LEMMA OpenReaderKeeps ==
    ASSUME IInv, NEW f \in Fd, NEW i \in Inode, OpenReader(f, i)
    PROVE  IInv'
  <1> USE DEF IInv, OpenReader
  <1>1. TypeOK'
    BY DEF TypeOK
  <1>2. CountsRight' /\ ReadersRight'
    BY DEF CountsRight, ReadersRight, Counted, HoldersAt
  <1>3. HoldersLeased'
    BY DEF HoldersLeased, TypeOK
  <1>4. LeaseOrOpen'
    BY DEF LeaseOrOpen, LiveIdentities, TypeOK
  <1>5. ParkedLive'
    BY DEF ParkedLive, TypeOK
  <1> QED
    BY <1>1, <1>2, <1>3, <1>4, <1>5 DEF LocksKept, StoreLocksKept, ReadLocksKept

(* A leased descriptor that is really closed is on a file without           *)
(* connections, and no read lock is held there.                             *)
LEMMA CloseKeeps ==
    ASSUME IInv, NEW f \in Fd, CloseReader(f) \/ CloseByHand(f)
    PROVE  IInv'
  <1> USE DEF IInv
  <1>0. PICK to \in {"closed", "byhand", "deferred"} :
          /\ fd[f] = "leased" /\ f \notin holder
          /\ fd' = [fd EXCEPT ![f] = to]
          /\ IF to = "deferred" THEN klocks' = klocks
             ELSE readLock[FdAt[f]] = 0 /\ klocks' = AfterClose({f})
          /\ UNCHANGED <<conn, open, readLock, holder>>
    <2>1. CASE CloseReader(f)
      BY <2>1, Places DEF CloseReader, TypeOK
    <2>2. CASE CloseByHand(f)
      <3>1. f \notin holder
        BY <2>2, HolderAlone DEF CloseByHand
      <3> QED
        BY <2>2, <3>1 DEF CloseByHand
    <2> QED
      BY <2>1, <2>2
  <1>1. TypeOK'
    BY <1>0 DEF TypeOK, AfterClose
  <1>2. CountsRight' /\ ReadersRight'
    BY <1>0 DEF CountsRight, ReadersRight, Counted, HoldersAt
  <1>3. HoldersLeased'
    BY <1>0 DEF HoldersLeased, TypeOK
  <1>4. LeaseOrOpen'
    BY <1>0 DEF LeaseOrOpen, TypeOK
  <1>5. ParkedLive'
    BY <1>0 DEF ParkedLive, TypeOK
  <1>6. StoreLocksKept'
    <2> SUFFICES ASSUME NEW d \in Conn, conn[d] \in {"open", "wal"}
                 PROVE  ConnAt[d] \in klocks'
      BY <1>0 DEF StoreLocksKept
    <2>1. ConnAt[d] \in Store /\ open[ConnAt[d]] > 0
      BY OpenIsLive, Places
    <2>2. ConnAt[d] # FdAt[f]
      BY <1>0, <2>1 DEF LeaseOrOpen
    <2> QED
      BY <1>0, <2>2 DEF AfterClose, LocksKept, StoreLocksKept
  <1>7. ReadLocksKept'
    <2> SUFFICES ASSUME NEW g \in holder PROVE FdAt[g] \in klocks'
      BY <1>0 DEF ReadLocksKept
    <2>1. readLock[FdAt[g]] > 0
      BY HolderAlone
    <2> QED
      BY <1>0, <2>1 DEF AfterClose, LocksKept, ReadLocksKept
  <1> QED
    BY <1>1, <1>2, <1>3, <1>4, <1>5, <1>6, <1>7 DEF LocksKept

LEMMA ReadLockKeeps ==
    ASSUME IInv, NEW f \in Fd, ReadLock(f)
    PROVE  IInv'
  <1> DEFINE i == FdAt[f]
  <1> USE DEF IInv, ReadLock
  <1>i. i \in Inode
    BY Places
  <1>1. TypeOK'
    BY <1>i DEF TypeOK
  <1>2. CountsRight'
    BY DEF CountsRight, Counted
  <1>3. ReadersRight'
    <2>1. HoldersAt(i)' = HoldersAt(i) \cup {f} /\ f \notin HoldersAt(i) /\ HoldersAt(i) \subseteq Fd
      BY DEF HoldersAt, TypeOK
    <2>2. \A j \in Inode \ {i} : HoldersAt(j)' = HoldersAt(j)
      BY DEF HoldersAt
    <2>3. Cardinality(HoldersAt(i)') = Cardinality(HoldersAt(i)) + 1
      BY <2>1, Counting
    <2> QED
      BY <1>i, <2>2, <2>3 DEF ReadersRight, TypeOK
  <1>4. HoldersLeased'
    BY DEF HoldersLeased
  <1> QED
    BY <1>1, <1>2, <1>3, <1>4
    DEF LeaseOrOpen, ParkedLive, LiveIdentities, LocksKept, StoreLocksKept, ReadLocksKept

(* The last holder of an inode lets go of its lock: the others hold locks   *)
(* of other inodes, and no connection is there.                             *)
LEMMA ReadUnlockKeeps ==
    ASSUME IInv, NEW f \in Fd, ReadUnlock(f)
    PROVE  IInv'
  <1> DEFINE i == FdAt[f]
  <1> USE DEF IInv
  <1>i. i \in Inode /\ i \in Store /\ open[i] = 0 /\ readLock[i] > 0 /\ f \in holder
    BY HolderAlone, Places DEF ReadUnlock
  <1>1. TypeOK'
    BY <1>i DEF ReadUnlock, TypeOK
  <1>2. CountsRight'
    BY DEF ReadUnlock, CountsRight, Counted
  <1>3. /\ HoldersAt(i)' = HoldersAt(i) \ {f} /\ f \in HoldersAt(i) /\ HoldersAt(i) \subseteq Fd
        /\ \A j \in Inode \ {i} : HoldersAt(j)' = HoldersAt(j)
    BY <1>i DEF ReadUnlock, HoldersAt, TypeOK
  <1>4. Cardinality(HoldersAt(i)') = Cardinality(HoldersAt(i)) - 1
    BY <1>3, Counting
  <1>5. ReadersRight'
    BY <1>i, <1>3, <1>4 DEF ReadUnlock, ReadersRight, TypeOK
  <1>6. readLock[i] = 1 => HoldersAt(i)' = {}
    <2>1. HoldersAt(i)' \subseteq Fd
      BY <1>3
    <2>2. readLock[i] = 1 => Cardinality(HoldersAt(i)') = 0
      BY <1>i, <1>4 DEF ReadersRight
    <2> QED
      BY <2>1, <2>2, Counting
  <1>7. \A g \in Fd : fd[g] \in {"leased", "parked"} => fd'[g] = fd[g]
    BY DEF ReadUnlock
  <1>f. \A g \in Fd : fd'[g] \in {"leased", "parked", "deferred"} => fd'[g] = fd[g]
    BY DEF ReadUnlock
  <1>8. HoldersLeased'
    BY <1>7 DEF ReadUnlock, HoldersLeased, TypeOK
  <1>9. LeaseOrOpen' /\ ParkedLive'
    BY <1>f DEF ReadUnlock, LeaseOrOpen, ParkedLive, LiveIdentities
  <1>10. StoreLocksKept'
    <2> SUFFICES ASSUME NEW d \in Conn, conn[d] \in {"open", "wal"}
                 PROVE  ConnAt[d] \in klocks'
      BY DEF ReadUnlock, StoreLocksKept
    <2>1. ConnAt[d] # i
      BY <1>i, OpenIsLive
    <2> QED
      BY <2>1 DEF ReadUnlock, LocksKept, StoreLocksKept
  <1>11. ReadLocksKept'
    <2> SUFFICES ASSUME NEW g \in holder' PROVE FdAt[g] \in klocks'
      BY DEF ReadLocksKept
    <2>1. g \in holder /\ FdAt[g] \in klocks
      BY DEF ReadUnlock, LocksKept, ReadLocksKept
    <2>2. readLock[i] = 1 => FdAt[g] # i
      BY <1>6 DEF HoldersAt
    <2> QED
      BY <2>1, <2>2 DEF ReadUnlock
  <1> QED
    BY <1>1, <1>2, <1>5, <1>8, <1>9, <1>10, <1>11 DEF LocksKept

-----------------------------------------------------------------------------
(* The registry's counts are true, a lease and a connection are never on    *)
(* one store, and what is parked is live, in every execution.               *)
THEOREM Invariance == Spec => []IInv
  <1>1. IInv /\ [Next]_vars => IInv'
    <2> SUFFICES ASSUME IInv, [Next]_vars PROVE IInv'
      OBVIOUS
    <2>1. CASE Drain
      BY <2>1, DrainKeeps
    <2>2. ASSUME NEW c \in Conn, Wait(c) PROVE IInv'
      BY <2>2, WaitKeeps
    <2>3. ASSUME NEW c \in Conn, Connect(c) PROVE IInv'
      BY <2>3, ConnectKeeps
    <2>4. ASSUME NEW c \in Conn, EnterWal(c) PROVE IInv'
      BY <2>4, EnterWalKeeps
    <2>5. ASSUME NEW c \in Conn, CloseDriver(c) \/ Collect(c) PROVE IInv'
      BY <2>5, EndKeeps
    <2>6. ASSUME NEW c \in Conn, Release(c) PROVE IInv'
      BY <2>6, ReleaseKeeps
    <2>7. ASSUME NEW f \in Fd, NEW i \in Inode, OpenReader(f, i) PROVE IInv'
      BY <2>7, OpenReaderKeeps
    <2>8. ASSUME NEW f \in Fd, CloseReader(f) \/ CloseByHand(f) PROVE IInv'
      BY <2>8, CloseKeeps
    <2>9. ASSUME NEW f \in Fd, ReadLock(f) PROVE IInv'
      BY <2>9, ReadLockKeeps
    <2>10. ASSUME NEW f \in Fd, ReadUnlock(f) PROVE IInv'
      BY <2>10, ReadUnlockKeeps
    <2>11. CASE UNCHANGED vars
      BY <2>11 DEF vars, IInv, TypeOK, CountsRight, ReadersRight, Counted, HoldersAt, HoldersLeased,
                   LeaseOrOpen, ParkedLive, LiveIdentities, LocksKept, StoreLocksKept, ReadLocksKept
    <2> QED
      BY <2>1, <2>2, <2>3, <2>4, <2>5, <2>6, <2>7, <2>8, <2>9, <2>10, <2>11 DEF Next
  <1> QED
    BY InitKeeps, <1>1, PTL DEF Spec

(* Whatever descriptors are opened, parked, deferred and closed, and        *)
(* whichever connections are closed or collected, every open connection and *)
(* every holder of a read lock keeps its kernel lock.                       *)
THEOREM LockSafety == Spec => []LocksKept
  <1>1. IInv => LocksKept
    BY DEF IInv
  <1> QED
    BY <1>1, Invariance, PTL

-----------------------------------------------------------------------------
(* StoreRecovery: the sets of the -wal and of a rotated store. *)
Beside == [of : Nat, rows : SUBSET Row]

Rotation == [store : StoreFile, wal : SUBSET Row]

(* What the operators on files return. *)
LEMMA EmptyFiles ==
    ASSUME made \in Nat
    PROVE  /\ NoFile \in StoreFile /\ Fresh \in StoreFile /\ NoWal \in Beside /\ NoJob \in Rescue
           /\ NoFile.id = 0 /\ NoFile.rows = {} /\ NoFile.hurt = {} /\ NoFile.head /\ NoFile.ver = 0
           /\ Fresh.id = made + 1 /\ Fresh.rows = {} /\ Fresh.hurt = {} /\ Fresh.head /\ Fresh.ver = 0
           /\ NoWal.of = 0 /\ NoWal.rows = {}
           /\ NoJob.of = 0 /\ ~NoJob.owns /\ NoJob.got = {} /\ ~NoJob.refuse
           /\ Fresh # NoFile
<1>1. NoFile \in StoreFile BY DEF NoFile, StoreFile
<1>6. NoFile.id = 0 /\ NoFile.rows = {} /\ NoFile.hurt = {} /\ NoFile.head /\ NoFile.ver = 0 BY DEF NoFile
<1>2. Fresh.id = made + 1 /\ Fresh.rows = {} /\ Fresh.hurt = {} /\ Fresh.head /\ Fresh.ver = 0
  BY <1>1, <1>6 DEF StoreFile, Fresh
<1>3. Fresh \in StoreFile BY <1>1 DEF StoreFile, Fresh
<1>4. NoWal \in Beside /\ NoWal.of = 0 /\ NoWal.rows = {} BY DEF NoWal, Beside
<1>5. NoJob \in Rescue /\ NoJob.of = 0 /\ ~NoJob.owns /\ NoJob.got = {} /\ ~NoJob.refuse BY DEF NoJob, Rescue
<1>7. Fresh # NoFile BY <1>2, <1>6
<1> QED BY <1>1, <1>2, <1>3, <1>4, <1>5, <1>6, <1>7

LEMMA AtPathIs ==
    ASSUME RecoveryTypeOK
    PROVE  /\ AtPath \in StoreFile
           /\ AtPath.id = file.id /\ AtPath.rows = file.rows /\ AtPath.hurt = file.hurt /\ AtPath.ver = file.ver
           /\ AtPath.head = (file.head /\ ~(Foreign /\ file.ver > 0))
           /\ ~Foreign \/ ~(file.ver > 0) => AtPath = file
<1>1. file \in StoreFile BY DEF RecoveryTypeOK
<1>2. CASE Foreign /\ file.ver > 0
  <2>1. AtPath = [file EXCEPT !.head = FALSE] BY <1>2 DEF AtPath
  <2> QED BY <1>1, <1>2, <2>1 DEF StoreFile
<1>3. CASE ~(Foreign /\ file.ver > 0)
  <2>1. AtPath = file BY <1>3 DEF AtPath
  <2> QED BY <1>1, <1>3, <2>1 DEF StoreFile
<1> QED BY <1>2, <1>3

LEMMA BesideIs ==
    ASSUME RecoveryTypeOK
    PROVE  /\ BesidePath \in Beside
           /\ BesidePath.rows = IF Foreign THEN {} ELSE wal.rows
           /\ BesidePath.rows # {} => BesidePath.of = wal.of /\ wal.of = file.id
           /\ Foreign \equiv (wal.rows # {} /\ wal.of # file.id)
BY DEF RecoveryTypeOK, BesidePath, Beside, NoWal, Foreign

LEMMA ConnectedIs ==
    ASSUME RecoveryTypeOK
    PROVE  /\ ConnectedFile \in StoreFile
           /\ Exists => ConnectedFile = AtPath
           /\ ~Exists => ConnectedFile = Fresh /\ file = NoFile
<1>1. made \in Nat BY DEF RecoveryTypeOK
<1> QED BY <1>1, EmptyFiles, AtPathIs DEF ConnectedFile, Exists

LEMMA CheckpointedIs ==
    ASSUME RecoveryTypeOK
    PROVE  /\ Checkpointed \in StoreFile
           /\ Checkpointed.id = file.id /\ Checkpointed.ver = file.ver /\ Checkpointed.head = AtPath.head
           /\ Checkpointed.rows = file.rows \cup BesidePath.rows /\ Checkpointed.hurt = file.hurt \ BesidePath.rows
<1>1. AtPath \in StoreFile /\ AtPath.id = file.id /\ AtPath.rows = file.rows /\ AtPath.hurt = file.hurt /\ AtPath.ver = file.ver
  BY AtPathIs
<1>2. BesidePath.rows \subseteq Row BY BesideIs DEF Beside
<1> DEFINE first == [AtPath EXCEPT !.rows = @ \cup BesidePath.rows]
<1>3. first \in StoreFile /\ first.rows = AtPath.rows \cup BesidePath.rows /\ first.hurt = AtPath.hurt
      /\ first.id = AtPath.id /\ first.ver = AtPath.ver /\ first.head = AtPath.head
  BY <1>1, <1>2 DEF StoreFile
<1>4. Checkpointed = [first EXCEPT !.hurt = @ \ BesidePath.rows] BY DEF Checkpointed
<1> HIDE DEF first
<1> QED BY <1>1, <1>2, <1>3, <1>4 DEF StoreFile

LEMMA RowsAre ==
    ASSUME RecoveryTypeOK
    PROVE  /\ Rows \subseteq Row /\ Rows \subseteq file.rows \cup wal.rows
           /\ ~Foreign => Rows = IF file.head THEN (file.rows \ file.hurt) \cup wal.rows ELSE {}
<1>1. AtPath.rows = file.rows /\ AtPath.hurt = file.hurt /\ (~Foreign => AtPath = file) /\ AtPath \in StoreFile
  BY AtPathIs
<1>2. BesidePath.rows = IF Foreign THEN {} ELSE wal.rows BY BesideIs
<1>3. wal.rows \subseteq Row /\ file.rows \subseteq Row BY DEF RecoveryTypeOK, StoreFile
<1> QED BY <1>1, <1>2, <1>3 DEF Rows, Readable

LEMMA ScannedIs ==
    ASSUME NEW b \in Rotation
    PROVE  /\ Scanned(b) \subseteq Row /\ Scanned(b) \subseteq b.store.rows \cup b.wal
           /\ b.store.head => Scanned(b) = (b.store.rows \ b.store.hurt) \cup b.wal
           /\ ~b.store.head => Scanned(b) = {}
BY DEF Scanned, Readable, Rotation, StoreFile

LEMMA SalvageableIs == \A r : r \in Salvageable \equiv \E i \in InHand : r \in Scanned(backups[i])
BY DEF Salvageable

(* A marker that names no rotated store leaves nothing to salvage. *)
LEMMA NothingInHand ==
    ASSUME RecoveryTypeOK, FilesDiffer, marker = file.id \/ Rotated(marker) = {}
    PROVE  Salvageable = {}
<1>1. backups \in Seq(Rotation) BY DEF RecoveryTypeOK, Rotation
<1>2. ASSUME NEW i \in InHand PROVE Scanned(backups[i]) = {}
  <2>1. i \in DOMAIN backups /\ backups[i].store.id = marker /\ backups[i] \in Rotation BY <1>1, <1>2 DEF InHand
  <2>2. marker = 0 BY <2>1 DEF FilesDiffer, Rotated
  <2>3. backups[i].store.rows = {} /\ backups[i].wal = {} BY <2>1, <2>2 DEF FilesDiffer
  <2> QED BY <2>1, <2>3, ScannedIs
<1> QED BY <1>2, SalvageableIs

(* Outside the windows a -wal is that of the file beside it. *)
LEMMA NotForeign ==
    ASSUME RecoveryTypeOK, Clear => RowsKept, Clear, \A p \in Proc : pc[p] \notin {"sidecars", "replaced"}
    PROVE  ~Foreign
BY DEF Foreign, RowsKept
-----------------------------------------------------------------------------
(* Steps and holds. *)

Holds == {"none", "open"} \cup Exclusive

LEMMA HolderIsAlone ==
    ASSUME ExclusiveIsAlone, NEW p \in Proc, hold[p] \in Exclusive
    PROVE  Alone(p) /\ Shareable(p)
BY DEF ExclusiveIsAlone, Alone, Shareable

LEMMA HoldStep ==
    ASSUME RecoveryTypeOK, HoldsFit, ExclusiveIsAlone, NEW p \in Proc, NEW n \in Steps, NEW h \in Holds,
           Step(p, n, h), HoldFits(n, h),
           h = hold[p] \/ h = "none" \/ Alone(p) \/ (h = "open" /\ Shareable(p))
    PROVE  /\ pc' \in [Proc -> Steps] /\ hold' \in [Proc -> Holds] /\ pc'[p] = n /\ hold'[p] = h
           /\ \A q \in Proc \ {p} : pc'[q] = pc[q] /\ hold'[q] = hold[q]
           /\ HoldsFit' /\ ExclusiveIsAlone'
<1>1. pc \in [Proc -> Steps] /\ hold \in [Proc -> Holds] BY DEF RecoveryTypeOK, Holds
<1>2. pc' = [pc EXCEPT ![p] = n] /\ hold' = [hold EXCEPT ![p] = h] BY DEF Step
<1>3. /\ pc' \in [Proc -> Steps] /\ hold' \in [Proc -> Holds] /\ pc'[p] = n /\ hold'[p] = h
      /\ \A q \in Proc \ {p} : pc'[q] = pc[q] /\ hold'[q] = hold[q]
  BY <1>1, <1>2
<1>4. HoldsFit'
  <2>1. ASSUME NEW q \in Proc PROVE HoldFits(pc'[q], hold'[q])
    <3>1. CASE q = p BY <1>3, <3>1
    <3>2. CASE q # p BY <1>3, <3>2 DEF HoldsFit
    <3> QED BY <3>1, <3>2
  <2> QED BY <2>1 DEF HoldsFit
<1>5. ExclusiveIsAlone'
  <2> SUFFICES ASSUME NEW a \in Proc, NEW b \in Proc, a # b, hold'[a] \in Exclusive PROVE hold'[b] = "none"
    BY DEF ExclusiveIsAlone
  <2>1. CASE a # p /\ b # p BY <1>3, <2>1 DEF ExclusiveIsAlone
  <2>2. CASE a = p
    <3>1. hold'[b] = hold[b] /\ hold'[a] = h BY <1>3, <2>2
    <3>2. h # "none" /\ h # "open" BY <3>1 DEF Exclusive
    <3> QED BY <2>2, <3>1, <3>2 DEF Alone, ExclusiveIsAlone
  <2>3. CASE b = p /\ a # p
    <3>1. hold'[a] = hold[a] /\ hold'[b] = h BY <1>3, <2>3
    <3>2. hold[a] # "none" /\ hold[a] # "open" /\ hold[b] = "none" BY <3>1 DEF Exclusive, ExclusiveIsAlone
    <3> QED BY <2>3, <3>1, <3>2 DEF Alone, Shareable
  <2> QED BY <2>1, <2>2, <2>3
<1> QED BY <1>3, <1>4, <1>5

(* What the steps of another process leave of one that has no hold, or has *)
(* the store open.                                                         *)
Succeeds ==
    /\ made <= made'
    /\ \/ file'.id = file.id /\ (file.ver > 0 => file'.ver > 0)
       \/ file'.id = 0
       \/ file'.id > made

LEMMA QuietFits ==
    ASSUME RecoveryTypeOK, RecoveryTypeOK', HoldsFit, NEW q \in Proc, Fits(q), hold[q] = "none",
           pc'[q] = pc[q], rescue'[q] = rescue[q], Succeeds
    PROVE  Fits(q)'
<1>1. pc[q] \in Quiet \cup Checking /\ pc[q] \in Steps
  BY DEF HoldsFit, HoldFits, Quiet, Checking, Recovering, Rescuing, Opened, Restoring, Steps, RecoveryTypeOK
<1>2. pc'[q] \notin Recovering \cup Opened \cup Restoring
  BY <1>1 DEF Quiet, Checking, Recovering, Rescuing, Opened, Restoring
<1>3. rescue[q].of \in Nat /\ made \in Nat /\ made' \in Nat /\ file.id \in Nat /\ file'.id \in Nat
  BY DEF RecoveryTypeOK, Rescue, StoreFile
<1>4. StepFits(q)'
  <2>1. rescue[q].of <= made /\ (pc[q] \in {"corrupt", "recover"} => rescue[q].of # 0 /\ (rescue[q].of = file.id => file.ver > 0))
    BY DEF Fits, StepFits
  <2>2. rescue'[q].of <= made' BY <1>3, <2>1 DEF Succeeds
  <2>3. pc'[q] \in {"corrupt", "recover"} => rescue'[q].of # 0 /\ (rescue'[q].of = file'.id => file'.ver > 0)
    BY <1>3, <2>1 DEF Succeeds
  <2> QED BY <1>2, <2>2, <2>3 DEF StepFits, Recovering, Rescuing, Opened, Restoring
<1>5. StepKeeps(q)' /\ StepKnows(q)'
  BY <1>2 DEF StepKeeps, StepKnows, Recovering, Rescuing, Opened, Restoring
<1> QED BY <1>4, <1>5 DEF Fits

LEMMA OpenFits ==
    ASSUME RecoveryTypeOK, RecoveryTypeOK', HoldsFit, NEW q \in Proc, Fits(q), hold[q] = "open",
           pc'[q] = pc[q], rescue'[q] = rescue[q], made <= made', marker' = marker, slip \subseteq slip',
           Exists => Exists' /\ file'.id = file.id /\ file'.ver = file.ver
    PROVE  Fits(q)'
<1>1. pc'[q] \in {"schema", "open", "recovered"}
  BY DEF HoldsFit, HoldFits, Quiet, Checking, Recovering, Rescuing, Opened, Restoring, Steps, RecoveryTypeOK
<1>2. rescue[q].of \in Nat /\ made \in Nat /\ made' \in Nat BY DEF RecoveryTypeOK, Rescue
<1>3. Exists /\ rescue[q].of <= made /\ ("late" \notin slip => marker \in {0, file.id})
      /\ (pc[q] \in {"open", "recovered"} => file.ver = Current)
  BY <1>1 DEF Fits, StepFits, Opened
<1>4. StepFits(q)'
  <2>1. rescue'[q].of <= made' BY <1>2, <1>3
  <2>2. Exists' /\ ("late" \notin slip' => marker' \in {0, file'.id}) BY <1>3
  <2>3. pc'[q] \in {"open", "recovered"} => file'.ver = Current BY <1>3
  <2> QED BY <1>1, <2>1, <2>2, <2>3 DEF StepFits, Recovering, Rescuing, Opened, Restoring
<1>5. StepKeeps(q)' /\ StepKnows(q)' BY <1>1 DEF StepKeeps, StepKnows
<1> QED BY <1>4, <1>5 DEF Fits

LEMMA AloneFits ==
    ASSUME RecoveryIInv, RecoveryTypeOK', NEW p \in Proc, Alone(p), Succeeds,
           \A q \in Proc \ {p} : pc'[q] = pc[q] /\ rescue'[q] = rescue[q]
    PROVE  \A q \in Proc \ {p} : Fits(q)'
<1> TAKE q \in Proc \ {p}
<1>1. hold[q] = "none" BY DEF Alone
<1> QED BY <1>1, QuietFits DEF RecoveryIInv

LEMMA ShareableFits ==
    ASSUME RecoveryIInv, RecoveryTypeOK', NEW p \in Proc, Shareable(p), Succeeds, marker' = marker, slip \subseteq slip',
           Exists => Exists' /\ file'.id = file.id /\ file'.ver = file.ver,
           \A q \in Proc \ {p} : pc'[q] = pc[q] /\ rescue'[q] = rescue[q]
    PROVE  \A q \in Proc \ {p} : Fits(q)'
<1> TAKE q \in Proc \ {p}
<1>1. CASE hold[q] = "none" BY <1>1, QuietFits DEF RecoveryIInv
<1>2. CASE hold[q] = "open" BY <1>2, OpenFits DEF RecoveryIInv, Succeeds
<1> QED BY <1>1, <1>2 DEF Shareable

(* A step that leaves the files alone leaves the others what they had.     *)
LEMMA SameFits ==
    ASSUME RecoveryTypeOK, NEW q \in Proc, Fits(q), pc'[q] = pc[q], rescue'[q] = rescue[q],
           UNCHANGED <<policy, file, wal, backups, marker, snap, owed, ruined, made>>,
           copies \subseteq copies', slip \subseteq slip'
    PROVE  Fits(q)'
<1>1. Rows' = Rows /\ Exists' = Exists /\ LastRotated' = LastRotated /\ MarkerStands' = MarkerStands /\ Salvageable' = Salvageable
      /\ (Emptied' = Emptied)
  BY DEF Rows, AtPath, BesidePath, Foreign, Exists, LastRotated, MarkerStands, Rotated, Salvageable, InHand, Emptied
<1>2. StepFits(q)' BY <1>1 DEF Fits, StepFits
<1>3. Clear' => Clear BY DEF Clear
<1>4. Clear' => StepKeeps(q)' BY <1>1, <1>3 DEF Fits, StepKeeps
<1>5. slip' = {} => StepKnows(q)'
  <2>1. slip' = {} => StepKnows(q) BY DEF Fits
  <2> QED BY <1>1, <2>1 DEF StepKnows
<1> QED BY <1>2, <1>4, <1>5 DEF Fits

(* The invariant of a step of one process, from what has to be seen of it. *)
LEMMA Whole ==
    ASSUME NEW p \in Proc, RecoveryTypeOK', HoldsFit', ExclusiveIsAlone', FilesDiffer', MigratedHasCopy',
           Clear' => RowsKept', slip' = {} => RuinedIsKnown',
           \A q \in Proc \ {p} : Fits(q)', Fits(p)'
    PROVE  RecoveryIInv'
BY DEF RecoveryIInv

(* A step of one process, between two that move files or with none.        *)
LEMMA Quietly ==
    ASSUME RecoveryIInv, NEW p \in Proc, NEW n \in Steps, NEW h \in Holds, Step(p, n, h), HoldFits(n, h),
           h = hold[p] \/ h = "none" \/ Alone(p) \/ (h = "open" /\ Shareable(p)),
           NEW job \in Rescue, rescue' = [rescue EXCEPT ![p] = job],
           UNCHANGED <<policy, file, wal, backups, marker, snap, owed, ruined, migrated, made>>,
           verdict' \in Verdict, verdict'.bound = "here" => Exists,
           copies \subseteq copies', copies' \subseteq SUBSET Row, slip \subseteq slip', slip' \subseteq Windows,
           Clear' /\ wal.rows # {} => pc[p] \notin {"sidecars", "replaced"},
           slip' = {} /\ policy.strict /\ Refused => Refused',
           StepFits(p)', Clear' => StepKeeps(p)', slip' = {} => StepKnows(p)'
    PROVE  RecoveryIInv'
<1>1. /\ pc' \in [Proc -> Steps] /\ hold' \in [Proc -> Holds] /\ HoldsFit' /\ ExclusiveIsAlone'
      /\ \A q \in Proc \ {p} : pc'[q] = pc[q]
  BY HoldStep DEF RecoveryIInv
<1>2. /\ rescue' \in [Proc -> Rescue] /\ \A q \in Proc \ {p} : rescue'[q] = rescue[q]
  BY DEF RecoveryIInv, RecoveryTypeOK
<1>3. RecoveryTypeOK' BY <1>1, <1>2 DEF RecoveryIInv, RecoveryTypeOK, Holds
<1>4. FilesDiffer' BY DEF RecoveryIInv, FilesDiffer, Exists
<1>5. MigratedHasCopy' BY DEF RecoveryIInv, MigratedHasCopy
<1>6. Clear' => RowsKept'
  <2>1. Salvageable' = Salvageable BY DEF Salvageable, InHand
  <2>2. Clear' => Clear BY DEF Clear
  <2>3. ASSUME Clear', wal.rows # {}, \A q \in Proc : pc'[q] \notin {"sidecars", "replaced"} PROVE wal.of = file.id
    <3>1. \A q \in Proc : pc[q] \notin {"sidecars", "replaced"} BY <1>1, <2>3
    <3> QED BY <2>2, <2>3, <3>1 DEF RecoveryIInv, RowsKept
  <2> QED BY <2>1, <2>2, <2>3 DEF RecoveryIInv, RowsKept
<1>7. slip' = {} => RuinedIsKnown'
  <2>1. slip' = {} => RuinedIsKnown BY DEF RecoveryIInv
  <2>2. MarkerStands' = MarkerStands /\ Emptied' = Emptied BY DEF MarkerStands, Rotated, Emptied
  <2> QED BY <2>1, <2>2 DEF RuinedIsKnown
<1>8. \A q \in Proc \ {p} : Fits(q)'
  <2> TAKE q \in Proc \ {p}
  <2>1. Fits(q) /\ RecoveryTypeOK BY DEF RecoveryIInv
  <2> QED BY <1>1, <1>2, <2>1, SameFits
<1> QED BY <1>1, <1>3, <1>4, <1>5, <1>6, <1>7, <1>8, Whole DEF Fits

LEMMA HoldOf ==
    ASSUME RecoveryIInv, NEW p \in Proc
    PROVE  /\ pc[p] \in Steps /\ hold[p] \in Holds /\ rescue[p] \in Rescue /\ HoldFits(pc[p], hold[p])
           /\ StepFits(p) /\ (Clear => StepKeeps(p)) /\ (slip = {} => StepKnows(p))
           /\ pc[p] \in Quiet => hold[p] = "none"
           /\ pc[p] \in Recovering => hold[p] = "recover" /\ Alone(p)
           /\ pc[p] \in Restoring => hold[p] = "restore" /\ Alone(p)
           /\ rescue = [rescue EXCEPT ![p] = rescue[p]]
<1>1. pc[p] \in Steps /\ hold[p] \in Holds /\ rescue[p] \in Rescue /\ rescue = [rescue EXCEPT ![p] = rescue[p]]
  BY DEF RecoveryIInv, RecoveryTypeOK, Holds
<1>2. HoldFits(pc[p], hold[p]) BY DEF RecoveryIInv, HoldsFit
<1>3. Fits(p) BY DEF RecoveryIInv
<1>4. /\ pc[p] \in Quiet => hold[p] = "none"
      /\ pc[p] \in Recovering => hold[p] = "recover"
      /\ pc[p] \in Restoring => hold[p] = "restore"
  BY <1>2 DEF HoldFits
<1>5. pc[p] \in Recovering \cup Restoring => Alone(p)
  BY <1>4, HolderIsAlone DEF RecoveryIInv, Exclusive
<1> QED BY <1>1, <1>2, <1>3, <1>4, <1>5 DEF Fits

Early == {"idle", "resume", "peek", "preflight", "check", "refused"}

LEMMA EarlyFits ==
    ASSUME NEW p \in Proc, pc'[p] \in Early, rescue'[p].of <= made'
    PROVE  StepFits(p)' /\ StepKeeps(p)' /\ StepKnows(p)'
BY DEF Early, StepFits, StepKeeps, StepKnows, Recovering, Rescuing, Opened, Restoring

LEMMA RefusedStays ==
    ASSUME RecoveryTypeOK, NEW p \in Proc, NEW n \in Steps, NEW h \in Holds, Step(p, n, h), pc[p] # "refused",
           h = "migrate" => n = "preflight", UNCHANGED <<file, marker, verdict>>, Refused
    PROVE  Refused'
<1>1. /\ pc \in [Proc -> Steps] /\ hold \in [Proc -> Holds] BY DEF RecoveryTypeOK, Holds
<1>2. /\ pc'[p] = n /\ hold'[p] = h
      /\ \A q \in Proc \ {p} : pc'[q] = pc[q] /\ hold'[q] = hold[q]
  BY <1>1 DEF Step
<1>3. file'.ver = 0 /\ marker' = 0 BY DEF Refused
<1>4. (\E q \in Proc : Concluding(q)') \/ (verdict'.status = "hard_fail" /\ verdict'.bound # "gone")
  <2>1. ASSUME NEW q \in Proc, Concluding(q) PROVE Concluding(q)' BY <1>2, <2>1 DEF Concluding
  <2> QED BY <2>1 DEF Refused
<1>5. ASSUME NEW q \in Proc, hold'[q] = "migrate" PROVE pc'[q] = "preflight"
  BY <1>2, <1>5 DEF Refused
<1> QED BY <1>3, <1>4, <1>5 DEF Refused

(* A process that leaves, and nothing else, but that it may have recorded.  *)
LEMMA LeaveKeeps ==
    ASSUME RecoveryIInv, NEW p \in Proc, Leave(p),
           UNCHANGED <<policy, file, wal, backups, marker, snap, owed, ruined, migrated, made>>,
           verdict' \in Verdict, verdict'.bound = "here" => Exists,
           copies \subseteq copies', copies' \subseteq SUBSET Row, slip \subseteq slip', slip' \subseteq Windows,
           Clear' /\ wal.rows # {} => pc[p] \notin {"sidecars", "replaced"},
           slip' = {} /\ policy.strict /\ Refused => Refused' \/ (verdict' = verdict /\ pc[p] # "refused")
    PROVE  RecoveryIInv'
<1>1. Step(p, "idle", "none") /\ rescue' = [rescue EXCEPT ![p] = NoJob] BY DEF Leave
<1>2. "idle" \in Steps /\ "none" \in Holds /\ HoldFits("idle", "none") /\ RecoveryTypeOK
  BY DEF Steps, Quiet, Checking, Recovering, Rescuing, Opened, Restoring, Holds, HoldFits, RecoveryIInv
<1>3. pc'[p] = "idle" /\ rescue'[p] = NoJob /\ made \in Nat BY <1>1, <1>2 DEF Step, RecoveryTypeOK
<1>4. NoJob \in Rescue /\ NoJob.of = 0 BY <1>3, EmptyFiles
<1>5. StepFits(p)' /\ StepKeeps(p)' /\ StepKnows(p)' BY <1>3, <1>4, EarlyFits DEF Early
<1>6. slip' = {} /\ policy.strict /\ Refused => Refused'
  <2>1. Refused /\ verdict' = verdict /\ pc[p] # "refused" => Refused' BY <1>1, <1>2, RefusedStays
  <2> QED BY <2>1
<1> QED BY <1>1, <1>2, <1>4, <1>5, <1>6, Quietly

LEMMA RecordIs ==
    ASSUME RecoveryTypeOK, NEW status \in {"running", "degraded", "recovered", "hard_fail"}, Record(status)
    PROVE  /\ verdict' \in Verdict /\ (verdict'.bound = "here" => Exists)
           /\ verdict'.status = status /\ verdict'.bound # "gone"
<1>1. verdict' = [status |-> status, bound |-> IF Exists THEN "here" ELSE "none"] BY DEF Record
<1> QED BY <1>1 DEF Verdict

LEMMA VerdictIs ==
    ASSUME RecoveryIInv
    PROVE  /\ verdict \in Verdict /\ (verdict.bound = "here" => Exists) /\ copies \subseteq SUBSET Row /\ slip \subseteq Windows
           /\ made \in Nat /\ rescue \in [Proc -> Rescue]
           /\ StoreFile # {} /\ file \in StoreFile /\ wal \in Beside
BY DEF RecoveryIInv, RecoveryTypeOK, FilesDiffer, Beside

(* The files of a step that only looks. *)
Looks == UNCHANGED <<policy, file, wal, backups, marker, snap, owed, ruined, migrated, made>>

-----------------------------------------------------------------------------
(* The steps that only look, one by one. *)

LEMMA EarlyKeeps ==
    ASSUME RecoveryIInv, NEW p \in Proc, pc[p] \in Early \ {"refused"}, NEW n \in Early, NEW h \in Holds, Step(p, n, h),
           HoldFits(n, h), h = hold[p] \/ h = "none" \/ Alone(p),
           NEW job \in Rescue, rescue' = [rescue EXCEPT ![p] = job], job.of <= made,
           Looks, UNCHANGED <<verdict, copies>>, slip \subseteq slip', slip' \subseteq Windows,
           slip' = {} /\ policy.strict /\ Refused => (h = "migrate" => n = "preflight")
    PROVE  RecoveryIInv'
<1>1. n \in Steps /\ RecoveryTypeOK
  BY DEF Early, Steps, Quiet, Checking, Recovering, Rescuing, Opened, Restoring, RecoveryIInv
<1>2. pc'[p] = n /\ rescue'[p] = job /\ made' = made BY <1>1 DEF Step, RecoveryTypeOK, Looks
<1>3. StepFits(p)' /\ StepKeeps(p)' /\ StepKnows(p)' BY <1>2, EarlyFits
<1>4. slip' = {} /\ policy.strict /\ Refused => Refused' BY <1>1, RefusedStays DEF Looks
<1>5. pc[p] \notin {"sidecars", "replaced"} BY DEF Early
<1> QED BY <1>1, <1>3, <1>4, <1>5, VerdictIs, Quietly DEF Looks

LEMMA NoResumeKeeps == ASSUME RecoveryIInv, NEW p \in Proc, NoResume(p) PROVE RecoveryIInv'
<1>1. pc[p] = "resume" /\ Step(p, "peek", hold[p]) /\ Looks /\ UNCHANGED <<verdict, copies, slip, rescue>>
  BY DEF NoResume, Goto, Looks, fs, archive, history, counts
<1>2. hold[p] = "none" BY <1>1, HoldOf DEF Quiet
<1>3. rescue[p].of <= made BY HoldOf DEF StepFits
<1> QED BY <1>1, <1>2, <1>3, HoldOf, VerdictIs, EarlyKeeps DEF Early, Holds, HoldFits, Quiet, Checking, Recovering, Rescuing, Opened, Restoring

LEMMA MigrationHoldKeeps == ASSUME RecoveryIInv, NEW p \in Proc, MigrationHold(p) PROVE RecoveryIInv'
<1>1. /\ pc[p] = "peek" /\ Looks /\ UNCHANGED <<verdict, copies, slip, rescue>>
      /\ (Alone(p) /\ Step(p, "preflight", "migrate")) \/ Step(p, "preflight", hold[p])
  BY DEF MigrationHold, Goto, Looks, fs, archive, history, counts
<1>2. hold[p] = "none" BY <1>1, HoldOf DEF Quiet
<1>3. rescue[p].of <= made BY HoldOf DEF StepFits
<1>4. "preflight" \in Early /\ {"none", "migrate"} \subseteq Holds /\ HoldFits("preflight", "migrate") /\ HoldFits("preflight", "none")
  BY DEF Early, Holds, Exclusive, HoldFits, Quiet, Checking, Recovering, Rescuing, Opened, Restoring
<1>5. pc[p] \in Early \ {"refused"} BY <1>1 DEF Early
<1>6. CASE Step(p, "preflight", "none") BY <1>1, <1>3, <1>4, <1>5, <1>6, HoldOf, VerdictIs, EarlyKeeps
<1>7. CASE Alone(p) /\ Step(p, "preflight", "migrate") BY <1>1, <1>3, <1>4, <1>5, <1>7, HoldOf, VerdictIs, EarlyKeeps
<1> QED BY <1>1, <1>2, <1>6, <1>7

LEMMA BusyKeeps ==
    ASSUME RecoveryIInv, NEW p \in Proc,
           ResumeBusy(p) \/ MigrationBusy(p) \/ OpenBusy(p) \/ RecoverBusy(p) \/ SchemaRefused(p)
    PROVE  RecoveryIInv'
<1>1. Leave(p) /\ Looks /\ UNCHANGED <<verdict, copies, slip>> /\ pc[p] \in {"resume", "peek", "check", "recover", "schema"}
  BY DEF ResumeBusy, MigrationBusy, OpenBusy, RecoverBusy, SchemaRefused, Looks, fs, archive, history, counts
<1> QED BY <1>1, VerdictIs, LeaveKeeps DEF Looks

LEMMA PreflightKeeps == ASSUME RecoveryIInv, NEW p \in Proc, Preflight(p) PROVE RecoveryIInv'
<1>1. /\ pc[p] = "preflight" /\ Looks /\ UNCHANGED <<verdict, copies>>
      /\ Slip(IF \E q \in Proc : Concluding(q) THEN {"unrecorded"} ELSE {})
  BY DEF Preflight, Looks, fs, archive, counts
<1>2. slip \subseteq slip' /\ slip' \subseteq Windows /\ (slip' = {} => \A q \in Proc : ~Concluding(q))
  BY <1>1, VerdictIs DEF Slip, Windows
<1>3. CASE Standing = "hard_fail" /\ policy.strict
  <2>1. Leave(p) BY <1>3 DEF Preflight
  <2> QED BY <1>1, <1>2, <2>1, VerdictIs, LeaveKeeps DEF Looks
<1>4. CASE ~(Standing = "hard_fail" /\ policy.strict)
  <2>1. Step(p, "check", hold[p]) BY <1>4 DEF Preflight, Goto
  <2>2. PICK class \in {"fast", "degraded"} : rescue' = [rescue EXCEPT ![p].class = class] BY <1>4 DEF Preflight
  <2> DEFINE job == [rescue[p] EXCEPT !.class = class]
  <2>3. job \in Rescue /\ job.of = rescue[p].of BY HoldOf DEF Rescue
  <2>4. rescue' = [rescue EXCEPT ![p] = job] BY <2>2
  <2>5. job.of <= made BY <2>3, HoldOf DEF StepFits
  <2>6. slip' = {} /\ policy.strict => ~Refused
    BY <1>2, <1>4 DEF Refused, Standing
  <2> HIDE DEF job
  <2>7. HoldFits("check", hold[p]) /\ hold[p] \in Holds
    BY <1>1, HoldOf DEF HoldFits, Quiet, Checking, Recovering, Rescuing, Opened, Restoring
  <2> QED BY <1>1, <1>2, <2>1, <2>3, <2>4, <2>5, <2>6, <2>7, EarlyKeeps DEF Early
<1> QED BY <1>3, <1>4

LEMMA StageRestoreKeeps == ASSUME RecoveryIInv, NEW p \in Proc, StageRestore(p) PROVE RecoveryIInv'
<1>1. /\ pc[p] = "idle" /\ Alone(p) /\ snap # NoFile /\ Step(p, "staged", "restore") /\ Looks
      /\ UNCHANGED <<verdict, copies, slip, rescue>>
  BY DEF StageRestore, Start, Looks, fs, archive, history
<1>2. "staged" \in Steps /\ "restore" \in Holds /\ HoldFits("staged", "restore") /\ RecoveryTypeOK
  BY DEF Steps, Quiet, Checking, Recovering, Rescuing, Opened, Restoring, Holds, Exclusive, HoldFits, RecoveryIInv
<1>3. pc'[p] = "staged" /\ rescue' = rescue /\ rescue[p].of <= made /\ snap' = snap /\ made' = made
  BY <1>1, <1>2, HoldOf DEF Step, RecoveryTypeOK, Looks, StepFits
<1>4. StepFits(p)' BY <1>1, <1>3 DEF StepFits, Opened, Recovering, Rescuing, NoFile
<1>5. StepKeeps(p)' /\ StepKnows(p)' BY <1>3 DEF StepKeeps, StepKnows
<1>6. Refused => Refused' BY <1>1, <1>2, RefusedStays DEF Looks
<1> QED BY <1>1, <1>2, <1>4, <1>5, <1>6, HoldOf, VerdictIs, Quietly DEF Looks

LEMMA SchemaCurrentKeeps == ASSUME RecoveryIInv, NEW p \in Proc, SchemaCurrent(p) PROVE RecoveryIInv'
<1>1. /\ pc[p] = "schema" /\ file.ver = Current /\ Step(p, "open", "open") /\ rescue' = [rescue EXCEPT ![p] = NoJob]
      /\ Looks /\ UNCHANGED <<verdict, copies, slip>>
  BY DEF SchemaCurrent, Looks, fs, archive, history, counts
<1>2. "open" \in Steps /\ "open" \in Holds /\ HoldFits("open", "open") /\ RecoveryTypeOK
  BY DEF Steps, Quiet, Checking, Recovering, Rescuing, Opened, Restoring, Holds, Exclusive, HoldFits, RecoveryIInv
<1>3. pc'[p] = "open" /\ rescue'[p] = NoJob /\ made \in Nat BY <1>1, <1>2 DEF Step, RecoveryTypeOK
<1>4. NoJob \in Rescue /\ NoJob.of = 0 BY <1>3, EmptyFiles
<1>5. Exists /\ ("late" \notin slip => marker \in {0, file.id}) BY <1>1, HoldOf DEF StepFits, Opened
<1>6. StepFits(p)' BY <1>1, <1>3, <1>4, <1>5 DEF StepFits, Recovering, Rescuing, Restoring, Looks, Exists
<1>7. StepKeeps(p)' /\ StepKnows(p)' BY <1>3 DEF StepKeeps, StepKnows
<1>8. ~Refused BY <1>1 DEF Refused, Current
<1>9. "open" = hold[p] \/ Alone(p)
  <2>1. hold[p] \in {"open", "migrate"} BY <1>1, HoldOf DEF HoldFits
  <2> QED BY <2>1, HolderIsAlone DEF RecoveryIInv, Exclusive
<1> QED BY <1>1, <1>2, <1>4, <1>6, <1>7, <1>8, <1>9, VerdictIs, Quietly DEF Looks

LEMMA CopyBeforeMigrationKeeps == ASSUME RecoveryIInv, NEW p \in Proc, CopyBeforeMigration(p) PROVE RecoveryIInv'
<1>1. /\ pc[p] = "schema" /\ hold[p] = "migrate" /\ Looks /\ UNCHANGED <<verdict, slip>>
  BY DEF CopyBeforeMigration, Looks, fs, archive, history, counts
<1>2. "migrate" \in Steps /\ "migrate" \in Holds /\ HoldFits("migrate", "migrate") /\ RecoveryTypeOK
  BY DEF Steps, Quiet, Checking, Recovering, Rescuing, Opened, Restoring, Holds, Exclusive, HoldFits, RecoveryIInv
<1>3. CASE Leave(p) /\ UNCHANGED copies BY <1>1, <1>3, VerdictIs, LeaveKeeps DEF Looks
<1>4. CASE copies' = (IF Rows = {} THEN copies ELSE copies \cup {Rows}) /\ Goto(p, "migrate") /\ UNCHANGED rescue
  <2>1. Step(p, "migrate", "migrate") BY <1>1, <1>4 DEF Goto
  <2>2. pc'[p] = "migrate" /\ rescue' = rescue BY <1>2, <1>4, <2>1 DEF Step, RecoveryTypeOK
  <2>3. copies \subseteq copies' /\ copies' \subseteq SUBSET Row /\ (Rows = {} \/ Rows \in copies')
    BY <1>2, <1>4, RowsAre, VerdictIs
  <2>4. Rows' = Rows /\ Exists' = Exists BY <1>1 DEF Rows, AtPath, BesidePath, Foreign, Exists, Looks
  <2>5. Exists /\ ("late" \notin slip => marker \in {0, file.id}) /\ rescue[p].of <= made
    BY <1>1, HoldOf DEF StepFits, Opened
  <2>6. StepFits(p)'
    <3>1. Rows' = {} \/ \E c \in copies' : Rows' \subseteq c BY <2>3, <2>4
    <3> QED BY <1>1, <2>2, <2>4, <2>5, <3>1 DEF StepFits, Recovering, Rescuing, Restoring, Looks
  <2>7. StepKeeps(p)' /\ StepKnows(p)' BY <2>2 DEF StepKeeps, StepKnows
  <2>8. ~Refused BY <1>1 DEF Refused
  <2> QED BY <1>1, <1>2, <1>4, <2>1, <2>3, <2>6, <2>7, <2>8, HoldOf, VerdictIs, Quietly DEF Looks
<1> QED BY <1>3, <1>4 DEF CopyBeforeMigration, archive

LEMMA RecordRunningKeeps == ASSUME RecoveryIInv, NEW p \in Proc, RecordRunning(p) PROVE RecoveryIInv'
<1>1. /\ pc[p] = "corrupt" /\ Record("running") /\ Step(p, "recover", "none") /\ Looks /\ UNCHANGED <<copies, rescue>>
      /\ Slip(IF verdict.status = "hard_fail" \/ ~Exists THEN {"unrecorded"} ELSE {})
  BY DEF RecordRunning, Looks, archive, counts
<1>2. "recover" \in Steps /\ "none" \in Holds /\ HoldFits("recover", "none") /\ RecoveryTypeOK
  BY DEF Steps, Quiet, Checking, Recovering, Rescuing, Opened, Restoring, Holds, Exclusive, HoldFits, RecoveryIInv
<1>3. slip \subseteq slip' /\ slip' \subseteq Windows /\ (slip' = {} => verdict.status # "hard_fail" /\ Exists)
  BY <1>1, VerdictIs DEF Slip, Windows
<1>4. pc'[p] = "recover" /\ rescue' = rescue /\ hold'[p] = "none"
      /\ \A q \in Proc \ {p} : pc'[q] = pc[q] /\ hold'[q] = hold[q]
  BY <1>1, <1>2 DEF Step, RecoveryTypeOK
<1>5. rescue[p].of <= made /\ rescue[p].of # 0 /\ (rescue[p].of = file.id => file.ver > 0)
  BY <1>1, HoldOf DEF StepFits
<1>6. StepFits(p)' BY <1>1, <1>4, <1>5 DEF StepFits, Opened, Recovering, Rescuing, Restoring, Looks
<1>7. StepKeeps(p)' /\ StepKnows(p)' BY <1>4 DEF StepKeeps, StepKnows
<1>8. slip' = {} /\ Refused => Refused'
  <2> SUFFICES ASSUME slip' = {}, Refused PROVE Refused' OBVIOUS
  <2>1. PICK q \in Proc : Concluding(q) BY <1>3 DEF Refused
  <2>2. q # p BY <1>1, <2>1 DEF Concluding
  <2>3. Concluding(q)' BY <1>1, <1>4, <2>1, <2>2 DEF Concluding, Looks
  <2>4. file'.ver = 0 /\ marker' = 0 BY <1>1 DEF Refused, Looks
  <2>5. ASSUME NEW r \in Proc, hold'[r] = "migrate" PROVE pc'[r] = "preflight" BY <1>4, <2>5 DEF Refused
  <2> QED BY <2>3, <2>4, <2>5 DEF Refused
<1>9. verdict' \in Verdict /\ (verdict'.bound = "here" => Exists) BY <1>1, <1>2, RecordIs
<1> QED BY <1>1, <1>2, <1>3, <1>6, <1>7, <1>8, <1>9, HoldOf, VerdictIs, Quietly DEF Looks

LEMMA RecordRecoveredKeeps == ASSUME RecoveryIInv, NEW p \in Proc, RecordRecovered(p) PROVE RecoveryIInv'
<1>1. /\ pc[p] = "recovered" /\ Record("recovered") /\ Step(p, "open", hold[p]) /\ rescue' = [rescue EXCEPT ![p] = NoJob]
      /\ Looks /\ UNCHANGED <<copies, slip>>
  BY DEF RecordRecovered, Goto, Looks, archive, history, counts
<1>2. hold[p] = "open" BY <1>1, HoldOf DEF HoldFits
<1>3. "open" \in Steps /\ "open" \in Holds /\ HoldFits("open", "open") /\ RecoveryTypeOK
  BY DEF Steps, Quiet, Checking, Recovering, Rescuing, Opened, Restoring, Holds, Exclusive, HoldFits, RecoveryIInv
<1>4. pc'[p] = "open" /\ rescue'[p] = NoJob /\ made \in Nat BY <1>1, <1>3 DEF Step, RecoveryTypeOK
<1>5. NoJob \in Rescue /\ NoJob.of = 0 BY <1>4, EmptyFiles
<1>6. Exists /\ ("late" \notin slip => marker \in {0, file.id}) /\ file.ver = Current
  BY <1>1, HoldOf DEF StepFits, Opened
<1>7. StepFits(p)' BY <1>1, <1>4, <1>5, <1>6 DEF StepFits, Recovering, Rescuing, Restoring, Looks, Exists
<1>8. StepKeeps(p)' /\ StepKnows(p)' BY <1>4 DEF StepKeeps, StepKnows
<1>9. ~Refused BY <1>6 DEF Refused, Current
<1>10. verdict' \in Verdict /\ (verdict'.bound = "here" => Exists) BY <1>1, <1>3, RecordIs
<1> QED BY <1>1, <1>2, <1>3, <1>5, <1>7, <1>8, <1>9, <1>10, VerdictIs, Quietly DEF Looks

LEMMA RecordRefusedKeeps == ASSUME RecoveryIInv, NEW p \in Proc, RecordRefused(p) PROVE RecoveryIInv'
<1>1. pc[p] = "refused" /\ Record("hard_fail") /\ Leave(p) /\ Looks /\ UNCHANGED <<copies, slip>>
  BY DEF RecordRefused, Looks, archive, history, counts
<1>2. RecoveryTypeOK BY DEF RecoveryIInv
<1>3. verdict' \in Verdict /\ (verdict'.bound = "here" => Exists) /\ verdict'.status = "hard_fail" /\ verdict'.bound # "gone"
  BY <1>1, <1>2, RecordIs
<1>4. Refused => Refused'
  <2> SUFFICES ASSUME Refused PROVE Refused' OBVIOUS
  <2>1. hold'[p] = "none" /\ \A q \in Proc \ {p} : pc'[q] = pc[q] /\ hold'[q] = hold[q]
    BY <1>1, <1>2 DEF Leave, Step, RecoveryTypeOK
  <2>2. file'.ver = 0 /\ marker' = 0 BY <1>1 DEF Refused, Looks
  <2>3. ASSUME NEW r \in Proc, hold'[r] = "migrate" PROVE pc'[r] = "preflight" BY <2>1, <2>3 DEF Refused
  <2> QED BY <1>3, <2>2, <2>3 DEF Refused
<1> QED BY <1>1, <1>3, <1>4, VerdictIs, LeaveKeeps DEF Looks

LEMMA KillKeeps == ASSUME RecoveryIInv, NEW p \in Proc, Kill(p) PROVE RecoveryIInv'
<1>1. Leave(p) /\ Looks /\ UNCHANGED <<verdict, copies>> BY DEF Kill, Looks, fs, archive
<1>2. Slip((IF pc[p] = "sidecars" /\ wal.rows # {} THEN {"torn"} ELSE {})
           \cup (IF Concluding(p) THEN {"unrecorded"} ELSE {})
           \cup (IF pc[p] = "replaced" /\ wal.rows # {} THEN {"stale"} ELSE {}))
  BY DEF Kill
<1>3. slip \subseteq slip' /\ slip' \subseteq Windows BY <1>2, VerdictIs DEF Slip, Windows
<1>4. Clear' /\ wal.rows # {} => pc[p] \notin {"sidecars", "replaced"} BY <1>2 DEF Slip, Clear
<1>5. slip' = {} /\ Refused => pc[p] # "refused" BY <1>2 DEF Slip, Refused, Concluding
<1> QED BY <1>1, <1>3, <1>4, <1>5, VerdictIs, LeaveKeeps DEF Looks

LEMMA HandIs ==
    ASSUME RecoveryIInv, NEW p \in Proc, pc[p] \in Rescuing
    PROVE  /\ marker # 0 /\ marker # file.id /\ rescue[p].of = marker /\ Backup(p) \in Rotation
           /\ "pruned" \notin slip =>
                 /\ MarkerStands /\ Salvageable = Scanned(Backup(p))
                 /\ \E i \in DOMAIN backups : Backup(p) = backups[i]
<1>1. marker # 0 /\ marker # file.id /\ rescue[p].of = marker /\ ("pruned" \notin slip => MarkerStands)
  BY HoldOf DEF StepFits
<1>2. FilesDiffer /\ backups \in Seq(Rotation) /\ made \in Nat BY DEF RecoveryIInv, RecoveryTypeOK, Rotation
<1>3. CASE Rotated(marker) = {}
  <2>1. Backup(p) = [store |-> NoFile, wal |-> {}] BY <1>1, <1>3 DEF Backup
  <2>2. Backup(p) \in Rotation BY <1>2, <2>1, EmptyFiles DEF Rotation
  <2> QED BY <1>1, <1>3, <2>2 DEF MarkerStands
<1>4. CASE Rotated(marker) # {}
  <2>1. PICK i \in Rotated(marker) : i = CHOOSE j \in Rotated(marker) : TRUE BY <1>4
  <2>2. i \in DOMAIN backups /\ backups[i].store.id = marker /\ backups[i] \in Rotation BY <1>2, <2>1 DEF Rotated
  <2>3. Backup(p) = backups[i] BY <1>1, <1>4, <2>1 DEF Backup
  <2>4. InHand = {i} BY <1>1, <1>2, <2>2 DEF InHand, FilesDiffer
  <2>5. \A r : r \in Salvageable \equiv r \in Scanned(backups[i]) BY <2>4, SalvageableIs
  <2> QED BY <1>1, <2>2, <2>3, <2>5
<1> QED BY <1>3, <1>4

LEMMA SalvageKeeps == ASSUME RecoveryIInv, NEW p \in Proc, Salvage(p) PROVE RecoveryIInv'
<1>1. pc[p] = "salvage" /\ Step(p, "decide", hold[p]) /\ Looks /\ UNCHANGED <<verdict, copies, slip>>
  BY DEF Salvage, Goto, Looks, fs, archive, history, counts
<1>2. PICK got \in Salvages(Backup(p)) :
          rescue' = [rescue EXCEPT ![p].got = got,
                                   ![p].refuse = got = {} /\ Backup(p).store.ver > 0 /\ policy.strict]
  BY DEF Salvage
<1> DEFINE refuse == got = {} /\ Backup(p).store.ver > 0 /\ policy.strict
           job == [[rescue[p] EXCEPT !.got = got] EXCEPT !.refuse = refuse]
<1>3. pc[p] \in Rescuing BY <1>1 DEF Rescuing
<1>4. /\ marker # 0 /\ marker # file.id /\ rescue[p].of = marker /\ Backup(p) \in Rotation
      /\ "pruned" \notin slip => MarkerStands /\ Salvageable = Scanned(Backup(p))
      /\ "pruned" \notin slip => \E i \in DOMAIN backups : Backup(p) = backups[i]
  BY <1>3, HandIs
<1>5. Scanned(Backup(p)) \subseteq got /\ got \subseteq Row
  <2>1. Scanned(Backup(p)) \subseteq Row BY <1>4, ScannedIs
  <2>2. Backup(p).store.rows \subseteq Row BY <1>4 DEF Rotation, StoreFile
  <2> QED BY <1>2, <2>1, <2>2 DEF Salvages
<1>6. rescue[p] \in Rescue /\ refuse \in BOOLEAN BY HoldOf
<1>7. job \in Rescue /\ job.of = rescue[p].of /\ job.owns = rescue[p].owns /\ job.got = got /\ job.refuse = refuse
  <2> DEFINE first == [rescue[p] EXCEPT !.got = got]
  <2>1. first \in Rescue /\ first.of = rescue[p].of /\ first.owns = rescue[p].owns /\ first.got = got
    BY <1>5, <1>6 DEF Rescue
  <2>2. job = [first EXCEPT !.refuse = refuse] OBVIOUS
  <2> HIDE DEF first, job, refuse
  <2> QED BY <1>6, <2>1, <2>2 DEF Rescue
<1>8. rescue' = [rescue EXCEPT ![p] = job]
  BY <1>2, VerdictIs
<1>9. refuse => got = {} OBVIOUS
<1>10. slip = {} /\ policy.strict /\ ~refuse => got # {}
  BY <1>4 DEF RecoveryIInv, RuinedIsKnown
<1> HIDE DEF job, refuse
<1>11. "decide" \in Steps /\ "recover" \in Holds /\ HoldFits("decide", "recover") /\ RecoveryTypeOK /\ hold[p] = "recover"
  BY <1>3, HoldOf DEF Steps, Quiet, Checking, Recovering, Rescuing, Opened, Restoring, Holds, Exclusive, HoldFits, RecoveryIInv
<1>12. pc'[p] = "decide" /\ rescue'[p] = job BY <1>1, <1>8, <1>11, VerdictIs DEF Step, RecoveryTypeOK
<1>13. rescue[p].of <= made /\ (rescue[p].owns => file.ver = 0) BY <1>1, HoldOf DEF StepFits
<1>14. StepFits(p)'
  <2>1. marker' \notin {0, file'.id} /\ ("pruned" \notin slip' => MarkerStands')
    BY <1>1, <1>4 DEF MarkerStands, Rotated, Looks
  <2>2. rescue'[p].of = marker' /\ rescue'[p].of <= made' /\ (rescue'[p].refuse => rescue'[p].got = {})
        /\ (rescue'[p].owns => file'.ver = 0)
    BY <1>1, <1>4, <1>7, <1>9, <1>12, <1>13 DEF Looks
  <2> QED BY <1>12, <2>1, <2>2 DEF StepFits, Opened, Restoring
<1>15. Clear' => StepKeeps(p)'
  <2>1. Clear' => Clear /\ (rescue[p].owns => wal.rows = {}) BY <1>1, HoldOf DEF Clear, StepKeeps
  <2>2. Salvageable' = Salvageable BY <1>1 DEF Salvageable, InHand, Looks
  <2>3. Clear' => Salvageable' \subseteq rescue'[p].got BY <1>1, <1>4, <1>5, <1>7, <1>12, <2>2 DEF Clear
  <2>4. Clear' => (rescue'[p].owns => wal'.rows = {}) BY <1>1, <1>7, <1>12, <2>1 DEF Looks
  <2> QED BY <1>12, <2>3, <2>4 DEF StepKeeps
<1>16. slip' = {} => StepKnows(p)'
  <2>1. slip' = slip /\ policy' = policy BY <1>1 DEF Looks
  <2>2. slip' = {} /\ policy'.strict /\ ~rescue'[p].refuse => rescue'[p].got # {} BY <1>7, <1>10, <1>12, <2>1
  <2> QED BY <1>12, <2>2 DEF StepKnows
<1>17. ~Refused BY <1>4 DEF Refused
<1>18. pc[p] \notin {"sidecars", "replaced"} BY <1>1
<1> QED BY <1>1, <1>7, <1>8, <1>11, <1>14, <1>15, <1>16, <1>17, <1>18, HoldOf, VerdictIs, Quietly DEF Looks

LEMMA NothingLeftKeeps == ASSUME RecoveryIInv, NEW p \in Proc, NothingLeft(p) PROVE RecoveryIInv'
<1>1. /\ pc[p] = "decide" /\ Step(p, "refuse", hold[p]) /\ Looks /\ UNCHANGED <<verdict, copies, slip, rescue>>
      /\ rescue[p].refuse /\ rescue[p].owns
  BY DEF NothingLeft, Goto, Looks, fs, archive, history, counts
<1>2. pc[p] \in Rescuing BY <1>1 DEF Rescuing
<1>3. "refuse" \in Steps /\ "recover" \in Holds /\ HoldFits("refuse", "recover") /\ RecoveryTypeOK /\ hold[p] = "recover"
  BY <1>2, HoldOf DEF Steps, Quiet, Checking, Recovering, Rescuing, Opened, Restoring, Holds, Exclusive, HoldFits, RecoveryIInv
<1>4. pc'[p] = "refuse" /\ rescue' = rescue BY <1>1, <1>3 DEF Step, RecoveryTypeOK
<1>5. /\ marker # 0 /\ marker # file.id /\ rescue[p].of = marker /\ ("pruned" \notin slip => MarkerStands)
      /\ rescue[p].of <= made /\ file.ver = 0 /\ (rescue[p].refuse => rescue[p].got = {})
  BY <1>1, <1>2, HandIs, HoldOf DEF StepFits, Rescuing
<1>6. file.rows = {} BY <1>5 DEF RecoveryIInv, FilesDiffer
<1>7. StepFits(p)'
  <2>1. "pruned" \notin slip' => MarkerStands' BY <1>1, <1>5 DEF MarkerStands, Rotated, Looks
  <2> QED BY <1>1, <1>4, <1>5, <1>6, <2>1 DEF StepFits, Opened, Restoring, Looks
<1>8. Clear' => StepKeeps(p)'
  <2>1. Clear' => Clear /\ (rescue[p].owns => wal.rows = {}) /\ Salvageable \subseteq rescue[p].got
    BY <1>1, HoldOf DEF Clear, StepKeeps
  <2>2. Salvageable' = Salvageable BY <1>1 DEF Salvageable, InHand, Looks
  <2> QED BY <1>1, <1>4, <2>1, <2>2 DEF StepKeeps, Looks
<1>9. StepKnows(p)' BY <1>4 DEF StepKnows
<1>10. ~Refused BY <1>5 DEF Refused
<1>11. pc[p] \notin {"sidecars", "replaced"} BY <1>1
<1> QED BY <1>1, <1>3, <1>7, <1>8, <1>9, <1>10, <1>11, HoldOf, VerdictIs, Quietly DEF Looks

-----------------------------------------------------------------------------
(* The steps that write or remove the marker.                               *)

LEMMA AloneSteps ==
    ASSUME RecoveryIInv, NEW p \in Proc, Alone(p)
    PROVE  \A q \in Proc \ {p} : pc[q] \notin {"sidecars", "replaced"} /\ pc[q] # "open" /\ hold[q] = "none"
<1> TAKE q \in Proc \ {p}
<1>1. hold[q] = "none" BY DEF Alone
<1>2. HoldFits(pc[q], hold[q]) BY DEF RecoveryIInv, HoldsFit
<1> QED BY <1>1, <1>2 DEF HoldFits, Recovering, Restoring

LEMMA MarkKeeps ==
    ASSUME RecoveryIInv, NEW p \in Proc, Alone(p), NEW n \in Steps, NEW h \in Holds, Step(p, n, h), HoldFits(n, h),
           NEW job \in Rescue, rescue' = [rescue EXCEPT ![p] = job],
           UNCHANGED <<policy, file, wal, backups, verdict, snap, copies, owed, ruined, migrated, made>>,
           marker' \in Nat, slip \subseteq slip', slip' \subseteq Windows, pc[p] \notin {"sidecars", "replaced"},
           Clear' => owed \subseteq file.rows \cup wal.rows,
           slip' = {} /\ policy.strict /\ ruined => ~Emptied \/ Refused',
           StepFits(p)', Clear' => StepKeeps(p)', slip' = {} => StepKnows(p)'
    PROVE  RecoveryIInv'
<1>1. /\ pc' \in [Proc -> Steps] /\ hold' \in [Proc -> Holds] /\ HoldsFit' /\ ExclusiveIsAlone'
      /\ \A q \in Proc \ {p} : pc'[q] = pc[q]
  BY HoldStep DEF RecoveryIInv
<1>2. /\ rescue' \in [Proc -> Rescue] /\ \A q \in Proc \ {p} : rescue'[q] = rescue[q]
  BY DEF RecoveryIInv, RecoveryTypeOK
<1>3. RecoveryTypeOK' BY <1>1, <1>2 DEF RecoveryIInv, RecoveryTypeOK, Holds
<1>4. FilesDiffer' BY DEF RecoveryIInv, FilesDiffer, Exists
<1>5. MigratedHasCopy' BY DEF RecoveryIInv, MigratedHasCopy
<1>6. Clear' => RowsKept'
  <2>1. \A q \in Proc : pc[q] \notin {"sidecars", "replaced"} BY AloneSteps
  <2>2. Clear' => RowsKept BY DEF Clear, RecoveryIInv
  <2> QED BY <2>1, <2>2 DEF RowsKept
<1>7. slip' = {} => RuinedIsKnown'
  <2>1. slip' = {} => RuinedIsKnown BY DEF RecoveryIInv
  <2>2. Emptied' = Emptied BY DEF Emptied
  <2> QED BY <2>1, <2>2 DEF RuinedIsKnown
<1>8. \A q \in Proc \ {p} : Fits(q)'
  <2>1. Succeeds BY VerdictIs DEF Succeeds
  <2> QED BY <1>1, <1>2, <1>3, <2>1, AloneFits
<1> QED BY <1>1, <1>3, <1>4, <1>5, <1>6, <1>7, <1>8, Whole DEF Fits

LEMMA ResumeKeeps == ASSUME RecoveryIInv, NEW p \in Proc, Resume(p) PROVE RecoveryIInv'
<1>1. /\ pc[p] = "resume" /\ marker # 0 /\ Alone(p) /\ hold[p] = "none"
      /\ UNCHANGED <<policy, file, wal, backups, verdict, snap, copies, owed, ruined, migrated, made, slip>>
  BY HoldOf DEF Resume, archive, history, counts, Quiet
<1>2. RecoveryTypeOK /\ FilesDiffer BY DEF RecoveryIInv
<1>3. \A q \in Proc : pc[q] \notin {"sidecars", "replaced"} BY <1>1, AloneSteps
<1>4. CASE marker # file.id /\ Rotated(marker) # {}
  <2> DEFINE job == [[[NoJob EXCEPT !.of = marker] EXCEPT !.owns = ~Exists] EXCEPT !.resumed = TRUE]
  <2>1. /\ Step(p, "salvage", "recover") /\ UNCHANGED marker
        /\ rescue' = [rescue EXCEPT ![p] = [NoJob EXCEPT !.of = marker, !.owns = ~Exists, !.resumed = TRUE]]
    BY <1>4 DEF Resume
  <2>2. marker \in Nat BY <1>2 DEF RecoveryTypeOK
  <2>3. job \in Rescue /\ job.of = marker /\ job.owns = ~Exists BY <2>2 DEF NoJob, Rescue
  <2>4. rescue' = [rescue EXCEPT ![p] = job] BY <2>1
  <2> HIDE DEF job
  <2>5. "salvage" \in Steps /\ "recover" \in Holds /\ HoldFits("salvage", "recover")
    BY DEF Steps, Quiet, Checking, Recovering, Rescuing, Opened, Restoring, Holds, Exclusive, HoldFits
  <2>6. pc'[p] = "salvage" /\ rescue'[p] = job BY <2>1, <2>4, <1>2 DEF Step, RecoveryTypeOK
  <2>7. marker <= made
    <3>1. PICK i \in DOMAIN backups : backups[i].store.id = marker BY <1>4 DEF Rotated
    <3> QED BY <1>2, <3>1 DEF FilesDiffer
  <2>8. StepFits(p)'
    <3>1. MarkerStands' BY <1>1, <1>4, <2>1 DEF MarkerStands, Rotated
    <3>2. ~Exists => file.ver = 0 BY DEF Exists, NoFile
    <3> QED BY <1>1, <1>4, <2>1, <2>3, <2>6, <2>7, <3>1, <3>2 DEF StepFits, Opened, Restoring
  <2>9. Clear' => StepKeeps(p)'
    <3>1. Clear' => RowsKept BY <1>1 DEF Clear, RecoveryIInv
    <3>2. ~Exists => file.id = 0 BY DEF Exists, NoFile
    <3>3. wal.rows # {} => wal.of > 0 BY <1>2 DEF FilesDiffer
    <3>4. wal.of \in Nat BY <1>2 DEF RecoveryTypeOK
    <3>5. Clear' /\ ~Exists => wal.rows = {} BY <1>3, <3>1, <3>2, <3>3, <3>4 DEF RowsKept
    <3> QED BY <1>1, <2>3, <2>6, <3>5 DEF StepKeeps
  <2>10. StepKnows(p)' BY <2>6 DEF StepKnows
  <2>11. ~Refused BY <1>1 DEF Refused
  <2> QED BY <1>1, <2>1, <2>3, <2>4, <2>5, <2>8, <2>9, <2>10, <2>11, VerdictIs, Quietly
<1>5. CASE marker = file.id \/ Rotated(marker) = {}
  <2>1. marker' = 0 /\ Step(p, "peek", "none") /\ UNCHANGED rescue BY <1>5 DEF Resume
  <2>2. "peek" \in Steps /\ "none" \in Holds /\ HoldFits("peek", "none")
    BY DEF Steps, Quiet, Checking, Recovering, Rescuing, Opened, Restoring, Holds, Exclusive, HoldFits
  <2>3. pc'[p] = "peek" /\ rescue'[p] = rescue[p] /\ rescue[p].of <= made
    BY <2>1, <1>2, HoldOf DEF Step, RecoveryTypeOK, StepFits
  <2>4. StepFits(p)' /\ StepKeeps(p)' /\ StepKnows(p)' BY <1>1, <2>3, EarlyFits DEF Early
  <2>5. Salvageable = {} BY <1>2, <1>5, NothingInHand
  <2>6. Clear' => owed \subseteq file.rows \cup wal.rows BY <1>1, <2>5 DEF Clear, RecoveryIInv, RowsKept
  <2>7. slip' = {} /\ policy.strict /\ ruined => ~Emptied
    BY <1>1, <1>5 DEF RecoveryIInv, RuinedIsKnown, MarkerStands, Refused
  <2> QED BY <1>1, <1>3, <2>1, <2>2, <2>4, <2>6, <2>7, HoldOf, VerdictIs, MarkKeeps
<1> QED BY <1>4, <1>5

LEMMA WriteMarkerKeeps == ASSUME RecoveryIInv, NEW p \in Proc, WriteMarker(p) PROVE RecoveryIInv'
<1>1. /\ pc[p] = "recover" /\ Alone(p)
      /\ UNCHANGED <<policy, file, wal, backups, verdict, snap, copies, owed, ruined, migrated, made>>
  BY DEF WriteMarker, archive, counts
<1>2. RecoveryTypeOK /\ FilesDiffer BY DEF RecoveryIInv
<1>3. CASE ~Exists
  <2>1. Leave(p) /\ UNCHANGED marker /\ slip' = slip BY <1>3 DEF WriteMarker, Slip
  <2> QED BY <1>1, <2>1, VerdictIs, LeaveKeeps
<1>4. CASE Exists
  <2>1. /\ marker' = file.id /\ Step(p, "rotate", "recover") /\ UNCHANGED rescue
        /\ slip' = slip \cup (Late("remarked") \cup (IF file.id # rescue[p].of THEN {"another"} ELSE {}))
    BY <1>4 DEF WriteMarker, Slip
  <2>2. slip \subseteq slip' /\ slip' \subseteq Windows BY <2>1, VerdictIs DEF Late, Windows
  <2>3. Clear' \/ slip' = {} => marker \in {0, file.id} BY <2>1 DEF Late, Clear
  <2>4. slip' = {} => rescue[p].of = file.id BY <2>1
  <2>5. "rotate" \in Steps /\ "recover" \in Holds /\ HoldFits("rotate", "recover")
    BY DEF Steps, Quiet, Checking, Recovering, Rescuing, Opened, Restoring, Holds, Exclusive, HoldFits
  <2>6. pc'[p] = "rotate" /\ rescue'[p] = rescue[p] /\ rescue[p].of <= made
        /\ (rescue[p].of = file.id => file.ver > 0)
    BY <1>1, <2>1, <1>2, HoldOf DEF Step, RecoveryTypeOK, StepFits
  <2>7. StepFits(p)'
    <3>1. Exists' BY <1>1, <1>4 DEF Exists
    <3> QED BY <1>1, <2>1, <2>6, <3>1 DEF StepFits, Opened, Restoring, Rescuing
  <2>8. StepKeeps(p)' BY <2>6 DEF StepKeeps
  <2>9. slip' = {} => StepKnows(p)' BY <1>1, <2>4, <2>6 DEF StepKnows
  <2>10. Clear' => owed \subseteq file.rows \cup wal.rows
    <3>1. marker \in {0, file.id} => Salvageable = {} BY <1>2, NothingInHand DEF Rotated
    <3>2. Clear' => Clear BY <2>2 DEF Clear
    <3> QED BY <2>3, <3>1, <3>2 DEF RecoveryIInv, RowsKept
  <2>11. slip' = {} /\ policy.strict /\ ruined => ~Emptied
    <3>1. slip' = {} => slip = {} BY <2>2
    <3> QED BY <2>3, <2>4, <2>6, <3>1 DEF RecoveryIInv, RuinedIsKnown, MarkerStands, Refused
  <2>12. marker' \in Nat /\ pc[p] \notin {"sidecars", "replaced"} BY <1>1, <2>1, <1>2 DEF RecoveryTypeOK, StoreFile
  <2> QED BY <1>1, <2>1, <2>2, <2>5, <2>7, <2>8, <2>9, <2>10, <2>11, <2>12, HoldOf, MarkKeeps
<1> QED BY <1>3, <1>4

LEMMA ClearMarkerKeeps == ASSUME RecoveryIInv, NEW p \in Proc, ClearMarker(p) PROVE RecoveryIInv'
<1>1. /\ pc[p] = "restored" /\ marker' = 0 /\ Step(p, "recovered", "open")
      /\ UNCHANGED <<policy, file, wal, backups, verdict, snap, copies, owed, ruined, migrated, made, slip, rescue>>
  BY DEF ClearMarker, archive, history, counts
<1>2. RecoveryTypeOK BY DEF RecoveryIInv
<1>3. "recovered" \in Steps /\ "open" \in Holds /\ HoldFits("recovered", "open")
  BY DEF Steps, Quiet, Checking, Recovering, Rescuing, Opened, Restoring, Holds, Exclusive, HoldFits
<1>4. pc'[p] = "recovered" /\ rescue'[p] = rescue[p] /\ rescue[p].of <= made /\ Exists /\ file.ver = Current
  BY <1>1, <1>2, HoldOf DEF Step, RecoveryTypeOK, StepFits
<1>5. Alone(p) BY <1>1, HoldOf DEF Recovering, Rescuing
<1>6. StepFits(p)' BY <1>1, <1>4 DEF StepFits, Recovering, Restoring, Rescuing, Exists
<1>7. StepKeeps(p)' /\ StepKnows(p)' BY <1>4 DEF StepKeeps, StepKnows
<1>8. Clear' => owed \subseteq file.rows \cup wal.rows BY <1>1, HoldOf DEF Clear, StepKeeps
<1>9. slip' = {} /\ policy.strict /\ ruined => ~Emptied BY <1>1, HoldOf DEF StepKnows
<1>10. marker' \in Nat /\ pc[p] \notin {"sidecars", "replaced"} BY <1>1
<1> QED BY <1>1, <1>3, <1>5, <1>6, <1>7, <1>8, <1>9, <1>10, HoldOf, VerdictIs, MarkKeeps

LEMMA ConcludeKeeps == ASSUME RecoveryIInv, NEW p \in Proc, Conclude(p) PROVE RecoveryIInv'
<1>1. /\ pc[p] = "conclude" /\ marker' = 0 /\ Step(p, "refused", "none")
      /\ UNCHANGED <<policy, file, wal, backups, verdict, snap, copies, owed, ruined, migrated, made, slip, rescue>>
  BY DEF Conclude, archive, history, counts
<1>2. RecoveryTypeOK BY DEF RecoveryIInv
<1>3. "refused" \in Steps /\ "none" \in Holds /\ HoldFits("refused", "none")
  BY DEF Steps, Quiet, Checking, Recovering, Rescuing, Opened, Restoring, Holds, Exclusive, HoldFits
<1>4. /\ pc'[p] = "refused" /\ hold'[p] = "none" /\ rescue'[p] = rescue[p] /\ rescue[p].of <= made /\ file.ver = 0
      /\ \A q \in Proc \ {p} : hold'[q] = hold[q]
  BY <1>1, <1>2, HoldOf DEF Step, RecoveryTypeOK, StepFits
<1>5. Alone(p) BY <1>1, HoldOf DEF Recovering, Rescuing
<1>6. StepFits(p)' /\ StepKeeps(p)' /\ StepKnows(p)' BY <1>1, <1>4, EarlyFits DEF Early
<1>7. Clear' => owed \subseteq file.rows \cup wal.rows BY <1>1, HoldOf DEF Clear, StepKeeps
<1>8. Refused'
  <2>1. Concluding(p)' BY <1>1, <1>4 DEF Concluding
  <2>2. \A q \in Proc : hold'[q] = "none" BY <1>4, <1>5 DEF Alone
  <2> QED BY <1>1, <1>4, <2>1, <2>2 DEF Refused
<1>9. marker' \in Nat /\ pc[p] \notin {"sidecars", "replaced"} BY <1>1
<1> QED BY <1>1, <1>3, <1>5, <1>6, <1>7, <1>8, <1>9, HoldOf, VerdictIs, MarkKeeps

-----------------------------------------------------------------------------
(* The steps that connect to the file at the path.                          *)

LEMMA ShareableSteps ==
    ASSUME RecoveryIInv, NEW p \in Proc, Shareable(p)
    PROVE  \A q \in Proc \ {p} : pc[q] \notin {"sidecars", "replaced"}
<1> TAKE q \in Proc \ {p}
<1>1. hold[q] \in {"none", "open"} BY DEF Shareable
<1>2. HoldFits(pc[q], hold[q]) BY DEF RecoveryIInv, HoldsFit
<1> QED BY <1>1, <1>2 DEF HoldFits, Recovering, Restoring

(* A connection leaves a file that was there with its number and version.  *)
LEMMA ConnectedFacts ==
    ASSUME RecoveryIInv
    PROVE  /\ ConnectedFile \in StoreFile /\ BesidePath \in Beside
           /\ ConnectedFile.rows = file.rows /\ ConnectedFile.hurt = file.hurt /\ ConnectedFile.ver = file.ver
           /\ Exists => ConnectedFile.id = file.id
           /\ ~Exists => ConnectedFile.id = made + 1 /\ file = NoFile
           /\ ConnectedFile.id # 0 /\ ConnectedFile # NoFile
           /\ BesidePath.rows # {} => Exists /\ BesidePath.of = wal.of /\ wal.of = file.id /\ wal.rows # {}
           /\ file.ver = 0 => ConnectedFile.head
<1>1. RecoveryTypeOK /\ FilesDiffer BY DEF RecoveryIInv
<1>2. made \in Nat /\ file \in StoreFile /\ wal \in Beside BY <1>1 DEF RecoveryTypeOK, Beside
<1>3. BesidePath \in Beside /\ (BesidePath.rows # {} => BesidePath.of = wal.of /\ wal.of = file.id /\ wal.rows # {})
  BY <1>1, BesideIs
<1>4. CASE Exists
  <2>1. ConnectedFile = AtPath BY <1>1, <1>4, ConnectedIs
  <2>2. file.id # 0 BY <1>1, <1>4 DEF FilesDiffer, Exists
  <2>3. ConnectedFile # NoFile BY <1>1, <1>2, <2>1, <2>2, AtPathIs, EmptyFiles
  <2>4. file.ver = 0 => ConnectedFile.head BY <1>1, <1>2, <2>1, AtPathIs DEF FilesDiffer, StoreFile
  <2> QED BY <1>1, <1>3, <1>4, <2>1, <2>2, <2>3, <2>4, AtPathIs
<1>5. CASE ~Exists
  <2>1. ConnectedFile = Fresh /\ file = NoFile BY <1>1, <1>5, ConnectedIs
  <2>2. BesidePath.rows = {} BY <1>1, <1>2, <1>3, <2>1, EmptyFiles DEF FilesDiffer, Beside
  <2>3. Fresh.id # 0 BY <1>2, EmptyFiles
  <2> QED BY <1>2, <1>3, <1>5, <2>1, <2>2, <2>3, EmptyFiles
<1> QED BY <1>4, <1>5

LEMMA Connects ==
    ASSUME RecoveryIInv, file' = ConnectedFile, wal' = BesidePath, made' = IF Exists THEN made ELSE made + 1
    PROVE  /\ file' \in StoreFile /\ wal' \in Beside /\ made' \in Nat /\ made <= made' /\ Exists' /\ Succeeds
           /\ file'.rows = file.rows /\ file'.hurt = file.hurt /\ file'.ver = file.ver
           /\ IF Exists THEN file'.id = file.id /\ made' = made ELSE file'.id = made + 1 /\ made' = made + 1 /\ file = NoFile
           /\ file'.id # 0 /\ (wal'.rows # {} => Exists /\ wal'.of = wal.of /\ wal.of = file.id)
           /\ file.ver = 0 => file'.head
<1>1. made \in Nat BY DEF RecoveryIInv, RecoveryTypeOK
<1>2. Exists' BY ConnectedFacts DEF Exists
<1>3. Succeeds BY <1>1, ConnectedFacts DEF Succeeds
<1> QED BY <1>1, <1>2, <1>3, ConnectedFacts

(* What is at the path outside the windows, while nothing is being moved.   *)
LEMMA PathClear ==
    ASSUME RecoveryIInv, Clear, \A q \in Proc : pc[q] \notin {"sidecars", "replaced"}
    PROVE  /\ ~Foreign /\ BesidePath.rows = wal.rows /\ AtPath = file /\ ConnectedFile.head = file.head
           /\ Exists => ConnectedFile = file
           /\ wal.rows # {} => wal.of = file.id /\ Exists
<1>1. RecoveryTypeOK BY DEF RecoveryIInv
<1>2. ~Foreign BY <1>1, NotForeign DEF RecoveryIInv
<1>3. BesidePath.rows = wal.rows /\ AtPath = file BY <1>1, <1>2, BesideIs, AtPathIs
<1>4. Exists => ConnectedFile = file BY <1>1, <1>3, ConnectedIs
<1>5. ~Exists => ConnectedFile = Fresh /\ file = NoFile BY <1>1, ConnectedIs
<1>6. ConnectedFile.head = file.head BY <1>1, <1>4, <1>5, EmptyFiles DEF RecoveryTypeOK, StoreFile
<1>7. wal.rows # {} => wal.of = file.id /\ Exists BY <1>3, ConnectedFacts
<1> QED BY <1>2, <1>3, <1>4, <1>6, <1>7

LEMMA ConnectingKeeps ==
    ASSUME RecoveryIInv, NEW p \in Proc, Shareable(p), pc[p] \in {"idle", "check", "decide", "staged"},
           NEW n \in {"idle", "schema", "corrupt", "folded"}, NEW h \in Holds, Step(p, n, h), HoldFits(n, h),
           h = hold[p] \/ h = "none" \/ h = "open",
           NEW job \in Rescue, rescue' = [rescue EXCEPT ![p] = job],
           file' = ConnectedFile, wal' = BesidePath, made' = IF Exists THEN made ELSE made + 1,
           verdict' \in Verdict, verdict'.bound = "here" => Exists',
           Refused => Written(ConnectedFile, BesidePath),
           UNCHANGED <<policy, backups, marker, copies, owed, ruined, migrated>>,
           snap' \in StoreFile, snap'.hurt = {} /\ snap'.head /\ (snap' # NoFile => snap'.ver > 0),
           slip \subseteq slip', slip' \subseteq Windows, StepFits(p)'
    PROVE  RecoveryIInv'
<1>0. RecoveryTypeOK /\ FilesDiffer BY DEF RecoveryIInv
<1>1. n \in Steps /\ /\ pc' \in [Proc -> Steps] /\ hold' \in [Proc -> Holds] /\ HoldsFit' /\ ExclusiveIsAlone'
      /\ pc'[p] = n /\ hold'[p] = h /\ \A q \in Proc \ {p} : pc'[q] = pc[q] /\ hold'[q] = hold[q]
  <2>1. n \in Steps BY DEF Steps, Quiet, Checking, Recovering, Rescuing, Opened, Restoring
  <2> QED BY <2>1, HoldStep DEF RecoveryIInv
<1>2. /\ rescue' \in [Proc -> Rescue] /\ \A q \in Proc \ {p} : rescue'[q] = rescue[q]
  BY <1>0 DEF RecoveryTypeOK
<1>3. /\ file' \in StoreFile /\ wal' \in Beside /\ made' \in Nat /\ made <= made' /\ Exists' /\ Succeeds
      /\ file'.rows = file.rows /\ file'.hurt = file.hurt /\ file'.ver = file.ver
      /\ IF Exists THEN file'.id = file.id /\ made' = made ELSE file'.id = made + 1 /\ made' = made + 1 /\ file = NoFile
      /\ file'.id # 0 /\ (wal'.rows # {} => Exists /\ wal'.of = wal.of /\ wal.of = file.id)
      /\ file.ver = 0 => file'.head
  BY Connects
<1>4. RecoveryTypeOK' BY <1>0, <1>1, <1>2, <1>3 DEF RecoveryTypeOK, Holds, Beside
<1>5. FilesDiffer'
  <2>1. made \in Nat /\ file.id \in Nat /\ wal.of \in Nat BY <1>0 DEF RecoveryTypeOK, StoreFile
  <2>2. file'.id <= made' /\ (file'.id = 0 => file' = NoFile) BY <1>0, <1>3, <2>1 DEF FilesDiffer
  <2>3. file'.ver = 0 => file'.rows = {} /\ file'.hurt = {} /\ file'.head BY <1>0, <1>3 DEF FilesDiffer
  <2>4. wal'.rows # {} => wal.rows # {}
    BY <1>0, BesideIs
  <2>5. wal'.rows # {} => wal'.of > 0 /\ wal'.of <= made' /\ (wal'.of = file'.id => file'.ver > 0)
    BY <1>0, <1>3, <2>1, <2>4 DEF FilesDiffer
  <2>6. \A i \in DOMAIN backups :
          /\ backups[i].store.id <= made'
          /\ backups[i].store.id = 0 => backups[i].store.rows = {} /\ backups[i].wal = {}
          /\ backups[i].store.id # 0 =>
                /\ backups[i].store.id # file'.id
                /\ \A j \in DOMAIN backups : backups[i].store.id = backups[j].store.id => i = j
    <3> SUFFICES ASSUME NEW i \in DOMAIN backups
                 PROVE  backups[i].store.id <= made' /\ (backups[i].store.id # 0 => backups[i].store.id # file'.id)
      BY <1>0 DEF FilesDiffer
    <3>0. backups \in Seq(Rotation) BY <1>0 DEF RecoveryTypeOK, Rotation
    <3>1. backups[i] \in Rotation BY <3>0
    <3>2. backups[i].store.id \in Nat BY <3>1 DEF Rotation, StoreFile
    <3> QED BY <1>0, <1>3, <2>1, <3>2 DEF FilesDiffer
  <2> QED BY <1>0, <2>2, <2>3, <2>5, <2>6 DEF FilesDiffer
<1>6. MigratedHasCopy' BY DEF RecoveryIInv, MigratedHasCopy
<1>7. \A q \in Proc : pc[q] \notin {"sidecars", "replaced"} BY ShareableSteps
<1>8. Clear' => RowsKept'
  <2> SUFFICES ASSUME Clear' PROVE RowsKept' OBVIOUS
  <2>1. Clear /\ RowsKept BY DEF Clear, RecoveryIInv
  <2>2. /\ wal'.rows = wal.rows /\ file'.head = file.head /\ (wal.rows # {} => wal.of = file.id /\ Exists)
    BY <1>7, <2>1, PathClear
  <2>3. Salvageable' = Salvageable BY DEF Salvageable, InHand
  <2> QED BY <1>3, <2>1, <2>2, <2>3 DEF RowsKept
<1>9. slip' = {} => RuinedIsKnown'
  <2> SUFFICES ASSUME slip' = {} PROVE RuinedIsKnown' OBVIOUS
  <2>1. Clear /\ slip = {} /\ RuinedIsKnown BY DEF Clear, RecoveryIInv
  <2>2. /\ ~Foreign /\ wal'.rows = wal.rows /\ file'.head = file.head /\ (Exists => file' = file)
    BY <1>7, <2>1, PathClear
  <2>3. Emptied' = Emptied BY <1>3, <2>2 DEF Emptied
  <2>4. MarkerStands /\ marker # file.id => MarkerStands' /\ marker' # file'.id
    <3> SUFFICES ASSUME MarkerStands, marker # file.id PROVE MarkerStands' /\ marker' # file'.id OBVIOUS
    <3>1. MarkerStands' BY DEF MarkerStands, Rotated
    <3>2. PICK i \in DOMAIN backups : backups[i].store.id = marker BY DEF MarkerStands, Rotated
    <3>3. marker <= made /\ made \in Nat BY <1>0, <3>2 DEF FilesDiffer, RecoveryTypeOK
    <3> QED BY <1>3, <3>1, <3>3
  <2>5. Refused => Refused'
    <3> SUFFICES ASSUME Refused PROVE Refused' OBVIOUS
    <3>1. file'.ver = 0 /\ marker' = 0 BY <1>3 DEF Refused
    <3>2. verdict.bound # "gone" => verdict' = verdict
      <4>1. Exists => verdict' = verdict BY <2>2 DEF Written
      <4>2. ~Exists /\ verdict.bound # "gone" => Unbound = verdict
        <5>1. verdict.bound # "here" => verdict = [verdict EXCEPT !.bound = verdict.bound] BY <1>0 DEF RecoveryTypeOK, Verdict
        <5> QED BY <1>0, <5>1 DEF Unbound, FilesDiffer
      <4> QED BY <4>1, <4>2 DEF Written
    <3>3. ASSUME NEW q \in Proc, Concluding(q) PROVE Concluding(q)' BY <1>1, <3>3 DEF Concluding
    <3>4. (\E q \in Proc : Concluding(q)') \/ (verdict'.status = "hard_fail" /\ verdict'.bound # "gone")
      BY <3>2, <3>3 DEF Refused
    <3>5. ASSUME NEW q \in Proc, hold'[q] = "migrate" PROVE pc'[q] = "preflight"
      <4>1. CASE q = p
        <5>1. hold[p] = "migrate" BY <1>1, <3>5, <4>1
        <5>2. pc[p] = "preflight" BY <5>1 DEF Refused
        <5>3. FALSE BY <5>2
        <5> QED BY <5>3
      <4>2. CASE q # p BY <1>1, <3>5, <4>2 DEF Refused
      <4> QED BY <4>1, <4>2
    <3> QED BY <3>1, <3>4, <3>5 DEF Refused
  <2> QED BY <2>1, <2>3, <2>4, <2>5 DEF RuinedIsKnown
<1>10. \A q \in Proc \ {p} : Fits(q)'
  BY <1>1, <1>2, <1>3, <1>4, ShareableFits
<1>11. StepKeeps(p)' /\ StepKnows(p)' BY <1>1 DEF StepKeeps, StepKnows
<1> QED BY <1>1, <1>4, <1>5, <1>6, <1>8, <1>9, <1>10, <1>11, Whole DEF Fits

LEMMA WrittenIs ==
    ASSUME RecoveryTypeOK, FilesDiffer, NEW f, NEW w, Written(f, w)
    PROVE  /\ file' = f /\ wal' = w /\ verdict' \in Verdict /\ verdict'.status = verdict.status
           /\ verdict'.bound = "here" => Exists'
           /\ f = file => verdict' = verdict
<1>1. verdict \in Verdict BY DEF RecoveryTypeOK
<1>2. Unbound \in Verdict /\ Unbound.status = verdict.status /\ Unbound.bound # "here" BY <1>1 DEF Unbound, Verdict
<1> QED BY <1>1, <1>2 DEF Written, FilesDiffer, Exists

LEMMA OpeningIs ==
    ASSUME RecoveryIInv, NEW p \in Proc, pc[p] = "check", Opening(p)
    PROVE  /\ Shareable(p) /\ made' = (IF Exists THEN made ELSE made + 1)
           /\ rescue[p].of <= made /\ hold[p] \in {"none", "migrate"}
           /\ Held(p) \in {"open", "migrate"} /\ (Held(p) = "open" \/ Held(p) = hold[p])
           /\ Late("late") \subseteq Windows /\ (Late("late") = {} => marker \in {0, file.id})
<1>1. rescue[p].of <= made BY HoldOf DEF StepFits
<1>2. hold[p] \in {"none", "migrate"} BY HoldOf DEF HoldFits, Checking
<1> QED BY <1>1, <1>2 DEF Opening, Held, Late, Windows

(* A file that is found damaged had rows; a new one is not. *)
LEMMA BrokenIs ==
    ASSUME RecoveryIInv, Broken(ConnectedFile)
    PROVE  Exists /\ file.ver > 0 /\ file.id # 0
<1>1. RecoveryTypeOK /\ FilesDiffer /\ made \in Nat BY DEF RecoveryIInv, RecoveryTypeOK
<1>2. Exists BY <1>1, ConnectedIs, EmptyFiles DEF Broken
<1>3. file.id # 0 BY <1>1, <1>2 DEF FilesDiffer, Exists
<1>4. Broken(AtPath) BY <1>1, <1>2, ConnectedIs
<1>5. file.ver \in 0..3 BY <1>1 DEF RecoveryTypeOK, StoreFile
<1>6. file.ver # 0
  <2> SUFFICES ASSUME file.ver = 0 PROVE FALSE OBVIOUS
  <2>1. AtPath = file BY <1>1, AtPathIs
  <2> QED BY <1>1, <1>4, <2>1 DEF Broken, FilesDiffer
<1> QED BY <1>2, <1>3, <1>5, <1>6

LEMMA SnapIs ==
    ASSUME RecoveryIInv
    PROVE  snap \in StoreFile /\ snap.hurt = {} /\ snap.head /\ (snap # NoFile => snap.ver > 0)
BY DEF RecoveryIInv, RecoveryTypeOK, FilesDiffer

LEMMA ConnectHolds ==
    /\ \A h \in {"open", "migrate"} : h \in Holds /\ HoldFits("schema", h)
    /\ \A h \in {"none", "migrate"} : h \in Holds /\ HoldFits("corrupt", h)
    /\ "none" \in Holds /\ HoldFits("idle", "none")
BY DEF Quiet, Checking, Recovering, Rescuing, Opened, Restoring, Holds, Exclusive, HoldFits

LEMMA OpenCheckedKeeps == ASSUME RecoveryIInv, NEW p \in Proc, OpenChecked(p) PROVE RecoveryIInv'
<1>1. /\ pc[p] = "check" /\ Opening(p) /\ Written(ConnectedFile, BesidePath) /\ Step(p, "schema", Held(p))
      /\ slip' = slip \cup Late("late") /\ UNCHANGED <<policy, backups, marker, snap, copies, rescue, owed, ruined, migrated>>
  BY DEF OpenChecked, Slip, archive
<1>2. RecoveryTypeOK /\ FilesDiffer BY DEF RecoveryIInv
<1>3. /\ file' = ConnectedFile /\ wal' = BesidePath /\ verdict' \in Verdict /\ (verdict'.bound = "here" => Exists')
  BY <1>1, <1>2, WrittenIs
<1>4. /\ Shareable(p) /\ made' = (IF Exists THEN made ELSE made + 1)
      /\ rescue[p].of <= made /\ hold[p] \in {"none", "migrate"}
      /\ Held(p) \in {"open", "migrate"} /\ (Held(p) = "open" \/ Held(p) = hold[p])
      /\ Late("late") \subseteq Windows /\ (Late("late") = {} => marker \in {0, file.id})
  BY <1>1, OpeningIs
<1>5. slip \subseteq slip' /\ slip' \subseteq Windows BY <1>1, <1>4, VerdictIs
<1>6. /\ made <= made' /\ Exists' /\ made' \in Nat /\ made \in Nat
      /\ Exists => file'.id = file.id
      /\ ~Exists => file = NoFile
  BY <1>2, <1>3, <1>4, Connects DEF RecoveryTypeOK
<1>7. StepFits(p)'
  <2>1. pc'[p] = "schema" /\ rescue'[p] = rescue[p] BY <1>1, <1>2 DEF Step, RecoveryTypeOK
  <2>2. "late" \notin slip' => marker' \in {0, file'.id}
    <3>1. "late" \notin slip' => marker \in {0, file.id} BY <1>1 DEF Late
    <3>2. ~Exists => file.id = 0 BY <1>6, EmptyFiles
    <3> QED BY <1>1, <1>6, <3>1, <3>2
  <2>3. rescue'[p].of <= made'
    <3>1. rescue[p].of \in Nat BY HoldOf DEF Rescue
    <3> QED BY <1>4, <1>6, <2>1, <3>1
  <2> QED BY <1>6, <2>1, <2>2, <2>3 DEF StepFits, Recovering, Rescuing, Restoring
<1>8. Held(p) \in Holds /\ HoldFits("schema", Held(p)) BY <1>4, ConnectHolds
<1> QED BY <1>1, <1>3, <1>4, <1>5, <1>7, <1>8, HoldOf, SnapIs, ConnectingKeeps

(* An open that raises after it has connected. *)
LEMMA ConnectLeaves ==
    ASSUME RecoveryIInv, NEW p \in Proc, pc[p] = "check", Opening(p), Leave(p), file' = ConnectedFile, wal' = BesidePath,
           verdict' \in Verdict, verdict'.bound = "here" => Exists', Refused => Written(ConnectedFile, BesidePath),
           UNCHANGED <<policy, backups, marker, snap, copies, owed, ruined, migrated>>,
           slip \subseteq slip', slip' \subseteq Windows
    PROVE  RecoveryIInv'
<1>1. Step(p, "idle", "none") /\ rescue' = [rescue EXCEPT ![p] = NoJob] BY DEF Leave
<1>2. Shareable(p) /\ made' = (IF Exists THEN made ELSE made + 1) BY OpeningIs
<1>3. pc'[p] = "idle" /\ rescue'[p] = NoJob BY <1>1 DEF Step, RecoveryIInv, RecoveryTypeOK
<1>4. made \in Nat /\ made' \in Nat BY <1>2, Connects DEF RecoveryIInv, RecoveryTypeOK
<1>5. NoJob \in Rescue /\ NoJob.of = 0 BY <1>4, EmptyFiles
<1>6. StepFits(p)' BY <1>3, <1>4, <1>5, EarlyFits DEF Early
<1> QED BY <1>1, <1>2, <1>5, <1>6, ConnectHolds, SnapIs, ConnectingKeeps

LEMMA OpenFailedKeeps == ASSUME RecoveryIInv, NEW p \in Proc, OpenFailed(p) PROVE RecoveryIInv'
<1>1. /\ pc[p] = "check" /\ Opening(p) /\ Written(ConnectedFile, BesidePath) /\ Leave(p)
      /\ UNCHANGED <<policy, backups, marker, snap, copies, owed, ruined, migrated, slip>>
  BY DEF OpenFailed, archive, history
<1>2. /\ file' = ConnectedFile /\ wal' = BesidePath /\ verdict' \in Verdict /\ (verdict'.bound = "here" => Exists')
  BY <1>1, WrittenIs DEF RecoveryIInv
<1> QED BY <1>1, <1>2, VerdictIs, ConnectLeaves

LEMMA OpenUncheckedKeeps == ASSUME RecoveryIInv, NEW p \in Proc, OpenUnchecked(p) PROVE RecoveryIInv'
<1>1. /\ pc[p] = "check" /\ Opening(p) /\ file.ver > 0 /\ file' = AtPath /\ wal' = BesidePath /\ Record("degraded")
      /\ slip' = slip \cup Late("late") /\ UNCHANGED <<policy, backups, marker, snap, copies, owed, ruined, migrated>>
      /\ (Step(p, "schema", Held(p)) /\ UNCHANGED rescue) \/ Leave(p)
  BY DEF OpenUnchecked, Slip, archive
<1>2. RecoveryTypeOK /\ FilesDiffer BY DEF RecoveryIInv
<1>3. Exists BY <1>1, EmptyFiles, <1>2 DEF Exists, NoFile
<1>4. file' = ConnectedFile BY <1>1, <1>2, <1>3, ConnectedIs
<1>5. /\ Shareable(p) /\ made' = (IF Exists THEN made ELSE made + 1)
      /\ rescue[p].of <= made
      /\ Held(p) \in {"open", "migrate"} /\ (Held(p) = "open" \/ Held(p) = hold[p])
      /\ Late("late") \subseteq Windows
  BY <1>1, OpeningIs
<1>6. Exists' /\ made' = made /\ file'.id = file.id BY <1>1, <1>3, <1>4, <1>5, Connects
<1>7. verdict' \in Verdict /\ (verdict'.bound = "here" => Exists') BY <1>1, <1>2, <1>6, RecordIs
<1>8. slip \subseteq slip' /\ slip' \subseteq Windows BY <1>1, <1>5, VerdictIs
<1>9. ~Refused BY <1>1 DEF Refused
<1>10. CASE Leave(p) BY <1>1, <1>4, <1>7, <1>8, <1>9, <1>10, ConnectLeaves
<1>11. CASE Step(p, "schema", Held(p)) /\ UNCHANGED rescue
  <2>1. pc'[p] = "schema" /\ rescue'[p] = rescue[p] BY <1>2, <1>11 DEF Step, RecoveryTypeOK
  <2>2. "late" \notin slip' => marker' \in {0, file'.id} BY <1>1, <1>6 DEF Late
  <2>3. StepFits(p)' BY <1>5, <1>6, <2>1, <2>2 DEF StepFits, Recovering, Rescuing, Restoring
  <2>4. Held(p) \in Holds /\ HoldFits("schema", Held(p)) BY <1>5, ConnectHolds
  <2> QED BY <1>1, <1>4, <1>5, <1>7, <1>8, <1>9, <1>11, <2>3, <2>4, HoldOf, SnapIs, ConnectingKeeps
<1> QED BY <1>1, <1>10, <1>11

LEMMA FoundCorruptKeeps == ASSUME RecoveryIInv, NEW p \in Proc, FoundCorrupt(p) PROVE RecoveryIInv'
<1>1. /\ pc[p] = "check" /\ Opening(p) /\ Broken(ConnectedFile) /\ file' = ConnectedFile /\ wal' = BesidePath
      /\ UNCHANGED <<policy, backups, marker, snap, copies, owed, ruined, migrated, slip>>
  BY DEF FoundCorrupt, archive, history
<1>2. RecoveryTypeOK /\ FilesDiffer BY DEF RecoveryIInv
<1>3. Exists /\ file.ver > 0 /\ file.id # 0 BY <1>1, BrokenIs
<1>4. /\ Shareable(p) /\ made' = (IF Exists THEN made ELSE made + 1) /\ hold[p] \in {"none", "migrate"}
  BY <1>1, OpeningIs
<1>5. Exists' /\ made' = made /\ file'.id = file.id /\ file'.ver = file.ver BY <1>1, <1>3, <1>4, Connects
<1>6. ~Refused BY <1>3 DEF Refused
<1>7. CASE Record("degraded") /\ Leave(p)
  <2>1. verdict' \in Verdict /\ (verdict'.bound = "here" => Exists') BY <1>2, <1>5, <1>7, RecordIs
  <2> QED BY <1>1, <1>6, <1>7, <2>1, VerdictIs, ConnectLeaves
<1>8. CASE UNCHANGED verdict /\ Step(p, "corrupt", hold[p]) /\ rescue' = [rescue EXCEPT ![p].of = ConnectedFile.id]
  <2> DEFINE job == [rescue[p] EXCEPT !.of = file'.id]
  <2>1. rescue' = [rescue EXCEPT ![p] = job] BY <1>1, <1>8
  <2>2. file'.id \in Nat /\ file'.id <= made /\ file'.id # 0
    BY <1>2, <1>3, <1>5 DEF RecoveryTypeOK, StoreFile, FilesDiffer
  <2>3. job \in Rescue /\ job.of = file'.id BY <2>2, HoldOf DEF Rescue
  <2> HIDE DEF job
  <2>4. pc'[p] = "corrupt" /\ rescue'[p] = job BY <1>2, <1>8, <2>1 DEF Step, RecoveryTypeOK
  <2>5. StepFits(p)' BY <1>3, <1>5, <2>2, <2>3, <2>4 DEF StepFits, Opened, Recovering, Rescuing, Restoring
  <2>6. hold[p] \in Holds /\ HoldFits("corrupt", hold[p]) BY <1>4, ConnectHolds
  <2>7. verdict' \in Verdict /\ (verdict'.bound = "here" => Exists') BY <1>5, <1>8, VerdictIs
  <2> QED BY <1>1, <1>4, <1>6, <1>8, <2>1, <2>3, <2>5, <2>6, <2>7, VerdictIs, SnapIs, ConnectingKeeps
<1> QED BY <1>7, <1>8 DEF FoundCorrupt, Goto

LEMMA CreateSnapshotKeeps == ASSUME RecoveryIInv, NEW p \in Proc, CreateSnapshot(p) PROVE RecoveryIInv'
<1>1. /\ pc[p] = "idle" /\ Shareable(p) /\ file.ver > 0 /\ Written(AtPath, BesidePath) /\ made' = made
      /\ UNCHANGED <<policy, backups, marker, copies, pc, hold, rescue, owed, ruined, migrated, slip>>
      /\ IF Broken(AtPath) THEN UNCHANGED snap
         ELSE snap' = [[[NoFile EXCEPT !.id = file.id] EXCEPT !.rows = Rows] EXCEPT !.ver = file.ver]
  BY DEF CreateSnapshot, Start, history
<1>2. RecoveryTypeOK /\ FilesDiffer BY DEF RecoveryIInv
<1>3. Exists BY <1>1, EmptyFiles, <1>2 DEF Exists, NoFile
<1>4. ConnectedFile = AtPath BY <1>2, <1>3, ConnectedIs
<1>5. /\ file' = ConnectedFile /\ wal' = BesidePath /\ verdict' \in Verdict /\ (verdict'.bound = "here" => Exists')
      /\ Written(ConnectedFile, BesidePath)
  BY <1>1, <1>2, <1>4, WrittenIs
<1>6. snap' \in StoreFile /\ snap'.hurt = {} /\ snap'.head /\ (snap' # NoFile => snap'.ver > 0)
  <2>1. Rows \subseteq Row /\ file.id \in Nat /\ file.ver \in 0..3 BY <1>2, RowsAre DEF RecoveryTypeOK, StoreFile
  <2> DEFINE f == [[[NoFile EXCEPT !.id = file.id] EXCEPT !.rows = Rows] EXCEPT !.ver = file.ver]
  <2>2. f \in StoreFile /\ f.hurt = {} /\ f.head /\ f.ver = file.ver BY <2>1 DEF NoFile, StoreFile
  <2> HIDE DEF f
  <2> QED BY <1>1, <2>2, SnapIs DEF f
<1>7. hold[p] = "none" /\ rescue[p].of <= made BY <1>1, HoldOf DEF Quiet, StepFits
<1>8. Step(p, "idle", "none") BY <1>1, <1>2, <1>7 DEF Step, RecoveryTypeOK
<1>9. StepFits(p)' BY <1>1, <1>7, EarlyFits DEF Early
<1>10. made' = IF Exists THEN made ELSE made + 1 BY <1>1, <1>3
<1> QED BY <1>1, <1>5, <1>6, <1>8, <1>9, <1>10, HoldOf, ConnectHolds, VerdictIs, ConnectingKeeps

-----------------------------------------------------------------------------
(* The steps that change the files.                                         *)

LEMMA FilesMove ==
    ASSUME RecoveryIInv, UNCHANGED <<backups, snap>>, file' \in StoreFile, made' \in Nat, made <= made',
           file'.id = file.id \/ file'.id = 0 \/ (file'.id = made + 1 /\ made' = made + 1),
           file'.id = 0 => file' = NoFile, file'.ver = 0 => file'.rows = {} /\ file'.hurt = {} /\ file'.head,
           wal'.rows # {} => wal'.of > 0 /\ wal'.of <= made' /\ (wal'.of = file'.id => file'.ver > 0),
           verdict'.bound = "here" => Exists'
    PROVE  FilesDiffer'
<1>1. RecoveryTypeOK /\ FilesDiffer BY DEF RecoveryIInv
<1>2. made \in Nat /\ file.id \in Nat /\ backups \in Seq(Rotation) BY <1>1 DEF RecoveryTypeOK, StoreFile, Rotation
<1>3. \A i \in DOMAIN backups :
          /\ backups[i].store.id <= made'
          /\ backups[i].store.id = 0 => backups[i].store.rows = {} /\ backups[i].wal = {}
          /\ backups[i].store.id # 0 =>
                /\ backups[i].store.id # file'.id
                /\ \A j \in DOMAIN backups : backups[i].store.id = backups[j].store.id => i = j
  <2> SUFFICES ASSUME NEW i \in DOMAIN backups
               PROVE  backups[i].store.id <= made' /\ (backups[i].store.id # 0 => backups[i].store.id # file'.id)
    BY <1>1 DEF FilesDiffer
  <2>1. backups[i] \in Rotation BY <1>2
  <2>2. backups[i].store.id \in Nat BY <2>1 DEF Rotation, StoreFile
  <2>3. backups[i].store.id <= made /\ (backups[i].store.id # 0 => backups[i].store.id # file.id) BY <1>1 DEF FilesDiffer
  <2> QED BY <1>2, <2>2, <2>3
<1>4. file'.id <= made'
  <2>1. file.id <= made BY <1>1 DEF FilesDiffer
  <2> QED BY <1>2, <2>1
<1> QED BY <1>1, <1>3, <1>4 DEF FilesDiffer

LEMMA AloneSlips ==
    ASSUME RecoveryIInv, NEW p \in Proc, Alone(p), NEW n \in Steps, NEW h \in Holds, Step(p, n, h), HoldFits(n, h),
           NEW job \in Rescue, rescue' = [rescue EXCEPT ![p] = job],
           UNCHANGED <<policy, marker, snap>>, slip \subseteq slip', slip' \subseteq Windows,
           file' \in StoreFile, wal' \in Beside, backups' \in Seq(Rotation),
           verdict' \in Verdict, copies' \subseteq SUBSET Row, owed' \subseteq Row, ruined' \in BOOLEAN,
           migrated' \subseteq Row, made' \in Nat, Succeeds,
           FilesDiffer', MigratedHasCopy', Clear' => RowsKept', slip' = {} => RuinedIsKnown',
           StepFits(p)', Clear' => StepKeeps(p)', slip' = {} => StepKnows(p)'
    PROVE  RecoveryIInv'
<1>1. /\ pc' \in [Proc -> Steps] /\ hold' \in [Proc -> Holds] /\ HoldsFit' /\ ExclusiveIsAlone'
      /\ \A q \in Proc \ {p} : pc'[q] = pc[q]
  BY HoldStep DEF RecoveryIInv
<1>2. /\ rescue' \in [Proc -> Rescue] /\ \A q \in Proc \ {p} : rescue'[q] = rescue[q]
  BY DEF RecoveryIInv, RecoveryTypeOK
<1>3. policy' \in [strict : BOOLEAN, knob : BOOLEAN, cold : SUBSET Row, room : Nat] /\ marker' \in Nat /\ snap' \in StoreFile
  BY DEF RecoveryIInv, RecoveryTypeOK
<1>4. RecoveryTypeOK' BY <1>1, <1>2, <1>3 DEF RecoveryTypeOK, Holds, Beside, Rotation
<1>5. \A q \in Proc \ {p} : Fits(q)' BY <1>1, <1>2, <1>4, AloneFits
<1> QED BY <1>1, <1>4, <1>5, Whole DEF Fits

LEMMA AloneKeeps ==
    ASSUME RecoveryIInv, NEW p \in Proc, Alone(p), NEW n \in Steps, NEW h \in Holds, Step(p, n, h), HoldFits(n, h),
           NEW job \in Rescue, rescue' = [rescue EXCEPT ![p] = job],
           UNCHANGED <<policy, marker, snap, slip>>, file' \in StoreFile, wal' \in Beside, backups' \in Seq(Rotation),
           verdict' \in Verdict, copies' \subseteq SUBSET Row, owed' \subseteq Row, ruined' \in BOOLEAN,
           migrated' \subseteq Row, made' \in Nat, Succeeds,
           FilesDiffer', MigratedHasCopy', Clear => RowsKept', slip = {} => RuinedIsKnown',
           StepFits(p)', Clear => StepKeeps(p)', slip = {} => StepKnows(p)'
    PROVE  RecoveryIInv'
<1>1. Clear' => Clear BY DEF Clear
<1>2. slip' \subseteq Windows BY DEF RecoveryIInv, RecoveryTypeOK
<1> QED BY <1>1, <1>2, AloneSlips

(* A process that has found no file makes one, whatever another is at.      *)
LEMMA PrepareKeeps == ASSUME RecoveryIInv, NEW p \in Proc, Prepare(p) PROVE RecoveryIInv'
<1>1. /\ pc[p] = "idle" /\ Step(p, "resume", hold[p])
      /\ UNCHANGED <<policy, wal, backups, marker, verdict, snap, copies, rescue, owed, ruined, migrated, slip>>
  BY DEF Prepare, Start, Goto, archive, history
<1>2. hold[p] = "none" /\ rescue[p].of <= made BY <1>1, HoldOf DEF Quiet, StepFits
<1>3. "resume" \in Early /\ "resume" \in Steps /\ "none" \in Holds /\ HoldFits("resume", "none")
  BY DEF Early, Steps, Quiet, Checking, Recovering, Rescuing, Opened, Restoring, Holds, Exclusive, HoldFits
<1>4. CASE Exists
  <2>1. UNCHANGED <<file, made>> BY <1>4 DEF Prepare
  <2> QED BY <1>1, <1>2, <1>3, <2>1, HoldOf, VerdictIs, EarlyKeeps DEF Early, Looks
<1>5. CASE ~Exists
  <2>1. file' = Fresh /\ made' = made + 1 BY <1>5 DEF Prepare
  <2>2. RecoveryTypeOK /\ FilesDiffer /\ made \in Nat /\ file = NoFile BY <1>5 DEF RecoveryIInv, RecoveryTypeOK, Exists
  <2>3. /\ file' \in StoreFile /\ file'.id = made + 1 /\ file'.rows = {} /\ file'.hurt = {} /\ file'.head /\ file'.ver = 0 /\ Exists'
        /\ file.id = 0 /\ file.rows = {} /\ file.hurt = {} /\ file.head /\ file.ver = 0
    BY <2>1, <2>2, EmptyFiles DEF Exists
  <2>4. /\ pc' \in [Proc -> Steps] /\ hold' \in [Proc -> Holds] /\ HoldsFit' /\ ExclusiveIsAlone' /\ pc'[p] = "resume"
        /\ \A q \in Proc \ {p} : pc'[q] = pc[q] /\ hold'[q] = hold[q]
    BY <1>1, <1>2, <1>3, HoldStep DEF RecoveryIInv
  <2>5. RecoveryTypeOK' BY <1>1, <2>1, <2>2, <2>3, <2>4 DEF RecoveryTypeOK, Holds
  <2>6. FilesDiffer'
    <3>1. wal.rows # {} => wal.of > 0 /\ wal.of <= made /\ wal.of \in Nat BY <2>2 DEF FilesDiffer, RecoveryTypeOK
    <3>2. wal'.rows # {} => wal'.of > 0 /\ wal'.of <= made' /\ (wal'.of = file'.id => file'.ver > 0)
      BY <1>1, <2>1, <2>2, <2>3, <3>1
    <3> QED BY <1>1, <2>1, <2>2, <2>3, <3>2, FilesMove
  <2>7. MigratedHasCopy' BY <1>1 DEF RecoveryIInv, MigratedHasCopy
  <2>8. Clear' => RowsKept'
    <3> SUFFICES ASSUME Clear' PROVE RowsKept' OBVIOUS
    <3>1. Clear /\ RowsKept BY <1>1 DEF Clear, RecoveryIInv
    <3>2. Salvageable' = Salvageable BY <1>1 DEF Salvageable, InHand
    <3>3. ASSUME wal.rows # {}, \A q \in Proc : pc'[q] \notin {"sidecars", "replaced"} PROVE FALSE
      <4>1. \A q \in Proc : pc[q] \notin {"sidecars", "replaced"} BY <1>1, <2>4, <3>3
      <4>2. wal.of = 0 BY <2>3, <3>1, <3>3, <4>1 DEF RowsKept
      <4> QED BY <2>2, <3>3, <4>2 DEF FilesDiffer
    <3> QED BY <1>1, <2>3, <3>1, <3>2, <3>3 DEF RowsKept
  <2>9. slip' = {} => RuinedIsKnown'
    <3> SUFFICES ASSUME slip' = {} PROVE RuinedIsKnown' OBVIOUS
    <3>1. RuinedIsKnown BY <1>1 DEF RecoveryIInv
    <3>2. Emptied' = Emptied BY <1>1, <2>3 DEF Emptied
    <3>3. MarkerStands => MarkerStands' /\ marker' # file'.id
      <4> SUFFICES ASSUME MarkerStands PROVE MarkerStands' /\ marker' # file'.id OBVIOUS
      <4>1. MarkerStands' BY <1>1 DEF MarkerStands, Rotated
      <4>2. PICK i \in DOMAIN backups : backups[i].store.id = marker BY DEF MarkerStands, Rotated
      <4>3. marker <= made BY <2>2, <4>2 DEF FilesDiffer
      <4> QED BY <1>1, <2>2, <2>3, <4>1, <4>3
    <3>4. Refused => Refused'
      <4> SUFFICES ASSUME Refused PROVE Refused' OBVIOUS
      <4>1. ASSUME NEW q \in Proc, Concluding(q) PROVE Concluding(q)' BY <1>1, <2>4, <4>1 DEF Concluding
      <4>2. (\E q \in Proc : Concluding(q)') \/ (verdict'.status = "hard_fail" /\ verdict'.bound # "gone")
        BY <1>1, <4>1 DEF Refused
      <4>3. hold'[p] = "none" BY <1>1, <1>2, <2>2 DEF Step, RecoveryTypeOK
      <4>4. ASSUME NEW r \in Proc, hold'[r] = "migrate" PROVE pc'[r] = "preflight" BY <2>4, <4>3, <4>4 DEF Refused
      <4> QED BY <1>1, <2>3, <4>2, <4>4 DEF Refused
    <3> QED BY <1>1, <3>1, <3>2, <3>3, <3>4 DEF RuinedIsKnown
  <2>10. ASSUME NEW q \in Proc \ {p} PROVE Fits(q)'
    <3>1. StepFits(q) /\ (Clear => StepKeeps(q)) /\ (slip = {} => StepKnows(q)) /\ rescue[q].of \in Nat /\ pc'[q] = pc[q]
      BY <2>4, HoldOf DEF Rescue
    <3>2. pc[q] \notin Opened \cup {"rotate", "rebuild", "restore", "restored", "replaced"}
      BY <2>3, <3>1, <1>5 DEF StepFits, Opened
    <3>3. rescue'[q].of <= made' BY <1>1, <2>1, <2>2, <3>1 DEF StepFits
    <3>4. pc'[q] \in {"corrupt", "recover"} => rescue'[q].of # 0 /\ (rescue'[q].of = file'.id => file'.ver > 0)
      BY <1>1, <2>2, <2>3, <3>1 DEF StepFits
    <3>5. MarkerStands' = MarkerStands /\ LastRotated' = LastRotated /\ Salvageable' = Salvageable
      BY <1>1 DEF MarkerStands, Rotated, LastRotated, Salvageable, InHand
    <3>6. pc[q] \in Rescuing => marker' # file'.id BY <1>1, <2>2, <2>3, <3>1 DEF StepFits
    <3>7. StepFits(q)' BY <1>1, <2>3, <3>1, <3>2, <3>3, <3>4, <3>5, <3>6 DEF StepFits, Opened, Rescuing
    <3>8. Clear' => StepKeeps(q)'
      <4>1. Clear' => StepKeeps(q) BY <1>1, <3>1 DEF Clear
      <4> QED BY <1>1, <2>3, <3>1, <3>2, <3>5, <4>1 DEF StepKeeps
    <3>9. slip' = {} => StepKnows(q)'
      <4>1. slip' = {} => StepKnows(q) BY <1>1, <3>1
      <4> QED BY <1>1, <3>1, <3>2, <4>1 DEF StepKnows
    <3> QED BY <3>7, <3>8, <3>9 DEF Fits
  <2>11. rescue[p].of \in Nat BY HoldOf DEF Rescue
  <2>12. Fits(p)'
    <3>1. rescue'[p].of <= made' BY <1>1, <1>2, <2>1, <2>2, <2>11
    <3> QED BY <1>3, <2>4, <3>1, EarlyFits DEF Fits
  <2> QED BY <2>4, <2>5, <2>6, <2>7, <2>8, <2>9, <2>10, <2>12, Whole
<1> QED BY <1>4, <1>5

LEMMA DamageKeeps == ASSUME RecoveryIInv, Damage PROVE RecoveryIInv'
<1>1. /\ file.ver > 0
      /\ UNCHANGED <<policy, wal, backups, marker, verdict, snap, copies, pc, hold, rescue, migrated, slip, made>>
  BY DEF Damage, archive
<1>2. RecoveryTypeOK /\ FilesDiffer /\ file \in StoreFile BY DEF RecoveryIInv, RecoveryTypeOK
<1>3. /\ file' \in StoreFile /\ file'.id = file.id /\ file'.rows = file.rows /\ file'.ver = file.ver
      /\ owed' \subseteq owed /\ ruined' \in BOOLEAN
      /\ owed' \cap file'.hurt \subseteq owed \cap file.hurt
      /\ (file'.head => file.head) /\ file.hurt \subseteq file'.hurt
      /\ (~file'.head => owed' = {} \/ ~file.head) /\ (ruined' => ruined \/ ~file'.head)
  <2>1. ASSUME NEW r \in file.rows, file' = [file EXCEPT !.hurt = @ \cup {r}], owed' = owed \ {r}, UNCHANGED ruined
        PROVE  /\ file' \in StoreFile /\ file'.id = file.id /\ file'.rows = file.rows /\ file'.ver = file.ver
               /\ file'.head = file.head /\ file'.hurt = file.hurt \cup {r}
    BY <1>2, <2>1 DEF StoreFile
  <2>2. ASSUME file' = [file EXCEPT !.head = FALSE]
        PROVE  /\ file' \in StoreFile /\ file'.id = file.id /\ file'.rows = file.rows /\ file'.ver = file.ver
               /\ ~file'.head /\ file'.hurt = file.hurt
    BY <1>2, <2>2 DEF StoreFile
  <2>3. ruined \in BOOLEAN BY <1>2 DEF RecoveryTypeOK
  <2>4. CASE \E r \in file.rows : file' = [file EXCEPT !.hurt = @ \cup {r}] /\ owed' = owed \ {r} /\ UNCHANGED ruined
    <3>1. PICK r \in file.rows : file' = [file EXCEPT !.hurt = @ \cup {r}] /\ owed' = owed \ {r} /\ UNCHANGED ruined
      BY <2>4
    <3> QED BY <2>1, <2>3, <3>1
  <2>5. CASE file.head /\ file' = [file EXCEPT !.head = FALSE] /\ owed' = {} /\ ruined' = TRUE
    BY <2>2, <2>5
  <2> QED BY <2>4, <2>5 DEF Damage
<1>4. Exists' /\ Exists BY <1>1, <1>2, <1>3, EmptyFiles DEF Exists, NoFile
<1>5. RecoveryTypeOK' BY <1>1, <1>2, <1>3 DEF RecoveryTypeOK
<1>6. HoldsFit' /\ ExclusiveIsAlone' /\ MigratedHasCopy'
  BY <1>1 DEF RecoveryIInv, HoldsFit, HoldFits, ExclusiveIsAlone, MigratedHasCopy
<1>7. FilesDiffer'
  <2>1. file'.id # 0 BY <1>2, <1>3, <1>4 DEF FilesDiffer, Exists
  <2>2. wal'.rows # {} => wal'.of > 0 /\ wal'.of <= made' /\ (wal'.of = file'.id => file'.ver > 0)
    BY <1>1, <1>2, <1>3 DEF FilesDiffer
  <2>3. made' \in Nat /\ made <= made' BY <1>1, <1>2 DEF RecoveryTypeOK
  <2> QED BY <1>1, <1>3, <1>4, <2>1, <2>2, <2>3, FilesMove
<1>8. Clear' => RowsKept'
  <2> SUFFICES ASSUME Clear' PROVE RowsKept' OBVIOUS
  <2>1. Clear /\ RowsKept BY <1>1 DEF Clear, RecoveryIInv
  <2>2. Salvageable' = Salvageable BY <1>1 DEF Salvageable, InHand
  <2>3. owed' \cap file'.hurt = {} BY <1>3, <2>1 DEF RowsKept
  <2>4. ~file'.head => owed' = {} BY <1>3, <2>1 DEF RowsKept
  <2>5. owed' \subseteq file'.rows \cup wal'.rows \cup Salvageable' BY <1>1, <1>3, <2>1, <2>2 DEF RowsKept
  <2> QED BY <1>1, <1>3, <2>1, <2>3, <2>4, <2>5 DEF RowsKept
<1>9. slip' = {} => RuinedIsKnown'
  <2> SUFFICES ASSUME slip' = {} PROVE RuinedIsKnown' OBVIOUS
  <2>1. RuinedIsKnown /\ ~Refused BY <1>1 DEF RecoveryIInv, Refused
  <2>2. MarkerStands' = MarkerStands BY <1>1 DEF MarkerStands, Rotated
  <2>3. Emptied' => Emptied /\ (ruined' => ruined) BY <1>1, <1>3 DEF Emptied
  <2> QED BY <1>1, <1>3, <2>1, <2>2, <2>3 DEF RuinedIsKnown
<1>10. ASSUME NEW q \in Proc PROVE Fits(q)'
  <2>1. StepFits(q) /\ (Clear => StepKeeps(q)) /\ (slip = {} => StepKnows(q)) BY HoldOf
  <2>2. MarkerStands' = MarkerStands /\ LastRotated' = LastRotated /\ Salvageable' = Salvageable
    BY <1>1 DEF MarkerStands, Rotated, LastRotated, Salvageable, InHand
  <2>3. Rows' \subseteq Rows
    <3>1. Foreign' = Foreign /\ BesidePath' = BesidePath BY <1>1, <1>3 DEF Foreign, BesidePath
    <3>2. /\ AtPath.rows = file.rows /\ AtPath.hurt = file.hurt /\ AtPath.head = (file.head /\ ~(Foreign /\ file.ver > 0))
      BY <1>2, AtPathIs
    <3>3. /\ AtPath'.rows = file'.rows /\ AtPath'.hurt = file'.hurt
          /\ AtPath'.head = (file'.head /\ ~(Foreign' /\ file'.ver > 0))
      <4>1. CASE Foreign' /\ file'.ver > 0
        <5>1. AtPath' = [file' EXCEPT !.head = FALSE] BY <4>1 DEF AtPath
        <5> QED BY <1>3, <4>1, <5>1 DEF StoreFile
      <4>2. CASE ~(Foreign' /\ file'.ver > 0)
        <5>1. AtPath' = file' BY <4>2 DEF AtPath
        <5> QED BY <1>3, <4>2, <5>1 DEF StoreFile
      <4> QED BY <4>1, <4>2
    <3>4. AtPath'.head => AtPath.head BY <1>3, <3>1, <3>2, <3>3
    <3> HIDE DEF AtPath, BesidePath
    <3> QED BY <1>3, <3>1, <3>2, <3>3, <3>4 DEF Rows, Readable
  <2>4. StepFits(q)'
    <3>1. pc'[q] = "migrate" => Rows' = {} \/ \E c \in copies' : Rows' \subseteq c
      BY <1>1, <2>1, <2>3 DEF StepFits
    <3>2. pc'[q] = "replaced" => file'.ver > 0 /\ (ruined' => ~file'.head) BY <1>1, <1>3, <2>1 DEF StepFits
    <3>3. pc[q] \notin {"sidecars", "prune", "conclude"}
      BY <1>1, <2>1 DEF StepFits
    <3>4. pc'[q] \in {"salvage", "decide"} => (rescue'[q].owns => file'.ver = 0) BY <1>1, <1>3, <2>1 DEF StepFits
    <3> QED BY <1>1, <1>3, <1>4, <2>1, <2>2, <3>1, <3>2, <3>3, <3>4 DEF StepFits
  <2>5. Clear' => StepKeeps(q)'
    <3>1. Clear' => StepKeeps(q) BY <1>1, <2>1 DEF Clear
    <3> QED BY <1>1, <1>3, <2>2, <3>1 DEF StepKeeps
  <2>6. slip' = {} => StepKnows(q)'
    <3>1. slip' = {} => StepKnows(q) BY <1>1, <2>1
    <3>2. Emptied' => Emptied /\ (ruined' => ruined) BY <1>1, <1>3 DEF Emptied
    <3> QED BY <1>1, <1>3, <3>1, <3>2 DEF StepKnows
  <2> QED BY <2>4, <2>5, <2>6 DEF Fits
<1> QED BY <1>5, <1>6, <1>7, <1>8, <1>9, <1>10 DEF RecoveryIInv

LEMMA RotationHolds ==
    /\ \A n \in {"sidecars", "prune", "salvage"} : n \in Steps /\ HoldFits(n, "recover")
    /\ "recover" \in Holds
BY DEF Steps, Quiet, Checking, Recovering, Rescuing, Opened, Restoring, Holds, Exclusive, HoldFits

LEMMA MoveStoreKeeps == ASSUME RecoveryIInv, NEW p \in Proc, MoveStore(p) PROVE RecoveryIInv'
<1> DEFINE moved == [store |-> file, wal |-> {}]
           job == [[NoJob EXCEPT !.of = file.id] EXCEPT !.owns = TRUE]
<1>1. /\ pc[p] = "rotate" /\ Exists /\ backups' = Append(backups, moved) /\ Written(NoFile, wal) /\ Step(p, "sidecars", hold[p])
      /\ rescue' = [rescue EXCEPT ![p] = job]
      /\ UNCHANGED <<policy, marker, snap, copies, owed, ruined, migrated, slip, made>>
  BY DEF MoveStore, Goto, archive, history, counts
<1>2. RecoveryTypeOK /\ FilesDiffer /\ file \in StoreFile /\ made \in Nat /\ backups \in Seq(Rotation)
  BY DEF RecoveryIInv, RecoveryTypeOK, Rotation
<1>3. moved \in Rotation /\ moved.store = file /\ moved.wal = {} BY <1>2 DEF Rotation
<1>4. hold[p] = "recover" /\ Alone(p) BY <1>1, HoldOf DEF Recovering
<1>5. marker = file.id /\ file.id # 0 /\ file.id <= made /\ file.id \in Nat
  BY <1>1, <1>2, HoldOf DEF StepFits, FilesDiffer, Exists, StoreFile
<1>6. job \in Rescue /\ job.of = file.id /\ job.owns BY <1>5 DEF NoJob, Rescue
<1>7. /\ file' = NoFile /\ wal' = wal /\ verdict' \in Verdict /\ (verdict'.bound = "here" => Exists')
  BY <1>1, <1>2, WrittenIs
<1> HIDE DEF moved, job
<1>8. /\ file' \in StoreFile /\ file'.id = 0 /\ file'.rows = {} /\ file'.hurt = {} /\ file'.head /\ file'.ver = 0
  BY <1>2, <1>7, EmptyFiles
<1>9. /\ backups' \in Seq(Rotation) /\ Len(backups') = Len(backups) + 1 /\ Len(backups) \in Nat
      /\ DOMAIN backups = 1..Len(backups) /\ DOMAIN backups' = 1..Len(backups')
      /\ backups'[Len(backups) + 1] = moved /\ \A i \in 1..Len(backups) : backups'[i] = backups[i]
  BY <1>1, <1>2, <1>3
<1>10. LastRotated' = moved /\ backups' # <<>> BY <1>9 DEF LastRotated
<1>11. pc'[p] = "sidecars" /\ rescue'[p] = job BY <1>1, <1>2 DEF Step, RecoveryTypeOK
<1>12. FilesDiffer'
  <2>1. ASSUME NEW i \in DOMAIN backups'
        PROVE  /\ backups'[i].store.id <= made
               /\ backups'[i].store.id = 0 => backups'[i].store.rows = {} /\ backups'[i].wal = {}
               /\ backups'[i].store.id # 0 =>
                    \A j \in DOMAIN backups' : backups'[i].store.id = backups'[j].store.id => i = j
    <3>1. CASE i = Len(backups) + 1
      <4>1. backups'[i].store.id = file.id BY <1>3, <1>9, <3>1
      <4>2. ASSUME NEW j \in DOMAIN backups', j # i PROVE backups'[j].store.id # file.id
        <5>1. j \in DOMAIN backups /\ backups'[j] = backups[j] BY <1>9, <3>1, <4>2
        <5> QED BY <1>2, <1>5, <5>1 DEF FilesDiffer
      <4> QED BY <1>5, <4>1, <4>2
    <3>2. CASE i \in DOMAIN backups
      <4>1. backups'[i] = backups[i] BY <1>9, <3>2
      <4>2. ASSUME NEW j \in DOMAIN backups', backups[i].store.id # 0, backups[i].store.id = backups'[j].store.id PROVE i = j
        <5>1. CASE j \in DOMAIN backups BY <1>2, <1>9, <3>2, <4>2, <5>1 DEF FilesDiffer
        <5>2. CASE j = Len(backups) + 1
          <6>1. backups[i].store.id = file.id BY <1>3, <1>9, <4>2, <5>2
          <6> QED BY <1>2, <3>2, <4>2, <6>1 DEF FilesDiffer
        <5> QED BY <1>9, <5>1, <5>2
      <4> QED BY <1>2, <3>2, <4>1, <4>2 DEF FilesDiffer
    <3> QED BY <1>9, <3>1, <3>2
  <2>2. wal'.rows # {} => wal'.of > 0 /\ wal'.of <= made' /\ (wal'.of = file'.id => file'.ver > 0)
    BY <1>1, <1>2, <1>7, <1>8 DEF FilesDiffer, RecoveryTypeOK
  <2>3. \A i \in DOMAIN backups' : backups'[i].store.id # 0 => backups'[i].store.id # file'.id BY <1>8
  <2> QED BY <1>1, <1>2, <1>7, <1>8, <2>1, <2>2, <2>3 DEF FilesDiffer
<1>13. Clear => RowsKept' /\ StepKeeps(p)'
  <2> SUFFICES ASSUME Clear PROVE RowsKept' /\ StepKeeps(p)' OBVIOUS
  <2>1. RowsKept BY DEF RecoveryIInv
  <2>2. Salvageable = {} BY <1>2, <1>5, NothingInHand
  <2>3. ASSUME NEW r \in owed, r \in file.rows PROVE r \in Salvageable'
    <3>1. file.head /\ r \notin file.hurt BY <2>1, <2>3 DEF RowsKept
    <3>2. r \in Scanned(moved) BY <1>3, <2>3, <3>1, ScannedIs
    <3>3. Len(backups) + 1 \in InHand' BY <1>1, <1>3, <1>5, <1>9 DEF InHand
    <3>4. \A x : x \in Salvageable' \equiv \E i \in InHand' : x \in Scanned(backups'[i]) BY DEF Salvageable, Scanned
    <3> QED BY <1>9, <3>2, <3>3, <3>4
  <2>4. owed' \subseteq file'.rows \cup wal'.rows \cup Salvageable' BY <1>1, <1>7, <2>1, <2>2, <2>3 DEF RowsKept
  <2>5. RowsKept' BY <1>8, <1>11, <2>4 DEF RowsKept
  <2>6. StepKeeps(p)' BY <1>1, <1>3, <1>10, <1>11, <2>1 DEF StepKeeps, RowsKept
  <2> QED BY <2>5, <2>6
<1>14. slip = {} => RuinedIsKnown'
  <2> SUFFICES ASSUME slip = {} PROVE RuinedIsKnown' OBVIOUS
  <2>1. file.ver > 0 /\ RuinedIsKnown BY <1>1, HoldOf DEF StepKnows, RecoveryIInv
  <2>2. \A i \in DOMAIN backups' : backups'[i].store.ver > 0 BY <1>3, <1>9, <2>1 DEF RuinedIsKnown
  <2>3. MarkerStands' /\ marker' # file'.id
    <3>1. Len(backups) + 1 \in Rotated(marker)' BY <1>1, <1>3, <1>5, <1>9 DEF Rotated
    <3> QED BY <1>1, <1>5, <1>8, <3>1 DEF MarkerStands
  <2> QED BY <2>2, <2>3 DEF RuinedIsKnown
<1>15. StepFits(p)' BY <1>1, <1>3, <1>5, <1>6, <1>8, <1>10, <1>11 DEF StepFits, Opened, Rescuing
<1>16. StepKnows(p)' BY <1>11 DEF StepKnows
<1>17. MigratedHasCopy' BY <1>1 DEF RecoveryIInv, MigratedHasCopy
<1>18. Succeeds BY <1>1, <1>2, <1>8 DEF Succeeds
<1>19. copies' \subseteq SUBSET Row /\ owed' \subseteq Row /\ ruined' \in BOOLEAN /\ migrated' \subseteq Row /\ made' \in Nat
       /\ wal' \in Beside
  BY <1>1, <1>2, <1>7 DEF RecoveryTypeOK, Beside
<1> QED BY <1>1, <1>4, <1>6, <1>7, <1>8, <1>9, <1>12, <1>13, <1>14, <1>15, <1>16, <1>17, <1>18, <1>19, RotationHolds, AloneKeeps

LEMMA UnmovedIs ==
    ASSUME RecoveryIInv, UNCHANGED <<copies, owed, ruined, migrated, made>>
    PROVE  /\ copies' \subseteq SUBSET Row /\ owed' \subseteq Row /\ ruined' \in BOOLEAN /\ migrated' \subseteq Row /\ made' \in Nat
           /\ MigratedHasCopy' /\ (file' = file => Succeeds)
BY DEF RecoveryIInv, RecoveryTypeOK, MigratedHasCopy, Succeeds

LEMMA MoveSidecarsKeeps == ASSUME RecoveryIInv, NEW p \in Proc, MoveSidecars(p) PROVE RecoveryIInv'
<1>1. /\ pc[p] = "sidecars" /\ backups' = [backups EXCEPT ![Len(backups)].wal = wal.rows] /\ wal' = NoWal
      /\ Step(p, "prune", hold[p])
      /\ UNCHANGED <<policy, file, marker, verdict, snap, copies, rescue, owed, ruined, migrated, slip, made>>
  BY DEF MoveSidecars, Goto, archive, history, counts
<1>2. RecoveryTypeOK /\ FilesDiffer /\ file \in StoreFile /\ backups \in Seq(Rotation) /\ wal \in Beside /\ wal.rows \subseteq Row
  BY DEF RecoveryIInv, RecoveryTypeOK, Rotation, Beside
<1>3. hold[p] = "recover" /\ Alone(p) BY <1>1, HoldOf DEF Recovering
<1>4. /\ backups # <<>> /\ LastRotated.store.id = marker /\ marker # 0 /\ rescue[p].of = marker /\ rescue[p].of <= made
      /\ file.ver = 0 /\ rescue[p].owns /\ LastRotated.wal = {}
  BY <1>1, HoldOf DEF StepFits
<1> DEFINE last == Len(backups)
<1>5. last \in DOMAIN backups /\ backups[last] = LastRotated /\ LastRotated \in Rotation BY <1>2, <1>4 DEF LastRotated
<1>6. /\ backups' \in Seq(Rotation) /\ DOMAIN backups' = DOMAIN backups /\ Len(backups') = last
      /\ \A i \in DOMAIN backups : i # last => backups'[i] = backups[i]
      /\ backups'[last] = [LastRotated EXCEPT !.wal = wal.rows]
  <2>1. backups' = [backups EXCEPT ![last] = [LastRotated EXCEPT !.wal = wal.rows]] BY <1>1 DEF LastRotated
  <2>2. [LastRotated EXCEPT !.wal = wal.rows] \in Rotation BY <1>2, <1>5 DEF Rotation
  <2> QED BY <1>2, <1>5, <2>1, <2>2
<1>7. backups'[last].store = LastRotated.store /\ backups'[last].wal = wal.rows BY <1>5, <1>6 DEF Rotation
<1>8. wal' \in Beside /\ wal'.rows = {} BY <1>1, <1>2, EmptyFiles DEF RecoveryTypeOK
<1>9. \A i \in DOMAIN backups : backups'[i].store = backups[i].store /\ (i # last => backups'[i].wal = backups[i].wal)
  BY <1>5, <1>6, <1>7
<1> HIDE DEF last
<1>10. FilesDiffer'
  <2>1. ASSUME NEW i \in DOMAIN backups'
        PROVE  /\ backups'[i].store.id <= made'
               /\ backups'[i].store.id = 0 => backups'[i].store.rows = {} /\ backups'[i].wal = {}
               /\ backups'[i].store.id # 0 =>
                     /\ backups'[i].store.id # file'.id
                     /\ \A j \in DOMAIN backups' : backups'[i].store.id = backups'[j].store.id => i = j
    <3>1. backups[last].store.id # 0 BY <1>4, <1>5
    <3>2. i \in DOMAIN backups /\ backups'[i].store = backups[i].store /\ (i # last => backups'[i].wal = backups[i].wal)
      BY <1>6, <1>9
    <3>3. \A j \in DOMAIN backups' : j \in DOMAIN backups /\ backups'[j].store = backups[j].store BY <1>6, <1>9
    <3> QED BY <1>1, <1>2, <3>1, <3>2, <3>3 DEF FilesDiffer
  <2> QED BY <1>1, <1>2, <1>8, <2>1 DEF FilesDiffer, Exists
<1>11. Clear => RowsKept'
  <2> SUFFICES ASSUME Clear PROVE RowsKept' OBVIOUS
  <2>1. RowsKept /\ (~LastRotated.store.head => owed = {}) BY <1>1, HoldOf DEF RecoveryIInv, StepKeeps
  <2>2. file.rows = {} BY <1>2, <1>4 DEF FilesDiffer
  <2>3. last \in InHand' BY <1>1, <1>4, <1>5, <1>6, <1>7 DEF InHand
  <2>4. \A x : x \in Salvageable' \equiv \E i \in InHand' : x \in Scanned(backups'[i]) BY DEF Salvageable, Scanned
  <2>5. backups'[last] \in Rotation BY <1>5, <1>6
  <2>6. ASSUME NEW r \in owed, r \in wal.rows PROVE r \in Salvageable'
    <3>1. LastRotated.store.head BY <2>1, <2>6
    <3>2. r \in Scanned(backups'[last]) BY <1>7, <2>5, <2>6, <3>1, ScannedIs
    <3> QED BY <2>3, <2>4, <3>2
  <2>7. ASSUME NEW r \in owed, r \in Salvageable PROVE r \in Salvageable'
    <3>1. PICK i \in InHand : r \in Scanned(backups[i]) BY <2>7, SalvageableIs
    <3>2. i \in DOMAIN backups /\ backups[i].store.id = marker BY <3>1 DEF InHand
    <3>3. i = last BY <1>2, <1>4, <1>5, <3>2 DEF FilesDiffer
    <3>4. r \in Scanned(LastRotated) BY <1>5, <3>1, <3>3
    <3>5. LastRotated.store.head BY <2>1, <2>7
    <3>6. r \in Scanned(backups'[last])
      <4>1. r \in LastRotated.store.rows \ LastRotated.store.hurt BY <1>4, <1>5, <3>4, <3>5, ScannedIs
      <4>2. backups'[last].store.head BY <1>7, <3>5
      <4>3. Scanned(backups'[last]) = (LastRotated.store.rows \ LastRotated.store.hurt) \cup wal.rows
        BY <1>7, <2>5, <4>2, ScannedIs
      <4> QED BY <4>1, <4>3
    <3> QED BY <2>3, <2>4, <3>6
  <2>8. owed' \subseteq file'.rows \cup wal'.rows \cup Salvageable' BY <1>1, <2>1, <2>2, <2>6, <2>7 DEF RowsKept
  <2> QED BY <1>1, <1>8, <2>1, <2>8 DEF RowsKept
<1>12. slip = {} => RuinedIsKnown'
  <2> SUFFICES ASSUME slip = {} PROVE RuinedIsKnown' OBVIOUS
  <2>1. RuinedIsKnown BY DEF RecoveryIInv
  <2>2. \A i \in DOMAIN backups' : backups'[i].store.ver > 0 BY <1>6, <1>9, <2>1 DEF RuinedIsKnown
  <2>3. MarkerStands'
    <3>1. last \in Rotated(marker)' BY <1>1, <1>4, <1>5, <1>6, <1>7 DEF Rotated
    <3> QED BY <1>1, <1>4, <3>1 DEF MarkerStands
  <2>4. marker' # file'.id BY <1>1, <1>2, <1>4, <1>5 DEF FilesDiffer
  <2> QED BY <2>2, <2>3, <2>4 DEF RuinedIsKnown
<1>13. pc'[p] = "prune" /\ rescue' = rescue BY <1>1, <1>2 DEF Step, RecoveryTypeOK
<1>14. StepFits(p)'
  <2>1. LastRotated' = backups'[last] BY <1>6 DEF LastRotated
  <2>2. backups' # <<>> BY <1>5, <1>6
  <2>3. LastRotated'.store.id = marker' BY <1>1, <1>4, <1>7, <2>1
  <2> QED BY <1>1, <1>4, <1>8, <1>13, <2>2, <2>3 DEF StepFits, Opened, Rescuing
<1>15. StepKeeps(p)' /\ StepKnows(p)' BY <1>13 DEF StepKeeps, StepKnows
<1>16. verdict' \in Verdict /\ file' \in StoreFile BY <1>1, <1>2, VerdictIs
<1> QED BY <1>1, <1>3, <1>6, <1>8, <1>10, <1>11, <1>12, <1>14, <1>15, <1>16, HoldOf, UnmovedIs, RotationHolds, AloneKeeps

LEMMA KeptIs ==
    ASSUME NEW all \in Seq(Rotation), policy.room \in Nat
    PROVE  /\ Kept(all) \in Seq(Rotation)
           /\ \E d \in Nat : \A i \in DOMAIN Kept(all) : i + d \in DOMAIN all /\ Kept(all)[i] = all[i + d]
           /\ policy.room # 0 /\ all # <<>> => Kept(all) # <<>> /\ Kept(all)[Len(Kept(all))] = all[Len(all)]
<1> DEFINE n == Len(all)
           room == policy.room
           from == {1, n - room + 1}
           m == Max(from)
<1>1. n \in Nat /\ room \in Nat OBVIOUS
<1>2. m \in from /\ \A x \in from : m >= x
  <2>1. \E x \in from : \A y \in from : x >= y
    <3>1. CASE n - room + 1 >= 1 BY <1>1, <3>1
    <3>2. CASE ~(n - room + 1 >= 1) BY <1>1, <3>2
    <3> QED BY <3>1, <3>2
  <2> HIDE DEF from
  <2> QED BY <2>1 DEF Max
<1>3. m \in 1..(n + 1) BY <1>1, <1>2
<1>4. room # 0 /\ all # <<>> => m <= n
  <2>1. all # <<>> => n >= 1 BY <1>1
  <2> QED BY <1>1, <1>2, <2>1
<1>5. Kept(all) = SubSeq(all, m, n) BY DEF Kept, m, from
<1> HIDE DEF from, m
<1>6. /\ Len(Kept(all)) = n - m + 1 /\ Kept(all) \in Seq(Rotation)
      /\ \A i \in 1..(n - m + 1) : Kept(all)[i] = all[m + i - 1]
  BY <1>1, <1>3, <1>5
<1> DEFINE kept == Kept(all)
<1> HIDE DEF kept
<1>7. DOMAIN kept = 1..(n - m + 1) /\ DOMAIN all = 1..n BY <1>1, <1>3, <1>6 DEF kept
<1>8. m - 1 \in Nat /\ \A i \in DOMAIN kept : i + (m - 1) \in DOMAIN all /\ kept[i] = all[i + (m - 1)]
  <2>1. m \in Nat /\ m >= 1 BY <1>1, <1>3
  <2>2. ASSUME NEW i \in 1..(n - m + 1) PROVE i + (m - 1) \in 1..n /\ i + (m - 1) = m + i - 1 BY <1>1, <2>1
  <2>3. \A i \in 1..(n - m + 1) : kept[i] = all[m + i - 1] BY <1>6 DEF kept
  <2>4. m - 1 \in Nat BY <2>1
  <2>5. ASSUME NEW i \in DOMAIN kept PROVE i + (m - 1) \in DOMAIN all /\ kept[i] = all[i + (m - 1)]
    <3>1. i \in 1..(n - m + 1) BY <1>7
    <3>2. i + (m - 1) \in 1..n /\ i + (m - 1) = m + i - 1 BY <2>2, <3>1
    <3>3. kept[i] = all[m + i - 1] BY <2>3, <3>1
    <3>4. kept[i] = all[i + (m - 1)] BY <3>2, <3>3, Zenon
    <3>5. i + (m - 1) \in DOMAIN all BY <1>7, <3>2, Zenon
    <3> QED BY <3>4, <3>5
  <2> QED BY <2>4, <2>5
<1>9. m <= n => kept # <<>> /\ kept[Len(kept)] = all[Len(all)] BY <1>1, <1>3, <1>6 DEF kept
<1>10. \E d \in Nat : \A i \in DOMAIN kept : i + d \in DOMAIN all /\ kept[i] = all[i + d]
  <2> DEFINE shift == m - 1
  <2>1. shift \in Nat /\ \A i \in DOMAIN kept : i + shift \in DOMAIN all /\ kept[i] = all[i + shift] BY <1>8
  <2> HIDE DEF shift
  <2> QED BY <2>1
<1>11. kept \in Seq(Rotation) BY <1>6 DEF kept
<1>12. policy.room # 0 /\ all # <<>> => kept # <<>> /\ kept[Len(kept)] = all[Len(all)] BY <1>4, <1>9
<1> QED BY <1>10, <1>11, <1>12 DEF kept

LEMMA PruneIs ==
    ASSUME RecoveryIInv, NEW p \in Proc, Prune(p)
    PROVE  /\ backups' \in Seq(Rotation)
           /\ \E d \in Nat : \A i \in DOMAIN backups' : i + d \in DOMAIN backups /\ backups'[i] = backups[i + d]
           /\ slip \subseteq slip' /\ slip' \subseteq Windows
           /\ "pruned" \notin slip' /\ backups # <<>> => backups' # <<>> /\ backups'[Len(backups')] = LastRotated
<1>1. backups \in Seq(Rotation) /\ policy.room \in Nat /\ slip \subseteq Windows BY DEF RecoveryIInv, RecoveryTypeOK, Rotation
<1>2. CASE backups' = Kept(backups) /\ Slip(IF policy.room = 0 THEN {"pruned"} ELSE {})
  BY <1>1, <1>2, KeptIs DEF Slip, Windows, LastRotated
<1>3. CASE /\ policy.room \in 1..(Len(backups) - 1)
           /\ backups' = Kept(SubSeq(backups, 1, Len(backups) - 1)) /\ Slip({"pruned"})
  <2> DEFINE all == SubSeq(backups, 1, Len(backups) - 1)
  <2>1. Len(backups) \in Nat /\ Len(backups) >= 1 BY <1>1, <1>3
  <2>2. all \in Seq(Rotation) /\ \A i \in DOMAIN all : i \in DOMAIN backups /\ all[i] = backups[i] BY <1>1, <2>1
  <2>3. backups' = Kept(all) BY <1>3
  <2> HIDE DEF all
  <2>4. /\ backups' \in Seq(Rotation)
        /\ \E d \in Nat : \A i \in DOMAIN backups' : i + d \in DOMAIN all /\ backups'[i] = all[i + d]
    BY <1>1, <2>2, <2>3, KeptIs
  <2> QED BY <1>1, <1>3, <2>2, <2>4 DEF Slip, Windows
<1> QED BY <1>2, <1>3 DEF Prune

LEMMA PruneKeeps == ASSUME RecoveryIInv, NEW p \in Proc, Prune(p) PROVE RecoveryIInv'
<1>1. /\ pc[p] = "prune" /\ Step(p, "salvage", hold[p])
      /\ UNCHANGED <<policy, file, wal, marker, verdict, snap, copies, rescue, owed, ruined, migrated, made>>
  BY DEF Prune, Goto, archive, counts
<1>2. RecoveryTypeOK /\ FilesDiffer /\ file \in StoreFile /\ backups \in Seq(Rotation) /\ wal \in Beside
  BY DEF RecoveryIInv, RecoveryTypeOK, Rotation, Beside
<1>3. hold[p] = "recover" /\ Alone(p) BY <1>1, HoldOf DEF Recovering
<1>4. /\ backups # <<>> /\ LastRotated.store.id = marker /\ marker # 0 /\ rescue[p].of = marker /\ rescue[p].of <= made
      /\ file.ver = 0 /\ wal.rows = {}
  BY <1>1, HoldOf DEF StepFits
<1>5. /\ backups' \in Seq(Rotation) /\ slip \subseteq slip' /\ slip' \subseteq Windows
      /\ "pruned" \notin slip' => backups' # <<>> /\ backups'[Len(backups')] = LastRotated
  BY <1>4, PruneIs
<1>6. PICK d \in Nat : \A i \in DOMAIN backups' : i + d \in DOMAIN backups /\ backups'[i] = backups[i + d] BY PruneIs
<1>7. ("pruned" \notin slip' => Len(backups') \in DOMAIN backups') /\ DOMAIN backups' \subseteq Nat BY <1>5
<1>8. FilesDiffer'
  <2>1. ASSUME NEW i \in DOMAIN backups'
        PROVE  /\ backups'[i].store.id <= made'
               /\ backups'[i].store.id = 0 => backups'[i].store.rows = {} /\ backups'[i].wal = {}
               /\ backups'[i].store.id # 0 =>
                     /\ backups'[i].store.id # file'.id
                     /\ \A j \in DOMAIN backups' : backups'[i].store.id = backups'[j].store.id => i = j
    <3>1. i + d \in DOMAIN backups /\ backups'[i] = backups[i + d] BY <1>6
    <3>2. ASSUME NEW j \in DOMAIN backups', backups'[i].store.id # 0, backups'[i].store.id = backups'[j].store.id PROVE i = j
      <4>1. j + d \in DOMAIN backups /\ backups'[j] = backups[j + d] BY <1>6
      <4>2. i + d = j + d BY <1>2, <3>1, <3>2, <4>1 DEF FilesDiffer
      <4> QED BY <1>7, <4>2
    <3> QED BY <1>1, <1>2, <3>1, <3>2 DEF FilesDiffer
  <2> QED BY <1>1, <1>2, <2>1 DEF FilesDiffer, Exists
<1>9. Clear' => RowsKept'
  <2> SUFFICES ASSUME Clear' PROVE RowsKept' OBVIOUS
  <2>1. RowsKept /\ "pruned" \notin slip' BY <1>5 DEF RecoveryIInv, Clear
  <2>2. \A x : x \in Salvageable' \equiv \E i \in InHand' : x \in Scanned(backups'[i]) BY DEF Salvageable, Scanned
  <2>3. Len(backups') \in InHand' BY <1>1, <1>4, <1>5, <1>7, <2>1 DEF InHand
  <2>4. ASSUME NEW r \in Salvageable PROVE r \in Salvageable'
    <3>1. PICK i \in InHand : r \in Scanned(backups[i]) BY SalvageableIs
    <3>2. i \in DOMAIN backups /\ backups[i].store.id = marker BY <3>1 DEF InHand
    <3>3. Len(backups) \in DOMAIN backups BY <1>2, <1>4
    <3>4. i = Len(backups) BY <1>2, <1>4, <3>2, <3>3 DEF FilesDiffer, LastRotated
    <3>5. r \in Scanned(backups'[Len(backups')]) BY <1>5, <2>1, <3>1, <3>4 DEF LastRotated
    <3> QED BY <2>2, <2>3, <3>5
  <2> QED BY <1>1, <1>4, <2>1, <2>4 DEF RowsKept
<1>10. marker' \notin {0, file'.id}
  <2>1. Len(backups) \in DOMAIN backups BY <1>2, <1>4
  <2> QED BY <1>1, <1>2, <1>4, <2>1 DEF FilesDiffer, LastRotated
<1>11. "pruned" \notin slip' => MarkerStands'
  <2> SUFFICES ASSUME "pruned" \notin slip' PROVE MarkerStands' OBVIOUS
  <2>1. Len(backups') \in Rotated(marker)' BY <1>1, <1>4, <1>5, <1>7 DEF Rotated
  <2> QED BY <1>1, <1>4, <2>1 DEF MarkerStands
<1>12. slip' = {} => RuinedIsKnown'
  <2> SUFFICES ASSUME slip' = {} PROVE RuinedIsKnown' OBVIOUS
  <2>1. \A i \in DOMAIN backups' : backups'[i].store.ver > 0 BY <1>5, <1>6 DEF RecoveryIInv, RuinedIsKnown
  <2> QED BY <1>10, <1>11, <2>1 DEF RuinedIsKnown
<1>13. pc'[p] = "salvage" /\ rescue' = rescue BY <1>1, <1>2 DEF Step, RecoveryTypeOK
<1>14. StepFits(p)' BY <1>1, <1>4, <1>10, <1>11, <1>13 DEF StepFits, Opened, Rescuing
<1>15. StepKeeps(p)' /\ StepKnows(p)' BY <1>1, <1>4, <1>13 DEF StepKeeps, StepKnows
<1>16. verdict' \in Verdict /\ file' \in StoreFile /\ wal' \in Beside BY <1>1, <1>2, VerdictIs
<1> QED BY <1>1, <1>3, <1>5, <1>8, <1>9, <1>12, <1>14, <1>15, <1>16, HoldOf, UnmovedIs, RotationHolds, AloneSlips

LEMMA MarkerStays ==
    ASSUME UNCHANGED <<backups, marker>>
    PROVE  MarkerStands' = MarkerStands /\ Salvageable' = Salvageable /\ LastRotated' = LastRotated
BY DEF MarkerStands, Rotated, Salvageable, InHand, LastRotated

LEMMA RescueHolds ==
    /\ \A n \in Rescuing : n \in Steps /\ HoldFits(n, "recover")
    /\ "recover" \in Holds /\ "none" \in Holds /\ "refused" \in Steps /\ HoldFits("refused", "none")
    /\ "idle" \in Steps /\ HoldFits("idle", "none") /\ "open" \in Steps /\ "open" \in Holds /\ HoldFits("open", "open")
    /\ \A n \in Restoring : n \in Steps /\ HoldFits(n, "restore")
    /\ "restore" \in Holds
BY DEF Steps, Quiet, Checking, Recovering, Rescuing, Opened, Restoring, Holds, Exclusive, HoldFits

(* A step of a rescue, whose marker names a store that is in hand.          *)
LEMMA RescueKnown ==
    ASSUME RecoveryIInv, NEW p \in Proc, pc[p] \in Rescuing, UNCHANGED <<backups, marker>>, slip \subseteq slip',
           file'.id \in {0, file.id, made + 1}
    PROVE  /\ slip = {} => RuinedIsKnown'
           /\ "pruned" \notin slip' => MarkerStands'
           /\ rescue[p].of = marker /\ rescue[p].of <= made /\ hold[p] = "recover" /\ Alone(p)
           /\ marker' \notin {0, file'.id} /\ ~Refused /\ pc[p] \notin {"sidecars", "replaced"}
           /\ \A q \in Proc : pc[q] \notin {"sidecars", "replaced"}
<1>1. marker # 0 /\ marker # file.id /\ rescue[p].of = marker /\ ("pruned" \notin slip => MarkerStands) BY HandIs
<1>2. rescue[p].of <= made /\ made \in Nat /\ rescue[p].of \in Nat BY HoldOf, VerdictIs DEF StepFits, Rescue
<1>3. "pruned" \notin slip' => MarkerStands' BY <1>1, MarkerStays
<1>4. marker' \notin {0, file'.id} BY <1>1, <1>2
<1>5. slip = {} => RuinedIsKnown'
  <2>1. slip = {} => MarkerStands' BY <1>1, MarkerStays
  <2> QED BY <1>4, <2>1 DEF RecoveryIInv, RuinedIsKnown
<1>6. hold[p] = "recover" /\ Alone(p) BY HoldOf DEF Recovering
<1>7. pc[p] \notin {"sidecars", "replaced"} BY DEF Rescuing
<1>8. \A q \in Proc : pc[q] \notin {"sidecars", "replaced"} BY <1>6, <1>7, AloneSteps
<1> QED BY <1>1, <1>2, <1>3, <1>4, <1>5, <1>6, <1>7, <1>8 DEF Refused

(* ensure_schema on what a connection finds. *)
LEMMA EnsuredIs ==
    ASSUME RecoveryIInv, CanEnsure(ConnectedFile), Ensured(ConnectedFile), made' = (IF Exists THEN made ELSE made + 1),
           UNCHANGED <<backups, snap, owed, ruined>>
    PROVE  /\ file' \in StoreFile /\ wal' \in Beside /\ verdict' \in Verdict /\ made' \in Nat /\ made <= made'
           /\ file'.id \in {file.id, made + 1} /\ file'.rows = file.rows /\ file'.hurt = file.hurt /\ file'.head
           /\ file'.ver = Current /\ wal' = BesidePath /\ Exists' /\ Succeeds /\ (Exists => file'.id = file.id)
           /\ copies' \subseteq SUBSET Row /\ migrated' \subseteq Row /\ owed' \subseteq Row /\ ruined' \in BOOLEAN
           /\ FilesDiffer' /\ MigratedHasCopy'
<1>1. RecoveryTypeOK /\ FilesDiffer /\ made \in Nat BY DEF RecoveryIInv, RecoveryTypeOK
<1>2. Written([ConnectedFile EXCEPT !.ver = Current], BesidePath) BY DEF Ensured
<1>3. /\ file' = [ConnectedFile EXCEPT !.ver = Current] /\ wal' = BesidePath /\ verdict' \in Verdict
      /\ verdict'.bound = "here" => Exists'
  BY <1>1, <1>2, WrittenIs
<1>4. /\ file' \in StoreFile /\ file'.id = ConnectedFile.id /\ file'.rows = ConnectedFile.rows /\ file'.hurt = ConnectedFile.hurt
      /\ file'.head /\ file'.ver = Current
  BY <1>3, ConnectedFacts DEF StoreFile, Current, CanEnsure
<1>5. /\ file'.rows = file.rows /\ file'.hurt = file.hurt /\ file'.id # 0 /\ made' \in Nat /\ made <= made'
      /\ file'.id = file.id \/ (file'.id = made + 1 /\ made' = made + 1)
      /\ Exists => file'.id = file.id
  BY <1>1, <1>4, ConnectedFacts
<1>6. Exists' /\ Succeeds BY <1>1, <1>4, <1>5, EmptyFiles DEF Exists, Succeeds, Current
<1>7. wal'.rows # {} => wal'.of > 0 /\ wal'.of <= made' /\ (wal'.of = file'.id => file'.ver > 0)
  <2>1. wal.of \in Nat BY <1>1 DEF RecoveryTypeOK
  <2> QED BY <1>1, <1>3, <1>4, <1>5, <2>1, ConnectedFacts DEF FilesDiffer, Current
<1>8. FilesDiffer' BY <1>3, <1>4, <1>5, <1>7, FilesMove DEF Current
<1>9. Rows \subseteq Row BY <1>1, RowsAre
<1>10. copies' \subseteq SUBSET Row /\ migrated' \subseteq Row /\ MigratedHasCopy'
  <2>1. CASE copies' = copies \cup {Rows} /\ migrated' = Rows BY <1>1, <1>9, <2>1 DEF RecoveryTypeOK, MigratedHasCopy
  <2>2. CASE UNCHANGED <<copies, migrated>> BY <2>2 DEF RecoveryIInv, RecoveryTypeOK, MigratedHasCopy
  <2> QED BY <2>1, <2>2 DEF Ensured
<1>11. wal' \in Beside BY <1>3, ConnectedFacts
<1>12. owed' \subseteq Row /\ ruined' \in BOOLEAN BY <1>1 DEF RecoveryTypeOK
<1> QED BY <1>3, <1>4, <1>5, <1>6, <1>8, <1>10, <1>11, <1>12

LEMMA OpenRecoveredKeeps == ASSUME RecoveryIInv, NEW p \in Proc, OpenRecovered(p) PROVE RecoveryIInv'
<1>1. /\ pc[p] = "decide" /\ pc[p] \in Rescuing /\ made' = (IF Exists THEN made ELSE made + 1)
      /\ UNCHANGED <<policy, backups, marker, snap, owed, ruined, slip>>
  BY DEF OpenRecovered, Rescuing
<1>2. RecoveryTypeOK /\ FilesDiffer /\ made \in Nat BY DEF RecoveryIInv, RecoveryTypeOK
<1>3. hold[p] = "recover" /\ Alone(p) /\ Shareable(p) BY <1>1, HoldOf, HolderIsAlone DEF Recovering, Exclusive, RecoveryIInv
<1>4. CASE CanEnsure(ConnectedFile)
  <2> DEFINE n == IF rescue[p].refuse THEN "rebuild" ELSE "restore"
  <2>1. Ensured(ConnectedFile) /\ UNCHANGED rescue /\ Step(p, n, "recover") BY <1>3, <1>4 DEF OpenRecovered, Goto
  <2>2. n \in Steps /\ HoldFits(n, "recover") /\ "recover" \in Holds BY RescueHolds DEF Rescuing
  <2>3. /\ file' \in StoreFile /\ wal' \in Beside /\ verdict' \in Verdict /\ made' \in Nat /\ made <= made'
        /\ file'.id \in {file.id, made + 1} /\ file'.rows = file.rows /\ file'.hurt = file.hurt /\ file'.head
        /\ file'.ver = Current /\ wal' = BesidePath /\ Exists' /\ Succeeds /\ (Exists => file'.id = file.id)
        /\ copies' \subseteq SUBSET Row /\ migrated' \subseteq Row /\ owed' \subseteq Row /\ ruined' \in BOOLEAN
        /\ FilesDiffer' /\ MigratedHasCopy'
    BY <1>1, <1>4, <2>1, EnsuredIs
  <2>4. /\ slip = {} => RuinedIsKnown'
        /\ ("pruned" \notin slip' => MarkerStands') /\ marker' \notin {0, file'.id} /\ rescue[p].of = marker /\ rescue[p].of <= made
        /\ \A q \in Proc : pc[q] \notin {"sidecars", "replaced"}
    BY <1>1, <2>3, RescueKnown
  <2>5. /\ StepFits(p) /\ (Clear => StepKeeps(p)) /\ (slip = {} => StepKnows(p)) /\ rescue[p] \in Rescue
        /\ rescue' = [rescue EXCEPT ![p] = rescue[p]]
    BY <2>1, HoldOf
  <2>6. pc'[p] = n /\ rescue'[p] = rescue[p] /\ rescue[p].refuse \in BOOLEAN
    BY <1>2, <2>1, <2>5 DEF Step, RecoveryTypeOK, Rescue
  <2>7. (n = "rebuild" /\ rescue[p].refuse) \/ (n = "restore" /\ ~rescue[p].refuse) BY DEF n
  <2> HIDE DEF n
  <2>8. Salvageable' = Salvageable BY <1>1, MarkerStays
  <2>9. rescue[p].owns => file.rows = {} BY <1>1, <1>2, <2>5 DEF StepFits, FilesDiffer
  <2>10. wal'.rows \subseteq wal.rows BY <1>2, <2>3, BesideIs
  <2>11. StepFits(p)'
    <3>1. rescue[p].refuse => rescue[p].got = {} BY <1>1, <2>5 DEF StepFits, Rescuing
    <3>2. rescue'[p].of <= made'
      <4>1. rescue[p].of \in Nat BY <2>5 DEF Rescue
      <4> QED BY <1>2, <2>3, <2>4, <2>6, <4>1
    <3>3. rescue'[p].of = marker' /\ ("pruned" \notin slip' => MarkerStands') /\ marker' \notin {0, file'.id} /\ Exists' /\ file'.ver = Current BY <1>1, <2>3, <2>4, <2>6
    <3>4. rescue'[p].refuse = rescue[p].refuse /\ rescue'[p].got = rescue[p].got /\ rescue'[p].owns = rescue[p].owns
          /\ (rescue'[p].owns => file'.rows = {})
      BY <2>3, <2>6, <2>9
    <3>5. pc'[p] \in {"rebuild", "restore"} BY <2>6, <2>7
    <3>6. pc'[p] = "rebuild" => rescue'[p].refuse BY <2>6, <2>7
    <3>7. pc'[p] = "restore" => ~rescue'[p].refuse BY <2>6, <2>7
    <3> QED BY <3>1, <3>2, <3>3, <3>4, <3>5, <3>6, <3>7 DEF StepFits, Opened
  <2>12. Clear => StepKeeps(p)'
    <3> SUFFICES ASSUME Clear PROVE StepKeeps(p)' OBVIOUS
    <3>1. (rescue[p].owns => wal.rows = {}) /\ Salvageable \subseteq rescue[p].got BY <1>1, <2>5 DEF StepKeeps
    <3> QED BY <2>6, <2>7, <2>8, <2>10, <3>1 DEF StepKeeps
  <2>13. slip = {} => StepKnows(p)'
    <3>1. slip = {} /\ policy.strict /\ ~rescue[p].refuse => rescue[p].got # {} BY <1>1, <2>5 DEF StepKnows
    <3> QED BY <1>1, <2>6, <2>7, <3>1 DEF StepKnows
  <2>14. Clear => RowsKept'
    <3> SUFFICES ASSUME Clear PROVE RowsKept' OBVIOUS
    <3>1. RowsKept BY DEF RecoveryIInv
    <3>2. BesidePath.rows = wal.rows /\ (wal.rows # {} => wal.of = file.id /\ Exists) BY <2>4, PathClear
    <3>3. wal'.rows # {} => wal'.of = file'.id BY <1>2, <2>3, <3>2, BesideIs
    <3> QED BY <1>1, <2>3, <2>8, <3>1, <3>2, <3>3 DEF RowsKept
  <2>15. backups' \in Seq(Rotation) BY <1>1, <1>2 DEF RecoveryTypeOK, Rotation
  <2> QED BY <1>1, <1>3, <2>1, <2>2, <2>3, <2>4, <2>5, <2>11, <2>12, <2>13, <2>14, <2>15, AloneKeeps
<1>5. CASE ~CanEnsure(ConnectedFile)
  <2>1. Written(ConnectedFile, BesidePath) /\ Leave(p) /\ UNCHANGED <<copies, migrated>> BY <1>5 DEF OpenRecovered
  <2>2. Step(p, "idle", "none") /\ rescue' = [rescue EXCEPT ![p] = NoJob] BY <2>1 DEF Leave
  <2>3. pc'[p] = "idle" /\ rescue'[p] = NoJob BY <1>2, <2>2 DEF Step, RecoveryTypeOK
  <2>4. NoJob \in Rescue /\ NoJob.of = 0 BY <1>2, EmptyFiles
  <2>5. made' \in Nat BY <1>1, <1>2
  <2>6. StepFits(p)' BY <2>3, <2>4, <2>5, EarlyFits DEF Early
  <2>7. file' = ConnectedFile /\ wal' = BesidePath /\ verdict' \in Verdict /\ (verdict'.bound = "here" => Exists')
    BY <1>2, <2>1, WrittenIs
  <2> QED BY <1>1, <1>3, <2>1, <2>2, <2>4, <2>6, <2>7, ConnectHolds, SnapIs, VerdictIs, ConnectingKeeps
<1> QED BY <1>4, <1>5

LEMMA RestoreColdKeeps == ASSUME RecoveryIInv, NEW p \in Proc, RestoreCold(p) PROVE RecoveryIInv'
<1>1. /\ pc[p] = "idle" /\ Alone(p) /\ made' = (IF Exists THEN made ELSE made + 1)
      /\ UNCHANGED <<policy, backups, marker, snap, pc, hold, rescue, owed, slip>>
  BY DEF RestoreCold, Start
<1>2. RecoveryTypeOK /\ FilesDiffer /\ made \in Nat /\ file \in StoreFile /\ policy.cold \subseteq Row
  BY DEF RecoveryIInv, RecoveryTypeOK
<1>3. hold[p] = "none" /\ rescue[p].of <= made /\ rescue[p].of \in Nat /\ Shareable(p)
  BY <1>1, HoldOf DEF Quiet, StepFits, Rescue, Alone, Shareable
<1>4. Step(p, "idle", "none") /\ rescue' = [rescue EXCEPT ![p] = rescue[p]] BY <1>1, <1>2, <1>3, HoldOf DEF Step, RecoveryTypeOK
<1>5. made' \in Nat /\ made <= made' BY <1>1, <1>2
<1>6. StepFits(p)' /\ StepKeeps(p)' /\ StepKnows(p)'
  <2>1. rescue'[p].of <= made' BY <1>1, <1>2, <1>3, <1>5
  <2> QED BY <1>1, <2>1, EarlyFits DEF Early
<1>7. CASE CanEnsure(ConnectedFile)
  <2> DEFINE full == [[Checkpointed EXCEPT !.ver = Current] EXCEPT !.id = ConnectedFile.id]
  <2>1. /\ Written([full EXCEPT !.rows = @ \cup policy.cold], NoWal) /\ ruined' = FALSE
        /\ (copies' = copies \cup {Rows} /\ migrated' = Rows) \/ UNCHANGED <<copies, migrated>>
    BY <1>7 DEF RestoreCold
  <2>2. /\ full \in StoreFile /\ full.id = ConnectedFile.id /\ full.ver = Current /\ full.head = AtPath.head
        /\ full.rows = file.rows \cup BesidePath.rows /\ full.hurt = file.hurt \ BesidePath.rows
    <3>1. ConnectedFile.id \in Nat /\ Current \in 0..3 BY ConnectedFacts DEF StoreFile, Current
    <3> QED BY <1>2, <3>1, CheckpointedIs DEF StoreFile
  <2> HIDE DEF full
  <2>3. /\ file' = [full EXCEPT !.rows = @ \cup policy.cold] /\ wal' = NoWal /\ verdict' \in Verdict
        /\ verdict'.bound = "here" => Exists'
    BY <1>2, <2>1, WrittenIs
  <2>4. /\ file' \in StoreFile /\ file'.id = ConnectedFile.id /\ file'.ver = Current /\ file'.head = AtPath.head
        /\ file'.rows = file.rows \cup BesidePath.rows \cup policy.cold /\ file'.hurt = file.hurt \ BesidePath.rows
    BY <1>2, <2>2, <2>3 DEF StoreFile
  <2>5. file'.head
    <3>1. CASE Exists BY <1>2, <1>7, <2>4, <3>1, ConnectedIs DEF CanEnsure
    <3>2. CASE ~Exists
      <4>1. file = NoFile BY <3>2 DEF Exists
      <4> QED BY <1>2, <2>4, <4>1, EmptyFiles, AtPathIs
    <3> QED BY <3>1, <3>2
  <2>6. wal' \in Beside /\ wal'.rows = {} BY <1>2, <2>3, EmptyFiles
  <2>7. /\ file'.id # 0 /\ (file'.id = file.id \/ (file'.id = made + 1 /\ made' = made + 1)) BY <1>1, <2>4, ConnectedFacts
  <2>8. FilesDiffer' BY <1>1, <1>5, <2>3, <2>4, <2>6, <2>7, FilesMove DEF Current
  <2>9. Succeeds BY <1>2, <1>5, <2>4, <2>7 DEF Succeeds, Current
  <2>10. copies' \subseteq SUBSET Row /\ migrated' \subseteq Row /\ MigratedHasCopy'
    <3>1. Rows \subseteq Row BY <1>2, RowsAre
    <3>2. CASE copies' = copies \cup {Rows} /\ migrated' = Rows BY <1>2, <3>1, <3>2 DEF RecoveryTypeOK, MigratedHasCopy
    <3>3. CASE UNCHANGED <<copies, migrated>> BY <3>3 DEF RecoveryIInv, RecoveryTypeOK, MigratedHasCopy
    <3> QED BY <2>1, <3>2, <3>3
  <2>11. Clear => RowsKept'
    <3> SUFFICES ASSUME Clear PROVE RowsKept' OBVIOUS
    <3>1. RowsKept BY DEF RecoveryIInv
    <3>2. \A q \in Proc : pc[q] \notin {"sidecars", "replaced"} BY <1>1, AloneSteps
    <3>3. BesidePath.rows = wal.rows BY <3>2, PathClear
    <3>4. Salvageable' = Salvageable BY <1>1, MarkerStays
    <3> QED BY <1>1, <2>4, <2>5, <2>6, <3>1, <3>3, <3>4 DEF RowsKept
  <2>12. slip = {} => RuinedIsKnown' BY <1>1, <2>1 DEF RecoveryIInv, RuinedIsKnown
  <2>13. owed' \subseteq Row /\ ruined' \in BOOLEAN /\ backups' \in Seq(Rotation)
    BY <1>1, <1>2, <2>1 DEF RecoveryTypeOK, Rotation
  <2> QED BY <1>1, <1>4, <1>5, <1>6, <2>3, <2>4, <2>6, <2>8, <2>9, <2>10, <2>11, <2>12, <2>13, HoldOf, RescueHolds, AloneKeeps
<1>8. CASE ~CanEnsure(ConnectedFile)
  <2>1. Written(ConnectedFile, BesidePath) /\ UNCHANGED <<copies, migrated, ruined>> BY <1>8 DEF RestoreCold
  <2>2. file' = ConnectedFile /\ wal' = BesidePath /\ verdict' \in Verdict /\ (verdict'.bound = "here" => Exists')
    BY <1>2, <2>1, WrittenIs
  <2> QED BY <1>1, <1>3, <1>4, <1>6, <2>1, <2>2, HoldOf, ConnectHolds, SnapIs, VerdictIs, ConnectingKeeps
<1> QED BY <1>7, <1>8

(* The rows a rescue commits go to the -wal of the store it opened.         *)
LEMMA CommittedIs ==
    ASSUME RecoveryIInv, Exists, file.ver > 0, NEW found \in SUBSET Row, Committed(found), UNCHANGED <<backups, snap, made>>
    PROVE  /\ file' = file /\ wal' \in Beside /\ wal'.of = file.id /\ wal'.rows = wal.rows \cup (found \ file.rows)
           /\ verdict' = verdict /\ verdict \in Verdict /\ file' \in StoreFile /\ FilesDiffer' /\ Succeeds /\ Exists'
<1>1. RecoveryTypeOK /\ FilesDiffer /\ file \in StoreFile /\ wal \in Beside /\ made \in Nat
  BY DEF RecoveryIInv, RecoveryTypeOK, Beside
<1> DEFINE w == [of |-> file.id, rows |-> wal.rows \cup (found \ file.rows)]
<1>2. w \in Beside /\ w.of = file.id /\ w.rows = wal.rows \cup (found \ file.rows) BY <1>1 DEF Beside, StoreFile
<1>3. Written(file, w) BY DEF Committed
<1> HIDE DEF w
<1>4. file' = file /\ wal' = w /\ verdict' = verdict /\ verdict' \in Verdict /\ (verdict'.bound = "here" => Exists')
  BY <1>1, <1>3, WrittenIs
<1>5. file.id # 0 /\ file.id <= made /\ file.id \in Nat BY <1>1 DEF FilesDiffer, Exists, StoreFile
<1>6. FilesDiffer'
  <2>1. file'.id = 0 => file' = NoFile BY <1>4, <1>5
  <2>2. file'.ver = 0 => file'.rows = {} /\ file'.hurt = {} /\ file'.head BY <1>1, <1>4 DEF FilesDiffer
  <2>3. wal'.rows # {} => wal'.of > 0 /\ wal'.of <= made' /\ (wal'.of = file'.id => file'.ver > 0) BY <1>1, <1>2, <1>4, <1>5
  <2> QED BY <1>1, <1>4, <2>1, <2>2, <2>3, FilesMove
<1>7. Exists' /\ Succeeds BY <1>1, <1>4 DEF Exists, Succeeds
<1> QED BY <1>1, <1>2, <1>4, <1>6, <1>7

LEMMA CommitKeeps ==
    ASSUME RecoveryIInv, NEW p \in Proc, pc[p] \in {"rebuild", "restore"}, NEW found \in SUBSET Row, Committed(found),
           UNCHANGED <<policy, backups, marker, snap, copies, rescue, owed, ruined, migrated, made>>,
           slip \subseteq slip', slip' \subseteq Windows,
           NEW n \in {"restored", "refuse", "refused"}, NEW h, Step(p, n, h), h = IF n = "refused" THEN "none" ELSE "recover",
           n = "refuse" => rescue[p].owns /\ pc[p] = "rebuild" /\ found = {},
           n = "restored" /\ Clear' => Salvageable \subseteq found,
           n = "restored" /\ slip' = {} /\ policy.strict => Rows # {} \/ found # {}
    PROVE  RecoveryIInv'
<1>1. RecoveryTypeOK /\ FilesDiffer /\ made \in Nat BY DEF RecoveryIInv, RecoveryTypeOK
<1>2. /\ StepFits(p) /\ (Clear => StepKeeps(p)) /\ (slip = {} => StepKnows(p)) /\ rescue[p] \in Rescue
      /\ rescue' = [rescue EXCEPT ![p] = rescue[p]]
  BY HoldOf
<1>3. Exists /\ file.ver = Current /\ pc[p] \in Rescuing BY <1>2 DEF StepFits, Rescuing
<1>4. /\ file' = file /\ wal' \in Beside /\ wal'.of = file.id /\ wal'.rows = wal.rows \cup (found \ file.rows)
      /\ verdict' = verdict /\ verdict \in Verdict /\ file' \in StoreFile /\ FilesDiffer' /\ Succeeds /\ Exists'
  BY <1>3, CommittedIs DEF Current
<1>5. /\ slip' = {} => RuinedIsKnown'
      /\ ("pruned" \notin slip' => MarkerStands') /\ marker' \notin {0, file'.id}
      /\ rescue[p].of = marker /\ rescue[p].of <= made /\ Alone(p)
  BY <1>3, <1>4, RescueKnown
<1>6. Salvageable' = Salvageable BY MarkerStays
<1>7. n \in Steps /\ h \in Holds /\ HoldFits(n, h) BY RescueHolds DEF Rescuing
<1>8. pc'[p] = n /\ rescue'[p] = rescue[p] BY <1>1, <1>2 DEF Step, RecoveryTypeOK
<1>9. StepFits(p)'
  <2>1. rescue'[p].of = marker' /\ rescue'[p].of <= made' BY <1>5, <1>8
  <2>2. rescue'[p].refuse => rescue'[p].got = {} BY <1>2, <1>8 DEF StepFits, Rescuing
  <2>3. n = "refuse" => rescue'[p].refuse /\ rescue'[p].owns /\ file'.rows = {} BY <1>2, <1>4, <1>8 DEF StepFits
  <2> QED BY <1>3, <1>4, <1>5, <1>8, <2>1, <2>2, <2>3 DEF StepFits, Opened
<1>10. Clear' => StepKeeps(p)' /\ RowsKept'
  <2> SUFFICES ASSUME Clear' PROVE StepKeeps(p)' /\ RowsKept' OBVIOUS
  <2>1. Clear /\ RowsKept BY DEF RecoveryIInv, Clear
  <2>2. (pc[p] = "rebuild" /\ rescue[p].owns => wal.rows = {}) /\ Salvageable \subseteq rescue[p].got BY <1>2, <2>1 DEF StepKeeps
  <2>3. n = "restored" => owed \subseteq file'.rows \cup wal'.rows BY <1>4, <2>1 DEF RowsKept
  <2>4. n = "refuse" => wal'.rows = {} BY <1>4, <2>2
  <2>5. StepKeeps(p)' BY <1>6, <1>8, <2>2, <2>3, <2>4 DEF StepKeeps
  <2>6. RowsKept' BY <1>4, <1>6, <2>1 DEF RowsKept
  <2> QED BY <2>5, <2>6
<1>11. slip' = {} => StepKnows(p)'
  <2>1. ASSUME n = "restored", slip' = {}, policy.strict PROVE ~Emptied'
    <3>1. Rows # {} => file.rows \cup wal.rows # {} BY <1>1, RowsAre
    <3>2. found # {} => file.rows \cup (found \ file.rows) # {} OBVIOUS
    <3> QED BY <1>4, <2>1, <3>1, <3>2 DEF Emptied
  <2> QED BY <1>8, <2>1 DEF StepKnows
<1>12. backups' \in Seq(Rotation) BY <1>1 DEF RecoveryTypeOK, Rotation
<1> QED BY <1>2, <1>4, <1>5, <1>7, <1>9, <1>10, <1>11, <1>12, UnmovedIs, AloneSlips

LEMMA RebuildKeeps == ASSUME RecoveryIInv, NEW p \in Proc, Rebuild(p) PROVE RecoveryIInv'
<1>1. /\ pc[p] = "rebuild" /\ UNCHANGED <<policy, backups, marker, snap, copies, rescue, owed, ruined, migrated, slip, made>>
  BY DEF Rebuild, archive, history, counts
<1>2. PICK found \in {{}, IF policy.knob THEN policy.cold \ Rows ELSE {}} :
        /\ Committed(found)
        /\ IF found # {} \/ (~rescue[p].owns /\ Rows # {}) THEN Step(p, "restored", hold[p])
           ELSE IF rescue[p].owns THEN Step(p, "refuse", hold[p])
           ELSE Step(p, "refused", "none")
  BY DEF Rebuild, Goto
<1>3. found \in SUBSET Row /\ slip' \subseteq Windows BY <1>1 DEF RecoveryIInv, RecoveryTypeOK
<1>4. hold[p] = "recover" BY <1>1, HoldOf DEF Recovering, Rescuing
<1>5. rescue[p].refuse /\ (rescue[p].refuse => rescue[p].got = {}) BY <1>1, HoldOf DEF StepFits, Rescuing
<1>6. Clear' => Salvageable = {} BY <1>1, <1>5, HoldOf DEF StepKeeps, Clear
<1>7. CASE found # {} \/ (~rescue[p].owns /\ Rows # {})
  <2>1. Step(p, "restored", "recover") BY <1>2, <1>4, <1>7
  <2>2. Rows # {} \/ found # {} BY <1>7
  <2> QED BY <1>1, <1>2, <1>3, <1>6, <2>1, <2>2, CommitKeeps
<1>8. CASE ~(found # {} \/ (~rescue[p].owns /\ Rows # {})) /\ rescue[p].owns
  <2>1. Step(p, "refuse", "recover") /\ found = {} BY <1>2, <1>4, <1>8
  <2> QED BY <1>1, <1>2, <1>3, <1>8, <2>1, CommitKeeps
<1>9. CASE ~(found # {} \/ (~rescue[p].owns /\ Rows # {})) /\ ~rescue[p].owns
  <2>1. Step(p, "refused", "none") BY <1>2, <1>9
  <2> QED BY <1>1, <1>2, <1>3, <2>1, CommitKeeps
<1> QED BY <1>7, <1>8, <1>9

LEMMA RestoreRowsKeeps == ASSUME RecoveryIInv, NEW p \in Proc, RestoreRows(p) PROVE RecoveryIInv'
<1>1. /\ pc[p] = "restore" /\ Step(p, "restored", hold[p])
      /\ UNCHANGED <<policy, backups, marker, snap, copies, rescue, owed, ruined, migrated, made>>
  BY DEF RestoreRows, Goto, archive, counts
<1>2. PICK done \in SUBSET rescue[p].got : Committed(done) /\ Slip(IF done = rescue[p].got THEN {} ELSE {"dropped"})
  BY DEF RestoreRows
<1>3. hold[p] = "recover" /\ done \in SUBSET Row BY <1>1, <1>2, HoldOf DEF Recovering, Rescuing, Rescue
<1>4. slip \subseteq slip' /\ slip' \subseteq Windows /\ ("dropped" \notin slip' => done = rescue[p].got)
  BY <1>2, VerdictIs DEF Slip, Windows
<1>5. Clear' => Salvageable \subseteq done BY <1>1, <1>4, HoldOf DEF StepKeeps, Clear
<1>6. ~rescue[p].refuse BY <1>1, HoldOf DEF StepFits
<1>7. slip' = {} /\ policy.strict => done # {} BY <1>1, <1>4, <1>6, HoldOf DEF StepKnows
<1> QED BY <1>1, <1>2, <1>3, <1>4, <1>5, <1>7, CommitKeeps

LEMMA RemoveStoreKeeps == ASSUME RecoveryIInv, NEW p \in Proc, RemoveStore(p) PROVE RecoveryIInv'
<1>1. /\ pc[p] = "refuse" /\ Written(NoFile, NoWal) /\ Step(p, "conclude", hold[p]) /\ pc[p] \in Rescuing
      /\ UNCHANGED <<policy, backups, marker, snap, copies, rescue, owed, ruined, migrated, slip, made>>
  BY DEF RemoveStore, Goto, archive, history, counts, Rescuing
<1>2. RecoveryTypeOK /\ FilesDiffer /\ made \in Nat BY DEF RecoveryIInv, RecoveryTypeOK
<1>3. /\ StepFits(p) /\ (Clear => StepKeeps(p)) /\ rescue[p] \in Rescue /\ rescue' = [rescue EXCEPT ![p] = rescue[p]]
  BY <1>1, HoldOf
<1>4. /\ file' = NoFile /\ wal' = NoWal /\ verdict' \in Verdict /\ (verdict'.bound = "here" => Exists')
  BY <1>1, <1>2, WrittenIs
<1>5. /\ file' \in StoreFile /\ file'.id = 0 /\ file'.rows = {} /\ file'.hurt = {} /\ file'.head /\ file'.ver = 0
      /\ wal' \in Beside /\ wal'.rows = {}
  BY <1>2, <1>4, EmptyFiles
<1>6. /\ slip = {} => RuinedIsKnown'
      /\ ("pruned" \notin slip' => MarkerStands') /\ marker' \notin {0, file'.id} /\ rescue[p].of = marker /\ rescue[p].of <= made /\ hold[p] = "recover" /\ Alone(p)
  BY <1>1, <1>5, RescueKnown
<1>7. "conclude" \in Steps /\ "recover" \in Holds /\ HoldFits("conclude", "recover") BY RescueHolds DEF Rescuing
<1>8. pc'[p] = "conclude" /\ rescue'[p] = rescue[p] BY <1>1, <1>2 DEF Step, RecoveryTypeOK
<1>9. rescue[p].owns /\ rescue[p].refuse /\ rescue[p].got = {} /\ file.rows = {} BY <1>1, <1>3 DEF StepFits, Rescuing
<1>10. FilesDiffer' BY <1>1, <1>2, <1>4, <1>5, FilesMove
<1>11. StepFits(p)' BY <1>1, <1>5, <1>6, <1>8, <1>9 DEF StepFits, Opened
<1>12. Clear => RowsKept' /\ StepKeeps(p)'
  <2> SUFFICES ASSUME Clear PROVE RowsKept' /\ StepKeeps(p)' OBVIOUS
  <2>1. wal.rows = {} /\ Salvageable = {} BY <1>1, <1>3, <1>9 DEF StepKeeps
  <2>2. owed' = {} BY <1>1, <1>9, <2>1 DEF RecoveryIInv, RowsKept
  <2> QED BY <1>5, <1>8, <2>2 DEF RowsKept, StepKeeps
<1>13. StepKnows(p)' BY <1>8 DEF StepKnows
<1>14. Succeeds BY <1>1, <1>2, <1>5 DEF Succeeds
<1>15. backups' \in Seq(Rotation) BY <1>1, <1>2 DEF RecoveryTypeOK, Rotation
<1> QED BY <1>1, <1>3, <1>4, <1>5, <1>6, <1>7, <1>10, <1>11, <1>12, <1>13, <1>14, <1>15, UnmovedIs, AloneKeeps

LEMMA MigrateKeeps == ASSUME RecoveryIInv, NEW p \in Proc, Migrate(p) PROVE RecoveryIInv'
<1>1. /\ pc[p] = "migrate"
      /\ UNCHANGED <<policy, backups, marker, snap, copies, owed, ruined, slip, made>>
  BY DEF Migrate, archive, counts
<1>2. RecoveryTypeOK /\ FilesDiffer /\ made \in Nat /\ file \in StoreFile BY DEF RecoveryIInv, RecoveryTypeOK
<1>3. hold[p] = "migrate" /\ StepFits(p) BY <1>1, HoldOf DEF HoldFits
<1>4. Alone(p) /\ ~Refused BY <1>1, <1>3, HolderIsAlone DEF RecoveryIInv, Exclusive, Refused
<1>5. CASE Leave(p) /\ UNCHANGED <<file, wal, verdict, migrated>> BY <1>1, <1>4, <1>5, VerdictIs, LeaveKeeps
<1>6. CASE /\ Written([file EXCEPT !.ver = Current], wal) /\ migrated' = Rows
           /\ Step(p, "open", "open") /\ rescue' = [rescue EXCEPT ![p] = NoJob]
  <2>1. /\ file' = [file EXCEPT !.ver = Current] /\ wal' = wal /\ verdict' \in Verdict /\ (verdict'.bound = "here" => Exists')
    BY <1>2, <1>6, WrittenIs
  <2>2. /\ file' \in StoreFile /\ file'.id = file.id /\ file'.rows = file.rows /\ file'.hurt = file.hurt /\ file'.head = file.head
        /\ file'.ver = Current
    BY <1>2, <2>1 DEF StoreFile, Current
  <2>3. NoJob \in Rescue /\ NoJob.of = 0 BY <1>2, EmptyFiles
  <2>4. pc'[p] = "open" /\ rescue'[p] = NoJob BY <1>2, <1>6 DEF Step, RecoveryTypeOK
  <2>5. Exists /\ file.id # 0 /\ ("late" \notin slip => marker \in {0, file.id}) BY <1>1, <1>2, <1>3 DEF StepFits, Opened, FilesDiffer, Exists
  <2>6. Exists' BY <1>2, <2>2, <2>5, EmptyFiles DEF Exists
  <2>7. FilesDiffer'
    <3>1. wal'.rows # {} => wal'.of > 0 /\ wal'.of <= made' /\ (wal'.of = file'.id => file'.ver > 0)
      BY <1>1, <1>2, <2>1, <2>2 DEF FilesDiffer, Current
    <3> QED BY <1>1, <1>2, <2>1, <2>2, <2>5, <3>1, FilesMove DEF Current
  <2>8. StepFits(p)' BY <1>1, <1>2, <2>2, <2>3, <2>4, <2>5, <2>6 DEF StepFits, Recovering, Rescuing, Restoring
  <2>9. StepKeeps(p)' /\ StepKnows(p)' BY <2>4 DEF StepKeeps, StepKnows
  <2>10. Salvageable' = Salvageable /\ MarkerStands' = MarkerStands BY <1>1, MarkerStays
  <2>11. Clear => RowsKept'
    <3> SUFFICES ASSUME Clear PROVE RowsKept' OBVIOUS
    <3>1. RowsKept BY DEF RecoveryIInv
    <3>2. \A q \in Proc : pc[q] \notin {"sidecars", "replaced"} BY <1>1, <1>4, AloneSteps
    <3>3. wal'.rows # {} => wal'.of = file'.id BY <2>1, <2>2, <3>1, <3>2 DEF RowsKept
    <3> QED BY <1>1, <2>1, <2>2, <2>10, <3>1, <3>3 DEF RowsKept
  <2>12. slip = {} => RuinedIsKnown'
    <3>1. Emptied' = Emptied BY <2>1, <2>2 DEF Emptied
    <3> QED BY <1>1, <1>4, <2>2, <2>10, <3>1 DEF RecoveryIInv, RuinedIsKnown
  <2>13. Rows \subseteq Row BY <1>2, RowsAre
  <2>14. migrated' \subseteq Row /\ MigratedHasCopy' BY <1>1, <1>3, <1>6, <2>13 DEF MigratedHasCopy, StepFits
  <2>15. Succeeds BY <1>1, <1>2, <2>2 DEF Succeeds, Current
  <2>16. copies' \subseteq SUBSET Row /\ owed' \subseteq Row /\ ruined' \in BOOLEAN /\ made' \in Nat /\ wal' \in Beside
         /\ backups' \in Seq(Rotation)
    BY <1>1, <1>2, <2>1 DEF RecoveryTypeOK, Beside, Rotation
  <2> QED BY <1>1, <1>4, <1>6, <2>1, <2>2, <2>3, <2>7, <2>8, <2>9, <2>11, <2>12, <2>14, <2>15, <2>16, RescueHolds, AloneKeeps
<1> QED BY <1>5, <1>6 DEF Migrate

(* A checkpoint.                                                            *)
LEMMA Folds ==
    ASSUME RecoveryIInv, Exists, Written(Checkpointed, NoWal), \A q \in Proc : pc[q] \notin {"sidecars", "replaced"},
           UNCHANGED <<policy, backups, marker, snap, made, owed, ruined, slip>>
    PROVE  /\ file' \in StoreFile /\ wal' \in Beside /\ verdict' \in Verdict /\ Exists' /\ Succeeds /\ FilesDiffer'
           /\ file'.id = file.id /\ file'.ver = file.ver
           /\ Clear => RowsKept' /\ (Emptied' => Emptied)
           /\ Clear /\ file.ver = 0 => UNCHANGED <<file, verdict>>
<1>1. RecoveryTypeOK /\ FilesDiffer /\ made \in Nat /\ file \in StoreFile BY DEF RecoveryIInv, RecoveryTypeOK
<1>2. /\ file' = Checkpointed /\ wal' = NoWal /\ verdict' \in Verdict /\ (verdict'.bound = "here" => Exists')
      /\ (Checkpointed = file => verdict' = verdict)
  BY <1>1, WrittenIs
<1>3. /\ file' \in StoreFile /\ file'.id = file.id /\ file'.ver = file.ver /\ file'.head = AtPath.head
      /\ file'.rows = file.rows \cup BesidePath.rows /\ file'.hurt = file.hurt \ BesidePath.rows
      /\ AtPath.head => file.head
  BY <1>1, <1>2, CheckpointedIs, AtPathIs
<1>4. wal' \in Beside /\ wal'.rows = {} BY <1>1, <1>2, EmptyFiles
<1>5. file.id # 0 BY <1>1 DEF Exists, FilesDiffer
<1>6. Exists' BY <1>1, <1>3, <1>5, EmptyFiles DEF Exists
<1>7. file'.ver = 0 => file'.rows = {} /\ file'.hurt = {} /\ file'.head
  <2> SUFFICES ASSUME file.ver = 0 PROVE file'.rows = {} /\ file'.hurt = {} /\ file'.head BY <1>3
  <2>1. file.rows = {} /\ file.hurt = {} /\ file.head BY <1>1 DEF FilesDiffer
  <2>2. BesidePath.rows = {} BY <1>1, ConnectedFacts DEF FilesDiffer
  <2>3. AtPath = file BY <1>1, AtPathIs
  <2> QED BY <1>3, <2>1, <2>2, <2>3
<1>8. FilesDiffer' BY <1>1, <1>2, <1>3, <1>4, <1>5, <1>6, <1>7, FilesMove
<1>9. Succeeds BY <1>1, <1>3 DEF Succeeds
<1>10. ASSUME Clear PROVE RowsKept' /\ (Emptied' => Emptied)
  <2>1. RowsKept /\ BesidePath.rows = wal.rows /\ AtPath = file BY <1>10, PathClear DEF RecoveryIInv
  <2>2. Salvageable' = Salvageable BY MarkerStays
  <2>3. RowsKept' BY <1>3, <1>4, <2>1, <2>2 DEF RowsKept
  <2>4. Emptied' => Emptied BY <1>3, <1>4, <2>1 DEF Emptied
  <2> QED BY <2>3, <2>4
<1>11. ASSUME file.ver = 0 PROVE UNCHANGED <<file, verdict>>
  <2>1. BesidePath.rows = {} BY <1>1, <1>11, ConnectedFacts DEF FilesDiffer
  <2>2. AtPath = file BY <1>1, <1>11, AtPathIs
  <2>3. Checkpointed = [[file EXCEPT !.rows = file.rows] EXCEPT !.hurt = file.hurt]
    <3>1. file.rows \cup BesidePath.rows = file.rows /\ file.hurt \ BesidePath.rows = file.hurt BY <2>1
    <3>2. Checkpointed = [[file EXCEPT !.rows = file.rows \cup BesidePath.rows] EXCEPT !.hurt = file.hurt \ BesidePath.rows]
      BY <1>1, <2>2 DEF Checkpointed, StoreFile
    <3> QED BY <3>1, <3>2
  <2>4. [file EXCEPT !.rows = file.rows] = file BY <1>1 DEF StoreFile
  <2>5. [file EXCEPT !.hurt = file.hurt] = file BY <1>1 DEF StoreFile
  <2>6. Checkpointed = file BY <2>3, <2>4, <2>5
  <2> QED BY <1>2, <2>6
<1> QED BY <1>2, <1>3, <1>4, <1>6, <1>8, <1>9, <1>10, <1>11

LEMMA CheckpointOldKeeps == ASSUME RecoveryIInv, NEW p \in Proc, CheckpointOld(p) PROVE RecoveryIInv'
<1>1. /\ pc[p] = "staged" /\ Step(p, "folded", hold[p])
      /\ UNCHANGED <<policy, backups, marker, snap, copies, rescue, owed, ruined, migrated, slip, made>>
  BY DEF CheckpointOld, Goto, archive, history, counts
<1>2. RecoveryTypeOK /\ FilesDiffer /\ made \in Nat BY DEF RecoveryIInv, RecoveryTypeOK
<1>3. hold[p] = "restore" /\ Alone(p) /\ Shareable(p) BY <1>1, HoldOf, HolderIsAlone DEF Restoring, Exclusive, RecoveryIInv
<1>4. "folded" \in Steps /\ "restore" \in Holds /\ HoldFits("folded", "restore") BY RescueHolds DEF Restoring
<1>5. /\ pc'[p] = "folded" /\ rescue'[p] = rescue[p] /\ StepFits(p) /\ rescue[p] \in Rescue
      /\ rescue' = [rescue EXCEPT ![p] = rescue[p]]
  BY <1>1, <1>2, HoldOf DEF Step, RecoveryTypeOK
<1>6. StepFits(p)' BY <1>1, <1>5 DEF StepFits, Recovering, Rescuing, Opened, Restoring
<1>7. StepKeeps(p)' /\ StepKnows(p)' BY <1>5 DEF StepKeeps, StepKnows
<1>8. \A q \in Proc : pc[q] \notin {"sidecars", "replaced"} BY <1>1, <1>3, AloneSteps
<1>9. CASE ~Exists /\ UNCHANGED <<file, wal, verdict>>
  <2>1. Refused => Refused' BY <1>1, <1>2, <1>3, <1>4, <1>9, RefusedStays
  <2> QED BY <1>1, <1>3, <1>4, <1>5, <1>6, <1>7, <1>9, <2>1, VerdictIs, Quietly
<1>10. CASE Exists /\ Broken(AtPath) /\ Written(AtPath, BesidePath)
  <2>1. ConnectedFile = AtPath BY <1>2, <1>10, ConnectedIs
  <2>2. /\ file' = ConnectedFile /\ wal' = BesidePath /\ verdict' \in Verdict /\ (verdict'.bound = "here" => Exists')
        /\ Written(ConnectedFile, BesidePath)
    BY <1>2, <1>10, <2>1, WrittenIs
  <2>3. made' = IF Exists THEN made ELSE made + 1 BY <1>1, <1>10
  <2> QED BY <1>1, <1>3, <1>4, <1>5, <1>6, <2>2, <2>3, SnapIs, VerdictIs, ConnectingKeeps
<1>11. CASE Exists /\ Written(Checkpointed, NoWal)
  <2>1. /\ file' \in StoreFile /\ wal' \in Beside /\ verdict' \in Verdict /\ Exists' /\ Succeeds /\ FilesDiffer'
        /\ file'.id = file.id /\ file'.ver = file.ver
        /\ Clear => RowsKept' /\ (Emptied' => Emptied)
        /\ Clear /\ file.ver = 0 => UNCHANGED <<file, verdict>>
    BY <1>1, <1>8, <1>11, Folds
  <2>2. slip = {} => RuinedIsKnown'
    <3> SUFFICES ASSUME slip = {} PROVE RuinedIsKnown' OBVIOUS
    <3>1. Clear /\ RuinedIsKnown BY DEF Clear, RecoveryIInv
    <3>2. Refused => Refused' BY <1>1, <1>2, <1>3, <1>4, <2>1, <3>1, RefusedStays DEF Refused
    <3>3. MarkerStands' = MarkerStands BY <1>1, MarkerStays
    <3> QED BY <1>1, <2>1, <3>1, <3>2, <3>3 DEF RuinedIsKnown
  <2>3. backups' \in Seq(Rotation) BY <1>1, <1>2 DEF RecoveryTypeOK, Rotation
  <2> QED BY <1>1, <1>3, <1>4, <1>5, <1>6, <1>7, <2>1, <2>2, <2>3, UnmovedIs, AloneKeeps
<1> QED BY <1>9, <1>10, <1>11 DEF CheckpointOld

LEMMA ReplaceKeeps == ASSUME RecoveryIInv, NEW p \in Proc, Replace(p) PROVE RecoveryIInv'
<1>1. /\ pc[p] = "folded" /\ Step(p, "replaced", hold[p]) /\ made' = made + 1 /\ Written([snap EXCEPT !.id = made + 1], wal)
      /\ owed' = snap.rows /\ ruined' = FALSE /\ migrated' = {}
      /\ UNCHANGED <<policy, backups, marker, snap, copies, rescue, slip>>
  BY DEF Replace, Goto, archive
<1>2. RecoveryTypeOK /\ FilesDiffer /\ made \in Nat BY DEF RecoveryIInv, RecoveryTypeOK
<1>3. hold[p] = "restore" /\ Alone(p) BY <1>1, HoldOf DEF Restoring
<1>4. "replaced" \in Steps /\ "restore" \in Holds /\ HoldFits("replaced", "restore") BY RescueHolds DEF Restoring
<1>5. /\ pc'[p] = "replaced" /\ rescue'[p] = rescue[p] /\ StepFits(p) /\ rescue[p] \in Rescue
      /\ rescue' = [rescue EXCEPT ![p] = rescue[p]]
  BY <1>1, <1>2, HoldOf DEF Step, RecoveryTypeOK
<1>6. /\ file' = [snap EXCEPT !.id = made + 1] /\ wal' = wal /\ verdict' \in Verdict /\ (verdict'.bound = "here" => Exists')
  BY <1>1, <1>2, WrittenIs
<1>7. /\ file' \in StoreFile /\ file'.id = made + 1 /\ file'.rows = snap.rows /\ file'.hurt = {} /\ file'.head /\ file'.ver > 0
  BY <1>1, <1>2, <1>5, <1>6, SnapIs DEF StoreFile, StepFits
<1>8. FilesDiffer'
  <2>1. wal'.rows # {} => wal'.of > 0 /\ wal'.of <= made' /\ (wal'.of = file'.id => file'.ver > 0)
    <3>1. wal.of \in Nat BY <1>2 DEF RecoveryTypeOK
    <3> QED BY <1>1, <1>2, <1>6, <1>7, <3>1 DEF FilesDiffer
  <2> QED BY <1>1, <1>2, <1>6, <1>7, <2>1, FilesMove
<1>9. StepFits(p)'
  <2>1. rescue'[p].of <= made'
    <3>1. rescue[p].of \in Nat BY <1>5 DEF Rescue
    <3> QED BY <1>1, <1>2, <1>5, <3>1 DEF StepFits
  <2> QED BY <1>1, <1>5, <1>7, <2>1 DEF StepFits, Recovering, Rescuing, Opened, Restoring
<1>10. StepKeeps(p)' /\ StepKnows(p)' BY <1>1, <1>5, <1>7 DEF StepKeeps, StepKnows
<1>11. RowsKept' BY <1>1, <1>5, <1>7 DEF RowsKept
<1>12. slip = {} => RuinedIsKnown' BY <1>1 DEF RecoveryIInv, RuinedIsKnown
<1>13. Succeeds /\ MigratedHasCopy' BY <1>1, <1>2, <1>7 DEF Succeeds, MigratedHasCopy
<1>14. /\ copies' \subseteq SUBSET Row /\ owed' \subseteq Row /\ ruined' \in BOOLEAN /\ migrated' \subseteq Row /\ made' \in Nat
       /\ wal' \in Beside /\ backups' \in Seq(Rotation)
  BY <1>1, <1>2, <1>6, <1>7 DEF RecoveryTypeOK, Beside, Rotation, StoreFile
<1> QED BY <1>1, <1>3, <1>4, <1>5, <1>6, <1>7, <1>8, <1>9, <1>10, <1>11, <1>12, <1>13, <1>14, AloneKeeps

LEMMA ClearSidecarsKeeps == ASSUME RecoveryIInv, NEW p \in Proc, ClearSidecars(p) PROVE RecoveryIInv'
<1>1. /\ pc[p] = "replaced" /\ Step(p, "idle", "none") /\ rescue' = [rescue EXCEPT ![p] = NoJob] /\ wal' = NoWal
      /\ UNCHANGED <<policy, file, backups, marker, verdict, snap, copies, owed, ruined, migrated, slip, made>>
  BY DEF ClearSidecars, Leave, archive, history, counts
<1>2. RecoveryTypeOK /\ FilesDiffer /\ made \in Nat /\ file \in StoreFile BY DEF RecoveryIInv, RecoveryTypeOK
<1>3. Alone(p) BY <1>1, HoldOf DEF Restoring
<1>4. NoJob \in Rescue /\ NoJob.of = 0 /\ wal' \in Beside /\ wal'.rows = {} BY <1>1, <1>2, EmptyFiles
<1>5. pc'[p] = "idle" /\ rescue'[p] = NoJob BY <1>1, <1>2 DEF Step, RecoveryTypeOK
<1>6. StepFits(p)' /\ StepKeeps(p)' /\ StepKnows(p)' BY <1>1, <1>2, <1>4, <1>5, EarlyFits DEF Early
<1>7. StepFits(p) /\ (Clear => StepKeeps(p)) BY HoldOf
<1>8. Salvageable' = Salvageable /\ MarkerStands' = MarkerStands BY <1>1, MarkerStays
<1>9. Clear => RowsKept' BY <1>1, <1>4, <1>7 DEF RowsKept, StepKeeps, RecoveryIInv
<1>10. slip = {} => RuinedIsKnown' BY <1>1, <1>7 DEF RecoveryIInv, RuinedIsKnown, StepFits, Emptied
<1>11. FilesDiffer' BY <1>1, <1>2, <1>4 DEF FilesDiffer, Exists
<1>12. verdict' \in Verdict /\ file' \in StoreFile /\ backups' \in Seq(Rotation)
  BY <1>1, <1>2, VerdictIs DEF RecoveryTypeOK, Rotation
<1> QED BY <1>1, <1>3, <1>4, <1>6, <1>9, <1>10, <1>11, <1>12, UnmovedIs, RescueHolds, AloneKeeps

-----------------------------------------------------------------------------
(* The steps of a process that has the store open.                          *)

LEMMA OpenIs ==
    ASSUME RecoveryIInv, NEW p \in Proc, pc[p] = "open"
    PROVE  /\ Exists /\ file.ver = Current /\ file.id # 0 /\ hold[p] = "open" /\ Shareable(p) /\ ~Refused
           /\ rescue[p].of <= made /\ ("late" \notin slip => marker \in {0, file.id})
           /\ \A q \in Proc : pc[q] \notin {"sidecars", "replaced"}
<1>1. Exists /\ file.ver = Current /\ rescue[p].of <= made /\ ("late" \notin slip => marker \in {0, file.id})
  BY HoldOf DEF StepFits, Opened
<1>2. hold[p] = "open" BY HoldOf DEF HoldFits
<1>3. ASSUME NEW q \in Proc \ {p} PROVE hold[q] \in {"none", "open"}
  <2>1. hold[q] \in Holds BY HoldOf
  <2>2. hold[q] \notin Exclusive BY <1>2, <1>3 DEF RecoveryIInv, ExclusiveIsAlone
  <2> QED BY <2>1, <2>2 DEF Holds
<1>4. Shareable(p) BY <1>3 DEF Shareable
<1>5. \A q \in Proc : pc[q] \notin {"sidecars", "replaced"} BY <1>4, ShareableSteps
<1>6. file.id # 0 BY <1>1 DEF RecoveryIInv, FilesDiffer, Exists
<1>7. ~Refused BY <1>1 DEF Refused, Current
<1> QED BY <1>1, <1>2, <1>4, <1>5, <1>6, <1>7

LEMMA OpenKeeps ==
    ASSUME RecoveryIInv, NEW p \in Proc, pc[p] = "open", NEW n \in {"open", "idle"}, NEW h, Step(p, n, h),
           h = IF n = "open" THEN "open" ELSE "none",
           NEW job \in Rescue, rescue' = [rescue EXCEPT ![p] = job], job.of <= made,
           UNCHANGED <<policy, backups, marker, snap, copies, ruined, migrated, slip, made>>,
           file' \in StoreFile, wal' \in Beside, verdict' \in Verdict, Exists', file'.id = file.id, file'.ver = file.ver,
           FilesDiffer', owed' \subseteq Row, Clear => RowsKept' /\ (Emptied' => Emptied)
    PROVE  RecoveryIInv'
<1>1. RecoveryTypeOK /\ made \in Nat BY DEF RecoveryIInv, RecoveryTypeOK
<1>2. /\ Exists /\ file.ver = Current /\ file.id # 0 /\ hold[p] = "open" /\ Shareable(p) /\ ~Refused
      /\ rescue[p].of <= made /\ ("late" \notin slip => marker \in {0, file.id})
  BY OpenIs
<1>3. n \in Steps /\ h \in Holds /\ HoldFits(n, h) BY RescueHolds
<1>4. /\ pc' \in [Proc -> Steps] /\ hold' \in [Proc -> Holds] /\ HoldsFit' /\ ExclusiveIsAlone' /\ pc'[p] = n
      /\ \A q \in Proc \ {p} : pc'[q] = pc[q] /\ hold'[q] = hold[q]
  BY <1>2, <1>3, HoldStep DEF RecoveryIInv
<1>5. /\ rescue' \in [Proc -> Rescue] /\ rescue'[p] = job /\ \A q \in Proc \ {p} : rescue'[q] = rescue[q]
  BY <1>1 DEF RecoveryTypeOK
<1>6. RecoveryTypeOK' BY <1>1, <1>4, <1>5 DEF RecoveryTypeOK, Holds, Beside
<1>7. Succeeds BY <1>1 DEF Succeeds
<1>8. \A q \in Proc \ {p} : Fits(q)' BY <1>2, <1>4, <1>5, <1>6, <1>7, ShareableFits
<1>9. StepFits(p)'
  <2>1. CASE n = "open" BY <1>2, <1>4, <1>5, <2>1 DEF StepFits, Opened, Recovering, Rescuing, Restoring
  <2>2. CASE n = "idle" BY <1>4, <1>5, <2>2, EarlyFits DEF Early
  <2> QED BY <2>1, <2>2
<1>10. StepKeeps(p)' /\ StepKnows(p)' BY <1>4 DEF StepKeeps, StepKnows
<1>11. Clear' => RowsKept' BY DEF Clear
<1>12. slip' = {} => RuinedIsKnown'
  <2> SUFFICES ASSUME slip = {} PROVE RuinedIsKnown' OBVIOUS
  <2>1. Clear /\ RuinedIsKnown BY DEF Clear, RecoveryIInv
  <2>2. MarkerStands' = MarkerStands BY MarkerStays
  <2> QED BY <1>2, <2>1, <2>2 DEF RuinedIsKnown
<1>13. MigratedHasCopy' BY DEF RecoveryIInv, MigratedHasCopy
<1> QED BY <1>4, <1>6, <1>8, <1>9, <1>10, <1>11, <1>12, <1>13, Whole DEF Fits

LEMMA WriteKeeps == ASSUME RecoveryIInv, NEW p \in Proc, NEW r \in Row, Write(p, r) PROVE RecoveryIInv'
<1>1. /\ pc[p] = "open" /\ ~Broken(file) /\ Committed({r}) /\ owed' = owed \cup {r}
      /\ UNCHANGED <<policy, backups, marker, snap, copies, pc, hold, rescue, ruined, migrated, slip, made>>
  BY DEF Write, archive, counts
<1>2. RecoveryTypeOK /\ rescue[p] \in Rescue /\ rescue' = [rescue EXCEPT ![p] = rescue[p]] BY <1>1, HoldOf DEF RecoveryIInv
<1>3. Exists /\ file.ver = Current /\ hold[p] = "open" /\ rescue[p].of <= made BY <1>1, OpenIs
<1>4. /\ file' = file /\ wal' \in Beside /\ wal'.of = file.id /\ wal'.rows = wal.rows \cup ({r} \ file.rows)
      /\ verdict' \in Verdict /\ file' \in StoreFile /\ FilesDiffer' /\ Exists'
  BY <1>1, <1>3, CommittedIs DEF Current
<1>5. ASSUME Clear PROVE RowsKept' /\ (Emptied' => Emptied)
  <2>1. RowsKept BY <1>5 DEF RecoveryIInv
  <2>2. Salvageable' = Salvageable BY <1>1, MarkerStays
  <2>3. file.head /\ file.hurt = {} BY <1>1 DEF Broken
  <2> QED BY <1>1, <1>4, <2>1, <2>2, <2>3 DEF RowsKept, Emptied
<1>6. Step(p, "open", "open") BY <1>1, <1>2, <1>3 DEF Step, RecoveryTypeOK
<1>7. owed' \subseteq Row BY <1>1, <1>2 DEF RecoveryTypeOK
<1> QED BY <1>1, <1>2, <1>3, <1>4, <1>5, <1>6, <1>7, OpenKeeps

LEMMA CheckpointKeeps == ASSUME RecoveryIInv, NEW p \in Proc, Checkpoint(p) PROVE RecoveryIInv'
<1>1. /\ pc[p] = "open" /\ Written(Checkpointed, NoWal)
      /\ UNCHANGED <<policy, backups, marker, snap, copies, pc, hold, rescue, owed, ruined, migrated, slip, made>>
  BY DEF Checkpoint, archive, history, counts
<1>2. RecoveryTypeOK /\ rescue[p] \in Rescue /\ rescue' = [rescue EXCEPT ![p] = rescue[p]] BY <1>1, HoldOf DEF RecoveryIInv
<1>3. Exists /\ hold[p] = "open" /\ rescue[p].of <= made /\ \A q \in Proc : pc[q] \notin {"sidecars", "replaced"}
  BY <1>1, OpenIs
<1>4. /\ file' \in StoreFile /\ wal' \in Beside /\ verdict' \in Verdict /\ Exists' /\ FilesDiffer'
      /\ file'.id = file.id /\ file'.ver = file.ver
      /\ Clear => RowsKept' /\ (Emptied' => Emptied)
  BY <1>1, <1>3, Folds
<1>5. Step(p, "open", "open") BY <1>1, <1>2, <1>3 DEF Step, RecoveryTypeOK
<1>6. owed' \subseteq Row BY <1>1, <1>2 DEF RecoveryTypeOK
<1> QED BY <1>1, <1>2, <1>3, <1>4, <1>5, <1>6, OpenKeeps

LEMMA CloseStoreKeeps == ASSUME RecoveryIInv, NEW p \in Proc, Close(p) PROVE RecoveryIInv'
<1>1. /\ pc[p] = "open" /\ Leave(p)
      /\ UNCHANGED <<policy, backups, marker, snap, copies, owed, ruined, migrated, slip, made>>
      /\ Written(Checkpointed, NoWal) \/ UNCHANGED <<file, wal, verdict>>
  BY DEF Close, archive, history, counts
<1>2. RecoveryTypeOK /\ made \in Nat BY DEF RecoveryIInv, RecoveryTypeOK
<1>3. Exists /\ \A q \in Proc : pc[q] \notin {"sidecars", "replaced"} BY <1>1, OpenIs
<1>4. CASE UNCHANGED <<file, wal, verdict>>
  <2>1. ~Refused BY <1>1, OpenIs
  <2> QED BY <1>1, <1>4, <2>1, VerdictIs, LeaveKeeps
<1>5. CASE Written(Checkpointed, NoWal)
  <2>1. /\ file' \in StoreFile /\ wal' \in Beside /\ verdict' \in Verdict /\ Exists' /\ FilesDiffer'
        /\ file'.id = file.id /\ file'.ver = file.ver
        /\ Clear => RowsKept' /\ (Emptied' => Emptied)
    BY <1>1, <1>3, <1>5, Folds
  <2>2. NoJob \in Rescue /\ NoJob.of <= made BY <1>2, EmptyFiles
  <2>3. Step(p, "idle", "none") /\ rescue' = [rescue EXCEPT ![p] = NoJob] BY <1>1 DEF Leave
  <2>4. owed' \subseteq Row BY <1>1, <1>2 DEF RecoveryTypeOK
  <2> QED BY <1>1, <2>1, <2>2, <2>3, <2>4, OpenKeeps
<1> QED BY <1>1, <1>4, <1>5

-----------------------------------------------------------------------------
(* The invariant, and what it says of the store.                            *)

LEMMA RecoveryInitKeeps == ASSUME RecoveryInit PROVE RecoveryIInv
<1>1. /\ NoFile \in StoreFile /\ NoWal \in Beside /\ NoJob \in Rescue /\ NoWal.rows = {} /\ NoJob.of = 0
      /\ NoFile.id = 0 /\ NoFile.rows = {} /\ NoFile.hurt = {} /\ NoFile.head /\ NoFile.ver = 0
  <2>1. NoFile \in StoreFile BY DEF NoFile, StoreFile
  <2>2. NoFile.id = 0 BY DEF NoFile
  <2>3. ASSUME NEW v \in 1..3, file = [[[NoFile EXCEPT !.id = 1] EXCEPT !.rows = Old] EXCEPT !.ver = v] PROVE file.id = 1
    BY <2>1, <2>3 DEF StoreFile
  <2>4. file = NoFile \/ \E v \in 1..3 : file = [[[NoFile EXCEPT !.id = 1] EXCEPT !.rows = Old] EXCEPT !.ver = v]
    BY DEF RecoveryInit
  <2>5. made \in Nat BY <2>2, <2>3, <2>4 DEF RecoveryInit
  <2> QED BY <2>5, EmptyFiles
<1>2. /\ file \in StoreFile /\ file.id \in {0, 1} /\ (file.id = 0 => file = NoFile) /\ file.hurt = {} /\ file.head
      /\ file.ver = 0 => file.rows = {}
  <2>1. CASE file = NoFile BY <1>1, <2>1
  <2>2. ASSUME NEW v \in 1..3, file = [NoFile EXCEPT !.id = 1, !.rows = Old, !.ver = v]
        PROVE  file \in StoreFile /\ file.id = 1 /\ file.hurt = {} /\ file.head /\ file.ver = v
    <3>1. file = [[[NoFile EXCEPT !.id = 1] EXCEPT !.rows = Old] EXCEPT !.ver = v] BY <2>2
    <3>2. Old \subseteq Row BY StoreRecoveryAssumption
    <3> DEFINE named == [NoFile EXCEPT !.id = 1]
               filled == [named EXCEPT !.rows = Old]
    <3>3. named \in StoreFile /\ named.id = 1 /\ named.hurt = {} /\ named.head BY <1>1 DEF StoreFile
    <3> HIDE DEF named
    <3>4. filled \in StoreFile /\ filled.id = 1 /\ filled.hurt = {} /\ filled.head BY <3>2, <3>3 DEF StoreFile
    <3>5. file = [filled EXCEPT !.ver = v] BY <3>1 DEF named
    <3> HIDE DEF filled
    <3> QED BY <3>4, <3>5 DEF StoreFile
  <2>3. file = NoFile \/ \E v \in 1..3 : file = [NoFile EXCEPT !.id = 1, !.rows = Old, !.ver = v] BY DEF RecoveryInit
  <2> QED BY <1>1, <2>1, <2>2, <2>3
<1>3. /\ backups \in Seq(Rotation) /\ \A i \in DOMAIN backups :
            backups[i].store.id = 0 /\ backups[i].store.rows = {} /\ backups[i].wal = {} /\ backups[i].store.ver > 0
  <2> DEFINE old == [store |-> [NoFile EXCEPT !.ver = 1], wal |-> {}]
  <2>1. [NoFile EXCEPT !.ver = 1] \in StoreFile BY <1>1 DEF StoreFile
  <2>2. old \in Rotation /\ old.store.id = 0 /\ old.store.rows = {} /\ old.wal = {} /\ old.store.ver > 0
    BY <1>1, <2>1 DEF Rotation, StoreFile
  <2>3. backups = <<>> \/ backups = <<old>> BY DEF RecoveryInit
  <2> HIDE DEF old
  <2>4. CASE backups = <<>> BY <2>4
  <2>5. CASE backups = <<old>>
    <3>1. backups \in Seq(Rotation) /\ DOMAIN backups = {1} /\ backups[1] = old BY <2>2, <2>5
    <3> QED BY <2>2, <3>1
  <2> QED BY <2>3, <2>4, <2>5
<1>4. /\ wal = NoWal /\ made = file.id /\ marker = 0 /\ verdict = [status |-> "none", bound |-> "none"] /\ snap = NoFile
      /\ copies = {} /\ owed = file.rows /\ ruined = FALSE /\ migrated = {} /\ slip = {}
      /\ pc = [p \in Proc |-> "idle"] /\ hold = [p \in Proc |-> "none"] /\ rescue = [p \in Proc |-> NoJob]
  BY DEF RecoveryInit
<1>5. /\ pc \in [Proc -> Steps] /\ hold \in [Proc -> {"none", "open"} \cup Exclusive] /\ rescue \in [Proc -> Rescue]
      /\ \A p \in Proc : pc[p] = "idle" /\ hold[p] = "none" /\ rescue[p].of = 0
  BY <1>1, <1>4 DEF Steps, Quiet
<1>6. RecoveryTypeOK
  <2>1. policy \in [strict : BOOLEAN, knob : BOOLEAN, cold : SUBSET Row, room : Nat]
    <3>1. Room \subseteq Nat
      <4>1. \A n \in 0..2 : (IF n < KEEP THEN KEEP - n ELSE 0) \in Nat BY StoreRecoveryAssumption
      <4> QED BY <4>1 DEF Room
    <3>2. Cold \subseteq Row BY StoreRecoveryAssumption
    <3>3. policy \in [strict : BOOLEAN, knob : BOOLEAN, cold : {{}, Cold}, room : Room] BY DEF RecoveryInit
    <3> QED BY <3>1, <3>2, <3>3
  <2>2. verdict \in Verdict /\ owed \subseteq Row /\ made \in Nat BY <1>2, <1>4 DEF Verdict, StoreFile
  <2> QED BY <1>1, <1>2, <1>3, <1>4, <1>5, <2>1, <2>2 DEF RecoveryTypeOK, Beside, Rotation
<1>7. HoldsFit /\ ExclusiveIsAlone
  <2>1. HoldFits("idle", "none") BY RescueHolds
  <2> QED BY <1>5, <2>1 DEF HoldsFit, ExclusiveIsAlone, Exclusive
<1>8. FilesDiffer
  <2>1. file.id <= made /\ verdict.bound # "here" BY <1>2, <1>4
  <2>2. \A i \in DOMAIN backups : backups[i].store.id <= made BY <1>2, <1>3, <1>4
  <2> QED BY <1>1, <1>2, <1>3, <1>4, <2>1, <2>2 DEF FilesDiffer
<1>9. MigratedHasCopy BY <1>4 DEF MigratedHasCopy
<1>10. RowsKept BY <1>1, <1>2, <1>4 DEF RowsKept
<1>11. RuinedIsKnown BY <1>3, <1>4 DEF RuinedIsKnown
<1>12. ASSUME NEW p \in Proc PROVE Fits(p)
  <2>1. pc[p] = "idle" /\ rescue[p].of <= made BY <1>2, <1>4, <1>5
  <2>2. StepFits(p) /\ StepKeeps(p) /\ StepKnows(p)
    BY <2>1 DEF StepFits, StepKeeps, StepKnows, Recovering, Rescuing, Opened, Restoring
  <2> QED BY <2>2 DEF Fits
<1> QED BY <1>6, <1>7, <1>8, <1>9, <1>10, <1>11, <1>12 DEF RecoveryIInv

LEMMA RecoveryStutter == ASSUME RecoveryIInv, UNCHANGED recoveryVars PROVE RecoveryIInv'
<1>1. /\ UNCHANGED <<policy, file, wal, backups, marker, verdict, snap, copies, pc, hold, rescue, owed, ruined, migrated, slip, made>>
  BY DEF recoveryVars
<1>2. RecoveryTypeOK' /\ HoldsFit' /\ ExclusiveIsAlone' /\ FilesDiffer' /\ MigratedHasCopy'
  BY <1>1 DEF RecoveryIInv, RecoveryTypeOK, HoldsFit, HoldFits, ExclusiveIsAlone, FilesDiffer, Exists, MigratedHasCopy
<1>3. Salvageable' = Salvageable /\ MarkerStands' = MarkerStands /\ Emptied' = Emptied
  BY <1>1, MarkerStays DEF Emptied
<1>4. Clear' => RowsKept' BY <1>1, <1>3 DEF RecoveryIInv, RowsKept, Clear
<1>5. Refused' = Refused BY <1>1 DEF Refused, Concluding
<1>6. slip' = {} => RuinedIsKnown' BY <1>1, <1>3, <1>5 DEF RecoveryIInv, RuinedIsKnown
<1>7. \A q \in Proc : Fits(q)'
  <2> TAKE q \in Proc
  <2>1. RecoveryTypeOK /\ Fits(q) BY DEF RecoveryIInv
  <2> QED BY <1>1, <2>1, SameFits
<1> QED BY <1>2, <1>4, <1>6, <1>7 DEF RecoveryIInv

LEMMA RecoveryNextKeeps == ASSUME RecoveryIInv, RecoveryNext PROVE RecoveryIInv'
<1>1. CASE Damage BY <1>1, DamageKeeps
<1>2. ASSUME NEW p \in Proc, Open(p) PROVE RecoveryIInv'
  BY <1>2, PrepareKeeps, NoResumeKeeps, ResumeKeeps, BusyKeeps, MigrationHoldKeeps, PreflightKeeps, OpenCheckedKeeps,
     OpenUncheckedKeeps, OpenFailedKeeps, FoundCorruptKeeps, RecordRunningKeeps DEF Open
<1>3. ASSUME NEW p \in Proc, Recover(p) PROVE RecoveryIInv'
  BY <1>3, BusyKeeps, WriteMarkerKeeps, MoveStoreKeeps, MoveSidecarsKeeps, PruneKeeps, SalvageKeeps, OpenRecoveredKeeps,
     NothingLeftKeeps, RebuildKeeps, RestoreRowsKeeps, ClearMarkerKeeps, RecordRecoveredKeeps, RemoveStoreKeeps,
     ConcludeKeeps, RecordRefusedKeeps DEF Recover
<1>4. ASSUME NEW p \in Proc, Schema(p) PROVE RecoveryIInv'
  BY <1>4, SchemaCurrentKeeps, BusyKeeps, CopyBeforeMigrationKeeps, MigrateKeeps DEF Schema
<1>5. ASSUME NEW p \in Proc, Operate(p) PROVE RecoveryIInv'
  BY <1>5, CreateSnapshotKeeps, StageRestoreKeeps, CheckpointOldKeeps, ReplaceKeeps, ClearSidecarsKeeps, RestoreColdKeeps
     DEF Operate
<1>6. ASSUME NEW p \in Proc, Use(p) PROVE RecoveryIInv'
  BY <1>6, CloseStoreKeeps, CheckpointKeeps, WriteKeeps DEF Use
<1>7. ASSUME NEW p \in Proc, Kill(p) PROVE RecoveryIInv' BY <1>7, KillKeeps
<1> QED BY <1>1, <1>2, <1>3, <1>4, <1>5, <1>6, <1>7 DEF RecoveryNext

LEMMA RecoveryIInvSays == ASSUME RecoveryIInv PROVE StoreRecovers
<1>1. RecoveryTypeOK /\ FilesDiffer /\ file \in StoreFile /\ backups \in Seq(Rotation)
  BY DEF RecoveryIInv, RecoveryTypeOK, Rotation
<1>2. ASSUME Clear, \A q \in Proc : pc[q] \notin {"sidecars", "replaced"}
      PROVE  owed \subseteq Rows \cup Salvageable
  <2>1. RowsKept /\ ~Foreign BY <1>1, <1>2, NotForeign DEF RecoveryIInv
  <2>2. Rows = IF file.head THEN (file.rows \ file.hurt) \cup wal.rows ELSE {} BY <1>1, <2>1, RowsAre
  <2> QED BY <2>1, <2>2 DEF RowsKept
<1>3. Salvageable \subseteq UNION {Kin(i) : i \in InHand}
  <2>1. ASSUME NEW i \in InHand, NEW r \in Scanned(backups[i]) PROVE r \in Kin(i) BY <2>1 DEF Scanned, Kin
  <2> QED BY <2>1, SalvageableIs
<1>4. RowsReachable
  <2> SUFFICES ASSUME Clear PROVE owed \subseteq Rows \cup Moving \cup UNION {Kin(i) : i \in InHand}
    BY DEF RowsReachable, Clear
  <2>1. CASE \E p \in Proc : pc[p] = "sidecars"
    <3>1. PICK p \in Proc : pc[p] = "sidecars" BY <2>1
    <3>2. file.rows = {} BY <1>1, <3>1, HoldOf DEF StepFits, FilesDiffer
    <3>3. owed \subseteq wal.rows \cup Salvageable BY <3>2 DEF RecoveryIInv, RowsKept
    <3>4. wal.rows \subseteq Moving BY <2>1 DEF Moving
    <3> QED BY <1>3, <3>3, <3>4
  <2>2. CASE \E p \in Proc : pc[p] = "replaced"
    <3>1. PICK p \in Proc : pc[p] = "replaced" BY <2>2
    <3>2. owed \subseteq file.rows BY <3>1, HoldOf DEF StepKeeps
    <3>3. file.rows \subseteq Moving BY <2>2 DEF Moving
    <3> QED BY <3>2, <3>3
  <2>3. CASE \A p \in Proc : pc[p] \notin {"sidecars", "replaced"} BY <1>2, <1>3, <2>3
  <2> QED BY <2>1, <2>2, <2>3
<1>5. OpenHasRows
  <2> SUFFICES ASSUME NEW p \in Proc, pc[p] = "open", slip \subseteq {"unrecorded", "another"} PROVE owed \subseteq Rows
    BY DEF OpenHasRows
  <2>1. Clear /\ marker \in {0, file.id} /\ \A q \in Proc : pc[q] \notin {"sidecars", "replaced"} BY OpenIs DEF Clear
  <2>2. Salvageable = {} BY <1>1, <2>1, NothingInHand DEF Rotated
  <2> QED BY <1>2, <2>1, <2>2
<1>6. StrictNotEmptied
  <2> SUFFICES ASSUME NEW p \in Proc, pc[p] = "open", policy.strict, ruined, slip = {} PROVE ~Emptied
    BY DEF StrictNotEmptied
  <2>1. marker \in {0, file.id} /\ ~Refused BY OpenIs
  <2> QED BY <2>1 DEF RecoveryIInv, RuinedIsKnown, MarkerStands
<1> QED BY <1>4, <1>5, <1>6 DEF StoreRecovers, RecoveryIInv

(* The invariant of every open, recovery, migration, snapshot and restore. *)
THEOREM RecoveryInvariance == RecoverySpec => []RecoveryIInv
<1>1. RecoveryInit => RecoveryIInv BY RecoveryInitKeeps
<1>2. RecoveryIInv /\ [RecoveryNext]_recoveryVars => RecoveryIInv'
  BY RecoveryNextKeeps, RecoveryStutter
<1> QED BY <1>1, <1>2, PTL DEF RecoverySpec

(* StoreRecovers: committed rows that nothing destroyed are in the store at *)
(* the path, on their way between two moves, or in a backup the marker      *)
(* names; a store that opens has them all, is not a ruined one opened empty *)
(* under the strict policy, and was copied before it was migrated.          *)
THEOREM StoreIsRecovered == RecoverySpec => []StoreRecovers
<1>1. RecoveryIInv => StoreRecovers BY RecoveryIInvSays
<1> QED BY <1>1, RecoveryInvariance, PTL
=============================================================================
