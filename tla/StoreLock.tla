----------------------------- MODULE StoreLock -----------------------------
(***************************************************************************)
(* The store lock of trw_memory/_store_lock.py, for one store file: every  *)
(* process has one descriptor on the permanent <db>.oplock, counts its     *)
(* holds in a registry guarded by _R, and converts one fcntl lock for all  *)
(* of them.  A critical section of _R (or of FD_LOCK) is one action; the   *)
(* steps a call takes between two of them are actions of their own, so     *)
(* that threads and processes interleave where the code lets them.         *)
(*                                                                         *)
(* A hold's life: idle -> pinned (counted in users, waiting for its op) -> *)
(* held -> sweeping (released, the sweep still to come) -> idle, or        *)
(* pinned -> failed (StoreBusyError, RuntimeError) -> unpinned -> idle.    *)
(* The hold of a connection is also released by the connection's GC        *)
(* finalizer, after an explicit close ("closed") or instead of one.        *)
(***************************************************************************)
EXTENDS Integers, FiniteSets

CONSTANTS
    Proc,       \* processes that use the store
    Ctx,        \* execution contexts; each runs one thread at a time
    CtxProc,    \* the process of a context
    Hold,       \* hold objects, each for one op of one context
    HoldCtx,    \* the context that takes a hold
    HoldOp      \* the op of a hold

StoreOp == {"open", "serve", "recover", "restore", "migrate",
            "import", "reembed", "snapshot"}

NoHold == "none"

ASSUME StoreLockAssumption ==
    /\ IsFiniteSet(Hold)
    /\ CtxProc \in [Ctx -> Proc]
    /\ HoldCtx \in [Hold -> Ctx]
    /\ HoldOp \in [Hold -> StoreOp]
    /\ NoHold \notin Hold

VARIABLES
    pc,         \* hold -> where its life is
    queue,      \* _QUEUE: holds whose finalizer ran (releases commute)
    owned,      \* _OWNED: context -> the unreleased holds it owns
    fdOpen,     \* process -> does it have the lock file in _FILES?
    users,      \* process -> holds taken or being taken
    shared,     \* process -> open and serve holds
    opens,      \* process -> open holds
    exclusive,  \* process -> its exclusive hold, or NoHold
    kernel,     \* process -> the kernel lock it believes it has
    klock,      \* process -> its lock in the kernel's table
    leased      \* process -> does a plain reader have the lock file open?

file == <<users, shared, opens, exclusive, kernel>>

vars == <<pc, queue, owned, fdOpen, users, shared, opens, exclusive, kernel,
          klock, leased>>

Shared == {"open", "serve"}

Quiescing == {"recover", "restore", "migrate"}

IsExcl(h) == HoldOp[h] \notin Shared

P(h) == CtxProc[HoldCtx[h]]

Init ==
    /\ pc = [h \in Hold |-> "idle"]
    /\ queue = {}
    /\ owned = [c \in Ctx |-> {}]
    /\ fdOpen = [p \in Proc |-> FALSE]
    /\ users = [p \in Proc |-> 0]
    /\ shared = [p \in Proc |-> 0]
    /\ opens = [p \in Proc |-> 0]
    /\ exclusive = [p \in Proc |-> NoHold]
    /\ kernel = [p \in Proc |-> "UN"]
    /\ klock = [p \in Proc |-> "UN"]
    /\ leased = [p \in Proc |-> FALSE]

-----------------------------------------------------------------------------
(* The kernel: F_SETLK over the whole file, without waiting.  A lock        *)
(* conflicts with another process's only.                                   *)
KernelGrants(p, kind) ==
    \A q \in Proc \ {p} :
        /\ kind = "WR" => klock[q] = "UN"
        /\ kind = "RD" => klock[q] # "WR"

-----------------------------------------------------------------------------
(***************************************************************************)
(* _pin: under FD_LOCK, sweep, find or admit the lock file, count a user.  *)
(* A descriptor that was idle is closed by the sweep and opened again.     *)
(* _admit waits while a reader leases the inode; another thread may admit  *)
(* the file meanwhile, and then it is known.                               *)
(***************************************************************************)
Pin(h) ==
    LET p == P(h) IN
    /\ pc[h] = "idle"
    /\ \A g \in Hold : HoldCtx[g] = HoldCtx[h] => pc[g] \notin {"pinned", "failed"}
    /\ users[p] = 0 => ~leased[p]
    /\ pc' = [pc EXCEPT ![h] = "pinned"]
    /\ fdOpen' = [fdOpen EXCEPT ![p] = TRUE]
    /\ users' = [users EXCEPT ![p] = @ + 1]
    /\ IF users[p] = 0
       THEN /\ shared' = [shared EXCEPT ![p] = 0]
            /\ opens' = [opens EXCEPT ![p] = 0]
            /\ exclusive' = [exclusive EXCEPT ![p] = NoHold]
            /\ kernel' = [kernel EXCEPT ![p] = "UN"]
            /\ klock' = [klock EXCEPT ![p] = "UN"]
       ELSE UNCHANGED <<shared, opens, exclusive, kernel, klock>>
    /\ UNCHANGED <<queue, owned, leased>>

(* Mutants: a quiescing op does not wait out the open connections; any      *)
(* shared hold enters during one.                                           *)
BlockedNotByOpens(h) ==
    LET ex == exclusive[P(h)] IN
    IF IsExcl(h) THEN ex # NoHold
    ELSE ex # NoHold /\ HoldOp[ex] \in Quiescing /\ owned[HoldCtx[h]] = {}

BlockedExclusiveOnly(h) ==
    /\ IsExcl(h)
    /\ \/ exclusive[P(h)] # NoHold
       \/ HoldOp[h] \in Quiescing /\ opens[P(h)] > 0

(* This process's own holds block h. *)
Blocked(h) ==
    LET ex == exclusive[P(h)] IN
    IF IsExcl(h)
    THEN \/ ex # NoHold
         \/ HoldOp[h] \in Quiescing /\ opens[P(h)] > 0
    ELSE /\ ex # NoHold
         /\ HoldOp[ex] \in Quiescing
         /\ owned[HoldCtx[h]] = {}

(* A shared hold rides on whatever kernel lock the process already has. *)
NeedsKernel(h) == IsExcl(h) \/ kernel[P(h)] = "UN"

Wanted(h) == IF IsExcl(h) THEN "WR" ELSE "RD"

(* _acquire_locked, the check before the loop: no nesting and no upgrade. *)
Refused(h) == IsExcl(h) /\ owned[HoldCtx[h]] # {}

CanTake(h) ==
    /\ ~Refused(h)
    /\ ~Blocked(h)
    /\ NeedsKernel(h) => KernelGrants(P(h), Wanted(h))

Acquire(h) ==
    LET p == P(h) IN
    /\ pc[h] = "pinned"
    /\ CanTake(h)
    /\ pc' = [pc EXCEPT ![h] = "held"]
    /\ IF NeedsKernel(h)
       THEN /\ kernel' = [kernel EXCEPT ![p] = Wanted(h)]
            /\ klock' = [klock EXCEPT ![p] = Wanted(h)]
       ELSE UNCHANGED <<kernel, klock>>
    /\ IF IsExcl(h)
       THEN /\ exclusive' = [exclusive EXCEPT ![p] = h]
            /\ UNCHANGED <<shared, opens>>
       ELSE /\ shared' = [shared EXCEPT ![p] = @ + 1]
            /\ opens' = IF HoldOp[h] = "open" THEN [opens EXCEPT ![p] = @ + 1] ELSE opens
            /\ UNCHANGED exclusive
    /\ owned' = IF HoldOp[h] = "serve" THEN owned
                ELSE [owned EXCEPT ![HoldCtx[h]] = @ \cup {h}]
    /\ UNCHANGED <<queue, fdOpen, users, leased>>

(* Mutant: a blocked op has no deadline. *)
FailRefusedOnly(h) ==
    /\ pc[h] = "pinned"
    /\ Refused(h)
    /\ pc' = [pc EXCEPT ![h] = "failed"]
    /\ UNCHANGED <<queue, owned, fdOpen, file, klock, leased>>

(* RuntimeError at once, or StoreBusyError when an attempt fails and the    *)
(* op's wait (WAITS; none for an unlisted op) has run out.                  *)
Fail(h) ==
    /\ pc[h] = "pinned"
    /\ ~CanTake(h)
    /\ pc' = [pc EXCEPT ![h] = "failed"]
    /\ UNCHANGED <<queue, owned, fdOpen, file, klock, leased>>

(* _unpin's first half; its sweep is FinishRelease. *)
Unpin(h) ==
    /\ pc[h] = "failed"
    /\ pc' = [pc EXCEPT ![h] = "unpinned"]
    /\ users' = [users EXCEPT ![P(h)] = @ - 1]
    /\ UNCHANGED <<queue, owned, fdOpen, shared, opens, exclusive, kernel, klock, leased>>

(***************************************************************************)
(* _release_locked of a hold that is not released yet: the counts, then    *)
(* the kernel lock is set to what the remaining holds need.                *)
(***************************************************************************)
TargetUnlocks(p, ex, sh) == IF ex # NoHold THEN "WR" ELSE "UN" \* mutant: forgets shared holds

Target(p, ex, sh) == IF ex # NoHold THEN "WR" ELSE IF sh > 0 THEN "RD" ELSE "UN"

ReleaseLocked(h) ==
    LET p == P(h)
        wasEx == exclusive[p] = h
        ex == IF wasEx THEN NoHold ELSE exclusive[p]
        sh == IF wasEx THEN shared[p] ELSE shared[p] - 1
        t == Target(p, ex, sh)
        converts == t # kernel[p] /\ KernelGrants(p, t)
    IN  /\ exclusive' = [exclusive EXCEPT ![p] = ex]
        /\ shared' = [shared EXCEPT ![p] = sh]
        /\ opens' = IF ~wasEx /\ HoldOp[h] = "open" THEN [opens EXCEPT ![p] = @ - 1] ELSE opens
        /\ users' = [users EXCEPT ![p] = @ - 1]
        /\ IF converts
           THEN /\ kernel' = [kernel EXCEPT ![p] = t]
                /\ klock' = [klock EXCEPT ![p] = t]
           ELSE UNCHANGED <<kernel, klock>>
        /\ owned' = [c \in Ctx |-> owned[c] \ {h}]

(* release(): any thread of the process may close the connection. *)
Release(h) ==
    /\ pc[h] = "held"
    /\ h \notin queue
    /\ pc' = [pc EXCEPT ![h] = "sweeping"]
    /\ ReleaseLocked(h)
    /\ UNCHANGED <<queue, fdOpen, leased>>

(* Mutant: the sweep closes a descriptor that holds still use. *)
SweepAlways(p) ==
    /\ fdOpen' = [fdOpen EXCEPT ![p] = FALSE]
    /\ klock' = [klock EXCEPT ![p] = "UN"]
    /\ kernel' = [kernel EXCEPT ![p] = "UN"]

(***************************************************************************)
(* _sweep under FD_LOCK: close the descriptor if no hold uses it.  The     *)
(* close drops every lock the process has on the file.                     *)
(***************************************************************************)
Sweep(p) ==
    LET idle == fdOpen[p] /\ users[p] = 0 IN
    /\ fdOpen' = [fdOpen EXCEPT ![p] = @ /\ ~idle]
    /\ klock' = IF idle THEN [klock EXCEPT ![p] = "UN"] ELSE klock
    /\ kernel' = IF idle THEN [kernel EXCEPT ![p] = "UN"] ELSE kernel

(* The sweep that ends a release or a failed acquire.  A connection's hold  *)
(* then waits for the connection object to be collected.                    *)
FinishRelease(h) ==
    /\ pc[h] \in {"sweeping", "unpinned"}
    /\ \/ pc' = [pc EXCEPT ![h] = "idle"]
       \/ /\ pc[h] = "sweeping" /\ HoldOp[h] = "open"
          /\ pc' = [pc EXCEPT ![h] = "closed"]
    /\ Sweep(P(h))
    /\ UNCHANGED <<queue, owned, users, shared, opens, exclusive, leased>>

(***************************************************************************)
(* release_soon: a connection's finalizer queues the hold, whether or not  *)
(* close() released it.  Whoever leaves _R, wakes from a wait in it or     *)
(* runs the finalizer with _R free drains the queue.                       *)
(***************************************************************************)
ReleaseSoon(h) ==
    /\ HoldOp[h] = "open"
    /\ pc[h] \in {"held", "closed"}
    /\ h \notin queue
    /\ queue' = queue \cup {h}
    /\ UNCHANGED <<pc, owned, fdOpen, file, klock, leased>>

(* _drain: the release of a queued hold, a no-op when it was released. *)
Drain(h) ==
    /\ h \in queue
    /\ queue' = queue \ {h}
    /\ pc' = [pc EXCEPT ![h] = "idle"]
    /\ IF pc[h] = "held" THEN ReleaseLocked(h)
       ELSE UNCHANGED <<owned, file, klock>>
    /\ UNCHANGED <<fdOpen, leased>>

-----------------------------------------------------------------------------
(* A task or thread started with a copy of its parent's context. *)
CopyContext(c, d) ==
    /\ c # d
    /\ CtxProc[c] = CtxProc[d]
    /\ owned[d] = {}
    /\ \A g \in Hold : HoldCtx[g] = d => pc[g] \in {"idle", "closed"}
    /\ owned[c] # {}
    /\ owned' = [owned EXCEPT ![d] = owned[c]]
    /\ UNCHANGED <<pc, queue, fdOpen, file, klock, leased>>

(* _live_stores: a reader descriptor on the lock file is leased only while  *)
(* the file is not live (else it is parked), and closing it drops locks.    *)
LeaseReader(p) ==
    /\ ~leased[p] /\ ~fdOpen[p]
    /\ leased' = [leased EXCEPT ![p] = TRUE]
    /\ UNCHANGED <<pc, queue, owned, fdOpen, file, klock>>

CloseReader(p) ==
    /\ leased[p]
    /\ leased' = [leased EXCEPT ![p] = FALSE]
    /\ klock' = [klock EXCEPT ![p] = "UN"]
    /\ UNCHANGED <<pc, queue, owned, fdOpen, file>>

(* The process dies and is started again; the kernel drops its lock. *)
Crash(p) ==
    /\ \E h \in Hold : P(h) = p /\ pc[h] # "idle"
    /\ pc' = [h \in Hold |-> IF P(h) = p THEN "idle" ELSE pc[h]]
    /\ queue' = {h \in queue : P(h) # p}
    /\ owned' = [c \in Ctx |-> IF CtxProc[c] = p THEN {} ELSE owned[c]]
    /\ fdOpen' = [fdOpen EXCEPT ![p] = FALSE]
    /\ users' = [users EXCEPT ![p] = 0]
    /\ shared' = [shared EXCEPT ![p] = 0]
    /\ opens' = [opens EXCEPT ![p] = 0]
    /\ exclusive' = [exclusive EXCEPT ![p] = NoHold]
    /\ kernel' = [kernel EXCEPT ![p] = "UN"]
    /\ klock' = [klock EXCEPT ![p] = "UN"]
    /\ leased' = [leased EXCEPT ![p] = FALSE]

Attempt(h) == Acquire(h) \/ Fail(h)

Next ==
    \/ \E h \in Hold :
          \/ Pin(h) \/ Attempt(h) \/ Unpin(h) \/ Release(h)
          \/ FinishRelease(h) \/ ReleaseSoon(h) \/ Drain(h)
    \/ \E c, d \in Ctx : CopyContext(c, d)
    \/ \E p \in Proc : LeaseReader(p) \/ CloseReader(p) \/ Crash(p)

Spec == Init /\ [][Next]_vars

(* A thread inside a call runs on: its next attempt comes (every _POLL      *)
(* seconds at most), and the finally clauses run.  A queued release is      *)
(* drained by the thread that has _R or by the finalizer itself.  Nobody    *)
(* is obliged to release a hold it uses, to take one, or to read.           *)
FairSpec ==
    /\ Spec
    /\ \A h \in Hold :
          /\ WF_vars(Attempt(h))
          /\ WF_vars(Unpin(h))
          /\ WF_vars(FinishRelease(h))
          /\ WF_vars(Drain(h))

-----------------------------------------------------------------------------
(* Properties *)

Live == {h \in Hold : pc[h] = "held"}

Lock == {"UN", "RD", "WR"}

(* The variables have their types; the registry's counts never go negative  *)
(* (_File's fields).                                                        *)
TypeOK ==
    /\ pc \in [Hold -> {"idle", "pinned", "failed", "held", "sweeping",
                   "unpinned", "closed"}]
    /\ queue \subseteq Hold
    /\ owned \in [Ctx -> SUBSET Hold]
    /\ fdOpen \in [Proc -> BOOLEAN]
    /\ users \in [Proc -> Nat]
    /\ shared \in [Proc -> Nat]
    /\ opens \in [Proc -> Nat]
    /\ exclusive \in [Proc -> Hold \cup {NoHold}]
    /\ kernel \in [Proc -> Lock]
    /\ klock \in [Proc -> Lock]
    /\ leased \in [Proc -> BOOLEAN]

(* An operation that destroys or replaces the store has it to itself: no    *)
(* hold of another process is live beside it, and no second exclusive one   *)
(* anywhere, whatever crashes, finalizers and re-counted holds happened     *)
(* before (the module docstring's "no other process's hold can coexist").   *)
ExclusiveAlone ==
    \A h, g \in Live : IsExcl(h) /\ g # h => P(g) = P(h) /\ ~IsExcl(g)

(* While a quiescing op replaces the store, the only connections open in    *)
(* its own process belong to contexts that have part in the op.             *)
QuiescingAlone ==
    \A h, g \in Live :
        (HoldOp[h] \in Quiescing /\ HoldOp[g] = "open" /\ P(g) = P(h))
            => h \in owned[HoldCtx[g]]

(* The kernel's table backs the registry: a live hold always has its lock   *)
(* in the kernel (no descriptor close stripped it), and a process with no   *)
(* hold blocks nobody.                                                      *)
KernelBacksHolds ==
    \A p \in Proc :
        LET mine == {h \in Live : P(h) = p} IN
        klock[p] = IF \E h \in mine : IsExcl(h) THEN "WR"
                   ELSE IF mine # {} THEN "RD" ELSE "UN"

(* "A downgrade or an unlock never conflicts" (_release_locked): the        *)
(* conversion a release asks for is always granted, so what the registry    *)
(* believes about the kernel lock is what the kernel has.                   *)
BeliefIsTruth == kernel = klock

-----------------------------------------------------------------------------
(* The inductive invariant behind the safety properties. *)

Using(p) == {h \in Hold : P(h) = p /\ pc[h] \in {"pinned", "failed", "held"}}

Sharing(p) == {h \in Hold : P(h) = p /\ pc[h] = "held" /\ ~IsExcl(h)}

Opening(p) == {h \in Hold : P(h) = p /\ pc[h] = "held" /\ HoldOp[h] = "open"}

(* Every count of a _File is the number of holds it stands for. *)
CountsRight ==
    \A p \in Proc :
        /\ users[p] = Cardinality(Using(p))
        /\ shared[p] = Cardinality(Sharing(p))
        /\ opens[p] = Cardinality(Opening(p))

(* A process's exclusive field is its one live exclusive hold. *)
ExclusiveRight ==
    \A p \in Proc, h \in Hold :
        exclusive[p] = h <=> P(h) = p /\ pc[h] = "held" /\ IsExcl(h)

(* The descriptor is open while a hold uses it, and then no reader can       *)
(* close another descriptor on the file.                                     *)
DescriptorKept ==
    \A p \in Proc :
        /\ Using(p) # {} => fdOpen[p]
        /\ fdOpen[p] => ~leased[p]

(* The kernel granted no two conflicting locks. *)
KernelTable == \A p, q \in Proc : klock[p] = "WR" /\ q # p => klock[q] = "UN"

(* Only an unreleased hold, or a closed connection's, is queued. *)
QueueSound == \A h \in queue : pc[h] \in {"held", "closed"}

(* A context owns live holds of its process, those it took among them, and   *)
(* during a quiescing op nothing but with the op itself.                     *)
OwnedSound ==
    /\ \A c \in Ctx : \A h \in owned[c] :
          pc[h] = "held" /\ P(h) = CtxProc[c] /\ HoldOp[h] # "serve"
    /\ \A h \in Live : HoldOp[h] # "serve" => h \in owned[HoldCtx[h]]
    /\ \A h \in Live, c \in Ctx :
          (HoldOp[h] \in Quiescing /\ CtxProc[c] = P(h) /\ owned[c] # {})
              => h \in owned[c]

IInv ==
    /\ TypeOK
    /\ CountsRight
    /\ ExclusiveRight
    /\ DescriptorKept
    /\ KernelTable
    /\ KernelBacksHolds
    /\ BeliefIsTruth
    /\ QueueSound
    /\ OwnedSound

-----------------------------------------------------------------------------
(* Every acquire ends: it gets the op, or it fails and its pin is undone. *)
AcquireEnds == \A h \in Hold : pc[h] = "pinned" ~> pc[h] \in {"held", "idle", "closed"}

(* The store lock implements the access rules of StoreAccess. *)
Access == INSTANCE StoreAccess WITH live <- Live, family <- owned

AccessSpec == Access!ASpec
=============================================================================
