---------------------------- MODULE StoreAccess ----------------------------
(***************************************************************************)
(* What the store protocol promises its users, with no locks in it: which  *)
(* holds on one store file may be live at the same time.  StoreLock, which *)
(* has the counts, the descriptor and the kernel's lock table of           *)
(* trw_memory/_store_lock.py, implements this specification.               *)
(***************************************************************************)
CONSTANTS
    Ctx,        \* execution contexts (threads, tasks) of all processes
    CtxProc,    \* the process each context runs in
    Hold,       \* holds
    HoldCtx,    \* the context that takes a hold
    HoldOp      \* the operation a hold is for

SharedOps == {"open", "serve"}

QuiescingOps == {"recover", "restore", "migrate"}

Excl(h) == HoldOp[h] \notin SharedOps

Quiesce(h) == HoldOp[h] \in QuiescingOps

Site(h) == CtxProc[HoldCtx[h]]

VARIABLES
    live,       \* the holds that have access now
    family      \* context -> the live holds it took or was copied with

avars == <<live, family>>

(***************************************************************************)
(* An exclusive hold shares the store with nothing of another process and  *)
(* with no other exclusive one; a quiescing one also finds no open         *)
(* connection in its own process.  A shared hold coexists with other       *)
(* processes' shared ones, and enters during its own process's quiescing   *)
(* hold only from a context that has part in it.                           *)
(***************************************************************************)
Compatible(h) ==
    \A g \in live :
        IF Excl(h)
        THEN /\ Site(g) = Site(h)
             /\ ~Excl(g)
             /\ ~(Quiesce(h) /\ HoldOp[g] = "open")
        ELSE Excl(g) => /\ Site(g) = Site(h)
                        /\ Quiesce(g) => g \in family[HoldCtx[h]]

AInit == live = {} /\ family = [c \in Ctx |-> {}]

Take(h) ==
    /\ h \notin live
    /\ Compatible(h)
    /\ live' = live \cup {h}
    /\ family' = IF HoldOp[h] = "serve" THEN family
                 ELSE [family EXCEPT ![HoldCtx[h]] = @ \cup {h}]

(* The holds in S end: one is released, or a whole process dies. *)
Drop(S) ==
    /\ live' = live \ S
    /\ family' = [c \in Ctx |-> family[c] \ S]

(* A context is copied: the copy has part in whatever the original has. *)
Share(c, d) ==
    /\ CtxProc[c] = CtxProc[d]
    /\ family' = [family EXCEPT ![d] = family[c]]
    /\ UNCHANGED live

ANext ==
    \/ \E h \in Hold : Take(h)
    \/ \E S \in SUBSET Hold : Drop(S)
    \/ \E c, d \in Ctx : Share(c, d)

ASpec == AInit /\ [][ANext]_avars
=============================================================================
