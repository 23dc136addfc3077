----------------------------- MODULE DaemonLane -----------------------------
(***************************************************************************)
(* trw_memory/daemon/_lane.py on the one-thread executor of                *)
(* daemon/_offload.py, with the shutdown sequence of daemon/_serve.py: the *)
(* daemon's exclusive write lane.  A section under the lane's lock is one  *)
(* action; the dispatch a submit or a release makes after it is a call of  *)
(* its own, outstanding until it gets the lock.  Time is what the ranking  *)
(* sees of it: the order in which tenants were last served, and whether a  *)
(* background job has waited AGING_SECONDS.                                *)
(***************************************************************************)
EXTENDS Integers, Sequences, FiniteSets, SequencesExt

CONSTANTS
    Job,            \* jobs; one that has ended may be submitted again
    Tenants,        \* the jobs of each tenant
    Background,     \* jobs of a background budget
    SERVED_MAX,
    MAX_CALLS       \* bound on dispatch calls outstanding at once

None == "none"

TenantOf(j) == CHOOSE t \in Tenants : j \in t

ASSUME DaemonLaneAssumption ==
    /\ IsFiniteSet(Job) /\ None \notin Job
    /\ Background \subseteq Job /\ \A j \in Job : \E t \in Tenants : j \in t
    /\ SERVED_MAX \in Nat \ {0} /\ MAX_CALLS \in Nat \ {0}

VARIABLES
    future,     \* job -> none, pending, running, done, cancelled
    queue,      \* the jobs in _queue
    older,      \* pairs of queued jobs, the first of the lower seq
    aged,       \* background jobs queued for AGING_SECONDS
    served,     \* tenants of _served, the least recently started first
    running,    \* the job in _running, or None
    stage,      \* how far it is: picked, looked, handed, started, ended
    calls,      \* _dispatch calls that have not taken the lock yet
    pool,       \* the lane's executor: open, shut
    closed,     \* _offload._closed
    refusing,   \* _lane._shutdown
    phase       \* how far the daemon's shutdown is

laneVars == <<future, queue, older, aged, served, running, stage, calls, pool, closed, refusing, phase>>

shutdown == <<pool, closed, refusing, phase>>

LaneInit ==
    /\ future = [j \in Job |-> "none"]
    /\ queue = {} /\ older = {} /\ aged = {} /\ served = <<>>
    /\ running = None /\ stage = None /\ calls = 0
    /\ pool = "open" /\ closed = FALSE /\ refusing = FALSE /\ phase = "serving"

(* _queue with the jobs of S only, in the order they came in. *)
Keep(S) == queue' = S /\ older' = older \cap (S \X S)

-----------------------------------------------------------------------------
(* Callers *)

Idle(j) == future[j] \in {"none", "done", "cancelled"} /\ j \notin queue /\ running # j

Submit(j) ==
    /\ Idle(j) /\ ~refusing /\ calls < MAX_CALLS
    /\ future' = [future EXCEPT ![j] = "pending"]
    /\ queue' = queue \cup {j} /\ older' = older \cup (queue \X {j}) /\ aged' = aged \ {j}
    /\ calls' = calls + 1
    /\ UNCHANGED <<served, running, stage, shutdown>>

SubmitRefused(j) ==
    /\ Idle(j) /\ refusing
    /\ future' = [future EXCEPT ![j] = "cancelled"]
    /\ UNCHANGED <<queue, older, aged, served, running, stage, calls, shutdown>>

(* A caller gives up: its future is cancelled while the job has not started, *)
(* and the job stays where it is.                                            *)
Cancel(j) ==
    /\ future[j] = "pending"
    /\ future' = [future EXCEPT ![j] = "cancelled"]
    /\ UNCHANGED <<queue, older, aged, served, running, stage, calls, shutdown>>

Age(j) ==
    /\ j \in (Background \ aged) \cap queue
    /\ aged' = aged \cup {j}
    /\ UNCHANGED <<future, queue, older, served, running, stage, calls, shutdown>>

-----------------------------------------------------------------------------
(* The schedule *)

LastServed(t) == IF t \in Range(served) THEN CHOOSE i \in 1..Len(served) : served[i] = t ELSE 0

(* Mutant: background work always waits. *)
OutranksUnaged(j, k) ==
    LET rank(n) == <<IF n \in Background THEN 1 ELSE 0, LastServed(TenantOf(n))>>
        a == rank(j) b == rank(k) IN
    \/ a[1] < b[1]
    \/ a[1] = b[1] /\ a[2] < b[2]
    \/ a = b /\ <<j, k>> \in older

(* _rank: interactive and aged jobs first, then the tenant served least     *)
(* recently, then the older job.                                            *)
Outranks(j, k) ==
    LET rank(n) == <<IF n \in Background \ aged THEN 1 ELSE 0, LastServed(TenantOf(n))>>
        a == rank(j) b == rank(k) IN
    \/ a[1] < b[1]
    \/ a[1] = b[1] /\ a[2] < b[2]
    \/ a = b /\ <<j, k>> \in older

ServedNow(t) ==
    LET kept == IF Len(served) >= SERVED_MAX THEN <<>> ELSE served
        other(u) == u # t IN
    Append(SelectSeq(kept, other), t)

(* _dispatch under the lock: cancelled jobs leave the queue, and the best   *)
(* of the others gets the lane if it is free.                               *)
Dispatch ==
    LET live == {j \in queue : future[j] # "cancelled"} IN
    /\ calls > 0 /\ calls' = calls - 1
    /\ IF running # None \/ live = {}
       THEN Keep(live) /\ UNCHANGED <<running, stage, served>>
       ELSE \E j \in live :
            /\ \A k \in live \ {j} : Outranks(j, k)
            /\ Keep(live \ {j})
            /\ running' = j /\ stage' = "picked"
            /\ served' = ServedNow(TenantOf(j))
    /\ UNCHANGED <<future, aged, shutdown>>

(* _release, and the dispatch that follows it. *)
Released == running' = None /\ stage' = None /\ calls' = calls + 1

(* _drop: the job never runs. *)
Drop == Released /\ future' = [future EXCEPT ![running] = IF @ = "pending" THEN "cancelled" ELSE @]

(* Mutant: a closed pool is made anew. *)
LookUpAnew ==
    /\ stage = "picked"
    /\ stage' = "looked" /\ pool' = "open"
    /\ UNCHANGED <<future, queue, older, aged, served, running, calls, closed, refusing, phase>>

(* _executor(1): refused once the offload pool is closed. *)
LookUp ==
    /\ stage = "picked"
    /\ \/ ~closed /\ stage' = "looked" /\ UNCHANGED <<future, running, calls>>
       \/ closed /\ Drop
    /\ UNCHANGED <<queue, older, aged, served, shutdown>>

(* submit(_run): refused when the executor was shut down since the lookup. *)
Hand ==
    /\ stage = "looked"
    /\ \/ pool = "open" /\ stage' = "handed" /\ UNCHANGED <<future, running, calls>>
       \/ pool = "shut" /\ Drop
    /\ UNCHANGED <<queue, older, aged, served, shutdown>>

(* _run on the lane's thread, unless the caller cancelled meanwhile. *)
Start ==
    /\ stage = "handed"
    /\ \/ /\ future[running] = "pending"
          /\ future' = [future EXCEPT ![running] = "running"] /\ stage' = "started"
       \/ /\ future[running] = "cancelled"
          /\ stage' = "ended" /\ UNCHANGED future
    /\ UNCHANGED <<queue, older, aged, served, running, calls, shutdown>>

(* The body returns or raises; its caller is answered before the release. *)
FinishBody ==
    /\ stage = "started"
    /\ future' = [future EXCEPT ![running] = "done"] /\ stage' = "ended"
    /\ UNCHANGED <<queue, older, aged, served, running, calls, shutdown>>

ReleaseLane ==
    /\ stage = "ended" /\ Released
    /\ UNCHANGED <<future, queue, older, aged, served, shutdown>>

-----------------------------------------------------------------------------
(* Shutdown, in the order of _serve.py *)

RefuseOffload ==
    /\ phase = "serving" /\ phase' = "closing"
    /\ closed' = TRUE
    /\ UNCHANGED <<future, queue, older, aged, served, running, stage, calls, pool, refusing>>

CancelQueued ==
    /\ phase = "closing" /\ phase' = "emptied"
    /\ Keep({}) /\ served' = <<>>
    /\ future' = [j \in Job |-> IF j \in queue /\ future[j] = "pending" THEN "cancelled" ELSE future[j]]
    /\ UNCHANGED <<aged, running, stage, calls, pool, closed, refusing>>

(* Mutant: whatever is in _running is dropped. *)
ShutPoolDropsAll ==
    /\ phase = "emptied" /\ phase' = "draining"
    /\ pool' = "shut"
    /\ IF running # None THEN Drop ELSE UNCHANGED <<future, running, stage, calls>>
    /\ UNCHANGED <<queue, older, aged, served, closed, refusing>>

(* executor.shutdown(cancel_futures=True): a job handed over and not yet    *)
(* taken by the thread is cancelled, and its callback drops it.             *)
ShutPool ==
    /\ phase = "emptied" /\ phase' = "draining"
    /\ pool' = "shut"
    /\ IF stage = "handed" THEN Drop ELSE UNCHANGED <<future, running, stage, calls>>
    /\ UNCHANGED <<queue, older, aged, served, closed, refusing>>

(* The bounded wait ends, with the thread or with the grace period; then    *)
(* the lane refuses, and the store lock and the record are given up.        *)
RefuseLane ==
    /\ phase = "draining" /\ phase' = "refused"
    /\ refusing' = TRUE
    /\ UNCHANGED <<future, queue, older, aged, served, running, stage, calls, pool, closed>>

Withdraw ==
    /\ phase = "refused" /\ phase' = "withdrawn"
    /\ UNCHANGED <<future, queue, older, aged, served, running, stage, calls, pool, closed, refusing>>

-----------------------------------------------------------------------------
LaneStep == Dispatch \/ LookUp \/ Hand \/ Start \/ FinishBody \/ ReleaseLane

ShutdownStep == RefuseOffload \/ CancelQueued \/ ShutPool \/ RefuseLane \/ Withdraw

LaneNext ==
    \/ \E j \in Job : Submit(j) \/ SubmitRefused(j) \/ Cancel(j) \/ Age(j)
    \/ LaneStep \/ ShutdownStep

LaneSpec == LaneInit /\ [][LaneNext]_laneVars

(* Threads are scheduled, a body ends (its statements are interrupted at    *)
(* their deadline), and time passes.  Nothing makes callers submit or       *)
(* cancel, or the daemon shut down.                                         *)
LaneFairSpec ==
    /\ LaneSpec
    /\ WF_laneVars(Dispatch) /\ WF_laneVars(LookUp \/ Hand \/ Start \/ FinishBody \/ ReleaseLane)
    /\ \A j \in Job : WF_laneVars(Age(j))

-----------------------------------------------------------------------------
(* Properties *)

LaneTypeOK ==
    /\ future \in [Job -> {"none", "pending", "running", "done", "cancelled"}]
    /\ queue \subseteq Job /\ older \subseteq queue \X queue /\ aged \subseteq Background
    /\ Len(served) <= SERVED_MAX
    /\ running \in Job \cup {None}
    /\ stage \in {None, "picked", "looked", "handed", "started", "ended"}
    /\ (running = None) = (stage = None)
    /\ calls \in Nat /\ pool \in {"open", "shut"}
    /\ closed \in BOOLEAN /\ refusing \in BOOLEAN
    /\ phase \in {"serving", "closing", "emptied", "draining", "refused", "withdrawn"}

(* No wakeup is lost between a submit, a release and the dispatches they    *)
(* make outside the lock: while a job waits on a free lane some dispatch is *)
(* on its way.                                                              *)
NoLostDispatch == running = None /\ (\E j \in queue : future[j] = "pending") => calls > 0

(* The lane is not free while a body runs: not after a drop, a cancelled    *)
(* caller or the shutdown of the pool.                                      *)
LaneHeld == \A j \in Job : future[j] = "running" => running = j /\ stage = "started"

(* Both: the lane is neither free under a body nor idle with a job waiting. *)
LaneKept == NoLostDispatch /\ LaneHeld

Started(j) == future[j] # "running" /\ future'[j] = "running"

(* Once the pool is drained nothing starts: a body still running then may   *)
(* submit, and what it submits is not run on a pool made anew.              *)
NoStartWithdrawn ==
    [][(phase \in {"draining", "refused", "withdrawn"}) => \A j \in Job : ~Started(j)]_laneVars

-----------------------------------------------------------------------------
(* The inductive invariant: once the shutdown drains, the executor is shut  *)
(* and no job is left in its hands.                                         *)

DrainedIsShut == phase \in {"draining", "refused", "withdrawn"} => pool = "shut" /\ stage # "handed"

LaneIInv ==
    /\ future \in [Job -> {"none", "pending", "running", "done", "cancelled"}] /\ calls \in Nat
    /\ queue \subseteq Job /\ LaneKept /\ DrainedIsShut

-----------------------------------------------------------------------------
(* Nobody starves: whatever the other tenants submit, and whenever the      *)
(* daemon goes down, a submitted job is started or cancelled.               *)
EverySubmitEnds == \A j \in Job : future[j] = "pending" ~> future[j] # "pending"
=============================================================================
