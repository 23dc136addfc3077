----------------------------- MODULE GraphPool -----------------------------
(***************************************************************************)
(* trw_memory/_graph_worker_pool.py and _graph_threads.py: background      *)
(* graph jobs run on one worker thread per store.  A submit finds or       *)
(* creates the store's worker under the pool lock; an idle worker retires, *)
(* or is retired when the pool is full; a client that closes drains its    *)
(* jobs for a bounded time and then abandons the ones not started.  A      *)
(* section under the pool lock is one action.                              *)
(***************************************************************************)
EXTENDS Integers, Sequences, FiniteSets, SequencesExt

CONSTANTS
    Key,        \* stores
    Worker,     \* worker objects
    Job,        \* jobs, each submitted at most once
    JobKey,     \* job -> its store
    Owner,      \* backends that submit jobs
    JobOwner,   \* job -> its owner
    MAX_COUNT   \* _GRAPH_WORKER_MAX_COUNT, a soft cap

STOP == "stop"

None == "none"

ASSUME GraphPoolAssumption ==
    /\ JobKey \in [Job -> Key] /\ JobOwner \in [Job -> Owner]
    /\ IsFiniteSet(Job) /\ IsFiniteSet(Worker)
    /\ STOP \notin Job /\ None \notin Job \cup Worker \cup Key
    /\ MAX_COUNT \in Nat \ {0}

VARIABLES
    workers,    \* _workers: store -> its registered worker, or None
    wkey,       \* worker -> its store (None: not created)
    wpc,        \* worker -> none, idle, polling, taken, running, ran, exiting, draining
    cur,        \* worker -> the job in its hands
    queue,      \* worker -> jobs and stops
    pending,    \* worker -> accepted jobs not yet finished
    ownerPending, ownerRunning,     \* owner -> counts
    abandoned,  \* _abandoned_owners
    job,        \* job -> new, refused, queued, running, ran, skipped, dropped
    tracked,    \* GRAPH_THREADS: jobs whose handle is not finished
    client,     \* owner -> open, draining, closed
    stopping    \* stop_all ran (interpreter exit)

vars == <<workers, wkey, wpc, cur, queue, pending, ownerPending, ownerRunning,
          abandoned, job, tracked, client, stopping>>

counts == <<ownerPending, ownerRunning, abandoned>>

Init ==
    /\ workers = [k \in Key |-> None]
    /\ wkey = [w \in Worker |-> None]
    /\ wpc = [w \in Worker |-> "none"]
    /\ cur = [w \in Worker |-> None]
    /\ queue = [w \in Worker |-> <<>>]
    /\ pending = [w \in Worker |-> 0]
    /\ ownerPending = [o \in Owner |-> 0]
    /\ ownerRunning = [o \in Owner |-> 0]
    /\ abandoned = {}
    /\ job = [j \in Job |-> "new"]
    /\ tracked = {}
    /\ client = [o \in Owner |-> "open"]
    /\ stopping = FALSE

-----------------------------------------------------------------------------
Registered == {k \in Key : workers[k] # None}

(* Workers _create may retire: registered, with nothing pending.  The code  *)
(* takes the least recently active one; here any.                           *)
IdleAny == Registered \* mutant: a busy worker may be retired

Idle == {k \in Registered : pending[workers[k]] = 0}

(* submit: under the pool lock, find or create the worker and enqueue.      *)
(* _create retires an idle worker when the pool is full.                    *)
Enqueue(j, w, retired) ==
    /\ queue' = [v \in Worker |->
                    LET stopped == IF v = retired THEN Append(queue[v], STOP) ELSE queue[v]
                    IN  IF v = w THEN Append(stopped, j) ELSE stopped]
    /\ pending' = [pending EXCEPT ![w] = @ + 1]
    /\ ownerPending' = [ownerPending EXCEPT ![JobOwner[j]] = @ + 1]
    /\ job' = [job EXCEPT ![j] = "queued"]
    /\ tracked' = tracked \cup {j}
    /\ UNCHANGED <<cur, ownerRunning, abandoned, client, stopping>>

Submit(j) ==
    /\ job[j] = "new" /\ client[JobOwner[j]] = "open" /\ ~stopping
    /\ workers[JobKey[j]] # None
    /\ Enqueue(j, workers[JobKey[j]], None)
    /\ UNCHANGED <<workers, wkey, wpc>>

SubmitCreating(j) ==
    LET k == JobKey[j]
        full == Cardinality(Registered) >= MAX_COUNT IN
    /\ job[j] = "new" /\ client[JobOwner[j]] = "open" /\ ~stopping
    /\ workers[k] = None
    /\ \E w \in Worker :
        /\ wpc[w] = "none"
        /\ \E r \in IF full /\ Idle # {} THEN Idle ELSE {None} :
            /\ workers' = [x \in Key |-> IF x = k THEN w ELSE IF x = r THEN None ELSE workers[x]]
            /\ Enqueue(j, w, IF r = None THEN None ELSE workers[r])
        /\ wkey' = [wkey EXCEPT ![w] = k]
        /\ wpc' = [wpc EXCEPT ![w] = "idle"]

(* The thread cannot be started: nothing is queued, but an idle worker may  *)
(* have been retired for it already.                                        *)
SubmitRefused(j) ==
    LET full == Cardinality(Registered) >= MAX_COUNT IN
    /\ job[j] = "new" /\ client[JobOwner[j]] = "open" /\ ~stopping
    /\ workers[JobKey[j]] = None
    /\ \E r \in IF full /\ Idle # {} THEN Idle ELSE {None} :
        /\ workers' = [x \in Key |-> IF x = r THEN None ELSE workers[x]]
        /\ queue' = [v \in Worker |-> IF r # None /\ v = workers[r] THEN Append(queue[v], STOP)
                                     ELSE queue[v]]
    /\ job' = [job EXCEPT ![j] = "refused"]
    /\ UNCHANGED <<wkey, wpc, cur, pending, counts, tracked, client, stopping>>

-----------------------------------------------------------------------------
(* The worker's loop *)

(* queue.get returns a job, or the stop that ends the loop. *)
Take(w) ==
    /\ wpc[w] = "idle" /\ queue[w] # <<>>
    /\ queue' = [queue EXCEPT ![w] = Tail(@)]
    /\ IF Head(queue[w]) = STOP
       THEN wpc' = [wpc EXCEPT ![w] = "exiting"] /\ UNCHANGED cur
       ELSE wpc' = [wpc EXCEPT ![w] = "taken"] /\ cur' = [cur EXCEPT ![w] = Head(queue[w])]
    /\ UNCHANGED <<workers, wkey, pending, counts, job, tracked, client, stopping>>

(* queue.get times out; the worker goes on to retire_if_idle. *)
Poll(w) ==
    /\ wpc[w] = "idle" /\ queue[w] = <<>>
    /\ wpc' = [wpc EXCEPT ![w] = "polling"]
    /\ UNCHANGED <<workers, wkey, cur, queue, pending, counts, job, tracked, client, stopping>>

(* retire_if_idle: still registered, nothing pending, idle long enough. *)
RetireIfIdle(w) ==
    /\ wpc[w] = "polling"
    /\ UNCHANGED <<wkey, cur, queue, pending, counts, job, tracked, client, stopping>>
    /\ \/ /\ workers[wkey[w]] = w /\ pending[w] = 0
          /\ workers' = [workers EXCEPT ![wkey[w]] = None]
          /\ wpc' = [wpc EXCEPT ![w] = "exiting"]
       \/ /\ wpc' = [wpc EXCEPT ![w] = "idle"]
          /\ UNCHANGED workers

(* Mutant: the abandon mark is not looked at. *)
StartAlways(w) ==
    LET j == cur[w] IN
    /\ wpc[w] = "taken"
    /\ job' = [job EXCEPT ![j] = "running"]
    /\ ownerRunning' = [ownerRunning EXCEPT ![JobOwner[j]] = @ + 1]
    /\ wpc' = [wpc EXCEPT ![w] = "running"]
    /\ UNCHANGED <<workers, wkey, cur, queue, pending, ownerPending, abandoned, tracked, client, stopping>>

(* start_unless_abandoned: the mark check and the start are one section. *)
Start(w) ==
    LET j == cur[w]
        o == JobOwner[j] IN
    /\ wpc[w] = "taken"
    /\ IF o \in abandoned
       THEN /\ job' = [job EXCEPT ![j] = "skipped"]
            /\ UNCHANGED ownerRunning
       ELSE /\ job' = [job EXCEPT ![j] = "running"]
            /\ ownerRunning' = [ownerRunning EXCEPT ![o] = @ + 1]
    /\ wpc' = [wpc EXCEPT ![w] = "running"]
    /\ UNCHANGED <<workers, wkey, cur, queue, pending, ownerPending, abandoned, tracked, client, stopping>>

(* _owner_done_locked: one job less for o, of which running are left. *)
OwnerDone(o, running) ==
    LET remaining == ownerPending[o] - 1 IN
    IF remaining <= 0 /\ running = 0
    THEN /\ ownerPending' = [ownerPending EXCEPT ![o] = 0]
         /\ abandoned' = abandoned \ {o}
    ELSE /\ ownerPending' = [ownerPending EXCEPT ![o] = remaining]
         /\ UNCHANGED abandoned

(* job_finished, after the job ran or was skipped. *)
JobFinished(w) ==
    LET j == cur[w]
        o == JobOwner[j]
        running == IF job[j] = "running" THEN ownerRunning[o] - 1 ELSE ownerRunning[o] IN
    /\ wpc[w] = "running"
    /\ wpc' = [wpc EXCEPT ![w] = "ran"]
    /\ pending' = [pending EXCEPT ![w] = @ - 1]
    /\ ownerRunning' = [ownerRunning EXCEPT ![o] = running]
    /\ OwnerDone(o, running)
    /\ job' = [job EXCEPT ![j] = IF @ = "running" THEN "ran" ELSE @]
    /\ UNCHANGED <<workers, wkey, cur, queue, tracked, client, stopping>>

(* handle.finish, after the registry knows. *)
FinishHandle(w) ==
    /\ wpc[w] = "ran"
    /\ tracked' = tracked \ {cur[w]}
    /\ cur' = [cur EXCEPT ![w] = None]
    /\ wpc' = [wpc EXCEPT ![w] = "idle"]
    /\ UNCHANGED <<workers, wkey, queue, pending, counts, job, client, stopping>>

(* The thread dies outside a job: closing a stale backend raised something  *)
(* other than the expected errors.                                          *)
Die(w) ==
    /\ wpc[w] = "polling"
    /\ wpc' = [wpc EXCEPT ![w] = "exiting"]
    /\ UNCHANGED <<workers, wkey, cur, queue, pending, counts, job, tracked, client, stopping>>

(* worker_exited, its locked part: a worker that died is unregistered. *)
WorkerExited(w) ==
    /\ wpc[w] = "exiting"
    /\ workers' = IF workers[wkey[w]] = w THEN [workers EXCEPT ![wkey[w]] = None] ELSE workers
    /\ wpc' = [wpc EXCEPT ![w] = "draining"]
    /\ UNCHANGED <<wkey, cur, queue, pending, counts, job, tracked, client, stopping>>

(* Mutant: the jobs behind a dead worker are forgotten with it. *)
DropNothing(w) ==
    /\ wpc[w] = "draining" /\ queue[w] # <<>>
    /\ queue' = [queue EXCEPT ![w] = <<>>]
    /\ UNCHANGED <<workers, wkey, wpc, cur, pending, counts, job, tracked, client, stopping>>

(* worker_exited, its loop: a job left behind is dropped, not awaited. *)
DropJob(w) ==
    LET item == Head(queue[w]) IN
    /\ wpc[w] = "draining" /\ queue[w] # <<>>
    /\ queue' = [queue EXCEPT ![w] = Tail(@)]
    /\ IF item = STOP THEN UNCHANGED <<ownerPending, abandoned, job, tracked>>
       ELSE /\ OwnerDone(JobOwner[item], ownerRunning[JobOwner[item]])
            /\ job' = [job EXCEPT ![item] = "dropped"]
            /\ tracked' = tracked \ {item}
    /\ UNCHANGED <<workers, wkey, wpc, cur, pending, ownerRunning, client, stopping>>

Gone(w) ==
    /\ wpc[w] = "draining" /\ queue[w] = <<>>
    /\ wpc' = [wpc EXCEPT ![w] = "none"]
    /\ wkey' = [wkey EXCEPT ![w] = None]
    /\ pending' = [pending EXCEPT ![w] = 0]
    /\ UNCHANGED <<workers, cur, queue, counts, job, tracked, client, stopping>>

-----------------------------------------------------------------------------
(* Clients and exit *)

(* close_client gives its backend up before it waits for the jobs. *)
BeginClose(o) ==
    /\ client[o] = "open"
    /\ client' = [client EXCEPT ![o] = "draining"]
    /\ UNCHANGED <<workers, wkey, wpc, cur, queue, pending, counts, job, tracked, stopping>>

Mine(o) == {j \in tracked : JobOwner[j] = o}

(* GRAPH_THREADS.wait returned: every handle of the owner is finished. *)
Drained(o) ==
    /\ client[o] = "draining" /\ Mine(o) = {}
    /\ client' = [client EXCEPT ![o] = "closed"]
    /\ UNCHANGED <<workers, wkey, wpc, cur, queue, pending, counts, job, tracked, stopping>>

(* The wait timed out: abandon_owner marks the owner's pending jobs. *)
Abandon(o) ==
    /\ client[o] = "draining" /\ Mine(o) # {}
    /\ abandoned' = IF ownerPending[o] > 0 THEN abandoned \cup {o} ELSE abandoned
    /\ client' = [client EXCEPT ![o] = "closed"]
    /\ UNCHANGED <<workers, wkey, wpc, cur, queue, pending, ownerPending, ownerRunning, job, tracked, stopping>>

(* stop_all at exit: every live worker is unregistered and sent a stop. *)
AliveWorkers == {w \in Worker : wpc[w] \notin {"none", "draining"}}

StopAll ==
    /\ ~stopping
    /\ stopping' = TRUE
    /\ workers' = [k \in Key |-> None]
    /\ queue' = [w \in Worker |-> IF w \in AliveWorkers THEN Append(queue[w], STOP) ELSE queue[w]]
    /\ UNCHANGED <<wkey, wpc, cur, pending, counts, job, tracked, client>>

-----------------------------------------------------------------------------
Step(w) ==
    \/ Take(w) \/ Start(w) \/ JobFinished(w) \/ FinishHandle(w)
    \/ WorkerExited(w) \/ DropJob(w) \/ Gone(w) \/ RetireIfIdle(w)

Next ==
    \/ \E j \in Job : Submit(j) \/ SubmitCreating(j) \/ SubmitRefused(j)
    \/ \E w \in Worker : Step(w) \/ Poll(w) \/ Die(w)
    \/ \E o \in Owner : BeginClose(o) \/ Drained(o) \/ Abandon(o)
    \/ StopAll

Spec == Init /\ [][Next]_vars

(* A started thread runs its loop; a job itself ends (its errors are        *)
(* caught); a drain ends by its timeout at the latest.                      *)
FairSpec ==
    /\ Spec
    /\ \A w \in Worker : WF_vars(Step(w))
    /\ \A o \in Owner : WF_vars(Drained(o) \/ Abandon(o))

-----------------------------------------------------------------------------
(* Properties *)

TypeOK ==
    /\ workers \in [Key -> Worker \cup {None}]
    /\ wkey \in [Worker -> Key \cup {None}]
    /\ wpc \in [Worker -> {"none", "idle", "polling", "taken", "running", "ran", "exiting", "draining"}]
    /\ cur \in [Worker -> Job \cup {None}]
    /\ queue \in [Worker -> Seq(Job \cup {STOP})]
    /\ pending \in [Worker -> Nat]
    /\ ownerPending \in [Owner -> Nat] /\ ownerRunning \in [Owner -> Nat]
    /\ abandoned \subseteq Owner
    /\ job \in [Job -> {"new", "refused", "queued", "running", "ran", "skipped", "dropped"}]
    /\ tracked \subseteq Job
    /\ client \in [Owner -> {"open", "draining", "closed"}]
    /\ stopping \in BOOLEAN

(* Until exit, a store has one writer at a time: no two jobs of a store run *)
(* together, whatever workers retired, died or were replaced meanwhile.     *)
OneWriterPerStore ==
    ~stopping => \A v, w \in Worker :
        (v # w /\ wpc[v] = "running" /\ wpc[w] = "running") => wkey[v] # wkey[w]

(* Once close() has returned, none of the client's jobs starts: the ones    *)
(* that may still write were running, and counted, when it abandoned them.  *)
NoStartAfterClose ==
    [][\A j \in Job : (job[j] # "running" /\ job'[j] = "running") => client[JobOwner[j]] # "closed"]_vars

(* Every accepted job's handle is finished: it ran, was skipped or was       *)
(* dropped with its worker, and no owner waits on it for ever.               *)
HandlesFinish == \A j \in Job : job[j] = "queued" ~> j \notin tracked

-----------------------------------------------------------------------------
(* The inductive invariant: a job is in one worker's queue or hands, the    *)
(* counts are those of the jobs that are, a worker with jobs that may still *)
(* run one is the registered one of its store, and what a closed owner left *)
(* waiting is marked.                                                       *)

JobsIn(q) == {j \in Job : \E i \in 1..Len(q) : q[i] = j}

JobsOnce(q) == \A i, l \in 1..Len(q) : q[i] = q[l] /\ q[i] # STOP => i = l

(* Accepted and not finished: what pending counts. *)
Held(w) == JobsIn(queue[w]) \cup (IF wpc[w] \in {"taken", "running"} THEN {cur[w]} ELSE {})

(* Also the job whose handle the worker has yet to finish. *)
InHand(w) == IF wpc[w] \in {"taken", "running", "ran"} THEN {cur[w]} ELSE {}

Has(w) == JobsIn(queue[w]) \cup InHand(w)

HeldOf(o) == {j \in Job : JobOwner[j] = o /\ \E w \in Worker : j \in Held(w)}

RunningOf(o) == {j \in Job : JobOwner[j] = o /\ job[j] = "running"}

WorkersMade ==
    /\ \A w \in Worker :
          IF wpc[w] = "none" THEN wkey[w] = None /\ queue[w] = <<>> ELSE wkey[w] \in Key
    /\ \A k \in Registered : wkey[workers[k]] = k /\ wpc[workers[k]] \notin {"none", "draining"}

JobsAreOnce ==
    /\ \A w \in Worker :
          /\ JobsOnce(queue[w])
          /\ InHand(w) \subseteq Job /\ InHand(w) \cap JobsIn(queue[w]) = {}
    /\ \A v, w \in Worker : v # w => Has(v) \cap Has(w) = {}

StagesAgree ==
    \A w \in Worker :
        /\ \A j \in JobsIn(queue[w]) : job[j] = "queued"
        /\ wpc[w] = "taken" => job[cur[w]] = "queued"
        /\ wpc[w] = "running" => job[cur[w]] \in {"running", "skipped"}
        /\ wpc[w] = "ran" => job[cur[w]] \in {"ran", "skipped"}
        /\ Held(w) \subseteq tracked

PendingRight == \A w \in Worker : wpc[w] # "draining" => pending[w] = Cardinality(Held(w))

OwnersRight ==
    \A o \in Owner : /\ ownerPending[o] = Cardinality(HeldOf(o))
                     /\ ownerRunning[o] = Cardinality(RunningOf(o))

BusyIsRegistered ==
    ~stopping => \A w \in Worker :
        (wpc[w] \notin {"none", "exiting", "draining"} /\ Held(w) # {}) => workers[wkey[w]] = w

ClosedIsMarked ==
    \A j \in Job : (client[JobOwner[j]] = "closed" /\ job[j] = "queued" /\ j \in HeldOf(JobOwner[j]))
                      => JobOwner[j] \in abandoned

IInv ==
    /\ TypeOK /\ WorkersMade /\ JobsAreOnce /\ StagesAgree
    /\ PendingRight /\ OwnersRight /\ BusyIsRegistered /\ ClosedIsMarked
=============================================================================
