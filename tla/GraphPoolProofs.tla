-------------------------- MODULE GraphPoolProofs --------------------------
(***************************************************************************)
(* Proofs about GraphPool, for any stores, workers, jobs and owners: the   *)
(* inductive invariant IInv, that a store has one writer until exit, and   *)
(* that no job of a closed client starts.                                  *)
(***************************************************************************)
EXTENDS GraphPool, FiniteSetTheorems, TLAPS

(* Sets of jobs are finite; adding and removing one counts by one. *)
LEMMA JobCounting ==
    ASSUME NEW S, S \subseteq Job
    PROVE  /\ Cardinality(S) \in Nat
           /\ Cardinality(S) = 0 <=> S = {}
           /\ \A j : j \notin S => Cardinality(S \cup {j}) = Cardinality(S) + 1
           /\ \A j \in S : Cardinality(S \ {j}) = Cardinality(S) - 1
  <1>1. IsFiniteSet(S)
    BY FS_Subset, GraphPoolAssumption
  <1>2. Cardinality(S) \in Nat
    BY <1>1, FS_CardinalityType
  <1>3. Cardinality(S) = 0 <=> S = {}
    BY <1>1, FS_EmptySet
  <1>4. \A j : j \notin S => Cardinality(S \cup {j}) = Cardinality(S) + 1
    BY <1>1, FS_AddElement
  <1>5. \A j \in S : Cardinality(S \ {j}) = Cardinality(S) - 1
    BY <1>1, FS_RemoveElement
  <1> QED
    BY <1>2, <1>3, <1>4, <1>5

(* What an append adds to a queue, and what is left behind its head. *)
LEMMA AppendStop ==
    ASSUME NEW q \in Seq(Job \cup {STOP})
    PROVE  LET r == Append(q, STOP) IN
           /\ r \in Seq(Job \cup {STOP})
           /\ JobsIn(r) = JobsIn(q)
           /\ JobsOnce(q) => JobsOnce(r)
  <1> DEFINE r == Append(q, STOP)
  <1>1. r \in Seq(Job \cup {STOP}) /\ Len(r) = Len(q) + 1 /\ Len(q) \in Nat
    OBVIOUS
  <1>2. \A i \in 1..Len(r) : r[i] = IF i = Len(r) THEN STOP ELSE q[i]
    OBVIOUS
  <1>3. JobsIn(r) = JobsIn(q)
    BY <1>1, <1>2, GraphPoolAssumption DEF JobsIn
  <1>4. JobsOnce(q) => JobsOnce(r)
    BY <1>1, <1>2 DEF JobsOnce
  <1> QED
    BY <1>1, <1>3, <1>4

LEMMA AppendJob ==
    ASSUME NEW q \in Seq(Job \cup {STOP}), NEW j \in Job
    PROVE  LET r == Append(q, j) IN
           /\ r \in Seq(Job \cup {STOP})
           /\ JobsIn(r) = JobsIn(q) \cup {j}
           /\ JobsOnce(q) /\ j \notin JobsIn(q) => JobsOnce(r)
  <1> DEFINE r == Append(q, j)
  <1>1. r \in Seq(Job \cup {STOP}) /\ Len(r) = Len(q) + 1 /\ Len(q) \in Nat
    OBVIOUS
  <1>2. \A i \in 1..Len(r) : r[i] = IF i = Len(r) THEN j ELSE q[i]
    OBVIOUS
  <1>3. JobsIn(r) = JobsIn(q) \cup {j}
    BY <1>1, <1>2 DEF JobsIn
  <1>4. ASSUME JobsOnce(q), j \notin JobsIn(q) PROVE JobsOnce(r)
    BY <1>1, <1>2, <1>4 DEF JobsOnce, JobsIn
  <1> QED
    BY <1>1, <1>3, <1>4

LEMMA TakeHead ==
    ASSUME NEW q \in Seq(Job \cup {STOP}), q # <<>>, JobsOnce(q)
    PROVE  /\ Tail(q) \in Seq(Job \cup {STOP})
           /\ JobsOnce(Tail(q))
           /\ Head(q) = STOP => JobsIn(Tail(q)) = JobsIn(q)
           /\ Head(q) # STOP => /\ Head(q) \in JobsIn(q)
                                /\ JobsIn(Tail(q)) = JobsIn(q) \ {Head(q)}
  <1>1. /\ Tail(q) \in Seq(Job \cup {STOP}) /\ Len(q) \in Nat \ {0}
        /\ Len(Tail(q)) = Len(q) - 1 /\ Head(q) = q[1] /\ q[1] \in Job \cup {STOP}
    OBVIOUS
  <1>2. \A i \in 1..Len(Tail(q)) : Tail(q)[i] = q[i + 1]
    OBVIOUS
  <1>3. JobsOnce(Tail(q))
    BY <1>1, <1>2 DEF JobsOnce
  <1>4. JobsIn(Tail(q)) = {j \in Job : \E i \in 2..Len(q) : q[i] = j}
    <2>1. ASSUME NEW j, NEW i \in 2..Len(q), q[i] = j
          PROVE  i - 1 \in 1..Len(Tail(q)) /\ Tail(q)[i - 1] = j
      BY <1>1, <1>2, <2>1
    <2>2. ASSUME NEW j, NEW i \in 1..Len(Tail(q)), Tail(q)[i] = j
          PROVE  i + 1 \in 2..Len(q) /\ q[i + 1] = j
      BY <1>1, <1>2, <2>2
    <2> QED
      BY <2>1, <2>2 DEF JobsIn
  <1>5. Head(q) = STOP => JobsIn(Tail(q)) = JobsIn(q)
    BY <1>1, <1>4, GraphPoolAssumption DEF JobsIn
  <1>6. Head(q) # STOP => /\ Head(q) \in JobsIn(q)
                          /\ JobsIn(Tail(q)) = JobsIn(q) \ {Head(q)}
    BY <1>1, <1>4 DEF JobsIn, JobsOnce
  <1> QED
    BY <1>1, <1>3, <1>5, <1>6

-----------------------------------------------------------------------------
(* What a worker holds is a job, and its key is a store's. *)
LEMMA HeldAreJobs ==
    ASSUME IInv
    PROVE  /\ \A w \in Worker : Held(w) \subseteq Has(w) /\ Has(w) \subseteq Job /\ InHand(w) \subseteq Has(w)
           /\ \A w \in Worker : JobsIn(queue[w]) \subseteq Held(w)
           /\ \A w \in Worker : wpc[w] \in {"taken", "running"} => cur[w] \in Held(w)
           /\ \A w \in Worker : wpc[w] \in {"taken", "running", "ran"} => cur[w] \in InHand(w)
  BY DEF IInv, JobsAreOnce, Held, Has, InHand, JobsIn

(* An owner's counts follow the jobs that are held and that run. *)
LEMMA OwnersHeld ==
    ASSUME IInv, NEW o \in Owner
    PROVE  /\ HeldOf(o) \subseteq Job /\ RunningOf(o) \subseteq Job
           /\ \A w \in Worker : \A j \in Held(w) : JobOwner[j] = o => j \in HeldOf(o)
  BY HeldAreJobs DEF HeldOf, RunningOf

(* A worker that runs a job is the registered one of its store. *)
LEMMA IInvIsOneWriter == IInv => OneWriterPerStore
  <1> SUFFICES ASSUME IInv, ~stopping, NEW v \in Worker, NEW w \in Worker,
                      v # w, wpc[v] = "running", wpc[w] = "running"
               PROVE  wkey[v] # wkey[w]
    BY DEF OneWriterPerStore
  <1>1. cur[v] \in Held(v) /\ cur[w] \in Held(w)
    BY DEF Held
  <1>2. workers[wkey[v]] = v /\ workers[wkey[w]] = w
    BY <1>1 DEF IInv, BusyIsRegistered
  <1> QED
    BY <1>2

LEMMA InitKeeps == Init => IInv
  <1> SUFFICES ASSUME Init PROVE IInv
    OBVIOUS
  <1>1. TypeOK
    <2>1. <<>> \in Seq(Job \cup {STOP})
      OBVIOUS
    <2> QED
      BY <2>1 DEF Init, TypeOK
  <1>2. \A w \in Worker : queue[w] = <<>> /\ JobsIn(queue[w]) = {} /\ JobsOnce(queue[w])
    BY DEF Init, JobsIn, JobsOnce
  <1>3. \A w \in Worker : Held(w) = {} /\ Has(w) = {} /\ InHand(w) = {}
    BY <1>2 DEF Init, Held, Has, InHand
  <1>4. \A o \in Owner : HeldOf(o) = {} /\ RunningOf(o) = {}
    BY <1>3 DEF Init, HeldOf, RunningOf
  <1>5. WorkersMade
    BY DEF Init, WorkersMade, Registered
  <1>6. JobsAreOnce
    BY <1>2, <1>3 DEF JobsAreOnce
  <1>7. StagesAgree
    BY <1>2, <1>3 DEF Init, StagesAgree
  <1>8. PendingRight /\ OwnersRight
    BY <1>3, <1>4, FS_EmptySet DEF Init, PendingRight, OwnersRight
  <1>9. BusyIsRegistered /\ ClosedIsMarked
    BY <1>3, <1>4 DEF Init, BusyIsRegistered, ClosedIsMarked
  <1> QED
    BY <1>1, <1>5, <1>6, <1>7, <1>8, <1>9 DEF IInv

(* A step that moves no job disturbs none of the facts about jobs. *)
Quiet ==
    /\ UNCHANGED <<cur, job, tracked, ownerPending, ownerRunning>>
    /\ \A w \in Worker :
          /\ JobsIn(queue'[w]) = JobsIn(queue[w])
          /\ JobsOnce(queue'[w])
          /\ wpc'[w] = wpc[w] \/ {wpc[w], wpc'[w]} \cap {"taken", "running", "ran"} = {}

LEMMA QuietKeeps ==
    ASSUME IInv, Quiet
    PROVE  /\ \A w \in Worker : Held(w)' = Held(w)
           /\ \A o \in Owner : HeldOf(o)' = HeldOf(o)
           /\ JobsAreOnce' /\ StagesAgree' /\ OwnersRight'
  <1>1. \A w \in Worker : Held(w)' = Held(w) /\ InHand(w)' = InHand(w) /\ Has(w)' = Has(w)
    BY DEF Quiet, Held, InHand, Has
  <1>2. \A o \in Owner : HeldOf(o)' = HeldOf(o)
    BY <1>1 DEF HeldOf
  <1>3. JobsAreOnce'
    BY <1>1 DEF IInv, JobsAreOnce, Quiet
  <1>4. StagesAgree'
    BY <1>1 DEF IInv, StagesAgree, Quiet
  <1>5. OwnersRight'
    BY <1>2 DEF IInv, OwnersRight, Quiet, RunningOf
  <1> QED
    BY <1>1, <1>2, <1>3, <1>4, <1>5

-----------------------------------------------------------------------------
(* Steps that move no job *)

(* A stop sent to some workers is no job. *)
LEMMA StopsSent ==
    ASSUME IInv, NEW S, \A w \in Worker : queue'[w] = IF w \in S THEN Append(queue[w], STOP) ELSE queue[w]
    PROVE  \A w \in Worker : /\ queue'[w] \in Seq(Job \cup {STOP})
                             /\ JobsIn(queue'[w]) = JobsIn(queue[w])
                             /\ JobsOnce(queue'[w])
  <1> SUFFICES ASSUME NEW w \in Worker
               PROVE  /\ queue'[w] \in Seq(Job \cup {STOP})
                      /\ JobsIn(queue'[w]) = JobsIn(queue[w])
                      /\ JobsOnce(queue'[w])
    OBVIOUS
  <1>1. queue[w] \in Seq(Job \cup {STOP}) /\ JobsOnce(queue[w])
    BY DEF IInv, TypeOK, JobsAreOnce
  <1> QED
    BY <1>1, AppendStop

(* Unregistering a worker with nothing pending leaves the busy ones. *)
LEMMA IdleHoldNothing ==
    ASSUME IInv, NEW k \in Idle
    PROVE  /\ k \in Key /\ workers[k] \in Worker /\ wkey[workers[k]] = k
           /\ wpc[workers[k]] \notin {"none", "draining"}
           /\ Held(workers[k]) = {}
  <1>1. k \in Key /\ workers[k] \in Worker /\ workers[k] # None /\ pending[workers[k]] = 0
    BY GraphPoolAssumption DEF Idle, Registered, IInv, TypeOK
  <1>2. wkey[workers[k]] = k /\ wpc[workers[k]] \notin {"none", "draining"}
    BY <1>1 DEF IInv, WorkersMade, Registered
  <1>3. Held(workers[k]) \subseteq Job /\ Cardinality(Held(workers[k])) = 0
    BY <1>1, <1>2, HeldAreJobs DEF IInv, PendingRight
  <1> QED
    BY <1>1, <1>2, <1>3, JobCounting

LEMMA SubmitRefusedKeeps ==
    ASSUME IInv, NEW j \in Job, SubmitRefused(j)
    PROVE  IInv'
  <1>1. PICK r \in Idle \cup {None} :
           /\ workers' = [x \in Key |-> IF x = r THEN None ELSE workers[x]]
           /\ queue' = [v \in Worker |-> IF r # None /\ v = workers[r] THEN Append(queue[v], STOP)
                                         ELSE queue[v]]
    BY DEF SubmitRefused
  <1>2. /\ job' = [job EXCEPT ![j] = "refused"] /\ job[j] = "new"
        /\ UNCHANGED <<wkey, wpc, cur, pending, ownerPending, ownerRunning, abandoned, tracked, client, stopping>>
    BY DEF SubmitRefused, counts
  <1>3. \A w \in Worker : /\ queue'[w] \in Seq(Job \cup {STOP})
                          /\ JobsIn(queue'[w]) = JobsIn(queue[w])
                          /\ JobsOnce(queue'[w])
    <2> DEFINE S == {v \in Worker : r # None /\ v = workers[r]}
    <2>1. \A w \in Worker : queue'[w] = IF w \in S THEN Append(queue[w], STOP) ELSE queue[w]
      BY <1>1
    <2> HIDE DEF S
    <2> QED
      BY <2>1, StopsSent
  <1>4. r # None => /\ r \in Key /\ workers[r] \in Worker /\ wkey[workers[r]] = r
                    /\ wpc[workers[r]] # "none" /\ Held(workers[r]) = {}
    BY IdleHoldNothing
  <1>5. TypeOK'
    BY <1>1, <1>2, <1>3 DEF IInv, TypeOK
  <1>6. WorkersMade'
    BY <1>1, <1>2, <1>4, GraphPoolAssumption DEF IInv, TypeOK, WorkersMade, Registered
  <1>7. \A w \in Worker : Held(w)' = Held(w) /\ InHand(w)' = InHand(w) /\ Has(w)' = Has(w)
    BY <1>2, <1>3 DEF Held, InHand, Has
  <1>8. JobsAreOnce'
    BY <1>3, <1>7 DEF IInv, JobsAreOnce
  <1>9. \A w \in Worker : j \notin JobsIn(queue[w]) /\ (wpc[w] \in {"taken", "running", "ran"} => j # cur[w])
    BY <1>2 DEF IInv, StagesAgree
  <1>10. StagesAgree'
    BY <1>2, <1>3, <1>7, <1>9, HeldAreJobs DEF IInv, TypeOK, StagesAgree
  <1>11. \A o \in Owner : HeldOf(o)' = HeldOf(o) /\ RunningOf(o)' = RunningOf(o)
    BY <1>2, <1>7 DEF HeldOf, RunningOf, IInv, TypeOK
  <1>12. PendingRight' /\ OwnersRight'
    BY <1>2, <1>7, <1>11 DEF IInv, PendingRight, OwnersRight
  <1>13. BusyIsRegistered'
    <2> SUFFICES ASSUME ~stopping, NEW w \in Worker,
                        wpc[w] \notin {"none", "exiting", "draining"}, Held(w) # {}
                 PROVE  workers'[wkey[w]] = w
      BY <1>2, <1>7 DEF BusyIsRegistered
    <2>1. wkey[w] \in Key /\ workers[wkey[w]] = w
      BY DEF IInv, BusyIsRegistered, WorkersMade
    <2>2. wkey[w] # r
      BY <1>4, <2>1, GraphPoolAssumption
    <2> QED
      BY <1>1, <2>1, <2>2
  <1>14. ClosedIsMarked'
    <2>1. \A i \in Job : job'[i] = "queued" => job[i] = "queued"
      BY <1>2 DEF IInv, TypeOK
    <2>2. \A i \in Job : JobOwner[i] \in Owner
      BY GraphPoolAssumption
    <2> QED
      BY <1>2, <1>11, <2>1, <2>2 DEF IInv, ClosedIsMarked
  <1> QED
    BY <1>5, <1>6, <1>8, <1>10, <1>12, <1>13, <1>14 DEF IInv

(* The worker's own polling, its death and the end of its drain. *)
LEMMA PollKeeps ==
    ASSUME IInv, NEW w \in Worker, Poll(w) \/ Die(w) \/ RetireIfIdle(w)
    PROVE  IInv'
  <1>1. TypeOK'
    BY GraphPoolAssumption DEF Poll, Die, RetireIfIdle, counts, IInv, TypeOK, WorkersMade
  <1>2. Quiet
    BY DEF Poll, Die, RetireIfIdle, counts, Quiet, IInv, TypeOK, JobsAreOnce
  <1>3. WorkersMade'
    <2>1. /\ UNCHANGED <<wkey, queue>> /\ wpc[w] # "none" /\ wpc'[w] \notin {"none", "draining"}
          /\ \A v \in Worker \ {w} : wpc'[v] = wpc[v]
          /\ \A k \in Key : workers'[k] \in {None, workers[k]}
      BY DEF Poll, Die, RetireIfIdle, IInv, TypeOK
    <2>2. \A k \in Registered' : k \in Registered /\ workers'[k] = workers[k] /\ workers[k] \in Worker
      BY <2>1, GraphPoolAssumption DEF Registered, IInv, TypeOK
    <2>3. \A k \in Registered : wkey[workers[k]] = k /\ wpc[workers[k]] \notin {"none", "draining"}
      BY DEF IInv, WorkersMade
    <2>4. \A k \in Registered' : wkey'[workers'[k]] = k /\ wpc'[workers'[k]] \notin {"none", "draining"}
      BY <2>1, <2>2, <2>3
    <2>5. \A v \in Worker : IF wpc'[v] = "none" THEN wkey'[v] = None /\ queue'[v] = <<>> ELSE wkey'[v] \in Key
      BY <2>1 DEF IInv, WorkersMade
    <2> QED
      BY <2>4, <2>5 DEF WorkersMade
  <1>4. PendingRight'
    BY <1>2, QuietKeeps DEF Poll, Die, RetireIfIdle, counts, IInv, TypeOK, PendingRight
  <1>5. BusyIsRegistered'
    <2>1. CASE UNCHANGED workers
      BY <1>2, <2>1, QuietKeeps DEF Poll, Die, RetireIfIdle, counts, IInv, TypeOK, BusyIsRegistered
    <2>2. CASE workers' = [workers EXCEPT ![wkey[w]] = None] /\ wpc' = [wpc EXCEPT ![w] = "exiting"]
               /\ workers[wkey[w]] = w /\ UNCHANGED <<wkey, stopping>>
      BY <1>2, <2>2, QuietKeeps DEF IInv, TypeOK, BusyIsRegistered, WorkersMade
    <2> QED
      BY <2>1, <2>2 DEF Poll, Die, RetireIfIdle
  <1>6. ClosedIsMarked'
    BY <1>2, QuietKeeps, GraphPoolAssumption DEF Poll, Die, RetireIfIdle, counts, IInv, ClosedIsMarked
  <1> QED
    BY <1>1, <1>2, <1>3, <1>4, <1>5, <1>6, QuietKeeps DEF IInv

LEMMA ExitKeeps ==
    ASSUME IInv, NEW w \in Worker, WorkerExited(w) \/ Gone(w)
    PROVE  IInv'
  <1>k. wkey[w] \in Key
    BY DEF WorkerExited, Gone, IInv, WorkersMade
  <1>1. TypeOK'
    <2>1. workers' \in [Key -> Worker \cup {None}]
      BY DEF WorkerExited, Gone, IInv, TypeOK
    <2>2. pending' \in [Worker -> Nat]
      <3>1. pending \in [Worker -> Nat]
        BY DEF IInv, TypeOK
      <3>2. UNCHANGED pending \/ pending' = [pending EXCEPT ![w] = 0]
        BY DEF WorkerExited, Gone
      <3> QED
        BY <3>1, <3>2
    <2> QED
      BY <2>1, <2>2 DEF WorkerExited, Gone, counts, IInv, TypeOK
  <1>2. Quiet
    BY DEF WorkerExited, Gone, counts, Quiet, IInv, TypeOK, JobsAreOnce
  <1>3. WorkersMade'
    <2>1. \A k \in Registered : /\ workers[k] \in Worker /\ wkey[workers[k]] = k
                                /\ wpc[workers[k]] \notin {"none", "draining"}
      BY GraphPoolAssumption DEF IInv, TypeOK, WorkersMade, Registered
    <2>2. \A k \in Registered' : k \in Registered /\ workers'[k] = workers[k] /\ workers[k] # w
      <3>1. CASE WorkerExited(w)
        BY <1>k, <2>1, <3>1 DEF WorkerExited, Registered, IInv, TypeOK
      <3>2. CASE Gone(w)
        BY <2>1, <3>2 DEF Gone, Registered
      <3> QED
        BY <3>1, <3>2
    <2>3. \A v \in Worker \ {w} : wpc'[v] = wpc[v] /\ wkey'[v] = wkey[v] /\ queue'[v] = queue[v]
      BY DEF WorkerExited, Gone, IInv, TypeOK
    <2>4. IF wpc'[w] = "none" THEN wkey'[w] = None /\ queue'[w] = <<>> ELSE wkey'[w] \in Key
      BY <1>k DEF WorkerExited, Gone, IInv, TypeOK
    <2>5. \A k \in Registered' : wkey'[workers'[k]] = k /\ wpc'[workers'[k]] \notin {"none", "draining"}
      BY <2>1, <2>2, <2>3
    <2>6. \A v \in Worker : IF wpc'[v] = "none" THEN wkey'[v] = None /\ queue'[v] = <<>> ELSE wkey'[v] \in Key
      BY <2>3, <2>4 DEF IInv, WorkersMade
    <2> QED
      BY <2>5, <2>6 DEF WorkersMade
  <1>4. PendingRight'
    <2>1. Gone(w) => Held(w)' = {}
      BY DEF Gone, Held, JobsIn, TypeOK, IInv
    <2> QED
      BY <1>2, <2>1, QuietKeeps, FS_EmptySet DEF WorkerExited, Gone, counts, IInv, TypeOK, PendingRight
  <1>5. BusyIsRegistered'
    <2> SUFFICES ASSUME ~stopping, NEW v \in Worker,
                        wpc'[v] \notin {"none", "exiting", "draining"}, Held(v) # {}
                 PROVE  workers'[wkey'[v]] = v
      BY <1>2, QuietKeeps DEF BusyIsRegistered, WorkerExited, Gone
    <2>1. v # w /\ wpc[v] = wpc'[v] /\ wkey'[v] = wkey[v]
      BY DEF WorkerExited, Gone, IInv, TypeOK
    <2>2. wkey[v] \in Key /\ workers[wkey[v]] = v
      BY <2>1 DEF IInv, BusyIsRegistered, WorkersMade
    <2> QED
      BY <1>k, <2>1, <2>2 DEF WorkerExited, Gone, IInv, TypeOK
  <1>6. ClosedIsMarked'
    BY <1>2, QuietKeeps, GraphPoolAssumption DEF WorkerExited, Gone, counts, IInv, ClosedIsMarked
  <1> QED
    BY <1>1, <1>2, <1>3, <1>4, <1>5, <1>6, QuietKeeps DEF IInv

(* A drain that ended left no job of its owner; one that timed out marks    *)
(* the owner if it has any.                                                 *)
LEMMA CloseKeeps ==
    ASSUME IInv, NEW o \in Owner, BeginClose(o) \/ Drained(o) \/ Abandon(o)
    PROVE  IInv'
  <1>1. TypeOK'
    BY DEF BeginClose, Drained, Abandon, counts, IInv, TypeOK
  <1>2. Quiet
    BY DEF BeginClose, Drained, Abandon, counts, Quiet, IInv, JobsAreOnce
  <1>3. WorkersMade'
    BY DEF BeginClose, Drained, Abandon, IInv, WorkersMade, Registered
  <1>4. PendingRight'
    BY <1>2, QuietKeeps DEF BeginClose, Drained, Abandon, IInv, PendingRight
  <1>5. BusyIsRegistered'
    BY <1>2, QuietKeeps DEF BeginClose, Drained, Abandon, IInv, BusyIsRegistered
  <1>6. Drained(o) => HeldOf(o) = {}
    BY DEF Drained, Mine, HeldOf, IInv, StagesAgree
  <1>7. ownerPending[o] = 0 => HeldOf(o) = {}
    BY OwnersHeld, JobCounting DEF IInv, OwnersRight
  <1>8. ownerPending[o] \in Nat
    BY DEF IInv, TypeOK
  <1>9. ClosedIsMarked'
    <2> SUFFICES ASSUME NEW j \in Job, client'[JobOwner[j]] = "closed", job[j] = "queued",
                        j \in HeldOf(JobOwner[j])
                 PROVE  JobOwner[j] \in abandoned'
      BY <1>2, QuietKeeps, GraphPoolAssumption DEF ClosedIsMarked, Quiet
    <2>1. JobOwner[j] \in Owner
      BY GraphPoolAssumption
    <2>2. CASE JobOwner[j] = o
      BY <1>6, <1>7, <1>8, <2>1, <2>2 DEF BeginClose, Drained, Abandon, IInv, TypeOK
    <2>3. CASE JobOwner[j] # o
      <3>1. client[JobOwner[j]] = "closed"
        BY <2>1, <2>3 DEF BeginClose, Drained, Abandon, IInv, TypeOK
      <3>2. JobOwner[j] \in abandoned
        BY <3>1 DEF IInv, ClosedIsMarked
      <3> QED
        BY <3>2 DEF BeginClose, Drained, Abandon, counts
    <2> QED
      BY <2>2, <2>3
  <1> QED
    BY <1>1, <1>2, <1>3, <1>4, <1>5, <1>9, QuietKeeps DEF IInv

LEMMA StopAllKeeps ==
    ASSUME IInv, StopAll
    PROVE  IInv'
  <1>1. \A w \in Worker : /\ queue'[w] \in Seq(Job \cup {STOP})
                          /\ JobsIn(queue'[w]) = JobsIn(queue[w])
                          /\ JobsOnce(queue'[w])
    BY StopsSent DEF StopAll
  <1>2. TypeOK'
    BY <1>1 DEF StopAll, counts, IInv, TypeOK
  <1>3. Quiet
    BY <1>1 DEF StopAll, counts, Quiet
  <1>4. WorkersMade'
    BY DEF StopAll, AliveWorkers, IInv, WorkersMade, Registered
  <1>5. PendingRight'
    BY <1>3, QuietKeeps DEF StopAll, IInv, PendingRight
  <1>6. BusyIsRegistered'
    BY DEF StopAll, BusyIsRegistered
  <1>7. ClosedIsMarked'
    BY <1>3, QuietKeeps, GraphPoolAssumption DEF StopAll, counts, IInv, ClosedIsMarked
  <1> QED
    BY <1>2, <1>3, <1>4, <1>5, <1>6, <1>7, QuietKeeps DEF IInv
-----------------------------------------------------------------------------
(* Steps that move a job *)

(* Accepting a job, with an idle worker retired or not: it was in no hands, *)
(* and it is the last of the worker's queue now.                            *)
LEMMA EnqueueKeeps ==
    ASSUME IInv, NEW j \in Job, job[j] = "new", client[JobOwner[j]] = "open",
           NEW w \in Worker, wpc[w] # "draining", NEW r \in Worker \cup {None}, r # w, Enqueue(j, w, r),
           \A v \in Worker : \/ wpc'[v] = wpc[v]
                             \/ {wpc[v], wpc'[v]} \cap {"taken", "running", "ran", "draining"} = {}
    PROVE  /\ \A v \in Worker : queue'[v] \in Seq(Job \cup {STOP}) /\ (v \notin {w, r} => queue'[v] = queue[v])
           /\ \A v \in Worker : Held(v)' = Held(v) \cup (IF v = w THEN {j} ELSE {})
           /\ pending' \in [Worker -> Nat] /\ ownerPending' \in [Owner -> Nat]
           /\ JobsAreOnce' /\ StagesAgree' /\ PendingRight' /\ OwnersRight' /\ ClosedIsMarked'
  <1> DEFINE o == JobOwner[j]
  <1>o. o \in Owner /\ \A i \in Job : JobOwner[i] \in Owner
    BY GraphPoolAssumption
  <1>1. \A v \in Worker : j \notin JobsIn(queue[v]) /\ (wpc[v] \in {"taken", "running", "ran"} => j # cur[v])
    BY DEF IInv, StagesAgree
  <1>2. \A v \in Worker : j \notin Has(v) /\ j \notin Held(v)
    BY <1>1 DEF Has, InHand, Held
  <1>3. ASSUME NEW v \in Worker
        PROVE  /\ queue'[v] \in Seq(Job \cup {STOP}) /\ JobsOnce(queue'[v])
               /\ JobsIn(queue'[v]) = JobsIn(queue[v]) \cup (IF v = w THEN {j} ELSE {})
    <2>1. queue[v] \in Seq(Job \cup {STOP}) /\ JobsOnce(queue[v])
      BY DEF IInv, TypeOK, JobsAreOnce
    <2>2. CASE v = w
      BY <1>1, <2>1, <2>2, AppendJob DEF Enqueue
    <2>3. CASE v = r
      BY <2>1, <2>3, AppendStop DEF Enqueue
    <2>4. CASE v # w /\ v # r
      BY <2>1, <2>4 DEF Enqueue
    <2> QED
      BY <2>2, <2>3, <2>4
  <1>4. \A v \in Worker : v \notin {w, r} => queue'[v] = queue[v]
    BY DEF Enqueue
  <1>5. UNCHANGED <<cur, ownerRunning, abandoned, client, stopping>>
    BY DEF Enqueue
  <1>6. \A v \in Worker : InHand(v)' = InHand(v)
    BY <1>5 DEF InHand
  <1>7. \A v \in Worker : /\ Held(v)' = Held(v) \cup (IF v = w THEN {j} ELSE {})
                          /\ Has(v)' = Has(v) \cup (IF v = w THEN {j} ELSE {})
    BY <1>3, <1>5, <1>6 DEF Held, Has
  <1>8. pending' \in [Worker -> Nat] /\ ownerPending' \in [Owner -> Nat]
    BY <1>o DEF Enqueue, IInv, TypeOK
  <1>9. JobsAreOnce'
    <2>1. \A v \in Worker : JobsOnce(queue'[v]) /\ InHand(v)' \subseteq Job
      BY <1>3, <1>6 DEF IInv, JobsAreOnce
    <2>2. \A v \in Worker : j \notin InHand(v)
      BY <1>2 DEF Has
    <2>3. \A v \in Worker : InHand(v)' \cap JobsIn(queue'[v]) = {}
      BY <1>3, <1>6, <2>2 DEF IInv, JobsAreOnce
    <2>4. \A u, v \in Worker : u # v => Has(u)' \cap Has(v)' = {}
      BY <1>2, <1>7 DEF IInv, JobsAreOnce
    <2> QED
      BY <2>1, <2>3, <2>4 DEF JobsAreOnce
  <1>10. job' = [job EXCEPT ![j] = "queued"] /\ tracked' = tracked \cup {j}
    BY DEF Enqueue
  <1>11. StagesAgree'
    <2> SUFFICES ASSUME NEW v \in Worker
                 PROVE  /\ \A i \in JobsIn(queue'[v]) : job'[i] = "queued"
                        /\ wpc'[v] = "taken" => job'[cur[v]] = "queued"
                        /\ wpc'[v] = "running" => job'[cur[v]] \in {"running", "skipped"}
                        /\ wpc'[v] = "ran" => job'[cur[v]] \in {"ran", "skipped"}
                        /\ Held(v)' \subseteq tracked'
      BY <1>5 DEF StagesAgree
    <2>1. \A i \in JobsIn(queue'[v]) : job'[i] = "queued"
      <3> SUFFICES ASSUME NEW i \in JobsIn(queue'[v]) PROVE job'[i] = "queued"
        OBVIOUS
      <3>1. i \in Job
        BY DEF JobsIn
      <3>2. i = j \/ i \in JobsIn(queue[v])
        BY <1>3
      <3> QED
        BY <1>10, <3>1, <3>2 DEF IInv, TypeOK, StagesAgree
    <2>2. wpc'[v] \in {"taken", "running", "ran"} => cur[v] # j /\ cur[v] \in Job /\ wpc'[v] = wpc[v]
      BY <1>1, HeldAreJobs DEF IInv, JobsAreOnce
    <2>3. wpc'[v] \in {"taken", "running", "ran"} => job'[cur[v]] = job[cur[v]]
      BY <1>10, <2>2 DEF IInv, TypeOK
    <2>4. Held(v)' \subseteq tracked'
      BY <1>7, <1>10 DEF IInv, StagesAgree
    <2> QED
      BY <2>1, <2>2, <2>3, <2>4 DEF IInv, StagesAgree
  <1>12. PendingRight'
    <2> SUFFICES ASSUME NEW v \in Worker, wpc'[v] # "draining"
                 PROVE  pending'[v] = Cardinality(Held(v)')
      BY DEF PendingRight
    <2>1. Held(v) \subseteq Job /\ pending[v] = Cardinality(Held(v))
      BY HeldAreJobs DEF IInv, PendingRight
    <2>2. v = w => Cardinality(Held(v)') = pending[v] + 1
      BY <1>2, <1>7, <2>1, JobCounting
    <2>3. v # w => Cardinality(Held(v)') = pending[v]
      BY <1>7, <2>1
    <2> QED
      BY <2>2, <2>3 DEF Enqueue, IInv, TypeOK
  <1>13. \A p \in Owner : /\ HeldOf(p)' = HeldOf(p) \cup (IF p = o THEN {j} ELSE {})
                          /\ RunningOf(p)' = RunningOf(p) /\ j \notin HeldOf(p)
    <2> SUFFICES ASSUME NEW p \in Owner
                 PROVE  /\ HeldOf(p)' = HeldOf(p) \cup (IF p = o THEN {j} ELSE {})
                        /\ RunningOf(p)' = RunningOf(p) /\ j \notin HeldOf(p)
      OBVIOUS
    <2>1. HeldOf(p)' = HeldOf(p) \cup (IF p = o THEN {j} ELSE {})
      BY <1>7 DEF HeldOf
    <2>2. RunningOf(p)' = RunningOf(p)
      BY <1>10 DEF RunningOf, IInv, TypeOK
    <2> QED
      BY <1>2, <2>1, <2>2 DEF HeldOf
  <1>14. OwnersRight'
    <2> SUFFICES ASSUME NEW p \in Owner
                 PROVE  /\ ownerPending'[p] = Cardinality(HeldOf(p)')
                        /\ ownerRunning'[p] = Cardinality(RunningOf(p)')
      BY DEF OwnersRight
    <2>1. /\ HeldOf(p) \subseteq Job /\ ownerPending[p] = Cardinality(HeldOf(p))
          /\ ownerRunning[p] = Cardinality(RunningOf(p))
      BY OwnersHeld DEF IInv, OwnersRight
    <2>2. p = o => Cardinality(HeldOf(p)') = ownerPending[p] + 1
      BY <1>13, <2>1, JobCounting
    <2>3. p # o => Cardinality(HeldOf(p)') = ownerPending[p]
      BY <1>13, <2>1
    <2>4. ownerPending'[p] = IF p = o THEN ownerPending[p] + 1 ELSE ownerPending[p]
      BY <1>o DEF Enqueue, IInv, TypeOK
    <2> QED
      BY <1>5, <1>13, <2>1, <2>2, <2>3, <2>4
  <1>15. ClosedIsMarked'
    <2> SUFFICES ASSUME NEW i \in Job, client[JobOwner[i]] = "closed", job'[i] = "queued",
                        i \in HeldOf(JobOwner[i])'
                 PROVE  JobOwner[i] \in abandoned
      BY <1>5 DEF ClosedIsMarked
    <2>1. i # j
      OBVIOUS
    <2>2. i \in HeldOf(JobOwner[i]) /\ job[i] = "queued"
      BY <1>o, <1>10, <1>13, <2>1 DEF IInv, TypeOK
    <2> QED
      BY <2>2 DEF IInv, ClosedIsMarked
  <1> QED
    BY <1>3, <1>4, <1>7, <1>8, <1>9, <1>11, <1>12, <1>14, <1>15

(* submit to the store's worker. *)
LEMMA SubmitKeeps ==
    ASSUME IInv, NEW j \in Job, Submit(j)
    PROVE  IInv'
  <1> DEFINE k == JobKey[j]
             w == workers[k]
  <1>1. k \in Key /\ w \in Worker /\ w # None /\ k \in Registered
    BY GraphPoolAssumption DEF Submit, IInv, TypeOK, Registered
  <1>2. wpc[w] \notin {"none", "draining"} /\ wkey[w] = k
    BY <1>1 DEF IInv, WorkersMade
  <1>3. /\ job[j] = "new" /\ client[JobOwner[j]] = "open" /\ ~stopping /\ Enqueue(j, w, None)
        /\ UNCHANGED <<workers, wkey, wpc>>
    BY DEF Submit
  <1>4. /\ \A v \in Worker : queue'[v] \in Seq(Job \cup {STOP}) /\ (v \notin {w, None} => queue'[v] = queue[v])
        /\ \A v \in Worker : Held(v)' = Held(v) \cup (IF v = w THEN {j} ELSE {})
        /\ pending' \in [Worker -> Nat] /\ ownerPending' \in [Owner -> Nat]
        /\ JobsAreOnce' /\ StagesAgree' /\ PendingRight' /\ OwnersRight' /\ ClosedIsMarked'
    BY <1>1, <1>2, <1>3, EnqueueKeeps
  <1>5. TypeOK'
    BY <1>3, <1>4 DEF Enqueue, IInv, TypeOK
  <1>6. WorkersMade'
    BY <1>1, <1>2, <1>3, <1>4, GraphPoolAssumption DEF IInv, WorkersMade, Registered
  <1>7. BusyIsRegistered'
    BY <1>1, <1>2, <1>3, <1>4 DEF Enqueue, IInv, BusyIsRegistered
  <1> QED
    BY <1>4, <1>5, <1>6, <1>7 DEF IInv

(* submit that makes the worker, and retires one with nothing pending. *)
LEMMA SubmitCreatingKeeps ==
    ASSUME IInv, NEW j \in Job, SubmitCreating(j)
    PROVE  IInv'
  <1> DEFINE k == JobKey[j]
  <1>1. PICK w \in Worker, r \in Idle \cup {None} :
           /\ wpc[w] = "none" /\ workers[k] = None
           /\ workers' = [x \in Key |-> IF x = k THEN w ELSE IF x = r THEN None ELSE workers[x]]
           /\ Enqueue(j, w, IF r = None THEN None ELSE workers[r])
           /\ wkey' = [wkey EXCEPT ![w] = k]
           /\ wpc' = [wpc EXCEPT ![w] = "idle"]
    <2>1. PICK w \in Worker :
             /\ wpc[w] = "none" /\ workers[k] = None
             /\ wkey' = [wkey EXCEPT ![w] = k]
             /\ wpc' = [wpc EXCEPT ![w] = "idle"]
             /\ \E r \in IF Cardinality(Registered) >= MAX_COUNT /\ Idle # {} THEN Idle ELSE {None} :
                   /\ workers' = [x \in Key |-> IF x = k THEN w ELSE IF x = r THEN None ELSE workers[x]]
                   /\ Enqueue(j, w, IF r = None THEN None ELSE workers[r])
      BY Zenon DEF SubmitCreating
    <2>2. PICK r \in IF Cardinality(Registered) >= MAX_COUNT /\ Idle # {} THEN Idle ELSE {None} :
             /\ workers' = [x \in Key |-> IF x = k THEN w ELSE IF x = r THEN None ELSE workers[x]]
             /\ Enqueue(j, w, IF r = None THEN None ELSE workers[r])
      BY <2>1, Zenon
    <2>3. r \in Idle \cup {None}
      OBVIOUS
    <2> QED
      BY <2>1, <2>2, <2>3, Zenon
  <1>2. job[j] = "new" /\ client[JobOwner[j]] = "open" /\ ~stopping /\ k \in Key
    BY GraphPoolAssumption DEF SubmitCreating
  <1> DEFINE gone == IF r = None THEN None ELSE workers[r]
  <1>3. r # None => /\ r \in Key /\ workers[r] \in Worker /\ wkey[workers[r]] = r
                    /\ wpc[workers[r]] \notin {"none", "draining"} /\ Held(workers[r]) = {}
    BY IdleHoldNothing
  <1>4. gone \in Worker \cup {None} /\ gone # w
    BY <1>1, <1>3, GraphPoolAssumption
  <1>5. \A v \in Worker : v # w => wpc'[v] = wpc[v] /\ wkey'[v] = wkey[v]
    BY <1>1 DEF IInv, TypeOK
  <1>6. wpc'[w] = "idle" /\ wkey'[w] = k
    BY <1>1 DEF IInv, TypeOK
  <1>7. /\ \A v \in Worker : queue'[v] \in Seq(Job \cup {STOP}) /\ (v \notin {w, gone} => queue'[v] = queue[v])
        /\ \A v \in Worker : Held(v)' = Held(v) \cup (IF v = w THEN {j} ELSE {})
        /\ pending' \in [Worker -> Nat] /\ ownerPending' \in [Owner -> Nat]
        /\ JobsAreOnce' /\ StagesAgree' /\ PendingRight' /\ OwnersRight' /\ ClosedIsMarked'
    <2>1. \A v \in Worker : \/ wpc'[v] = wpc[v]
                            \/ {wpc[v], wpc'[v]} \cap {"taken", "running", "ran", "draining"} = {}
      BY <1>1, <1>5, <1>6
    <2> QED
      BY <1>1, <1>2, <1>4, <2>1, EnqueueKeeps
  <1>8. TypeOK'
    BY <1>1, <1>2, <1>7 DEF Enqueue, IInv, TypeOK
  <1>9. WorkersMade'
    <2>1. \A v \in Worker : IF wpc'[v] = "none" THEN wkey'[v] = None /\ queue'[v] = <<>> ELSE wkey'[v] \in Key
      BY <1>2, <1>3, <1>5, <1>6, <1>7, GraphPoolAssumption DEF IInv, WorkersMade
    <2>2. \A x \in Registered : workers[x] \in Worker /\ wkey[workers[x]] = x /\ wpc[workers[x]] \notin {"none", "draining"}
      BY GraphPoolAssumption DEF IInv, TypeOK, WorkersMade, Registered
    <2>3. ASSUME NEW x \in Registered'
          PROVE  wkey'[workers'[x]] = x /\ wpc'[workers'[x]] \notin {"none", "draining"}
      <3>1. CASE x = k
        BY <1>1, <1>2, <1>6, <3>1
      <3>2. CASE x # k
        <4>1. x \in Registered /\ workers'[x] = workers[x]
          BY <1>1, <3>2 DEF Registered
        <4>2. workers[x] # w
          BY <1>1, <2>2, <4>1
        <4> QED
          BY <1>5, <2>2, <4>1, <4>2
      <3> QED
        BY <3>1, <3>2
    <2> QED
      BY <2>1, <2>3 DEF WorkersMade
  <1>10. BusyIsRegistered'
    <2> SUFFICES ASSUME NEW v \in Worker, wpc'[v] \notin {"none", "exiting", "draining"}, Held(v)' # {}
                 PROVE  workers'[wkey'[v]] = v
      BY DEF BusyIsRegistered
    <2>1. CASE v = w
      BY <1>1, <1>2, <1>6, <2>1
    <2>2. CASE v # w
      <3>1. wkey[v] \in Key /\ workers[wkey[v]] = v /\ Held(v) # {}
        BY <1>2, <1>5, <1>7, <2>2 DEF IInv, BusyIsRegistered, WorkersMade
      <3>2. wkey[v] # r /\ wkey[v] # k
        BY <1>1, <1>3, <3>1, GraphPoolAssumption
      <3> QED
        BY <1>1, <1>5, <2>2, <3>1, <3>2
    <2> QED
      BY <2>1, <2>2
  <1> QED
    BY <1>7, <1>8, <1>9, <1>10 DEF IInv

(* The worker takes a stop, or a job, which it still holds. *)
LEMMA TakeKeeps ==
    ASSUME IInv, NEW w \in Worker, Take(w)
    PROVE  IInv'
  <1> DEFINE h == Head(queue[w])
  <1>1. queue[w] \in Seq(Job \cup {STOP}) /\ queue[w] # <<>> /\ JobsOnce(queue[w]) /\ wpc[w] = "idle"
    BY DEF Take, IInv, TypeOK, JobsAreOnce
  <1>2. /\ Tail(queue[w]) \in Seq(Job \cup {STOP}) /\ JobsOnce(Tail(queue[w]))
        /\ h = STOP => JobsIn(Tail(queue[w])) = JobsIn(queue[w])
        /\ h # STOP => h \in JobsIn(queue[w]) /\ JobsIn(Tail(queue[w])) = JobsIn(queue[w]) \ {h}
    BY <1>1, TakeHead
  <1>3. /\ queue'[w] = Tail(queue[w]) /\ \A v \in Worker \ {w} : queue'[v] = queue[v] /\ wpc'[v] = wpc[v]
        /\ wpc'[w] \in {"exiting", "taken"}
        /\ UNCHANGED <<workers, wkey, pending, ownerPending, ownerRunning, abandoned, job, tracked, client, stopping>>
    <2>1. \/ wpc' = [wpc EXCEPT ![w] = "exiting"]
          \/ wpc' = [wpc EXCEPT ![w] = "taken"]
      BY DEF Take
    <2>2. wpc'[w] \in {"exiting", "taken"} /\ \A v \in Worker \ {w} : wpc'[v] = wpc[v]
      BY <2>1 DEF IInv, TypeOK
    <2>3. queue' = [queue EXCEPT ![w] = Tail(@)]
      BY DEF Take
    <2>4. DOMAIN queue = Worker
      BY DEF IInv, TypeOK
    <2> QED
      BY <2>2, <2>3, <2>4 DEF Take, counts
  <1>4. \A v \in Worker : queue'[v] \in Seq(Job \cup {STOP}) /\ JobsOnce(queue'[v])
    BY <1>2, <1>3 DEF IInv, TypeOK, JobsAreOnce
  <1>5. h # STOP => h \in Job
    BY <1>2 DEF JobsIn
  <1>6. TypeOK'
    <2>1. cur' \in [Worker -> Job \cup {None}] /\ wpc' \in [Worker -> {"none", "idle", "polling", "taken", "running", "ran", "exiting", "draining"}]
      BY <1>5 DEF Take, IInv, TypeOK
    <2>2. queue' \in [Worker -> Seq(Job \cup {STOP})]
      BY <1>2 DEF Take, IInv, TypeOK
    <2> QED
      BY <1>3, <2>1, <2>2 DEF IInv, TypeOK
  <1>7. WorkersMade'
    <2>1. \A v \in Worker : IF wpc'[v] = "none" THEN wkey'[v] = None /\ queue'[v] = <<>> ELSE wkey'[v] \in Key
      BY <1>1, <1>3 DEF IInv, WorkersMade
    <2>2. \A k \in Registered : /\ workers[k] \in Worker /\ wkey[workers[k]] = k
                                /\ wpc[workers[k]] \notin {"none", "draining"}
      BY GraphPoolAssumption DEF IInv, TypeOK, WorkersMade, Registered
    <2>3. \A v \in Worker : wpc[v] \notin {"none", "draining"} => wpc'[v] \notin {"none", "draining"}
      BY <1>3
    <2> QED
      BY <1>3, <2>1, <2>2, <2>3 DEF WorkersMade, Registered
  <1>8. CASE h = STOP
    <2>1. Quiet
      BY <1>1, <1>2, <1>3, <1>4, <1>8 DEF Take, Quiet
    <2>2. PendingRight'
      BY <1>1, <1>3, <2>1, QuietKeeps DEF IInv, PendingRight
    <2>3. BusyIsRegistered'
      BY <1>1, <1>3, <2>1, QuietKeeps DEF IInv, BusyIsRegistered
    <2>4. ClosedIsMarked'
      BY <1>3, <2>1, QuietKeeps, GraphPoolAssumption DEF IInv, ClosedIsMarked
    <2> QED
      BY <1>6, <1>7, <2>1, <2>2, <2>3, <2>4, QuietKeeps DEF IInv
  <1>9. CASE h # STOP
    <2>1. wpc'[w] = "taken" /\ cur'[w] = h /\ \A v \in Worker \ {w} : cur'[v] = cur[v]
      BY <1>9 DEF Take, IInv, TypeOK
    <2>2. ASSUME NEW v \in Worker
          PROVE  /\ Held(v)' = Held(v) /\ Has(v)' = Has(v)
                 /\ InHand(v)' = IF v = w THEN {h} ELSE InHand(v)
      <3>1. CASE v = w
        BY <1>1, <1>2, <1>3, <1>9, <2>1, <3>1 DEF Held, Has, InHand
      <3>2. CASE v # w
        BY <1>3, <2>1, <3>2 DEF Held, Has, InHand
      <3> QED
        BY <3>1, <3>2
    <2>3. JobsAreOnce'
      <3>1. \A v \in Worker : InHand(v)' \subseteq Job /\ InHand(v)' \cap JobsIn(queue'[v]) = {}
        BY <1>2, <1>3, <1>5, <1>9, <2>2 DEF IInv, JobsAreOnce
      <3> QED
        BY <1>4, <2>2, <3>1 DEF IInv, JobsAreOnce
    <2>4. StagesAgree'
      <3>1. job[h] = "queued"
        BY <1>2, <1>9 DEF IInv, StagesAgree
      <3>2. \A v \in Worker : JobsIn(queue'[v]) \subseteq JobsIn(queue[v])
        BY <1>2, <1>3, <1>9
      <3> QED
        BY <1>3, <2>1, <2>2, <3>1, <3>2 DEF IInv, StagesAgree
    <2>5. \A o \in Owner : HeldOf(o)' = HeldOf(o) /\ RunningOf(o)' = RunningOf(o)
      BY <1>3, <2>2 DEF HeldOf, RunningOf
    <2>6. PendingRight' /\ OwnersRight'
      BY <1>1, <1>3, <2>2, <2>5 DEF IInv, PendingRight, OwnersRight
    <2>7. BusyIsRegistered'
      BY <1>1, <1>3, <2>2 DEF IInv, BusyIsRegistered
    <2>8. ClosedIsMarked'
      BY <1>3, <2>5, GraphPoolAssumption DEF IInv, ClosedIsMarked
    <2> QED
      BY <1>6, <1>7, <2>3, <2>4, <2>6, <2>7, <2>8 DEF IInv
  <1> QED
    BY <1>8, <1>9

(* The job in a worker's hands is in no other worker's. *)
LEMMA OnlyHere ==
    ASSUME IInv, NEW w \in Worker, NEW j \in Has(w)
    PROVE  \A v \in Worker \ {w} : j \notin Has(v) /\ j \notin Held(v) /\ j \notin JobsIn(queue[v])
  BY HeldAreJobs DEF IInv, JobsAreOnce, Has

(* A job starts, unless its owner was abandoned. *)
LEMMA StartKeeps ==
    ASSUME IInv, NEW w \in Worker, Start(w)
    PROVE  IInv'
  <1> DEFINE j == cur[w]
             o == JobOwner[j]
  <1>1. /\ wpc[w] = "taken" /\ j \in Has(w) /\ j \in Job /\ o \in Owner /\ job[j] = "queued"
        /\ j \notin JobsIn(queue[w])
    BY HeldAreJobs, GraphPoolAssumption DEF Start, IInv, StagesAgree, JobsAreOnce, InHand
  <1>2. /\ wpc' = [wpc EXCEPT ![w] = "running"]
        /\ UNCHANGED <<workers, wkey, cur, queue, pending, ownerPending, abandoned, tracked, client, stopping>>
    BY DEF Start
  <1>3. \/ job' = [job EXCEPT ![j] = "skipped"] /\ UNCHANGED ownerRunning
        \/ job' = [job EXCEPT ![j] = "running"] /\ ownerRunning' = [ownerRunning EXCEPT ![o] = @ + 1]
    BY DEF Start
  <1>4. \A v \in Worker : Held(v)' = Held(v) /\ Has(v)' = Has(v) /\ InHand(v)' = InHand(v)
    BY <1>1, <1>2 DEF Held, Has, InHand, IInv, TypeOK
  <1>5. \A p \in Owner : HeldOf(p)' = HeldOf(p)
    BY <1>4 DEF HeldOf
  <1>6. TypeOK'
    <2>1. ownerRunning' \in [Owner -> Nat]
      <3>1. ownerRunning \in [Owner -> Nat]
        BY DEF IInv, TypeOK
      <3> QED
        BY <1>1, <1>3, <3>1
    <2>2. job' \in [Job -> {"new", "refused", "queued", "running", "ran", "skipped", "dropped"}]
      BY <1>1, <1>3 DEF IInv, TypeOK
    <2> QED
      BY <1>2, <2>1, <2>2 DEF IInv, TypeOK
  <1>7. WorkersMade'
    BY <1>1, <1>2 DEF IInv, TypeOK, WorkersMade, Registered
  <1>8. JobsAreOnce'
    BY <1>2, <1>4 DEF IInv, JobsAreOnce
  <1>9. StagesAgree'
    <2> SUFFICES ASSUME NEW v \in Worker
                 PROVE  /\ \A i \in JobsIn(queue[v]) : job'[i] = "queued"
                        /\ wpc'[v] = "taken" => job'[cur[v]] = "queued"
                        /\ wpc'[v] = "running" => job'[cur[v]] \in {"running", "skipped"}
                        /\ wpc'[v] = "ran" => job'[cur[v]] \in {"ran", "skipped"}
                        /\ Held(v) \subseteq tracked
      BY <1>2, <1>4 DEF StagesAgree
    <2>1. \A i \in Job : i # j => job'[i] = job[i]
      BY <1>3 DEF IInv, TypeOK
    <2>2. JobsIn(queue[v]) \subseteq Job /\ j \notin JobsIn(queue[v])
      BY <1>1, OnlyHere DEF JobsIn
    <2>3. CASE v = w
      BY <1>1, <1>2, <1>3, <2>1, <2>2, <2>3 DEF IInv, TypeOK, StagesAgree
    <2>4. CASE v # w
      <3>1. wpc[v] \in {"taken", "running", "ran"} => cur[v] # j /\ cur[v] \in Job
        BY <1>1, <2>4, OnlyHere, HeldAreJobs DEF IInv, JobsAreOnce
      <3> QED
        BY <1>2, <2>1, <2>2, <2>4, <3>1 DEF IInv, TypeOK, StagesAgree
    <2> QED
      BY <2>3, <2>4
  <1>10. OwnersRight'
    <2> SUFFICES ASSUME NEW p \in Owner PROVE ownerRunning'[p] = Cardinality(RunningOf(p)')
      BY <1>2, <1>5 DEF IInv, OwnersRight
    <2>1. RunningOf(p) \subseteq Job /\ j \notin RunningOf(p) /\ ownerRunning[p] = Cardinality(RunningOf(p))
      BY <1>1, OwnersHeld DEF IInv, OwnersRight, RunningOf
    <2>2. CASE job' = [job EXCEPT ![j] = "skipped"] /\ UNCHANGED ownerRunning
      <3>1. RunningOf(p)' = RunningOf(p)
        BY <1>1, <2>2 DEF RunningOf, IInv, TypeOK
      <3> QED
        BY <2>1, <2>2, <3>1
    <2>3. CASE job' = [job EXCEPT ![j] = "running"] /\ ownerRunning' = [ownerRunning EXCEPT ![o] = @ + 1]
      <3>1. RunningOf(p)' = IF p = o THEN RunningOf(p) \cup {j} ELSE RunningOf(p)
        BY <1>1, <2>3 DEF RunningOf, IInv, TypeOK
      <3>2. p = o => Cardinality(RunningOf(p)') = ownerRunning[p] + 1
        BY <2>1, <3>1, JobCounting
      <3> QED
        BY <1>1, <2>1, <2>3, <3>1, <3>2 DEF IInv, TypeOK
    <2> QED
      BY <1>3, <2>2, <2>3
  <1>11. PendingRight'
    BY <1>1, <1>2, <1>4 DEF IInv, TypeOK, PendingRight
  <1>12. BusyIsRegistered'
    BY <1>1, <1>2, <1>4 DEF IInv, TypeOK, BusyIsRegistered
  <1>13. ClosedIsMarked'
    <2>1. \A i \in Job : job'[i] = "queued" => job[i] = "queued"
      BY <1>1, <1>3 DEF IInv, TypeOK
    <2> QED
      BY <1>2, <1>5, <2>1, GraphPoolAssumption DEF IInv, ClosedIsMarked
  <1> QED
    BY <1>6, <1>7, <1>8, <1>9, <1>10, <1>11, <1>12, <1>13 DEF IInv

(* What job_finished and a drop say of the owner's counts: one job less,    *)
(* and the mark is taken off with the last one.                             *)
LEMMA OwnerDoneRight ==
    ASSUME IInv, NEW j \in Job, j \in HeldOf(JobOwner[j]), NEW running,
           OwnerDone(JobOwner[j], running), UNCHANGED client,
           \A p \in Owner : HeldOf(p)' = HeldOf(p) \ {j},
           \A i \in Job : job'[i] = "queued" => job[i] = "queued"
    PROVE  /\ ownerPending' \in [Owner -> Nat] /\ abandoned' \subseteq Owner
           /\ \A p \in Owner : ownerPending'[p] = Cardinality(HeldOf(p)')
           /\ ClosedIsMarked'
  <1> DEFINE o == JobOwner[j]
  <1>1. o \in Owner /\ \A i \in Job : JobOwner[i] \in Owner
    BY GraphPoolAssumption
  <1>2. \A p \in Owner : /\ HeldOf(p) \subseteq Job /\ ownerPending[p] = Cardinality(HeldOf(p))
                         /\ ownerPending[p] \in Nat
    BY OwnersHeld DEF IInv, TypeOK, OwnersRight
  <1>3. Cardinality(HeldOf(o)') = ownerPending[o] - 1 /\ ownerPending[o] # 0
    BY <1>1, <1>2, JobCounting
  <1>4. \A p \in Owner \ {o} : HeldOf(p)' = HeldOf(p)
    BY DEF HeldOf
  <1>5. /\ ownerPending' = [ownerPending EXCEPT ![o] = ownerPending[o] - 1]
        /\ \/ UNCHANGED abandoned
           \/ abandoned' = abandoned \ {o} /\ ownerPending[o] - 1 = 0
    <2>1. CASE ownerPending[o] - 1 <= 0 /\ running = 0
      BY <1>1, <1>2, <1>3, <2>1 DEF OwnerDone
    <2>2. CASE ~(ownerPending[o] - 1 <= 0 /\ running = 0)
      BY <2>2 DEF OwnerDone, IInv, TypeOK
    <2> QED
      BY <2>1, <2>2
  <1>6. ownerPending' \in [Owner -> Nat] /\ abandoned' \subseteq Owner
    BY <1>1, <1>2, <1>3, <1>5 DEF IInv, TypeOK
  <1>7. \A p \in Owner : ownerPending'[p] = Cardinality(HeldOf(p)')
    BY <1>1, <1>2, <1>3, <1>4, <1>5 DEF IInv, TypeOK
  <1>8. abandoned' # abandoned => HeldOf(o)' = {}
    <2>1. HeldOf(o)' \subseteq Job
      BY <1>1, <1>2
    <2> QED
      BY <1>3, <1>5, <2>1, JobCounting
  <1>9. ClosedIsMarked'
    <2> SUFFICES ASSUME NEW i \in Job, client[JobOwner[i]] = "closed", job'[i] = "queued",
                        i \in HeldOf(JobOwner[i])'
                 PROVE  JobOwner[i] \in abandoned'
      BY DEF ClosedIsMarked
    <2>1. i \in HeldOf(JobOwner[i]) /\ job[i] = "queued"
      BY <1>1
    <2>2. JobOwner[i] \in abandoned
      BY <2>1 DEF IInv, ClosedIsMarked
    <2> QED
      BY <1>5, <1>8, <2>2
  <1> QED
    BY <1>6, <1>7, <1>9

(* Counting down a job that ran or was skipped. *)
LEMMA JobFinishedKeeps ==
    ASSUME IInv, NEW w \in Worker, JobFinished(w)
    PROVE  IInv'
  <1> DEFINE j == cur[w]
             o == JobOwner[j]
             running == IF job[j] = "running" THEN ownerRunning[o] - 1 ELSE ownerRunning[o]
  <1>1. /\ wpc[w] = "running" /\ j \in Has(w) /\ j \in Held(w) /\ j \in Job /\ o \in Owner
        /\ job[j] \in {"running", "skipped"} /\ j \notin JobsIn(queue[w])
    BY HeldAreJobs, GraphPoolAssumption DEF JobFinished, IInv, StagesAgree, JobsAreOnce, InHand
  <1>2. /\ wpc' = [wpc EXCEPT ![w] = "ran"]
        /\ pending' = [pending EXCEPT ![w] = @ - 1]
        /\ ownerRunning' = [ownerRunning EXCEPT ![o] = running]
        /\ OwnerDone(o, running)
        /\ job' = [job EXCEPT ![j] = IF @ = "running" THEN "ran" ELSE @]
        /\ UNCHANGED <<workers, wkey, cur, queue, tracked, client, stopping>>
    BY DEF JobFinished
  <1>3. \A v \in Worker : v # w => wpc'[v] = wpc[v]
    BY <1>2 DEF IInv, TypeOK
  <1>4. wpc'[w] = "ran"
    BY <1>2 DEF IInv, TypeOK
  <1>5. ASSUME NEW v \in Worker
        PROVE  /\ Held(v)' = Held(v) \ {j}
               /\ InHand(v)' = InHand(v) /\ Has(v)' = Has(v)
    <2>1. CASE v = w
      BY <1>1, <1>2, <1>4, <2>1 DEF Held, InHand, Has
    <2>2. CASE v # w
      <3>1. j \notin Held(v)
        BY <1>1, <2>2, OnlyHere
      <3> QED
        BY <1>2, <1>3, <2>2, <3>1 DEF Held, InHand, Has
    <2> QED
      BY <2>1, <2>2
  <1>6. \A p \in Owner : HeldOf(p)' = HeldOf(p) \ {j}
    BY <1>5 DEF HeldOf
  <1>7. \A i \in Job : i # j => job'[i] = job[i]
    BY <1>2 DEF IInv, TypeOK
  <1>8. job'[j] = IF job[j] = "running" THEN "ran" ELSE "skipped"
    BY <1>1, <1>2 DEF IInv, TypeOK
  <1>9. \A p \in Owner : RunningOf(p)' = RunningOf(p) \ {j}
    BY <1>7, <1>8 DEF RunningOf
  <1>10. ASSUME NEW p \in Owner
         PROVE  ownerRunning'[p] = Cardinality(RunningOf(p)') /\ ownerRunning'[p] \in Nat
    <2>1. RunningOf(p) \subseteq Job /\ ownerRunning[p] = Cardinality(RunningOf(p)) /\ ownerRunning[p] \in Nat
      BY OwnersHeld DEF IInv, TypeOK, OwnersRight
    <2>2. CASE p = o /\ job[j] = "running"
      <3>1. j \in RunningOf(p)
        BY <1>1, <2>2 DEF RunningOf
      <3>2. Cardinality(RunningOf(p)') = ownerRunning[p] - 1 /\ ownerRunning[p] # 0
        BY <1>9, <2>1, <3>1, JobCounting
      <3> QED
        BY <1>1, <1>2, <2>1, <2>2, <3>2 DEF IInv, TypeOK
    <2>3. CASE ~(p = o /\ job[j] = "running")
      <3>1. RunningOf(p)' = RunningOf(p)
        BY <1>9, <2>3 DEF RunningOf
      <3> QED
        BY <1>1, <1>2, <2>1, <2>3, <3>1 DEF IInv, TypeOK
    <2> QED
      BY <2>2, <2>3
  <1>11. /\ ownerPending' \in [Owner -> Nat] /\ abandoned' \subseteq Owner
         /\ \A p \in Owner : ownerPending'[p] = Cardinality(HeldOf(p)')
         /\ ClosedIsMarked'
    <2>1. j \in HeldOf(o)
      BY <1>1, OwnersHeld
    <2>2. \A i \in Job : job'[i] = "queued" => job[i] = "queued"
      BY <1>7, <1>8
    <2> QED
      BY <1>1, <1>2, <1>6, <2>1, <2>2, OwnerDoneRight
  <1>12. OwnersRight'
    BY <1>10, <1>11 DEF OwnersRight
  <1>13. pending' \in [Worker -> Nat] /\ PendingRight'
    <2>1. \A v \in Worker : wpc[v] # "draining" => Held(v) \subseteq Job /\ pending[v] = Cardinality(Held(v))
      BY HeldAreJobs DEF IInv, PendingRight
    <2>2. Cardinality(Held(w)') = pending[w] - 1 /\ pending[w] # 0
      BY <1>1, <1>5, <2>1, JobCounting
    <2>3. \A v \in Worker : v # w => Held(v)' = Held(v)
      <3>1. \A v \in Worker \ {w} : j \notin Held(v)
        BY <1>1, OnlyHere
      <3> QED
        BY <1>5, <3>1
    <2>4. pending \in [Worker -> Nat]
      BY DEF IInv, TypeOK
    <2>5. pending' \in [Worker -> Nat]
      BY <1>2, <2>2, <2>4
    <2>6. \A v \in Worker : v # w => pending'[v] = pending[v]
      BY <1>2, <2>4
    <2>7. pending'[w] = pending[w] - 1
      BY <1>2, <2>4
    <2> QED
      BY <1>3, <2>1, <2>2, <2>3, <2>5, <2>6, <2>7 DEF PendingRight
  <1>14. TypeOK'
    <2>1. ownerRunning' \in [Owner -> Nat]
      BY <1>2, <1>10 DEF IInv, TypeOK
    <2>2. job' \in [Job -> {"new", "refused", "queued", "running", "ran", "skipped", "dropped"}]
      BY <1>1, <1>2 DEF IInv, TypeOK
    <2> QED
      BY <1>2, <1>11, <1>13, <2>1, <2>2 DEF IInv, TypeOK
  <1>15. WorkersMade'
    BY <1>1, <1>2 DEF IInv, TypeOK, WorkersMade, Registered
  <1>16. JobsAreOnce'
    BY <1>2, <1>5 DEF IInv, JobsAreOnce
  <1>17. StagesAgree'
    <2> SUFFICES ASSUME NEW v \in Worker
                 PROVE  /\ \A i \in JobsIn(queue[v]) : job'[i] = "queued"
                        /\ wpc'[v] = "taken" => job'[cur[v]] = "queued"
                        /\ wpc'[v] = "running" => job'[cur[v]] \in {"running", "skipped"}
                        /\ wpc'[v] = "ran" => job'[cur[v]] \in {"ran", "skipped"}
                        /\ Held(v)' \subseteq tracked
      BY <1>2 DEF StagesAgree
    <2>1. Held(v)' \subseteq tracked
      BY <1>5 DEF IInv, StagesAgree
    <2>2. JobsIn(queue[v]) \subseteq Job /\ j \notin JobsIn(queue[v])
      BY <1>1, OnlyHere DEF JobsIn
    <2>3. CASE v = w
      BY <1>1, <1>4, <1>7, <1>8, <2>1, <2>2, <2>3 DEF IInv, StagesAgree
    <2>4. CASE v # w
      <3>1. wpc[v] \in {"taken", "running", "ran"} => cur[v] # j /\ cur[v] \in Job
        BY <1>1, <2>4, OnlyHere, HeldAreJobs DEF IInv, JobsAreOnce
      <3> QED
        BY <1>3, <1>7, <2>1, <2>2, <2>4, <3>1 DEF IInv, StagesAgree
    <2> QED
      BY <2>3, <2>4
  <1>18. BusyIsRegistered'
    BY <1>1, <1>2, <1>3, <1>5 DEF IInv, BusyIsRegistered
  <1> QED
    BY <1>11, <1>12, <1>13, <1>14, <1>15, <1>16, <1>17, <1>18 DEF IInv

(* The handle of a finished job goes: no worker holds that job. *)
LEMMA FinishHandleKeeps ==
    ASSUME IInv, NEW w \in Worker, FinishHandle(w)
    PROVE  IInv'
  <1> DEFINE j == cur[w]
  <1>1. wpc[w] = "ran" /\ j \in Has(w) /\ j \in Job /\ j \notin JobsIn(queue[w])
    BY HeldAreJobs DEF FinishHandle, IInv, JobsAreOnce
  <1>2. /\ tracked' = tracked \ {j} /\ cur' = [cur EXCEPT ![w] = None] /\ wpc' = [wpc EXCEPT ![w] = "idle"]
        /\ UNCHANGED <<workers, wkey, queue, pending, ownerPending, ownerRunning, abandoned, job, client, stopping>>
    BY DEF FinishHandle, counts
  <1>3. wpc'[w] = "idle" /\ \A v \in Worker : v # w => wpc'[v] = wpc[v] /\ cur'[v] = cur[v]
    BY <1>2 DEF IInv, TypeOK
  <1>4. ASSUME NEW v \in Worker
        PROVE  /\ Held(v)' = Held(v) /\ Has(v)' \subseteq Has(v)
               /\ InHand(v)' \subseteq InHand(v) /\ j \notin Held(v)
    <2>1. CASE v = w
      BY <1>1, <1>2, <1>3, <2>1 DEF Held, InHand, Has
    <2>2. CASE v # w
      BY <1>1, <1>2, <1>3, <2>2, OnlyHere DEF Held, InHand, Has
    <2> QED
      BY <2>1, <2>2
  <1>5. \A p \in Owner : HeldOf(p)' = HeldOf(p) /\ RunningOf(p)' = RunningOf(p)
    BY <1>2, <1>4 DEF HeldOf, RunningOf
  <1>6. TypeOK'
    BY <1>2 DEF IInv, TypeOK
  <1>7. WorkersMade'
    BY <1>1, <1>2 DEF IInv, TypeOK, WorkersMade, Registered
  <1>8. JobsAreOnce'
    <2>1. \A v \in Worker : JobsOnce(queue[v]) /\ InHand(v)' \subseteq Job /\ InHand(v)' \cap JobsIn(queue[v]) = {}
      BY <1>4 DEF IInv, JobsAreOnce
    <2>2. \A u, v \in Worker : u # v => Has(u)' \cap Has(v)' = {}
      BY <1>4 DEF IInv, JobsAreOnce
    <2> QED
      BY <1>2, <2>1, <2>2 DEF JobsAreOnce
  <1>9. StagesAgree'
    BY <1>2, <1>3, <1>4 DEF IInv, StagesAgree
  <1>10. PendingRight' /\ OwnersRight'
    BY <1>1, <1>2, <1>3, <1>4, <1>5 DEF IInv, PendingRight, OwnersRight
  <1>11. BusyIsRegistered'
    BY <1>1, <1>2, <1>3, <1>4 DEF IInv, BusyIsRegistered
  <1>12. ClosedIsMarked'
    BY <1>2, <1>5, GraphPoolAssumption DEF IInv, ClosedIsMarked
  <1> QED
    BY <1>6, <1>7, <1>8, <1>9, <1>10, <1>11, <1>12 DEF IInv

(* A worker that ended drops a stop, or a job that no owner waits for then. *)
LEMMA DropJobKeeps ==
    ASSUME IInv, NEW w \in Worker, DropJob(w)
    PROVE  IInv'
  <1> DEFINE j == Head(queue[w])
             o == JobOwner[j]
  <1>1. queue[w] \in Seq(Job \cup {STOP}) /\ queue[w] # <<>> /\ JobsOnce(queue[w]) /\ wpc[w] = "draining"
    BY DEF DropJob, IInv, TypeOK, JobsAreOnce
  <1>2. /\ Tail(queue[w]) \in Seq(Job \cup {STOP}) /\ JobsOnce(Tail(queue[w]))
        /\ j = STOP => JobsIn(Tail(queue[w])) = JobsIn(queue[w])
        /\ j # STOP => j \in JobsIn(queue[w]) /\ JobsIn(Tail(queue[w])) = JobsIn(queue[w]) \ {j}
    BY <1>1, TakeHead
  <1>3. /\ queue' = [queue EXCEPT ![w] = Tail(@)]
        /\ UNCHANGED <<workers, wkey, wpc, cur, pending, ownerRunning, client, stopping>>
    BY DEF DropJob
  <1>4. /\ queue' \in [Worker -> Seq(Job \cup {STOP})]
        /\ queue'[w] = Tail(queue[w]) /\ \A v \in Worker : v # w => queue'[v] = queue[v]
    BY <1>2, <1>3 DEF IInv, TypeOK
  <1>5. WorkersMade'
    <2>1. \A v \in Worker : IF wpc'[v] = "none" THEN wkey'[v] = None /\ queue'[v] = <<>> ELSE wkey'[v] \in Key
      BY <1>1, <1>3, <1>4 DEF IInv, WorkersMade
    <2> QED
      BY <1>3, <2>1 DEF IInv, WorkersMade, Registered
  <1>6. CASE j = STOP
    <2>1. UNCHANGED <<ownerPending, abandoned, job, tracked>>
      BY <1>6 DEF DropJob
    <2>2. Quiet
      BY <1>2, <1>3, <1>4, <1>6, <2>1 DEF Quiet, IInv, JobsAreOnce
    <2>3. TypeOK'
      BY <1>3, <1>4, <2>1 DEF IInv, TypeOK
    <2>4. PendingRight' /\ BusyIsRegistered' /\ ClosedIsMarked'
      BY <1>3, <2>1, <2>2, QuietKeeps, GraphPoolAssumption DEF IInv, PendingRight, BusyIsRegistered, ClosedIsMarked
    <2> QED
      BY <1>5, <2>2, <2>3, <2>4, QuietKeeps DEF IInv
  <1>7. CASE j # STOP
    <2>1. /\ j \in JobsIn(queue[w]) /\ j \in Has(w) /\ j \in Held(w) /\ j \in Job /\ o \in Owner
          /\ job[j] = "queued" /\ j \notin InHand(w)
      BY <1>2, <1>7, HeldAreJobs, GraphPoolAssumption DEF IInv, JobsAreOnce, StagesAgree
    <2>2. OwnerDone(o, ownerRunning[o]) /\ job' = [job EXCEPT ![j] = "dropped"] /\ tracked' = tracked \ {j}
      BY <1>7 DEF DropJob
    <2>3. ASSUME NEW v \in Worker
          PROVE  /\ Held(v)' = Held(v) \ {j} /\ Has(v)' = Has(v) \ {j} /\ InHand(v)' = InHand(v)
                 /\ JobsIn(queue'[v]) = JobsIn(queue[v]) \ {j} /\ JobsOnce(queue'[v])
      <3>1. CASE v = w
        BY <1>1, <1>2, <1>3, <1>4, <1>7, <2>1, <3>1 DEF Held, Has, InHand
      <3>2. CASE v # w
        <4>1. j \notin Held(v) /\ j \notin Has(v) /\ j \notin JobsIn(queue[v])
          BY <2>1, <3>2, OnlyHere
        <4>2. JobsOnce(queue[v])
          BY DEF IInv, JobsAreOnce
        <4> QED
          BY <1>3, <1>4, <3>2, <4>1, <4>2 DEF Held, Has, InHand
      <3> QED
        BY <3>1, <3>2
    <2>4. \A p \in Owner : HeldOf(p)' = HeldOf(p) \ {j}
      BY <2>3 DEF HeldOf
    <2>5. job'[j] = "dropped" /\ \A i \in Job : i # j => job'[i] = job[i]
      BY <2>1, <2>2 DEF IInv, TypeOK
    <2>6. \A p \in Owner : RunningOf(p)' = RunningOf(p)
      BY <2>1, <2>5 DEF RunningOf
    <2>7. /\ ownerPending' \in [Owner -> Nat] /\ abandoned' \subseteq Owner
          /\ \A p \in Owner : ownerPending'[p] = Cardinality(HeldOf(p)')
          /\ ClosedIsMarked'
      <3>1. j \in HeldOf(o)
        BY <2>1, OwnersHeld
      <3>2. \A i \in Job : job'[i] = "queued" => job[i] = "queued"
        BY <2>5
      <3> QED
        BY <1>3, <2>1, <2>2, <2>4, <3>1, <3>2, OwnerDoneRight
    <2>8. OwnersRight'
      BY <1>3, <2>6, <2>7 DEF IInv, OwnersRight
    <2>9. TypeOK'
      BY <1>3, <1>4, <2>1, <2>2, <2>7 DEF IInv, TypeOK
    <2>10. JobsAreOnce'
      BY <2>3 DEF IInv, JobsAreOnce
    <2>11. StagesAgree'
      <3>1. ASSUME NEW v \in Worker
            PROVE  wpc[v] \in {"taken", "running", "ran"} => cur[v] \in Job /\ job'[cur[v]] = job[cur[v]]
        <4>1. j \notin InHand(v)
          BY <2>1, OnlyHere, HeldAreJobs
        <4> QED
          BY <2>5, <4>1, HeldAreJobs DEF InHand, IInv, JobsAreOnce
      <3>2. \A v \in Worker : Held(v)' \subseteq tracked'
        BY <2>2, <2>3 DEF IInv, StagesAgree
      <3>3. \A v \in Worker : \A i \in JobsIn(queue'[v]) : job'[i] = "queued"
        BY <2>3, <2>5 DEF IInv, StagesAgree, JobsIn
      <3> QED
        BY <1>3, <3>1, <3>2, <3>3 DEF IInv, StagesAgree
    <2>12. PendingRight'
      <3>1. \A v \in Worker : wpc[v] # "draining" => Held(v)' = Held(v)
        <4>1. \A v \in Worker \ {w} : j \notin Held(v)
          BY <2>1, OnlyHere
        <4> QED
          BY <1>1, <2>3, <4>1
      <3> QED
        BY <1>3, <3>1 DEF IInv, PendingRight
    <2>13. BusyIsRegistered'
      BY <1>3, <2>3 DEF IInv, BusyIsRegistered
    <2> QED
      BY <1>5, <2>7, <2>8, <2>9, <2>10, <2>11, <2>12, <2>13 DEF IInv
  <1> QED
    BY <1>6, <1>7

-----------------------------------------------------------------------------
(* The pool's counts are the jobs it holds, a job is in one place, and a    *)
(* worker that may still run a job is the registered one of its store,      *)
(* whatever retires, dies, is refused a thread or is abandoned.             *)
THEOREM Invariance == Spec => []IInv
  <1>1. IInv /\ [Next]_vars => IInv'
    <2> SUFFICES ASSUME IInv, [Next]_vars PROVE IInv'
      OBVIOUS
    <2>1. ASSUME NEW j \in Job, Submit(j) \/ SubmitCreating(j) \/ SubmitRefused(j) PROVE IInv'
      BY <2>1, SubmitKeeps, SubmitCreatingKeeps, SubmitRefusedKeeps
    <2>2. ASSUME NEW w \in Worker, Step(w) PROVE IInv'
      BY <2>2, TakeKeeps, StartKeeps, JobFinishedKeeps, FinishHandleKeeps, ExitKeeps, DropJobKeeps, PollKeeps
         DEF Step
    <2>3. ASSUME NEW w \in Worker, Poll(w) \/ Die(w) PROVE IInv'
      BY <2>3, PollKeeps
    <2>4. ASSUME NEW o \in Owner, BeginClose(o) \/ Drained(o) \/ Abandon(o) PROVE IInv'
      BY <2>4, CloseKeeps
    <2>5. CASE StopAll
      BY <2>5, StopAllKeeps
    <2>6. CASE UNCHANGED vars
      <3>1. Quiet
        BY <2>6 DEF vars, Quiet, IInv, JobsAreOnce
      <3>2. TypeOK' /\ WorkersMade'
        BY <2>6 DEF vars, IInv, TypeOK, WorkersMade, Registered
      <3>3. PendingRight' /\ BusyIsRegistered' /\ ClosedIsMarked'
        BY <2>6, <3>1, QuietKeeps, GraphPoolAssumption
           DEF vars, IInv, PendingRight, BusyIsRegistered, ClosedIsMarked
      <3> QED
        BY <3>1, <3>2, <3>3, QuietKeeps DEF IInv
    <2> QED
      BY <2>1, <2>2, <2>3, <2>4, <2>5, <2>6 DEF Next
  <1> QED
    BY InitKeeps, <1>1, PTL DEF Spec

(* Until exit no two jobs of a store run together, whatever workers retire, *)
(* die, are replaced or drain meanwhile.                                    *)
THEOREM OneWriter == Spec => []OneWriterPerStore
  BY Invariance, IInvIsOneWriter, PTL

(* Once close() has returned, no job of the client starts: the ones it left *)
(* waiting are marked until the last of them is gone.                       *)
THEOREM ClosedStartsNothing == Spec => NoStartAfterClose
  <1> DEFINE Quits == \A j \in Job : (job[j] # "running" /\ job'[j] = "running") => client[JobOwner[j]] # "closed"
  <1>1. ASSUME IInv, [Next]_vars PROVE Quits
    <2> SUFFICES ASSUME NEW j \in Job, job[j] # "running", job'[j] = "running"
                 PROVE  client[JobOwner[j]] # "closed"
      OBVIOUS
    <2>1. PICK w \in Worker : Start(w)
      <3>1. ASSUME NEW i \in Job, Submit(i) \/ SubmitCreating(i) \/ SubmitRefused(i) PROVE FALSE
        <4>1. \/ job' = [job EXCEPT ![i] = "queued"] \/ job' = [job EXCEPT ![i] = "refused"]
          BY <3>1 DEF Submit, SubmitCreating, SubmitRefused, Enqueue
        <4> QED
          BY <1>1, <4>1 DEF IInv, TypeOK
      <3>2. ASSUME NEW w \in Worker, Step(w), ~Start(w) PROVE FALSE
        <4>1. \/ UNCHANGED job
              \/ \E i \in Job \cup {STOP, None} :
                    \/ job' = [job EXCEPT ![i] = "dropped"]
                    \/ job' = [job EXCEPT ![i] = IF @ = "running" THEN "ran" ELSE @]
          <5>1. cur[w] \in Job \cup {None}
            BY <1>1 DEF IInv, TypeOK
          <5>2. queue[w] # <<>> => Head(queue[w]) \in Job \cup {STOP}
            BY <1>1 DEF IInv, TypeOK
          <5>3. CASE JobFinished(w)
            BY <5>1, <5>3 DEF JobFinished
          <5>4. CASE DropJob(w)
            BY <5>2, <5>4 DEF DropJob
          <5> QED
            BY <3>2, <5>3, <5>4 DEF Step, Take, FinishHandle, WorkerExited, Gone, RetireIfIdle
        <4> QED
          BY <1>1, <4>1 DEF IInv, TypeOK
      <3>3. ASSUME NEW w \in Worker, Poll(w) \/ Die(w) PROVE FALSE
        BY <3>3 DEF Poll, Die
      <3>4. ASSUME NEW o \in Owner, BeginClose(o) \/ Drained(o) \/ Abandon(o) PROVE FALSE
        BY <3>4 DEF BeginClose, Drained, Abandon
      <3>5. ~StopAll /\ ~UNCHANGED vars
        BY DEF StopAll, vars
      <3> QED
        BY <1>1, <3>1, <3>2, <3>3, <3>4, <3>5 DEF Next
    <2>2. /\ wpc[w] = "taken" /\ cur[w] \in Job /\ job[cur[w]] = "queued" /\ cur[w] \in Held(w)
          /\ JobOwner[cur[w]] \in Owner
      BY <1>1, <2>1, HeldAreJobs, GraphPoolAssumption DEF Start, IInv, StagesAgree
    <2>3. j = cur[w] /\ JobOwner[cur[w]] \notin abandoned
      BY <1>1, <2>1, <2>2 DEF Start, IInv, TypeOK
    <2>4. j \in HeldOf(JobOwner[j])
      BY <1>1, <2>2, <2>3, OwnersHeld
    <2> QED
      BY <1>1, <2>2, <2>3, <2>4 DEF IInv, ClosedIsMarked
  <1> QED
    BY Invariance, <1>1, PTL DEF Spec, NoStartAfterClose
=============================================================================
