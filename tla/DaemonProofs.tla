---------------------------- MODULE DaemonProofs ----------------------------
(***************************************************************************)
(* Proofs about the daemon and the long operations it runs.                *)
(* DaemonService, for any processes, pids used again, clients and          *)
(* installations: one daemon at a time accepts calls and can be found, and *)
(* no call is cut off by a drain or applied more often than its attempts   *)
(* allow.  DaemonLane, for any jobs, tenants and budgets: the lane is      *)
(* neither free under a body nor idle with a job waiting, and nothing      *)
(* starts once the shutdown drains.  Namespaces, for any rows, batches,    *)
(* tenants and kills: no row is lost between the two namespaces of a move, *)
(* and a finished move left only what it skipped.  Maintenance, for any    *)
(* places, checkouts, pages and windows: verdicts stand on evidence, decay *)
(* is even, and a success is stamped only once every row was checked.      *)
(***************************************************************************)
EXTENDS DaemonService, DaemonLane, Namespaces, Maintenance, FiniteSetTheorems, WellFoundedInduction, TLAPS

-----------------------------------------------------------------------------
(* The parts of the invariant, one client or one half at a time *)

(* A client knows the daemon it talks to, or waits for. *)
Partner(r) ==
    /\ r.pc \in Talking => r.info \in Proc
    /\ r.pc = "awaiting" => r.spawned \in Proc

(* What AppliedInAttempt and AppliedOnce say of client c in state r. *)
Counted(c, r) ==
    /\ r.pc \notin {"applied", "listing", "done", "failed"} => r.applied < r.attempt
    /\ r.pc \in {"applied", "listing"} => r.applied <= r.attempt
    /\ r.pc = "listing" => c \in Lists
    /\ r.applied = 1 /\ r.pc \notin {"applied", "listing", "done", "failed"}
           => c \in Replayable \cup Lists
    /\ r.applied <= IF c \in Replayable \cup Lists THEN 2 ELSE 1

(* The half about the processes, and the half about calls in flight. *)
LifeInv == PidsReused /\ ClaimIsLocked /\ ClaimIsAlone /\ OneFindable

FlightInv == InFlightIsWaited /\ DrainShutsDoor /\ DrainExitIsShut

LEMMA InvParts ==
    /\ IInv <=> /\ TypeOK /\ LifeInv /\ FlightInv
                /\ \A c \in Client : Partner(client[c]) /\ Counted(c, client[c])
    /\ IInv' <=> /\ TypeOK' /\ LifeInv' /\ FlightInv'
                 /\ \A c \in Client : Partner(client'[c]) /\ Counted(c, client'[c])
  BY DEF IInv, LifeInv, FlightInv, PartnerKnown, AppliedInAttempt, AppliedOnce, Partner, Counted

(* A step that moves client c and no other. *)
Moves(c) ==
    /\ client' \in [Client -> ClientState]
    /\ \A x \in Client \ {c} : client'[x] = client[x]
    /\ Partner(client'[c]) /\ Counted(c, client'[c])

LEMMA ClientMoves ==
    ASSUME IInv, NEW c \in Client, Moves(c)
    PROVE  \A x \in Client : Partner(client'[x]) /\ Counted(x, client'[x])
  <1>1. \A x \in Client : Partner(client[x]) /\ Counted(x, client[x])
    BY InvParts
  <1> QED
    BY <1>1 DEF Moves

(* A step that changes no phase of a process. *)
LEMMA PhasesStay ==
    ASSUME IInv, UNCHANGED <<disc, lock>>, \A d \in Proc : daemon'[d].pc = daemon[d].pc
    PROVE  LifeInv'
  <1>1. \A d \in Proc : Listening(d)' <=> Listening(d)
    BY DEF Listening
  <1> QED
    BY <1>1 DEF IInv, LifeInv, PidsReused, ClaimIsLocked, ClaimIsAlone, OneFindable,
                OneAccepting, RecordKept

(* A step that puts no call in flight, and opens no door over one. *)
LEMMA NoneTakesOff ==
    ASSUME IInv, TypeOK',
           \A d \in Proc : \A x \in daemon'[d].inFlight :
               /\ x \in daemon[d].inFlight /\ client'[x].info = client[x].info
               /\ client'[x].pc \in {client[x].pc, "applied"},
           \A d \in Proc : daemon'[d].inFlight # {} => daemon'[d].draining = daemon[d].draining,
           \A d \in Proc : daemon'[d].exit = "drain" => daemon'[d].draining /\ daemon'[d].inFlight = {}
    PROVE  FlightInv'
  <1>1. \A d \in Proc : daemon'[d].inFlight \subseteq Client
    BY DEF TypeOK, DaemonState
  <1>2. InFlightIsWaited'
    BY <1>1 DEF IInv, InFlightIsWaited
  <1>3. \A d \in Proc : Drains(d)' \subseteq Drains(d)
    BY DEF Drains
  <1>4. \A d \in Proc : Drains(d)' # {} => daemon'[d].inFlight # {}
    BY DEF Drains
  <1>5. DrainShutsDoor'
    BY <1>3, <1>4 DEF IInv, DrainShutsDoor
  <1>6. DrainExitIsShut'
    BY DEF DrainExitIsShut
  <1> QED
    BY <1>2, <1>5, <1>6 DEF FlightInv

(* A client whose call is not in flight moves; the processes do not. *)
Grounded(c) == \A d \in Proc : c \notin daemon[d].inFlight

LEMMA GroundedIf ==
    ASSUME IInv, NEW c \in Client,
           client[c].pc \notin {"draining", "sent", "applied"} \/ c \notin daemon[client[c].info].inFlight
    PROVE  Grounded(c)
  BY DEF IInv, InFlightIsWaited, Grounded

LEMMA ClientOnly ==
    ASSUME IInv, NEW c \in Client, Moves(c), Grounded(c),
           UNCHANGED <<daemon, disc, key, lock>>
    PROVE  IInv'
  <1>1. /\ client' \in [Client -> ClientState]
        /\ \A x \in Client \ {c} : client'[x] = client[x]
    BY DEF Moves
  <1>2. TypeOK'
    BY <1>1 DEF IInv, TypeOK
  <1>3. LifeInv'
    BY PhasesStay
  <1>4. \A d \in Proc : \A x \in daemon'[d].inFlight : x \in daemon[d].inFlight /\ x \in Client \ {c}
    BY DEF IInv, TypeOK, DaemonState, Grounded
  <1>5. FlightInv'
    BY <1>1, <1>2, <1>4, NoneTakesOff DEF IInv, DrainExitIsShut
  <1> QED
    BY <1>2, <1>3, <1>5, ClientMoves, InvParts

(* A call that has ended, or that is tried once more. *)
LEMMA EndedIs ==
    ASSUME NEW s \in ClientState, NEW how \in ClientPhase
    PROVE  /\ Ended(s, how) \in ClientState
           /\ Ended(s, how).pc = how /\ Ended(s, how).applied = s.applied
  <1> DEFINE n == NewClient
  <1>1. n \in ClientState
    BY DEF NewClient, ClientState, ClientPhase, MaybeProc
  <1>2. Ended(s, how) = [n EXCEPT !.pc = how, !.applied = s.applied]
    BY DEF Ended
  <1> HIDE DEF n
  <1> QED
    BY <1>1, <1>2 DEF ClientState

Again(s) == [Ended(s, "attach") EXCEPT !.attempt = 2, !.instance = s.instance]

LEMMA AgainIs ==
    ASSUME NEW s \in ClientState
    PROVE  /\ Again(s) \in ClientState
           /\ Again(s).pc = "attach" /\ Again(s).attempt = 2 /\ Again(s).applied = s.applied
  <1> DEFINE n == Ended(s, "attach")
  <1>1. n \in ClientState /\ n.pc = "attach" /\ n.applied = s.applied
    BY EndedIs DEF ClientPhase
  <1>2. Again(s) = [n EXCEPT !.attempt = 2, !.instance = s.instance]
    BY DEF Again
  <1> HIDE DEF n
  <1> QED
    BY <1>1, <1>2 DEF ClientState

LEMMA Endings ==
    ASSUME IInv, NEW c \in Client
    PROVE  /\ \A how \in {"failed", "done"} :
                  /\ Ended(client[c], how) \in ClientState
                  /\ Partner(Ended(client[c], how)) /\ Counted(c, Ended(client[c], how))
           /\ /\ client[c].attempt = 1 /\ client[c].pc \notin {"failed", "done"}
              /\ c \in Replayable \cup Lists \/ client[c].applied = 0
              => /\ Again(client[c]) \in ClientState
                 /\ Partner(Again(client[c])) /\ Counted(c, Again(client[c]))
  <1> DEFINE s == client[c]
  <1>1. s \in ClientState /\ Counted(c, s)
    BY InvParts DEF TypeOK
  <1> HIDE DEF s
  <1>2. ASSUME NEW how \in {"failed", "done"}
        PROVE  /\ Ended(s, how) \in ClientState
               /\ Partner(Ended(s, how)) /\ Counted(c, Ended(s, how))
    <2>1. /\ Ended(s, how) \in ClientState
          /\ Ended(s, how).pc = how /\ Ended(s, how).applied = s.applied
      BY <1>1, EndedIs DEF ClientPhase
    <2> QED
      BY <1>1, <2>1 DEF Partner, Counted, Talking, ClientState
  <1>3. ASSUME s.attempt = 1, s.pc \notin {"failed", "done"}, c \in Replayable \cup Lists \/ s.applied = 0
        PROVE  Again(s) \in ClientState /\ Partner(Again(s)) /\ Counted(c, Again(s))
    <2>1. /\ Again(s) \in ClientState
          /\ Again(s).pc = "attach" /\ Again(s).attempt = 2 /\ Again(s).applied = s.applied
      BY <1>1, AgainIs
    <2>2. s.applied \in Nat /\ s.applied <= 1
      BY <1>1, <1>3 DEF Counted, ClientState
    <2> QED
      BY <1>1, <1>3, <2>1, <2>2 DEF Partner, Counted, Talking
  <1> QED
    BY <1>2, <1>3 DEF s

LEMMA UpdateMoves ==
    ASSUME IInv, NEW c \in Client, NEW r \in ClientState, Partner(r), Counted(c, r),
           client' = [client EXCEPT ![c] = r]
    PROVE  Moves(c) /\ client'[c] = r
  <1>1. client \in [Client -> ClientState]
    BY DEF IInv, TypeOK
  <1> QED
    BY <1>1 DEF Moves

LEMMA ClientKnown ==
    ASSUME IInv, NEW c \in Client
    PROVE  /\ client \in [Client -> ClientState] /\ client[c] \in ClientState
           /\ Partner(client[c]) /\ Counted(c, client[c])
           /\ key \in MaybeProc /\ NoProc \in MaybeProc
  BY InvParts DEF TypeOK, MaybeProc

LEMMA FailMoves ==
    ASSUME IInv, NEW c \in Client, Fail(c)
    PROVE  Moves(c) /\ client'[c].pc = "failed"
  <1> DEFINE r == Ended(client[c], "failed")
  <1>1. client' = [client EXCEPT ![c] = r] /\ client \in [Client -> ClientState]
    BY DEF Fail, IInv, TypeOK
  <1>2. r \in ClientState /\ Partner(r) /\ Counted(c, r) /\ r.pc = "failed"
    BY Endings, EndedIs DEF IInv, TypeOK, ClientPhase
  <1> HIDE DEF r
  <1> QED
    BY <1>1, <1>2 DEF Moves

LEMMA RetriedMoves ==
    ASSUME IInv, NEW c \in Client, Retried(c), client[c].pc \notin {"failed", "done"},
           c \in Replayable \cup Lists \/ client[c].applied = 0
    PROVE  Moves(c)
  <1>1. CASE client[c].attempt = 1
    <2> DEFINE r == Again(client[c])
    <2>1. client' = [client EXCEPT ![c] = r] /\ client \in [Client -> ClientState]
      BY <1>1 DEF Retried, Again, IInv, TypeOK
    <2>2. r \in ClientState /\ Partner(r) /\ Counted(c, r)
      BY <1>1, Endings
    <2> HIDE DEF r
    <2> QED
      BY <2>1, <2>2 DEF Moves
  <1>2. CASE client[c].attempt # 1
    BY <1>2, FailMoves DEF Retried
  <1> QED
    BY <1>1, <1>2

LEMMA AttachedMoves ==
    ASSUME IInv, NEW c \in Client, NEW d \in Proc, Attached(c, d), client[c].pc \in {"attach", "awaiting"}
    PROVE  Moves(c)
  <1>1. CASE Fail(c)
    BY <1>1, FailMoves
  <1>2. CASE client' = [client EXCEPT ![c] = [@ EXCEPT !.pc = "call", !.info = d, !.spawned = NoProc,
                                                       !.tried = FALSE, !.adminKey = NoProc]]
    <2> DEFINE s == client[c]
               r == [s EXCEPT !.pc = "call", !.info = d, !.spawned = NoProc,
                              !.tried = FALSE, !.adminKey = NoProc]
    <2>1. client \in [Client -> ClientState] /\ s \in ClientState /\ Counted(c, s) /\ s.pc \in {"attach", "awaiting"}
      BY InvParts DEF TypeOK
    <2>2. client' = [client EXCEPT ![c] = r]
      BY <1>2, <2>1
    <2> HIDE DEF s
    <2>3. /\ r \in ClientState /\ r.pc = "call" /\ r.info = d
          /\ r.applied = s.applied /\ r.attempt = s.attempt
      BY <2>1 DEF ClientState, ClientPhase, Talking, MaybeProc
    <2> HIDE DEF r
    <2>4. Partner(r) /\ Counted(c, r)
      BY <2>1, <2>3 DEF Partner, Counted
    <2> QED
      BY <2>1, <2>2, <2>3, <2>4 DEF Moves
  <1> QED
    BY <1>1, <1>2 DEF Attached

-----------------------------------------------------------------------------
(* The client's steps on its own *)

LEMMA RecordIsProc ==
    ASSUME IInv, LiveRecord # NoProc, LiveRecord # Invalid
    PROVE  LiveRecord \in Proc
  BY DEF IInv, TypeOK, LiveRecord, MaybeProc

LEMMA CallToolKept ==
    ASSUME IInv, NEW c \in Client, CallTool(c)
    PROVE  IInv'
  <1>1. PICK p \in {NoProc} \cup (IF c \in Pinned THEN {disc} \cap Proc ELSE {}) :
            client' = [client EXCEPT ![c] = [@ EXCEPT !.pc = "attach", !.instance = p]]
    BY DEF CallTool
  <1> DEFINE s == client[c]
             r == [s EXCEPT !.pc = "attach", !.instance = p]
  <1>2. s \in ClientState /\ Counted(c, s) /\ s.pc = "idle" /\ p \in MaybeProc
    BY ClientKnown DEF CallTool, MaybeProc
  <1>3. client' = [client EXCEPT ![c] = r]
    BY <1>1, ClientKnown
  <1> HIDE DEF s
  <1>4. r \in ClientState /\ r.pc = "attach" /\ r.applied = s.applied /\ r.attempt = s.attempt
    BY <1>2 DEF ClientState, ClientPhase
  <1> HIDE DEF r
  <1>5. Partner(r) /\ Counted(c, r)
    BY <1>2, <1>4 DEF Partner, Counted, Talking
  <1>6. Moves(c)
    BY <1>3, <1>4, <1>5, UpdateMoves
  <1> QED
    BY <1>6, ClientOnly, GroundedIf DEF CallTool

LEMMA AttachKept ==
    ASSUME IInv, NEW c \in Client, Attach(c)
    PROVE  IInv'
  <1>1. client[c].pc = "attach" /\ LiveRecord # NoProc /\ UNCHANGED <<daemon, disc, key, lock>>
    BY DEF Attach
  <1>2. CASE LiveRecord = Invalid
    BY <1>2, FailMoves, <1>1, ClientOnly, GroundedIf DEF Attach
  <1>3. CASE LiveRecord # Invalid /\ MayReplace(c, LiveRecord)
    <2> DEFINE s == client[c]
               r == [s EXCEPT !.pc = "replace", !.info = LiveRecord]
    <2>1. s \in ClientState /\ Counted(c, s) /\ s.pc = "attach" /\ LiveRecord \in Proc
      BY <1>1, <1>3, ClientKnown, RecordIsProc
    <2>2. client' = [client EXCEPT ![c] = r]
      BY <1>3, ClientKnown DEF Attach
    <2> HIDE DEF s
    <2>3. /\ r \in ClientState /\ r.pc = "replace" /\ r.info = LiveRecord
          /\ r.applied = s.applied /\ r.attempt = s.attempt
      BY <2>1 DEF ClientState, ClientPhase, Talking, MaybeProc
    <2> HIDE DEF r
    <2>4. Partner(r) /\ Counted(c, r)
      BY <2>1, <2>3 DEF Partner, Counted
    <2>5. Moves(c)
      BY <2>2, <2>3, <2>4, UpdateMoves
    <2> QED
      BY <1>1, <2>5, ClientOnly, GroundedIf
  <1>4. CASE LiveRecord # Invalid /\ ~MayReplace(c, LiveRecord)
    BY <1>1, <1>4, RecordIsProc, AttachedMoves, ClientOnly, GroundedIf DEF Attach
  <1> QED
    BY <1>2, <1>3, <1>4

LEMMA SpawnFailsKept ==
    ASSUME IInv, NEW c \in Client, SpawnFails(c)
    PROVE  IInv'
  BY FailMoves, ClientOnly, GroundedIf DEF SpawnFails

LEMMA PollKept ==
    ASSUME IInv, NEW c \in Client, Poll(c)
    PROVE  IInv'
  <1>1. /\ client[c].pc = "awaiting" /\ LiveRecord # NoProc /\ UNCHANGED <<daemon, disc, key, lock>>
        /\ IF LiveRecord = Invalid THEN Fail(c) ELSE Attached(c, LiveRecord)
    BY DEF Poll
  <1>2. Moves(c)
    BY <1>1, RecordIsProc, FailMoves, AttachedMoves
  <1> QED
    BY <1>1, <1>2, ClientOnly, GroundedIf

LEMMA ReadDrainKeyKept ==
    ASSUME IInv, NEW c \in Client, ReadDrainKey(c)
    PROVE  IInv'
  <1>1. client[c].pc = "replace" /\ UNCHANGED <<daemon, disc, key, lock>>
    BY DEF ReadDrainKey
  <1>2. CASE Fail(c)
    BY <1>1, <1>2, FailMoves, ClientOnly, GroundedIf
  <1>3. CASE client' = [client EXCEPT ![c] = [@ EXCEPT !.pc = "asking", !.adminKey = key]]
    <2> DEFINE s == client[c]
               r == [s EXCEPT !.pc = "asking", !.adminKey = key]
    <2>1. s \in ClientState /\ Counted(c, s) /\ Partner(s) /\ s.pc = "replace" /\ key \in MaybeProc
      BY <1>1, ClientKnown
    <2>2. client' = [client EXCEPT ![c] = r]
      BY <1>3, ClientKnown
    <2> HIDE DEF s
    <2>3. /\ r \in ClientState /\ r.pc = "asking" /\ r.info = s.info
          /\ r.applied = s.applied /\ r.attempt = s.attempt
      BY <2>1 DEF ClientState, ClientPhase, Talking
    <2> HIDE DEF r
    <2>4. Partner(r) /\ Counted(c, r)
      BY <2>1, <2>3 DEF Partner, Counted, Talking
    <2>5. Moves(c)
      BY <2>2, <2>3, <2>4, UpdateMoves
    <2> QED
      BY <1>1, <2>5, ClientOnly, GroundedIf
  <1> QED
    BY <1>2, <1>3 DEF ReadDrainKey

LEMMA UnansweredMoves ==
    ASSUME IInv, NEW c \in Client, Unanswered(c), client[c].pc \in {"asking", "draining"}
    PROVE  Moves(c)
  <1> DEFINE s == client[c]
             r == [s EXCEPT !.pc = "withdrawing", !.adminKey = NoProc]
  <1>1. s \in ClientState /\ Counted(c, s) /\ Partner(s) /\ s.pc \in {"asking", "draining"} /\ NoProc \in MaybeProc
    BY ClientKnown
  <1>2. client' = [client EXCEPT ![c] = r]
    BY ClientKnown DEF Unanswered
  <1> HIDE DEF s
  <1>3. /\ r \in ClientState /\ r.pc = "withdrawing" /\ r.info = s.info
        /\ r.applied = s.applied /\ r.attempt = s.attempt
    BY <1>1 DEF ClientState, ClientPhase, Talking
  <1> HIDE DEF r
  <1>4. Partner(r) /\ Counted(c, r)
    BY <1>1, <1>3 DEF Partner, Counted, Talking
  <1> QED
    BY <1>2, <1>3, <1>4, UpdateMoves

LEMMA DrainUnheardKept ==
    ASSUME IInv, NEW c \in Client, DrainUnheard(c)
    PROVE  IInv'
  BY UnansweredMoves, ClientOnly, GroundedIf DEF DrainUnheard

LEMMA DrainLostKept ==
    ASSUME IInv, NEW c \in Client, DrainLost(c)
    PROVE  IInv'
  BY UnansweredMoves, ClientOnly, GroundedIf DEF DrainLost

LEMMA WithdrawnKept ==
    ASSUME IInv, NEW c \in Client, Withdrawn(c)
    PROVE  IInv'
  <1> DEFINE s == client[c]
             r == [s EXCEPT !.pc = "attach", !.tried = TRUE, !.info = NoProc]
  <1>1. s \in ClientState /\ Counted(c, s) /\ s.pc = "withdrawing" /\ NoProc \in MaybeProc
    BY ClientKnown DEF Withdrawn
  <1>2. client' = [client EXCEPT ![c] = r]
    BY ClientKnown DEF Withdrawn
  <1> HIDE DEF s
  <1>3. r \in ClientState /\ r.pc = "attach" /\ r.applied = s.applied /\ r.attempt = s.attempt
    BY <1>1 DEF ClientState, ClientPhase
  <1> HIDE DEF r
  <1>4. Partner(r) /\ Counted(c, r)
    BY <1>1, <1>3 DEF Partner, Counted, Talking
  <1>5. Moves(c)
    BY <1>2, <1>3, <1>4, UpdateMoves
  <1> QED
    BY <1>5, ClientOnly, GroundedIf DEF Withdrawn

LEMMA NotWithdrawnKept ==
    ASSUME IInv, NEW c \in Client, NotWithdrawn(c)
    PROVE  IInv'
  BY FailMoves, ClientOnly, GroundedIf DEF NotWithdrawn

LEMMA ConnectKept ==
    ASSUME IInv, NEW c \in Client, Connect(c)
    PROVE  IInv'
  <1>1. /\ client \in [Client -> ClientState] /\ Counted(c, client[c]) /\ Partner(client[c])
        /\ client[c].pc = "call" /\ client' = [client EXCEPT ![c].pc = "posted"]
    BY InvParts DEF TypeOK, Connect
  <1>2. /\ client' \in [Client -> ClientState]
        /\ \A x \in Client \ {c} : client'[x] = client[x]
        /\ client'[c].pc = "posted" /\ client'[c].info = client[c].info
        /\ client'[c].applied = client[c].applied /\ client'[c].attempt = client[c].attempt
    BY <1>1 DEF ClientState, ClientPhase, Talking
  <1>3. Moves(c)
    BY <1>1, <1>2 DEF Moves, Partner, Counted, Talking
  <1> QED
    BY <1>1, <1>3, ClientOnly, GroundedIf DEF Connect

(* What was not sent was not applied in this attempt. *)
LEMMA NeverSentKept ==
    ASSUME IInv, NEW c \in Client, NeverSent(c)
    PROVE  IInv'
  <1>1. client[c].pc \in {"call", "posted"} /\ Retried(c) /\ UNCHANGED <<daemon, disc, key, lock>>
    BY DEF NeverSent
  <1>2. client[c].attempt = 1 => client[c].applied = 0
    BY <1>1, InvParts DEF TypeOK, ClientState, Counted
  <1>3. Moves(c)
    BY <1>1, <1>2, RetriedMoves, FailMoves DEF Retried
  <1> QED
    BY <1>1, <1>3, ClientOnly, GroundedIf

LEMMA LostKept ==
    ASSUME IInv, NEW c \in Client, Lost(c)
    PROVE  IInv'
  <1>1. /\ client[c].pc \in {"posted", "sent", "applied"} /\ UNCHANGED <<daemon, disc, key, lock>>
        /\ (c \in Replayable /\ Retried(c)) \/ Fail(c)
        /\ client[c].pc = "posted" \/ c \notin daemon[client[c].info].inFlight
    BY DEF Lost, RetriedIfReplayable
  <1>2. Moves(c)
    BY <1>1, RetriedMoves, FailMoves
  <1> QED
    BY <1>1, <1>2, ClientOnly, GroundedIf

LEMMA ListToolsKept ==
    ASSUME IInv, NEW c \in Client, ListTools(c)
    PROVE  IInv'
  <1>1. client[c].pc = "listing" /\ UNCHANGED <<daemon, disc, key, lock>>
    BY DEF ListTools
  <1>2. c \in Lists
    BY <1>1, InvParts DEF Counted
  <1>3. CASE client' = [client EXCEPT ![c] = Ended(@, "done")]
    <2> DEFINE r == Ended(client[c], "done")
    <2>1. client' = [client EXCEPT ![c] = r] /\ client \in [Client -> ClientState]
      BY <1>3 DEF IInv, TypeOK
    <2>2. r \in ClientState /\ Partner(r) /\ Counted(c, r)
      BY Endings
    <2> HIDE DEF r
    <2>3. Moves(c)
      BY <2>1, <2>2 DEF Moves
    <2> QED
      BY <1>1, <2>3, ClientOnly, GroundedIf
  <1>4. CASE Retried(c) \/ Fail(c)
    <2>1. Moves(c)
      BY <1>1, <1>2, <1>4, RetriedMoves, FailMoves
    <2> QED
      BY <1>1, <2>1, ClientOnly, GroundedIf
  <1> QED
    BY <1>3, <1>4 DEF ListTools, RetriedIfReplayable

-----------------------------------------------------------------------------
(* The steps of a process *)

LEMMA DaemonUpdate ==
    ASSUME IInv, NEW d \in Proc, NEW q \in DaemonState, daemon' = [daemon EXCEPT ![d] = q]
    PROVE  /\ daemon' \in [Proc -> DaemonState] /\ daemon'[d] = q
           /\ \A e \in Proc \ {d} : daemon'[e] = daemon[e]
  BY DEF IInv, TypeOK

LEMMA DaemonKnown ==
    ASSUME IInv, NEW d \in Proc
    PROVE  /\ daemon \in [Proc -> DaemonState] /\ daemon[d] \in DaemonState
           /\ disc \in MaybeProc \cup {Invalid} /\ key \in MaybeProc /\ lock \in MaybeProc
           /\ daemon[d].exit = "drain" => daemon[d].draining /\ daemon[d].inFlight = {}
           /\ lock = d <=> daemon[d].pc = "checked"
           /\ d # NoProc /\ d # Invalid
  BY DaemonServiceAssumption DEF IInv, TypeOK, DrainExitIsShut, ClaimIsLocked

LEMMA GoneIs ==
    /\ Gone \in DaemonState /\ Gone.pc = "gone" /\ Gone.exit = "no" /\ Gone.inFlight = {}
    /\ \A n \in Nat : LET q == [Gone EXCEPT !.pc = "released", !.version = n] IN
                      q \in DaemonState /\ q.pc = "released" /\ q.exit = "no" /\ q.inFlight = {}
  <1>1. /\ Gone \in DaemonState /\ Gone.pc = "gone" /\ Gone.exit = "no" /\ Gone.inFlight = {}
    <2> DEFINE n == NewDaemon
    <2>1. n \in DaemonState /\ n.exit = "no" /\ n.inFlight = {}
      BY DEF NewDaemon, DaemonState, DaemonPhase
    <2>2. Gone = [n EXCEPT !.pc = "gone"]
      BY DEF Gone
    <2> HIDE DEF n
    <2> QED
      BY <2>1, <2>2 DEF DaemonState, DaemonPhase
  <1> QED
    BY <1>1 DEF DaemonState, DaemonPhase

(* A process that is running takes no pid from another. *)
LEMMA Onward ==
    ASSUME IInv, NEW d \in Proc, daemon[d].pc \notin {"none", "gone"}, daemon'[d].pc # "none",
           \A e \in Proc \ {d} : daemon'[e].pc = daemon[e].pc
    PROVE  PidsReused'
  BY DEF IInv, PidsReused

(* A process that stops listening, or dies, with its claim and its record. *)
LEMMA Quits ==
    ASSUME IInv, NEW d \in Proc, daemon[d].pc \notin {"none", "gone"},
           daemon'[d].pc \in {"closing", "released", "gone"},
           \A e \in Proc \ {d} : daemon'[e].pc = daemon[e].pc,
           \/ lock # d /\ lock' = lock
           \/ lock = d /\ lock' = NoProc,
           \/ disc' = disc
           \/ disc = d /\ disc' = NoProc
    PROVE  LifeInv'
  <1>1. PidsReused'
    BY Onward
  <1>2. ClaimIsLocked'
    BY DaemonServiceAssumption DEF IInv, ClaimIsLocked
  <1>3. \A e \in Proc : Listening(e)' => e # d /\ Listening(e)
    BY DEF Listening
  <1>4. ClaimIsAlone'
    BY <1>3 DEF IInv, ClaimIsAlone
  <1>5. OneAccepting'
    BY <1>3 DEF IInv, OneFindable, OneAccepting
  <1>6. RecordKept'
    BY <1>3, DaemonServiceAssumption DEF IInv, OneFindable, RecordKept
  <1> QED
    BY <1>1, <1>2, <1>4, <1>5, <1>6 DEF LifeInv, OneFindable

(* A process moves and no client does. *)
LEMMA DaemonOnly ==
    ASSUME IInv, NEW d \in Proc, NEW q \in DaemonState, daemon' = [daemon EXCEPT ![d] = q],
           UNCHANGED client, q.inFlight \subseteq daemon[d].inFlight,
           q.inFlight # {} => q.draining = daemon[d].draining,
           q.exit = "drain" => q.draining /\ q.inFlight = {},
           disc' \in MaybeProc \cup {Invalid}, key' \in MaybeProc, lock' \in MaybeProc, LifeInv'
    PROVE  IInv'
  <1>1. /\ daemon' \in [Proc -> DaemonState] /\ daemon'[d] = q
        /\ \A e \in Proc \ {d} : daemon'[e] = daemon[e]
    BY DaemonUpdate
  <1>2. TypeOK'
    BY <1>1 DEF IInv, TypeOK
  <1>3. \A e \in Proc : daemon'[e].inFlight \subseteq daemon[e].inFlight
    BY <1>1
  <1>4. \A e \in Proc : daemon'[e].inFlight # {} => daemon'[e].draining = daemon[e].draining
    BY <1>1
  <1>5. \A e \in Proc : daemon'[e].exit = "drain" => daemon'[e].draining /\ daemon'[e].inFlight = {}
    BY <1>1 DEF IInv, DrainExitIsShut
  <1>6. FlightInv'
    BY <1>2, <1>3, <1>4, <1>5, NoneTakesOff
  <1> QED
    BY <1>2, <1>6, InvParts

(* A process ends at once. *)
LEMMA GoneKept ==
    ASSUME IInv, NEW d \in Proc, daemon[d].pc \notin {"none", "gone"},
           daemon' = [daemon EXCEPT ![d] = Gone],
           \/ lock # d /\ lock' = lock
           \/ lock = d /\ lock' = NoProc,
           \/ disc' = disc
           \/ disc = d /\ disc' = NoProc,
           UNCHANGED <<key, client>>
    PROVE  IInv'
  <1>1. LifeInv'
    BY GoneIs, DaemonUpdate, Quits
  <1>2. disc' \in MaybeProc \cup {Invalid} /\ key' \in MaybeProc /\ lock' \in MaybeProc
    BY DaemonKnown DEF MaybeProc
  <1> QED
    BY <1>1, <1>2, GoneIs, DaemonOnly

(* Whoever passes the check of the record meets no daemon that listens. *)
LEMMA ClaimKept ==
    ASSUME IInv, NEW d \in Proc, Claim(d)
    PROVE  IInv'
  <1>1. daemon[d].pc = "starting" /\ lock = NoProc /\ UNCHANGED <<key, client>>
    BY DEF Claim
  <1>2. CASE ClaimBlocked(d)
    BY <1>1, <1>2, GoneKept, DaemonKnown DEF Claim
  <1>3. CASE ~ClaimBlocked(d)
    <2> DEFINE q == [daemon[d] EXCEPT !.pc = "checked"]
    <2>1. /\ daemon' = [daemon EXCEPT ![d] = q] /\ lock' = d
          /\ disc' = IF disc \in Proc /\ Pid(disc) # Pid(d) THEN NoProc ELSE disc
      BY <1>3, DaemonKnown DEF Claim
    <2>2. /\ q \in DaemonState /\ q.pc = "checked" /\ q.inFlight = daemon[d].inFlight
          /\ q.draining = daemon[d].draining /\ q.exit = daemon[d].exit
      BY DaemonKnown DEF DaemonState, DaemonPhase
    <2> HIDE DEF q
    <2>3. /\ daemon'[d] = q /\ \A e \in Proc \ {d} : daemon'[e] = daemon[e]
      BY <2>1, <2>2, DaemonUpdate
    <2>4. \A e \in Proc : ~Listening(e)
      <3> SUFFICES ASSUME NEW e \in Proc, Listening(e)
                   PROVE  FALSE
        OBVIOUS
      <3>1. disc = e
        BY <1>3 DEF IInv, OneFindable, RecordKept, ClaimBlocked, ClaimRefused
      <3>2. IsLive(e)
        BY DEF IsLive, Alive, Listening
      <3>3. Pid(e) = Pid(d)
        BY <1>3, <3>1, <3>2 DEF ClaimBlocked
      <3>4. daemon[e].pc \notin {"none", "gone", "starting"}
        BY DEF Listening
      <3>5. d \in Nat \X Nat /\ e \in Nat \X Nat
        BY DaemonServiceAssumption
      <3>6. OSStart(d) \in Nat /\ OSStart(e) \in Nat
        BY <3>5 DEF OSStart
      <3>7. ~(OSStart(d) < OSStart(e)) /\ ~(OSStart(e) < OSStart(d))
        BY <1>1, <3>3, <3>4 DEF IInv, PidsReused
      <3>8. d = e
        BY <3>3, <3>5, <3>6, <3>7 DEF Pid, OSStart
      <3> QED
        BY <1>1, <3>4, <3>8
    <2>5. \A e \in Proc : ~Listening(e)'
      BY <2>2, <2>3, <2>4 DEF Listening
    <2>6. PidsReused'
      BY <1>1, <2>2, <2>3, Onward
    <2>7. ClaimIsLocked'
      BY <1>1, <2>1, <2>2, <2>3, DaemonServiceAssumption DEF IInv, ClaimIsLocked
    <2>8. LifeInv'
      BY <2>5, <2>6, <2>7 DEF LifeInv, ClaimIsAlone, OneFindable, OneAccepting, RecordKept
    <2>9. disc' \in MaybeProc \cup {Invalid} /\ key' \in MaybeProc /\ lock' \in MaybeProc
      BY <1>1, <2>1, DaemonKnown DEF MaybeProc
    <2>10. q.exit = "drain" => q.draining /\ q.inFlight = {}
      BY <2>2, DaemonKnown
    <2> QED
      BY <1>1, <2>1, <2>2, <2>8, <2>9, <2>10, DaemonOnly
  <1> QED
    BY <1>2, <1>3

LEMMA PublishKept ==
    ASSUME IInv, NEW d \in Proc, Publish(d)
    PROVE  IInv'
  <1> DEFINE q == [daemon[d] EXCEPT !.pc = "claimed"]
  <1>1. /\ daemon[d].pc = "checked" /\ daemon' = [daemon EXCEPT ![d] = q]
        /\ key' = d /\ disc' = d /\ lock' = NoProc /\ lock = d /\ UNCHANGED client
    BY DaemonKnown DEF Publish
  <1>2. /\ q \in DaemonState /\ q.pc = "claimed" /\ q.inFlight = daemon[d].inFlight
        /\ q.draining = daemon[d].draining /\ q.exit = daemon[d].exit
    BY DaemonKnown DEF DaemonState, DaemonPhase
  <1> HIDE DEF q
  <1>3. /\ daemon'[d] = q /\ \A e \in Proc \ {d} : daemon'[e] = daemon[e]
    BY <1>1, <1>2, DaemonUpdate
  <1>4. \A e \in Proc : Listening(e)' => e = d
    BY <1>1, <1>2, <1>3 DEF IInv, ClaimIsAlone, Listening
  <1>5. PidsReused'
    BY <1>1, <1>2, <1>3, Onward
  <1>6. \A e \in Proc : daemon'[e].pc # "checked"
    BY <1>1, <1>2, <1>3 DEF IInv, ClaimIsLocked
  <1>7. LifeInv'
    BY <1>1, <1>4, <1>5, <1>6, DaemonServiceAssumption
       DEF LifeInv, ClaimIsLocked, ClaimIsAlone, OneFindable, OneAccepting, RecordKept
  <1>8. disc' \in MaybeProc \cup {Invalid} /\ key' \in MaybeProc /\ lock' \in MaybeProc
    BY <1>1 DEF MaybeProc
  <1>9. q.exit = "drain" => q.draining /\ q.inFlight = {}
    BY <1>2, DaemonKnown
  <1> QED
    BY <1>1, <1>2, <1>7, <1>8, <1>9, DaemonOnly

LEMMA BindFailsKept ==
    ASSUME IInv, NEW d \in Proc, BindFails(d)
    PROVE  IInv'
  <1>1. daemon[d].pc = "checked" /\ lock = d /\ lock' = NoProc /\ disc' = disc
    BY DaemonKnown DEF BindFails
  <1> QED
    BY <1>1, GoneKept DEF BindFails

(* A claimed or serving process goes on to serve, or to close. *)
LEMMA PhaseKept ==
    ASSUME IInv, NEW d \in Proc, NEW p \in {"serving", "closing"},
           daemon[d].pc = "claimed" \/ (daemon[d].pc = "serving" /\ p = "closing"),
           daemon' = [daemon EXCEPT ![d].pc = p], UNCHANGED <<disc, key, lock, client>>
    PROVE  IInv'
  <1> DEFINE q == [daemon[d] EXCEPT !.pc = p]
  <1>1. daemon' = [daemon EXCEPT ![d] = q]
    BY DaemonKnown
  <1>2. /\ q \in DaemonState /\ q.pc = p /\ q.inFlight = daemon[d].inFlight
        /\ q.draining = daemon[d].draining /\ q.exit = daemon[d].exit
    BY DaemonKnown DEF DaemonState, DaemonPhase
  <1> HIDE DEF q
  <1>3. /\ daemon'[d] = q /\ \A e \in Proc \ {d} : daemon'[e] = daemon[e]
    BY <1>1, <1>2, DaemonUpdate
  <1>4. q.exit = "drain" => q.draining /\ q.inFlight = {}
    BY <1>2, DaemonKnown
  <1>5. LifeInv'
    <2>1. CASE p = "closing"
      <3>1. lock # d
        BY DaemonKnown
      <3> QED
        BY <1>2, <1>3, <2>1, <3>1, Quits
    <2>2. CASE p = "serving"
      <3>1. PidsReused'
        BY <1>2, <1>3, <2>2, Onward
      <3>2. \A e \in Proc : (Listening(e)' <=> Listening(e)) /\ (daemon'[e].pc = "checked" <=> daemon[e].pc = "checked")
        BY <1>2, <1>3, <2>2 DEF Listening
      <3> QED
        BY <3>1, <3>2 DEF IInv, LifeInv, ClaimIsLocked, ClaimIsAlone, OneFindable, OneAccepting, RecordKept
    <2> QED
      BY <2>1, <2>2
  <1>6. disc' \in MaybeProc \cup {Invalid} /\ key' \in MaybeProc /\ lock' \in MaybeProc
    BY DaemonKnown
  <1> QED
    BY <1>1, <1>2, <1>4, <1>5, <1>6, DaemonOnly

LEMMA ServeKept ==
    ASSUME IInv, NEW d \in Proc, Serve(d)
    PROVE  IInv'
  <1>1. CASE daemon[d].exit = "no"
    BY <1>1, PhaseKept DEF Serve
  <1>2. CASE daemon[d].exit # "no"
    BY <1>2, PhaseKept DEF Serve
  <1> QED
    BY <1>1, <1>2

LEMMA ServeFailsKept ==
    ASSUME IInv, NEW d \in Proc, ServeFails(d)
    PROVE  IInv'
  BY PhaseKept DEF ServeFails

LEMMA ShutdownKept ==
    ASSUME IInv, NEW d \in Proc, Shutdown(d)
    PROVE  IInv'
  BY PhaseKept DEF Shutdown

(* A process is asked to exit: its phase and its calls stay. *)
LEMMA AskedStays ==
    ASSUME IInv, NEW d \in Proc, daemon' = [daemon EXCEPT ![d].exit = "asked"]
    PROVE  \E q \in DaemonState :
               /\ daemon' = [daemon EXCEPT ![d] = q]
               /\ q.pc = daemon[d].pc /\ q.inFlight = daemon[d].inFlight
               /\ q.draining = daemon[d].draining /\ q.exit = "asked"
  <1> DEFINE q == [daemon[d] EXCEPT !.exit = "asked"]
  <1>1. daemon' = [daemon EXCEPT ![d] = q]
    BY DaemonKnown
  <1>2. /\ q \in DaemonState /\ q.pc = daemon[d].pc /\ q.inFlight = daemon[d].inFlight
        /\ q.draining = daemon[d].draining /\ q.exit = "asked"
    BY DaemonKnown DEF DaemonState
  <1> QED
    BY <1>1, <1>2

LEMMA IdleExitKept ==
    ASSUME IInv, NEW d \in Proc, IdleExit(d)
    PROVE  IInv'
  <1>1. PICK q \in DaemonState :
            /\ daemon' = [daemon EXCEPT ![d] = q]
            /\ q.pc = daemon[d].pc /\ q.inFlight = daemon[d].inFlight
            /\ q.draining = daemon[d].draining /\ q.exit = "asked"
    BY AskedStays DEF IdleExit
  <1>2. UNCHANGED <<disc, key, lock, client>>
    BY DEF IdleExit
  <1>3. LifeInv'
    BY <1>1, <1>2, DaemonUpdate, PhasesStay
  <1> QED
    BY <1>1, <1>2, <1>3, DaemonKnown, DaemonOnly

LEMMA FinishKept ==
    ASSUME IInv, NEW d \in Proc, Finish(d)
    PROVE  IInv'
  <1> DEFINE q == [Gone EXCEPT !.pc = "released", !.version = daemon[d].version]
  <1>1. /\ daemon[d].pc = "closing" /\ daemon' = [daemon EXCEPT ![d] = q]
        /\ key' = IF key = d THEN NoProc ELSE key
        /\ UNCHANGED <<disc, lock, client>>
    BY DEF Finish
  <1>2. q \in DaemonState /\ q.pc = "released" /\ q.exit = "no" /\ q.inFlight = {}
    BY GoneIs, DaemonKnown DEF DaemonState
  <1> HIDE DEF q
  <1>3. lock # d /\ key' \in MaybeProc
    BY <1>1, DaemonKnown DEF MaybeProc
  <1>4. LifeInv'
    BY <1>1, <1>2, <1>3, DaemonUpdate, Quits
  <1> QED
    BY <1>1, <1>2, <1>3, <1>4, DaemonKnown, DaemonOnly

LEMMA ReleaseKept ==
    ASSUME IInv, NEW d \in Proc, Release(d)
    PROVE  IInv'
  <1>1. /\ daemon[d].pc = "released" /\ lock # d /\ lock' = lock
        /\ disc' = disc \/ (disc = d /\ disc' = NoProc)
    BY DaemonKnown DEF Release
  <1> QED
    BY <1>1, GoneKept DEF Release

LEMMA CrashKept ==
    ASSUME IInv, NEW d \in Proc, Crash(d)
    PROVE  IInv'
  <1>1. /\ daemon[d].pc \notin {"none", "gone"} /\ disc' = disc
        /\ (lock # d /\ lock' = lock) \/ (lock = d /\ lock' = NoProc)
    BY DEF Crash, Alive
  <1> QED
    BY <1>1, GoneKept DEF Crash

LEMMA RecordLostKept ==
    ASSUME IInv, Damage \/ UserRemoves
    PROVE  IInv'
  <1>1. /\ UNCHANGED <<daemon, key, lock, client>>
        /\ disc' = Invalid \/ (disc' = NoProc /\ \A d \in Proc : ~Listening(d))
    BY DEF Damage, UserRemoves
  <1>2. \A d \in Proc : Listening(d)' <=> Listening(d)
    BY <1>1 DEF Listening
  <1>3. LifeInv'
    BY <1>1, <1>2 DEF IInv, LifeInv, PidsReused, ClaimIsLocked, ClaimIsAlone, OneFindable,
                      OneAccepting, RecordKept
  <1>4. TypeOK'
    BY <1>1 DEF IInv, TypeOK, MaybeProc
  <1>5. FlightInv'
    BY <1>1 DEF IInv, FlightInv, InFlightIsWaited, DrainShutsDoor, Drains, DrainExitIsShut
  <1> QED
    BY <1>1, <1>3, <1>4, <1>5, InvParts

-----------------------------------------------------------------------------
(* The steps of a client and a process *)

LEMMA SpawnKept ==
    ASSUME IInv, NEW c \in Client, Spawn(c)
    PROVE  IInv'
  <1>1. PICK d \in Proc :
            /\ daemon[d].pc = "none"
            /\ \A e \in Proc : Pid(e) = Pid(d) /\ OSStart(e) < OSStart(d) => daemon[e].pc = "gone"
            /\ daemon' = [daemon EXCEPT ![d] = [@ EXCEPT !.pc = "starting", !.version = Major[c]]]
            /\ client' = [client EXCEPT ![c] = [@ EXCEPT !.pc = "awaiting", !.spawned = d]]
    BY DEF Spawn
  <1>2. client[c].pc = "attach" /\ UNCHANGED <<disc, key, lock>>
    BY DEF Spawn
  <1> DEFINE s == client[c]
             r == [s EXCEPT !.pc = "awaiting", !.spawned = d]
             p == daemon[d]
             q == [p EXCEPT !.pc = "starting", !.version = Major[c]]
  <1>3. client' = [client EXCEPT ![c] = r] /\ s \in ClientState /\ Counted(c, s) /\ s.pc = "attach"
    BY <1>1, <1>2, ClientKnown
  <1>4. daemon' = [daemon EXCEPT ![d] = q] /\ p \in DaemonState /\ Major[c] \in Nat
    BY <1>1, DaemonKnown, DaemonServiceAssumption
  <1> HIDE DEF s, p
  <1>5. /\ r \in ClientState /\ r.pc = "awaiting" /\ r.spawned = d
        /\ r.applied = s.applied /\ r.attempt = s.attempt
    BY <1>3 DEF ClientState, ClientPhase, MaybeProc
  <1>6. /\ q \in DaemonState /\ q.pc = "starting" /\ q.inFlight = p.inFlight
        /\ q.draining = p.draining /\ q.exit = p.exit
    BY <1>4 DEF DaemonState, DaemonPhase
  <1> HIDE DEF r, q
  <1>7. Partner(r) /\ Counted(c, r)
    BY <1>3, <1>5 DEF Partner, Counted, Talking
  <1>8. Moves(c)
    BY <1>3, <1>5, <1>7, UpdateMoves
  <1>9. /\ daemon' \in [Proc -> DaemonState] /\ daemon'[d] = q
        /\ \A e \in Proc \ {d} : daemon'[e] = daemon[e]
    BY <1>4, <1>6, DaemonUpdate
  <1>10. TypeOK'
    BY <1>2, <1>8, <1>9 DEF IInv, TypeOK, Moves
  <1>11. PidsReused'
    BY <1>1, <1>6, <1>9 DEF IInv, PidsReused
  <1>12. \A e \in Proc : /\ Listening(e)' <=> Listening(e)
                         /\ daemon'[e].pc = "checked" <=> daemon[e].pc = "checked"
    BY <1>1, <1>6, <1>9 DEF Listening
  <1>13. LifeInv'
    BY <1>2, <1>11, <1>12 DEF IInv, LifeInv, ClaimIsLocked, ClaimIsAlone, OneFindable,
                              OneAccepting, RecordKept
  <1>14. \A e \in Proc : /\ daemon'[e].inFlight = daemon[e].inFlight
                         /\ daemon'[e].draining = daemon[e].draining
                         /\ daemon'[e].exit = daemon[e].exit
    BY <1>6, <1>9 DEF p
  <1>15. \A e \in Proc : \A x \in daemon'[e].inFlight : x \in Client \ {c}
    BY <1>2, <1>10, <1>14, GroundedIf DEF Grounded, TypeOK, DaemonState
  <1>16. FlightInv'
    BY <1>8, <1>10, <1>14, <1>15, NoneTakesOff DEF IInv, DrainExitIsShut, Moves
  <1> QED
    BY <1>8, <1>10, <1>13, <1>16, ClientMoves, InvParts

(* A client and a process move, and the process is in the phase it was in. *)
LEMMA Together ==
    ASSUME IInv, NEW c \in Client, Moves(c), NEW d \in Proc, NEW q \in DaemonState,
           daemon' = [daemon EXCEPT ![d] = q], q.pc = daemon[d].pc,
           UNCHANGED <<disc, lock>>, key' \in MaybeProc, TypeOK' => FlightInv'
    PROVE  IInv'
  <1>1. /\ daemon' \in [Proc -> DaemonState] /\ daemon'[d] = q
        /\ \A e \in Proc \ {d} : daemon'[e] = daemon[e]
    BY DaemonUpdate
  <1>2. TypeOK'
    BY <1>1 DEF IInv, TypeOK, Moves
  <1>3. LifeInv'
    BY <1>1, PhasesStay
  <1> QED
    BY <1>2, <1>3, ClientMoves, InvParts

(* A call is taken from flight: the door stays as it is while others fly. *)
LEMMA Lands ==
    ASSUME IInv, NEW c \in Client, Moves(c), NEW d \in Proc, NEW q \in DaemonState,
           c \in daemon[d].inFlight,
           daemon' = [daemon EXCEPT ![d] = q], q.pc = daemon[d].pc,
           q.inFlight \subseteq daemon[d].inFlight \ {c},
           q.inFlight # {} => q.draining = daemon[d].draining,
           q.exit = "drain" => q.draining /\ q.inFlight = {},
           UNCHANGED <<disc, lock>>, key' \in MaybeProc
    PROVE  IInv'
  <1>1. /\ daemon'[d] = q /\ \A e \in Proc \ {d} : daemon'[e] = daemon[e]
    BY DaemonUpdate
  <1>2. \A e \in Proc \ {d} : c \notin daemon[e].inFlight
    BY DEF IInv, InFlightIsWaited
  <1>3. \A e \in Proc : daemon'[e].inFlight \subseteq daemon[e].inFlight \ {c}
    BY <1>1, <1>2
  <1>4. \A e \in Proc : \A x \in daemon'[e].inFlight : x \in daemon[e].inFlight /\ x \in Client \ {c}
    BY <1>3 DEF IInv, TypeOK, DaemonState
  <1>5. \A e \in Proc : daemon'[e].inFlight # {} => daemon'[e].draining = daemon[e].draining
    BY <1>1
  <1>6. \A e \in Proc : daemon'[e].exit = "drain" => daemon'[e].draining /\ daemon'[e].inFlight = {}
    BY <1>1 DEF IInv, DrainExitIsShut
  <1>7. TypeOK' => FlightInv'
    BY <1>4, <1>5, <1>6, NoneTakesOff DEF Moves
  <1> QED
    BY <1>7, Together

(* The door moves while no call but the client's own may be a drain. *)
LEMMA DoorMoves ==
    ASSUME IInv, NEW c \in Client, Moves(c), NEW d \in Proc, NEW q \in DaemonState,
           \A e \in Proc \ {d} : c \notin daemon[e].inFlight,
           daemon' = [daemon EXCEPT ![d] = q], q.pc = daemon[d].pc, q.exit # "drain",
           \A x \in q.inFlight \ {c} : x \in daemon[d].inFlight /\ client[x].pc # "draining",
           c \in q.inFlight => /\ client'[c].info = d /\ client'[c].pc \in {"draining", "sent", "applied"}
                               /\ client'[c].pc = "draining" => q.draining,
           UNCHANGED <<disc, key, lock>>
    PROVE  IInv'
  <1>1. /\ daemon'[d] = q /\ \A e \in Proc \ {d} : daemon'[e] = daemon[e]
    BY DaemonUpdate
  <1>2. ASSUME NEW e \in Proc \ {d}
        PROVE  /\ daemon'[e] = daemon[e]
               /\ \A x \in daemon[e].inFlight : x # c /\ client'[x] = client[x]
    BY <1>1 DEF IInv, TypeOK, DaemonState, Moves
  <1>3. \A x \in q.inFlight \ {c} : x \in daemon[d].inFlight /\ client'[x] = client[x]
    BY DEF Moves, DaemonState
  <1>4. InFlightIsWaited'
    BY <1>1, <1>2, <1>3 DEF IInv, InFlightIsWaited
  <1>5. Drains(d)' \subseteq {c} /\ (Drains(d)' # {} => q.draining)
    BY <1>1, <1>3 DEF Drains
  <1>6. \A e \in Proc \ {d} : Drains(e)' = Drains(e)
    BY <1>2 DEF Drains
  <1>7. DrainShutsDoor'
    BY <1>1, <1>5, <1>6 DEF IInv, DrainShutsDoor
  <1>8. DrainExitIsShut'
    BY <1>1 DEF IInv, DrainExitIsShut
  <1> QED
    BY <1>4, <1>7, <1>8, DaemonKnown, Together DEF FlightInv

(* What a client in flight may rely on, and what a shut door means. *)
LEMMA InFlight ==
    ASSUME IInv, NEW c \in Client, client[c].pc \in Talking,
           c \in daemon[client[c].info].inFlight
    PROVE  LET d == client[c].info IN
           /\ d \in Proc /\ \A e \in Proc \ {d} : c \notin daemon[e].inFlight
           /\ daemon[d].exit # "drain"
           /\ client[c].pc = "draining" =>
                  /\ daemon[d].draining
                  /\ \A x \in daemon[d].inFlight : client[x].pc = "draining" => x = c
  <1> DEFINE d == client[c].info
  <1>1. d \in Proc
    BY DEF IInv, PartnerKnown
  <1>2. \A e \in Proc \ {d} : c \notin daemon[e].inFlight
    BY DEF IInv, InFlightIsWaited
  <1>3. daemon[d].exit # "drain"
    BY <1>1, DaemonKnown
  <1>4. client[c].pc = "draining" => c \in Drains(d)
    BY DEF Drains
  <1>5. \A x \in daemon[d].inFlight : client[x].pc = "draining" => x \in Drains(d)
    BY DEF Drains
  <1>6. client[c].pc = "draining" =>
            daemon[d].draining /\ \A x \in daemon[d].inFlight : client[x].pc = "draining" => x = c
    BY <1>1, <1>4, <1>5 DEF IInv, DrainShutsDoor
  <1> QED
    BY <1>1, <1>2, <1>3, <1>6

LEMMA DoorOpen ==
    ASSUME IInv, NEW d \in Proc, ~daemon[d].draining
    PROVE  daemon[d].exit # "drain" /\ \A x \in daemon[d].inFlight : client[x].pc # "draining"
  <1>1. Drains(d) = {}
    BY DEF IInv, DrainShutsDoor
  <1> QED
    BY <1>1, DaemonKnown DEF Drains

(* SIGTERM reaches a process before or after its handlers are installed. *)
LEMMA SignalsKept ==
    ASSUME IInv, NEW c \in Client, Moves(c), Grounded(c), NEW d \in Proc, NEW q \in DaemonState,
           daemon' = [daemon EXCEPT ![d] = q], UNCHANGED <<disc, key, lock>>, LifeInv',
           q.inFlight \subseteq daemon[d].inFlight,
           q.inFlight # {} => q.draining = daemon[d].draining, q.exit # "drain"
    PROVE  IInv'
  <1>1. /\ daemon' \in [Proc -> DaemonState] /\ daemon'[d] = q
        /\ \A e \in Proc \ {d} : daemon'[e] = daemon[e]
    BY DaemonUpdate
  <1>2. TypeOK'
    BY <1>1 DEF IInv, TypeOK, Moves
  <1>3. \A e \in Proc : daemon'[e].inFlight \subseteq daemon[e].inFlight
    BY <1>1
  <1>4. \A e \in Proc : \A x \in daemon'[e].inFlight : x \in daemon[e].inFlight /\ x \in Client \ {c}
    BY <1>3 DEF IInv, TypeOK, DaemonState, Grounded
  <1>5. \A e \in Proc : daemon'[e].inFlight # {} => daemon'[e].draining = daemon[e].draining
    BY <1>1
  <1>6. \A e \in Proc : daemon'[e].exit = "drain" => daemon'[e].draining /\ daemon'[e].inFlight = {}
    BY <1>1 DEF IInv, DrainExitIsShut
  <1>7. FlightInv'
    BY <1>2, <1>4, <1>5, <1>6, NoneTakesOff DEF Moves
  <1> QED
    BY <1>2, <1>7, ClientMoves, InvParts

LEMMA StopUnpublishedKept ==
    ASSUME IInv, NEW c \in Client, StopUnpublished(c)
    PROVE  IInv'
  <1> DEFINE d == client[c].spawned
  <1>1. /\ client[c].pc = "awaiting" /\ daemon' \in Signalled(daemon, d) /\ Fail(c)
        /\ UNCHANGED <<disc, key, lock>>
    BY DEF StopUnpublished
  <1>2. d \in Proc /\ Moves(c) /\ Grounded(c)
    BY <1>1, FailMoves, GroundedIf DEF IInv, PartnerKnown
  <1> HIDE DEF d
  <1>3. \/ daemon' = daemon
        \/ daemon[d].exit = "no" /\ daemon' = [daemon EXCEPT ![d].exit = "asked"]
        \/ daemon[d].pc = "starting" /\ daemon' = [daemon EXCEPT ![d].exit = "asked"]
        \/ daemon[d].pc = "starting" /\ daemon' = [daemon EXCEPT ![d] = Gone]
    BY <1>1 DEF Signalled
  <1>4. CASE daemon' = daemon
    BY <1>1, <1>2, <1>4, ClientOnly
  <1>5. CASE daemon' = [daemon EXCEPT ![d].exit = "asked"]
    <2>1. PICK q \in DaemonState :
              /\ daemon' = [daemon EXCEPT ![d] = q]
              /\ q.pc = daemon[d].pc /\ q.inFlight = daemon[d].inFlight
              /\ q.draining = daemon[d].draining /\ q.exit = "asked"
      BY <1>2, <1>5, AskedStays
    <2>2. LifeInv'
      BY <1>1, <1>2, <2>1, DaemonUpdate, PhasesStay
    <2> QED
      BY <1>1, <1>2, <2>1, <2>2, SignalsKept
  <1>6. CASE daemon[d].pc = "starting" /\ daemon' = [daemon EXCEPT ![d] = Gone]
    <2>1. lock # d
      BY <1>2, <1>6, DaemonKnown
    <2>2. LifeInv'
      BY <1>1, <1>2, <1>6, <2>1, GoneIs, DaemonUpdate, Quits
    <2> QED
      BY <1>1, <1>2, <1>6, <2>2, GoneIs, SignalsKept
  <1> QED
    BY <1>3, <1>4, <1>5, <1>6

LEMMA DrainKept ==
    ASSUME IInv, NEW c \in Client, Drain(c)
    PROVE  IInv'
  <1> DEFINE d == client[c].info
  <1>1. /\ client[c].pc = "asking" /\ ~daemon[d].draining /\ UNCHANGED <<disc, key, lock>>
        /\ client[c].adminKey # d => Fail(c) /\ UNCHANGED daemon
        /\ client[c].adminKey = d =>
              /\ daemon' = [daemon EXCEPT ![d] = [@ EXCEPT !.draining = TRUE, !.inFlight = daemon[d].inFlight \cup {c}]]
              /\ client' = [client EXCEPT ![c].pc = "draining"]
    BY DEF Drain
  <1>2. d \in Proc /\ Grounded(c)
    BY <1>1, ClientKnown, GroundedIf DEF Partner, Talking
  <1>3. CASE client[c].adminKey # d
    BY <1>1, <1>2, <1>3, FailMoves, ClientOnly
  <1>4. CASE client[c].adminKey = d
    <2> DEFINE s == client[c]
               r == [s EXCEPT !.pc = "draining"]
               p == daemon[d]
               q == [p EXCEPT !.draining = TRUE, !.inFlight = p.inFlight \cup {c}]
    <2>1. /\ client' = [client EXCEPT ![c] = r] /\ s \in ClientState /\ Counted(c, s)
          /\ s.pc = "asking" /\ s.info = d
      BY <1>1, <1>4, ClientKnown
    <2>2. daemon' = [daemon EXCEPT ![d] = q]
      BY <1>1, <1>4
    <2>8. p \in DaemonState
      BY <1>2, DaemonKnown
    <2> HIDE DEF s, p
    <2>3. /\ r \in ClientState /\ r.pc = "draining" /\ r.info = s.info
          /\ r.applied = s.applied /\ r.attempt = s.attempt
      BY <2>1 DEF ClientState, ClientPhase, Talking
    <2>4. /\ q \in DaemonState /\ q.pc = p.pc /\ q.inFlight = p.inFlight \cup {c}
          /\ q.draining /\ q.exit = p.exit
      BY <2>8 DEF DaemonState
    <2> HIDE DEF r, q, d
    <2>5. Partner(r) /\ Counted(c, r)
      BY <1>2, <2>1, <2>3 DEF Partner, Counted, Talking
    <2>6. Moves(c) /\ client'[c] = r
      BY <2>1, <2>3, <2>5, UpdateMoves
    <2>7. p.exit # "drain" /\ \A x \in p.inFlight : client[x].pc # "draining"
      BY <1>1, <1>2, DoorOpen DEF p
    <2>9. \A x \in q.inFlight \ {c} : x \in daemon[d].inFlight /\ client[x].pc # "draining"
      BY <2>4, <2>7 DEF p
    <2>10. q.pc = daemon[d].pc /\ q.exit # "drain"
      BY <2>4, <2>7 DEF p
    <2>11. /\ client'[c].info = d /\ client'[c].pc \in {"draining", "sent", "applied"}
           /\ client'[c].pc = "draining" => q.draining
      BY <2>1, <2>3, <2>4, <2>6
    <2>12. \A e \in Proc \ {d} : c \notin daemon[e].inFlight
      BY <1>2 DEF Grounded
    <2>13. d \in Proc /\ UNCHANGED <<disc, key, lock>> /\ q \in DaemonState
      BY <1>1, <1>2, <2>4
    <2> QED
      BY <2>2, <2>6, <2>9, <2>10, <2>11, <2>12, <2>13, DoorMoves
  <1> QED
    BY <1>3, <1>4

LEMMA DrainedKept ==
    ASSUME IInv, NEW c \in Client, Drained(c)
    PROVE  IInv'
  <1> DEFINE d == client[c].info
             p == daemon[d]
             q == [p EXCEPT !.inFlight = {}, !.exit = "drain"]
  <1>1. /\ client[c].pc = "draining" /\ p.inFlight = {c} /\ Unanswered(c)
        /\ key' = (IF key = d THEN NoProc ELSE key) /\ UNCHANGED <<disc, lock>>
    BY DEF Drained
  <1>2. d \in Proc /\ p.draining
    BY <1>1, InFlight DEF Talking
  <1>3. daemon' = [daemon EXCEPT ![d] = q] /\ p \in DaemonState /\ key' \in MaybeProc
    BY <1>1, <1>2, DaemonKnown DEF Drained, MaybeProc
  <1>4. Moves(c)
    BY <1>1, UnansweredMoves
  <1> HIDE DEF p
  <1>5. /\ q \in DaemonState /\ q.pc = p.pc /\ q.inFlight = {} /\ q.draining = p.draining
    BY <1>3 DEF DaemonState
  <1> HIDE DEF d, q
  <1> QED
    BY <1>1, <1>2, <1>3, <1>4, <1>5, Lands DEF p

LEMMA DrainBusyKept ==
    ASSUME IInv, NEW c \in Client, DrainBusy(c)
    PROVE  IInv'
  <1> DEFINE d == client[c].info
             p == daemon[d]
             q == [p EXCEPT !.draining = FALSE, !.inFlight = p.inFlight \ {c}]
  <1>1. /\ client[c].pc = "draining" /\ c \in p.inFlight /\ Fail(c) /\ UNCHANGED <<disc, key, lock>>
    BY DEF DrainBusy
  <1>2. /\ d \in Proc /\ p.exit # "drain" /\ \A e \in Proc \ {d} : c \notin daemon[e].inFlight
        /\ \A x \in p.inFlight : client[x].pc = "draining" => x = c
    BY <1>1, InFlight DEF Talking
  <1>3. daemon' = [daemon EXCEPT ![d] = q]
    BY DEF DrainBusy
  <1>7. p \in DaemonState
    BY <1>2, DaemonKnown
  <1>4. Moves(c)
    BY <1>1, FailMoves
  <1> HIDE DEF p
  <1>5. q \in DaemonState /\ q.pc = p.pc /\ q.inFlight = p.inFlight \ {c} /\ q.exit = p.exit
    BY <1>7 DEF DaemonState
  <1> HIDE DEF d, q
  <1>6. \A x \in q.inFlight \ {c} : x \in p.inFlight /\ client[x].pc # "draining"
    BY <1>2, <1>5
  <1> QED
    BY <1>1, <1>2, <1>3, <1>4, <1>5, <1>6, DoorMoves DEF p

LEMMA DrainCancelledKept ==
    ASSUME IInv, NEW c \in Client, DrainCancelled(c)
    PROVE  IInv'
  <1> DEFINE d == client[c].info
             p == daemon[d]
             q == [p EXCEPT !.inFlight = @ \ {c}]
  <1>1. /\ client[c].pc = "draining" /\ c \in p.inFlight /\ Unanswered(c)
        /\ UNCHANGED <<disc, key, lock>>
    BY DEF DrainCancelled
  <1>2. d \in Proc /\ p.exit # "drain"
    BY <1>1, InFlight DEF Talking
  <1>3. daemon' = [daemon EXCEPT ![d] = q] /\ p \in DaemonState /\ key' \in MaybeProc
    BY <1>1, <1>2, DaemonKnown DEF DrainCancelled
  <1>4. Moves(c)
    BY <1>1, UnansweredMoves
  <1> HIDE DEF p
  <1>5. /\ q \in DaemonState /\ q.pc = p.pc /\ q.inFlight = p.inFlight \ {c}
        /\ q.draining = p.draining /\ q.exit = p.exit
    BY <1>3 DEF DaemonState
  <1> HIDE DEF d, q
  <1> QED
    BY <1>1, <1>2, <1>3, <1>4, <1>5, Lands DEF p

LEMMA AdmitKept ==
    ASSUME IInv, NEW c \in Client, Admit(c)
    PROVE  IInv'
  <1> DEFINE d == client[c].info
             s == client[c]
             r == [s EXCEPT !.pc = "sent"]
             p == daemon[d]
             q == [p EXCEPT !.inFlight = @ \cup {c}]
  <1>1. s.pc = "posted" /\ ~p.draining /\ UNCHANGED <<disc, key, lock>>
    BY DEF Admit
  <1>2. d \in Proc /\ Grounded(c)
    BY <1>1, ClientKnown, GroundedIf DEF Partner, Talking
  <1>3. client' = [client EXCEPT ![c] = r] /\ s \in ClientState /\ Counted(c, s) /\ s.info = d
    BY ClientKnown DEF Admit
  <1>4. daemon' = [daemon EXCEPT ![d] = q] /\ p \in DaemonState
    BY <1>2, DaemonKnown DEF Admit
  <1>5. p.exit # "drain" /\ \A x \in p.inFlight : client[x].pc # "draining"
    BY <1>1, <1>2, DoorOpen
  <1> HIDE DEF s, p
  <1>6. /\ r \in ClientState /\ r.pc = "sent" /\ r.info = s.info
        /\ r.applied = s.applied /\ r.attempt = s.attempt
    BY <1>3 DEF ClientState, ClientPhase, Talking
  <1>7. q \in DaemonState /\ q.pc = p.pc /\ q.inFlight = p.inFlight \cup {c} /\ q.exit = p.exit
    BY <1>4 DEF DaemonState
  <1> HIDE DEF r, q, d
  <1>8. Partner(r) /\ Counted(c, r)
    BY <1>1, <1>2, <1>3, <1>6 DEF Partner, Counted, Talking
  <1>9. Moves(c) /\ client'[c] = r
    BY <1>3, <1>6, <1>8, UpdateMoves
  <1>10. \A x \in q.inFlight \ {c} : x \in daemon[d].inFlight /\ client[x].pc # "draining"
    BY <1>5, <1>7 DEF p
  <1>11. q.pc = daemon[d].pc /\ q.exit # "drain"
    BY <1>5, <1>7 DEF p
  <1>12. client'[c].info = d /\ client'[c].pc = "sent"
    BY <1>3, <1>6, <1>9
  <1>13. \A e \in Proc \ {d} : c \notin daemon[e].inFlight
    BY <1>2 DEF Grounded
  <1> QED
    BY <1>1, <1>2, <1>4, <1>7, <1>9, <1>10, <1>11, <1>12, <1>13, DoorMoves

(* A call is applied once in an attempt: it was not applied in this one yet. *)
LEMMA ApplyKept ==
    ASSUME IInv, NEW c \in Client, Apply(c)
    PROVE  IInv'
  <1> DEFINE s == client[c]
             r == [s EXCEPT !.pc = "applied", !.applied = s.applied + 1]
  <1>1. s.pc = "sent" /\ UNCHANGED <<daemon, disc, key, lock>>
    BY DEF Apply
  <1>13. client' = [client EXCEPT ![c] = r]
    BY DEF Apply
  <1>2. s \in ClientState /\ Counted(c, s) /\ Partner(s)
    BY ClientKnown
  <1> HIDE DEF s
  <1>3. /\ r \in ClientState /\ r.pc = "applied" /\ r.info = s.info
        /\ r.applied = s.applied + 1 /\ r.attempt = s.attempt
    <2> DEFINE a == s.applied + 1
    <2>1. a \in Nat
      BY <1>2 DEF ClientState
    <2>2. r = [s EXCEPT !.pc = "applied", !.applied = a]
      OBVIOUS
    <2> HIDE DEF r
    <2>3. r.applied = a
      BY <1>2, <2>2 DEF ClientState
    <2>4. a = s.applied + 1
      OBVIOUS
    <2> HIDE DEF a
    <2> QED
      BY <1>2, <2>1, <2>2, <2>3, <2>4 DEF ClientState, ClientPhase, Talking
  <1> HIDE DEF r
  <1>4. Partner(r)
    BY <1>1, <1>2, <1>3 DEF Partner, Talking
  <1>5. s.applied \in Nat /\ s.attempt \in {1, 2} /\ s.applied < s.attempt
    BY <1>1, <1>2 DEF Counted, ClientState
  <1>6. s.applied = 1 => c \in Replayable \cup Lists
    BY <1>1, <1>2 DEF Counted
  <1>7. Counted(c, r)
    BY <1>3, <1>5, <1>6 DEF Counted
  <1>8. Moves(c) /\ client'[c] = r
    BY <1>3, <1>4, <1>7, <1>13, UpdateMoves
  <1>9. TypeOK'
    BY <1>1, <1>8 DEF IInv, TypeOK, Moves
  <1>10. LifeInv'
    BY <1>1, PhasesStay
  <1>11. \A e \in Proc : \A x \in daemon'[e].inFlight :
             /\ x \in daemon[e].inFlight /\ client'[x].info = client[x].info
             /\ client'[x].pc \in {client[x].pc, "applied"}
    BY <1>1, <1>3, <1>8 DEF IInv, TypeOK, DaemonState, Moves, s
  <1>12. FlightInv'
    BY <1>1, <1>9, <1>11, NoneTakesOff DEF IInv, DrainExitIsShut
  <1> QED
    BY <1>8, <1>9, <1>10, <1>12, ClientMoves, InvParts

LEMMA AnswerKept ==
    ASSUME IInv, NEW c \in Client, Answer(c)
    PROVE  IInv'
  <1> DEFINE d == client[c].info
             s == client[c]
             l == [s EXCEPT !.pc = "listing"]
             r == IF s.pc = "applied" /\ c \in Lists THEN l ELSE Ended(s, "done")
             p == daemon[d]
             q == [p EXCEPT !.inFlight = @ \ {c}]
  <1>1. s.pc \in {"sent", "applied"} /\ c \in p.inFlight /\ UNCHANGED <<disc, key, lock>>
    BY DEF Answer
  <1>2. d \in Proc /\ p.exit # "drain"
    BY <1>1, InFlight DEF Talking
  <1>3. client' = [client EXCEPT ![c] = r] /\ s \in ClientState /\ Counted(c, s) /\ Partner(s)
    BY ClientKnown DEF Answer
  <1>4. daemon' = [daemon EXCEPT ![d] = q] /\ p \in DaemonState /\ key' \in MaybeProc
    BY <1>1, <1>2, DaemonKnown DEF Answer
  <1>5. Ended(s, "done") \in ClientState /\ Partner(Ended(s, "done")) /\ Counted(c, Ended(s, "done"))
    BY Endings
  <1> HIDE DEF s, p
  <1>6. /\ l \in ClientState /\ l.pc = "listing" /\ l.info = s.info
        /\ l.applied = s.applied /\ l.attempt = s.attempt
    BY <1>3 DEF ClientState, ClientPhase, Talking
  <1> HIDE DEF l
  <1>7. s.pc = "applied" /\ c \in Lists => Partner(l) /\ Counted(c, l)
    BY <1>3, <1>6 DEF Partner, Counted, Talking
  <1>8. r \in ClientState /\ Partner(r) /\ Counted(c, r)
    BY <1>5, <1>6, <1>7
  <1>9. /\ q \in DaemonState /\ q.pc = p.pc /\ q.inFlight = p.inFlight \ {c}
        /\ q.draining = p.draining /\ q.exit = p.exit
    BY <1>4 DEF DaemonState
  <1> HIDE DEF r, q, d
  <1>10. Moves(c)
    BY <1>3, <1>8, UpdateMoves
  <1> QED
    BY <1>1, <1>2, <1>4, <1>9, <1>10, Lands DEF p

-----------------------------------------------------------------------------
(* The theorems *)

LEMMA InitKept == Init => IInv
  <1> SUFFICES ASSUME Init
               PROVE  IInv
    OBVIOUS
  <1> DEFINE n == NewClient
             m == NewDaemon
  <1>1. daemon = [d \in Proc |-> m] /\ client = [c \in Client |-> n]
        /\ disc = NoProc /\ key = NoProc /\ lock = NoProc
    BY DEF Init
  <1>2. n \in ClientState /\ n.pc = "idle" /\ n.attempt = 1 /\ n.applied = 0
    BY DEF NewClient, ClientState, ClientPhase, MaybeProc
  <1>3. m \in DaemonState /\ m.pc = "none" /\ m.exit = "no" /\ m.inFlight = {}
    BY DEF NewDaemon, DaemonState, DaemonPhase
  <1> HIDE DEF n, m
  <1>4. TypeOK
    BY <1>1, <1>2, <1>3 DEF TypeOK, MaybeProc
  <1>5. LifeInv
    BY <1>1, <1>3, DaemonServiceAssumption
       DEF LifeInv, PidsReused, ClaimIsLocked, ClaimIsAlone, OneFindable, OneAccepting, RecordKept, Listening
  <1>6. FlightInv
    BY <1>1, <1>3 DEF FlightInv, InFlightIsWaited, DrainShutsDoor, Drains, DrainExitIsShut
  <1>7. \A c \in Client : Partner(client[c]) /\ Counted(c, client[c])
    BY <1>1, <1>2 DEF Partner, Counted, Talking
  <1> QED
    BY <1>4, <1>5, <1>6, <1>7, InvParts

LEMMA NextKept == IInv /\ [Next]_vars => IInv'
  <1> SUFFICES ASSUME IInv, [Next]_vars
               PROVE  IInv'
    OBVIOUS
  <1>1. ASSUME NEW d \in Proc, DaemonStep(d) \/ Crash(d)
        PROVE  IInv'
    BY <1>1, ClaimKept, PublishKept, BindFailsKept, ServeKept, ServeFailsKept, IdleExitKept,
       ShutdownKept, FinishKept, ReleaseKept, CrashKept
       DEF DaemonStep
  <1>2. ASSUME NEW c \in Client, CallTool(c) \/ ClientStep(c)
        PROVE  IInv'
    BY <1>2, CallToolKept, AttachKept, SpawnKept, SpawnFailsKept, PollKept, StopUnpublishedKept,
       ReadDrainKeyKept, DrainUnheardKept, DrainKept, DrainedKept, DrainBusyKept, DrainCancelledKept,
       DrainLostKept, WithdrawnKept, NotWithdrawnKept, ConnectKept, NeverSentKept, AdmitKept,
       ApplyKept, AnswerKept, LostKept, ListToolsKept
       DEF ClientStep
  <1>3. CASE UNCHANGED vars
    <2>1. TypeOK' /\ FlightInv'
      BY <1>3 DEF IInv, TypeOK, FlightInv, InFlightIsWaited, DrainShutsDoor, Drains, DrainExitIsShut, vars
    <2>2. LifeInv'
      BY <1>3, PhasesStay DEF vars
    <2> QED
      BY <1>3, <2>1, <2>2, InvParts DEF vars
  <1> QED
    BY <1>1, <1>2, <1>3, RecordLostKept DEF Next

(***************************************************************************)
(* The inductive invariant of the daemons and their clients: of processes  *)
(* that share a pid the last is the one that runs, the claim lock covers   *)
(* the check of the record up to its replacement, a call in flight is      *)
(* waited for, one drain at a time shuts the door, and every call counts   *)
(* its applications by attempt.                                            *)
(***************************************************************************)
THEOREM Invariance == Spec => []IInv
  <1> QED
    BY InitKept, NextKept, PTL DEF Spec

(***************************************************************************)
(* claim_single_instance and release_single_instance: one daemon accepts   *)
(* calls for the root and its record is there to find it, whatever         *)
(* crashes, drains, reuses a pid or is slow to exit.                       *)
(***************************************************************************)
THEOREM OneDaemon == Spec => []OneFindable
  <1>1. IInv => OneFindable
    BY DEF IInv
  <1> QED
    BY <1>1, Invariance, PTL

(***************************************************************************)
(* _drain.py and call_tool: a drain that lets the daemon exit left no call *)
(* in flight, and a call is applied once, or once in each of its attempts  *)
(* if its tool may be replayed or tools/list follows it.                   *)
(***************************************************************************)
THEOREM CallsSafe == Spec => []CallsKept
  <1>1. IInv => CallsKept
    BY DEF IInv, CallsKept, DrainExitIsShut, DrainFinishesCalls
  <1> QED
    BY <1>1, Invariance, PTL

-----------------------------------------------------------------------------
(* The write lane *)

LEMMA LaneInitKeeps == LaneInit => LaneIInv
  <1> SUFFICES ASSUME LaneInit PROVE LaneIInv
    OBVIOUS
  <1>1. future \in [Job -> {"none", "pending", "running", "done", "cancelled"}]
    BY DEF LaneInit
  <1> QED
    BY <1>1 DEF LaneInit, LaneIInv, LaneKept, NoLostDispatch, LaneHeld, DrainedIsShut

(* Callers *)
LEMMA SubmitKeeps ==
    ASSUME LaneIInv, NEW j \in Job, Submit(j)
    PROVE  LaneIInv'
  <1>1. NoLostDispatch'
    BY DEF LaneIInv, Submit, NoLostDispatch
  <1>2. LaneHeld'
    BY DEF LaneIInv, Submit, LaneKept, LaneHeld
  <1> QED
    BY <1>1, <1>2 DEF LaneIInv, Submit, shutdown, LaneKept, DrainedIsShut

(* A caller that is refused or gives up, and a job that ages, leave a job   *)
(* waiting only where one was.                                              *)
LEMMA CallerKeeps ==
    ASSUME LaneIInv, NEW j \in Job, SubmitRefused(j) \/ Cancel(j) \/ Age(j)
    PROVE  LaneIInv'
  <1>1. UNCHANGED <<queue, running, stage, calls, pool, phase>>
    BY DEF SubmitRefused, Cancel, Age, shutdown
  <1>2. /\ future' \in [Job -> {"none", "pending", "running", "done", "cancelled"}]
        /\ \A i \in Job : future'[i] \in {future[i], "cancelled"}
    BY DEF LaneIInv, SubmitRefused, Cancel, Age
  <1>3. NoLostDispatch'
    BY <1>1, <1>2 DEF LaneIInv, LaneKept, NoLostDispatch
  <1>4. LaneHeld'
    BY <1>1, <1>2 DEF LaneIInv, LaneKept, LaneHeld
  <1> QED
    BY <1>1, <1>2, <1>3, <1>4 DEF LaneIInv, LaneKept, DrainedIsShut

(* A dispatch leaves the lane free only when nothing is left to wait. *)
LEMMA DispatchKeeps ==
    ASSUME LaneIInv, Dispatch
    PROVE  LaneIInv'
  <1> DEFINE live == {j \in queue : future[j] # "cancelled"}
  <1>1. calls > 0 /\ calls' = calls - 1 /\ UNCHANGED <<future, pool, phase>>
    BY DEF Dispatch, shutdown
  <1>2. CASE (running # None \/ live = {}) /\ queue' = live /\ UNCHANGED <<running, stage>>
    BY <1>1, <1>2 DEF LaneIInv, LaneKept, NoLostDispatch, LaneHeld, DrainedIsShut
  <1>3. ASSUME running = None, NEW j \in live,
               queue' = live \ {j}, running' = j, stage' = "picked"
        PROVE  LaneIInv'
    <2>1. j \in Job /\ j # None /\ \A i \in Job : future[i] # "running"
      BY <1>3, DaemonLaneAssumption DEF LaneIInv, LaneKept, LaneHeld
    <2> QED
      BY <1>1, <1>3, <2>1 DEF LaneIInv, LaneKept, NoLostDispatch, LaneHeld, DrainedIsShut
  <1> QED
    BY <1>2, <1>3 DEF Dispatch, Keep

-----------------------------------------------------------------------------
(* The lane's thread *)

(* A job that is dropped was not running, and its lane is free with a       *)
(* dispatch on the way.                                                     *)
LEMMA DropKeeps ==
    ASSUME LaneIInv, Drop, stage # "started", UNCHANGED queue,
           (phase' \in {"draining", "refused", "withdrawn"}) => pool' = "shut"
    PROVE  LaneIInv'
  <1>1. running' = None /\ stage' = None /\ calls' = calls + 1
    BY DEF Drop, Released
  <1>2. /\ future' \in [Job -> {"none", "pending", "running", "done", "cancelled"}]
        /\ \A i \in Job : future'[i] \in {future[i], "cancelled"}
    BY DEF Drop, LaneIInv
  <1>3. NoLostDispatch'
    BY <1>1 DEF LaneIInv, NoLostDispatch
  <1>4. LaneHeld'
    BY <1>2 DEF LaneIInv, LaneKept, LaneHeld
  <1> QED
    BY <1>1, <1>2, <1>3, <1>4 DEF LaneIInv, LaneKept, DrainedIsShut, None

LEMMA HandOverKeeps ==
    ASSUME LaneIInv, LookUp \/ Hand
    PROVE  LaneIInv'
  <1>1. UNCHANGED <<queue, pool, phase>> /\ stage \in {"picked", "looked"}
    BY DEF LookUp, Hand, shutdown
  <1>2. CASE Drop
    BY <1>1, <1>2, DropKeeps DEF LaneIInv, DrainedIsShut
  <1>3. CASE ~Drop
    <2>1. UNCHANGED <<future, running, calls>> /\ (stage' = "looked" \/ (stage' = "handed" /\ pool = "open"))
      BY <1>3 DEF LookUp, Hand
    <2> QED
      BY <1>1, <2>1 DEF LaneIInv, LaneKept, NoLostDispatch, LaneHeld, DrainedIsShut
  <1> QED
    BY <1>2, <1>3

LEMMA RunKeeps ==
    ASSUME LaneIInv, Start \/ FinishBody \/ ReleaseLane
    PROVE  LaneIInv'
  <1>1. UNCHANGED <<queue, pool, phase>>
    BY DEF Start, FinishBody, ReleaseLane, shutdown
  <1>2. CASE Start
    <2>1. \A i \in Job : future[i] # "running"
      BY <1>2 DEF Start, LaneIInv, LaneKept, LaneHeld
    <2>2. LaneHeld'
      BY <1>2, <2>1 DEF Start, LaneIInv, LaneHeld
    <2>3. NoLostDispatch'
      BY <1>1, <1>2 DEF Start, LaneIInv, LaneKept, NoLostDispatch
    <2> QED
      BY <1>1, <1>2, <2>2, <2>3 DEF Start, LaneIInv, LaneKept, DrainedIsShut
  <1>3. CASE FinishBody
    <2>1. LaneHeld'
      BY <1>3 DEF FinishBody, LaneIInv, LaneKept, LaneHeld
    <2>2. NoLostDispatch'
      BY <1>1, <1>3 DEF FinishBody, LaneIInv, LaneKept, NoLostDispatch
    <2> QED
      BY <1>1, <1>3, <2>1, <2>2 DEF FinishBody, LaneIInv, LaneKept, DrainedIsShut
  <1>4. CASE ReleaseLane
    BY <1>1, <1>4 DEF ReleaseLane, Released, LaneIInv, LaneKept, NoLostDispatch, LaneHeld, DrainedIsShut, None
  <1> QED
    BY <1>2, <1>3, <1>4

-----------------------------------------------------------------------------
(* Shutdown *)

LEMMA CancelQueuedKeeps ==
    ASSUME LaneIInv, CancelQueued
    PROVE  LaneIInv'
  <1>1. queue' = {} /\ UNCHANGED <<running, stage, calls, pool>> /\ phase' = "emptied"
    BY DEF CancelQueued, Keep
  <1>2. /\ future' \in [Job -> {"none", "pending", "running", "done", "cancelled"}]
        /\ \A i \in Job : future'[i] \in {future[i], "cancelled"}
    BY DEF CancelQueued, LaneIInv
  <1> QED
    BY <1>1, <1>2 DEF LaneIInv, LaneKept, NoLostDispatch, LaneHeld, DrainedIsShut

(* The job handed over and not started is dropped with the executor. *)
LEMMA ShutPoolKeeps ==
    ASSUME LaneIInv, ShutPool
    PROVE  LaneIInv'
  <1>1. UNCHANGED queue /\ pool' = "shut" /\ phase' = "draining"
    BY DEF ShutPool
  <1>2. CASE stage = "handed"
    BY <1>1, <1>2, DropKeeps DEF ShutPool
  <1>3. CASE stage # "handed"
    BY <1>1, <1>3 DEF ShutPool, LaneIInv, LaneKept, NoLostDispatch, LaneHeld, DrainedIsShut
  <1> QED
    BY <1>2, <1>3

LEMMA PhaseKeeps ==
    ASSUME LaneIInv, RefuseOffload \/ RefuseLane \/ Withdraw
    PROVE  LaneIInv'
  BY DEF RefuseOffload, RefuseLane, Withdraw, LaneIInv, LaneKept, NoLostDispatch, LaneHeld, DrainedIsShut

-----------------------------------------------------------------------------
(* What is drained stays shut, and the lane is kept, in every execution. *)
THEOREM LaneInvariance == LaneSpec => []LaneIInv
  <1>1. LaneIInv /\ [LaneNext]_laneVars => LaneIInv'
    <2> SUFFICES ASSUME LaneIInv, [LaneNext]_laneVars PROVE LaneIInv'
      OBVIOUS
    <2>1. ASSUME NEW j \in Job, Submit(j) \/ SubmitRefused(j) \/ Cancel(j) \/ Age(j) PROVE LaneIInv'
      BY <2>1, SubmitKeeps, CallerKeeps
    <2>2. CASE LaneStep
      BY <2>2, DispatchKeeps, HandOverKeeps, RunKeeps DEF LaneStep
    <2>3. CASE ShutdownStep
      BY <2>3, CancelQueuedKeeps, ShutPoolKeeps, PhaseKeeps DEF ShutdownStep
    <2>4. CASE UNCHANGED laneVars
      BY <2>4 DEF laneVars, LaneIInv, LaneKept, NoLostDispatch, LaneHeld, DrainedIsShut
    <2> QED
      BY <2>1, <2>2, <2>3, <2>4 DEF LaneNext
  <1> QED
    BY LaneInitKeeps, <1>1, PTL DEF LaneSpec

(* Whatever callers submit and cancel, and whenever the daemon goes down,   *)
(* the lane is not free while a body runs, and not idle without a dispatch  *)
(* on the way while a job waits.                                            *)
THEOREM LaneSafety == LaneSpec => []LaneKept
  <1>1. LaneIInv => LaneKept
    BY DEF LaneIInv
  <1> QED
    BY <1>1, LaneInvariance, PTL

(* Once the executor is shut for the drain, no job starts: one handed over  *)
(* before is dropped, one submitted later is refused.                       *)
THEOREM DrainedStartsNothing == LaneSpec => NoStartWithdrawn
  <1> DEFINE StartsNothing == (phase \in {"draining", "refused", "withdrawn"}) => \A j \in Job : ~Started(j)
  <1>1. ASSUME LaneIInv, [LaneNext]_laneVars PROVE StartsNothing
    <2> SUFFICES ASSUME phase \in {"draining", "refused", "withdrawn"}, NEW j \in Job,
                        future[j] # "running", future'[j] = "running"
                 PROVE  FALSE
      BY DEF Started
    <2>1. stage # "handed" /\ phase # "closing"
      BY <1>1 DEF LaneIInv, DrainedIsShut
    <2>2. ASSUME NEW i \in Job, Submit(i) \/ SubmitRefused(i) \/ Cancel(i) \/ Age(i) PROVE FALSE
      BY <1>1, <2>2 DEF Submit, SubmitRefused, Cancel, Age, LaneIInv
    <2>3. ~Drop
      BY <1>1 DEF Drop, LaneIInv
    <2>4. ~LaneStep
      BY <1>1, <2>1, <2>3 DEF LaneStep, Dispatch, LookUp, Hand, Start, FinishBody, ReleaseLane, LaneIInv
    <2>5. ~ShutdownStep
      BY <1>1, <2>1, <2>3 DEF ShutdownStep, RefuseOffload, CancelQueued, ShutPool, RefuseLane, Withdraw
    <2>6. ~UNCHANGED laneVars
      BY DEF laneVars
    <2> QED
      BY <1>1, <2>2, <2>4, <2>5, <2>6 DEF LaneNext
  <1> QED
    BY LaneInvariance, <1>1, PTL DEF LaneSpec, NoStartWithdrawn

-----------------------------------------------------------------------------
(* The least of some naturals. *)
LEMMA LeastOf ==
    ASSUME NEW S \in SUBSET Nat, S # {}
    PROVE  Min(S) \in S /\ \A n \in S : Min(S) <= n
  <1>1. IsWellFoundedOn(OpToRel(<, Nat), Nat)
    BY NatLessThanWellFounded
  <1>2. PICK m \in S : \A n \in S : ~(<<n, m>> \in OpToRel(<, Nat))
    BY <1>1, WFMin
  <1>3. \A n \in S : ~(n < m)
    BY <1>2 DEF OpToRel
  <1>4. \A n \in S : m <= n
    BY <1>3
  <1> QED
    BY <1>4 DEF Min

-----------------------------------------------------------------------------
(* A move of a namespace: its keys and its progress *)

(* Every set of keys can be counted. *)
LEMMA KeysCount ==
    ASSUME NEW S \in SUBSET Key
    PROVE  IsFiniteSet(S) /\ Cardinality(S) \in Nat
  BY NamespacesAssumption, FS_Subset, FS_CardinalityType

LEMMA FewerKeys ==
    ASSUME NEW S \in SUBSET Key, NEW T \in SUBSET S
    PROVE  Cardinality(T) <= Cardinality(S) /\ (Cardinality(T) = Cardinality(S) => T = S)
  BY KeysCount, FS_Subset

LEMMA KeysAdded ==
    ASSUME NEW S \in SUBSET Key, NEW T \in SUBSET Key, S \cap T = {}
    PROVE  Cardinality(S \cup T) = Cardinality(S) + Cardinality(T)
  <1>1. Cardinality(S) \in Nat /\ Cardinality(T) \in Nat /\ IsFiniteSet(S) /\ IsFiniteSet(T)
    BY KeysCount
  <1>2. Cardinality(S \cup T) = Cardinality(S) + Cardinality(T) - Cardinality(S \cap T)
    BY <1>1, FS_Union
  <1>3. Cardinality(S \cap T) = 0
    BY FS_EmptySet
  <1> QED
    BY <1>1, <1>2, <1>3

(* What the copies of a batch make of rows, vectors and edges. *)
LEMMA CopiedRows ==
    ASSUME SpaceTypeOK, NEW M \in SUBSET Key
    PROVE  /\ Copied(M) \in [Space -> [Key -> Nat]]
           /\ \A k \in Key :
                 /\ Copied(M)["source"][k] = IF k \in M THEN 0 ELSE rows["source"][k]
                 /\ Copied(M)["destination"][k] =
                       IF k \in M THEN rows["source"][k] ELSE rows["destination"][k]
  BY DEF SpaceTypeOK, Space, Copied

LEMMA CopiedVectors ==
    ASSUME SpaceTypeOK, NEW M \in SUBSET Key
    PROVE  /\ VectorsCopied(M) \in [Space -> [Key -> Nat]]
           /\ \A k \in Key :
                 /\ VectorsCopied(M)["source"][k] = IF k \in M THEN 0 ELSE vecs["source"][k]
                 /\ VectorsCopied(M)["destination"][k] =
                       IF k \in M THEN vecs["source"][k] ELSE vecs["destination"][k]
  BY DEF SpaceTypeOK, Space, VectorsCopied

LEMMA CopiedLinks ==
    ASSUME SpaceTypeOK, NEW B \in SUBSET Key, NEW M \in SUBSET B
    PROVE  /\ LinksCopied(B, M) \in [Space -> SUBSET SUBSET Key]
           /\ links["source"] \cup links["destination"]
                 \subseteq LinksCopied(B, M)["source"] \cup LinksCopied(B, M)["destination"]
  BY DEF SpaceTypeOK, Space, LinksCopied, Touching

(* The progress that a batch starts from and ends with. *)
LEMMA ProgressType ==
    ASSUME SpaceTypeOK, NEW v \in Verb
    PROVE  /\ NoProgress \in Progress
           /\ Found(v) \in Progress /\ Starting(v) \in Progress
           /\ Starting(v) = Found(v) \/ Starting(v) = [NoProgress EXCEPT !.started = TRUE, !.source = Count("source")]
  <1>1. NoProgress \in Progress
    BY DEF NoProgress, Progress
  <1>2. Found(v) \in Progress
    BY DEF Found, SpaceTypeOK
  <1>3. Count("source") \in Nat
    BY KeysCount DEF Count, Held
  <1>4. [NoProgress EXCEPT !.started = TRUE, !.source = Count("source")] \in Progress
    BY <1>1, <1>3 DEF Progress
  <1> QED
    BY <1>1, <1>2, <1>4 DEF Starting

(* Keys that a scan from `after` lists, with the cursor it leaves, which is  *)
(* before it and no row of the batch.                                       *)
LEMMA ListedKeys ==
    ASSUME SpaceTypeOK, NEW after \in Nat
    PROVE  /\ Listed(after) \subseteq Held("source")
           /\ \A k \in Listed(after) : after > 0 => rows["source"][k] < after
           /\ Listed(after) # {} =>
                 LET cursor == Min({rows["source"][k] : k \in Listed(after)}) IN
                 /\ cursor \in Nat /\ cursor > 0
                 /\ after > 0 => cursor < after
                 /\ \A k \in Listed(after) : rows["source"][k] >= cursor
  <1>1. Listed(after) \subseteq Held("source") /\ \A k \in Listed(after) : after > 0 => rows["source"][k] < after
    BY DEF Listed
  <1>2. \A k \in Held("source") : rows["source"][k] \in Nat /\ rows["source"][k] > 0
    BY DEF SpaceTypeOK, Space, Held
  <1> DEFINE stamps == {rows["source"][k] : k \in Listed(after)}
  <1>3. ASSUME Listed(after) # {} PROVE Min(stamps) \in stamps /\ \A n \in stamps : Min(stamps) <= n
    <2>1. stamps \in SUBSET Nat /\ stamps # {}
      BY <1>1, <1>2, <1>3
    <2> HIDE DEF stamps
    <2> QED
      BY <2>1, LeastOf
  <1> QED
    BY <1>1, <1>2, <1>3

-----------------------------------------------------------------------------
(* The initial state *)

(* Stamps can be dealt out so that no two keys have one. *)
LEMMA StampsExist ==
    \E s \in [Key -> 1..Cardinality(Key)] : \A j, k \in Key : s[j] = s[k] => j = k
  <1>1. PICK g \in Bijection(1..Cardinality(Key), Key) : TRUE
    BY NamespacesAssumption, FS_CardinalityType DEF ExistsBijection
  <1>2. g \in [1..Cardinality(Key) -> Key] /\ \A k \in Key : \E n \in 1..Cardinality(Key) : g[n] = k
    BY <1>1 DEF Bijection, Surjection
  <1> DEFINE s == [k \in Key |-> CHOOSE n \in 1..Cardinality(Key) : g[n] = k]
  <1>3. \A k \in Key : s[k] \in 1..Cardinality(Key) /\ g[s[k]] = k
    BY <1>2
  <1>4. s \in [Key -> 1..Cardinality(Key)]
    BY <1>3
  <1>5. \A j, k \in Key : s[j] = s[k] => j = k
    BY <1>3
  <1> HIDE DEF s
  <1> QED
    BY <1>4, <1>5

LEMMA SpaceInitKeeps == SpaceInit => SpaceIInv
  <1> SUFFICES ASSUME SpaceInit PROVE SpaceIInv
    OBVIOUS
  <1> DEFINE stampOf == CHOOSE s \in [Key -> 1..Cardinality(Key)] : \A j, k \in Key : s[j] = s[k] => j = k
             At(keys) == [k \in Key |-> IF k \in keys THEN stampOf[k] ELSE 0]
  <1>1. stampOf \in [Key -> 1..Cardinality(Key)]
    BY StampsExist
  <1>2. PICK source \in SUBSET Key, destination \in SUBSET Key :
              /\ source \cap destination = {}
              /\ rows = [source |-> At(source), destination |-> At(destination)]
              /\ vecs = rows
              /\ links = [source |-> {e \in SUBSET source : Cardinality(e) = 2}, destination |-> {}]
              /\ withheld \in {w \in SUBSET source : Cardinality(w) <= 1}
              /\ alive = {stampOf[k] : k \in source \cup destination}
    BY DEF SpaceInit
  <1> HIDE DEF stampOf
  <1>3. Cardinality(Key) \in Nat
    BY KeysCount
  <1>4. At(source) \in [Key -> Nat] /\ At(destination) \in [Key -> Nat]
    BY <1>1, <1>3
  <1>5. /\ lastStamp = Cardinality(Key) /\ torn = FALSE /\ job = "none" /\ halfway = {}
        /\ moves = [v \in Verb |-> NoProgress] /\ saved = [v \in Verb |-> NoProgress]
        /\ brought = [v \in Verb |-> {}] /\ left = [v \in Verb |-> {}] /\ disturbed = [v \in Verb |-> {}]
        /\ embedded = alive /\ linked = links["source"] /\ shared \in BOOLEAN
    BY DEF SpaceInit
  <1>6. NoProgress \in Progress /\ NoProgress.cursor = 0 /\ NoProgress.skipped = 0 /\ NoProgress.moved = 0
    BY DEF NoProgress, Progress
  <1>7. SpaceTypeOK
    <2>1. rows \in [Space -> [Key -> Nat]] /\ links \in [Space -> SUBSET SUBSET Key]
      BY <1>2, <1>4 DEF Space
    <2>5. \A space \in Space, k \in Key : rows[space][k] <= lastStamp
      BY <1>1, <1>2, <1>3, <1>5 DEF Space
    <2>2. alive \subseteq 1..lastStamp
      BY <1>1, <1>2, <1>5
    <2>3. withheld \subseteq Key /\ linked \subseteq SUBSET Key
      BY <1>2, <1>5
    <2>4. moves \in [Verb -> Progress] /\ saved \in [Verb -> Progress]
      BY <1>5, <1>6
    <2> QED
      BY <1>2, <1>3, <1>5, <2>1, <2>2, <2>3, <2>4, <2>5 DEF SpaceTypeOK
  <1>8. RowsTravel
    <2> SUFFICES ASSUME NEW s \in alive
                 PROVE  \E space \in Space, k \in Key : rows[space][k] = s /\ vecs[space][k] = s
      BY <1>2, <1>5 DEF RowsTravel
    <2>1. PICK k \in source \cup destination : s = stampOf[k]
      BY <1>2
    <2>2. CASE k \in source
      BY <1>2, <2>1, <2>2 DEF Space
    <2>3. CASE k \in destination
      BY <1>2, <2>1, <2>3 DEF Space
    <2> QED
      BY <2>1, <2>2, <2>3
  <1>9. HalfwayIsCopied /\ SavedIsCurrent
    BY <1>5 DEF HalfwayIsCopied, SavedIsCurrent
  <1>10. SkipsCounted
    <2>1. Passed(NoProgress) = {}
      BY <1>6 DEF Passed
    <2> QED
      BY <1>5, <1>6, <2>1, FS_EmptySet DEF SkipsCounted, SkipsMatch
  <1>11. MovesCounted
    BY <1>5, <1>6, FS_EmptySet DEF MovesCounted
  <1> QED
    BY <1>7, <1>8, <1>9, <1>10, <1>11 DEF SpaceIInv

-----------------------------------------------------------------------------
(* What a step does to the counts of a progress *)

LEMMA PassedKeys ==
    ASSUME NEW progress
    PROVE  /\ Passed(progress) \in SUBSET Key
           /\ progress.cursor = 0 => Passed(progress) = {}
  BY DEF Passed, Held

LEMMA NothingSkipped ==
    ASSUME NEW v \in Verb, NEW progress, progress.cursor = 0, progress.skipped = 0
    PROVE  SkipsMatch(v, progress)
  BY PassedKeys, FS_EmptySet DEF SkipsMatch

(* A progress stays right while the rows it has passed only grow in number. *)
LEMMA SkipsStay ==
    ASSUME NEW v \in Verb, NEW progress \in Progress, SkipsMatch(v, progress),
           "source" \notin disturbed'[v] =>
              /\ "source" \notin disturbed[v]
              /\ Passed(progress) \subseteq Passed(progress)'
              /\ progress.cursor > 0 => left[v] \subseteq left'[v]
    PROVE  SkipsMatch(v, progress)'
  <1> SUFFICES ASSUME "source" \notin disturbed'[v]
               PROVE  /\ progress.skipped <= Cardinality(Passed(progress)')
                      /\ progress.skipped = Cardinality(Passed(progress)') => Passed(progress)' \subseteq left'[v]
    BY DEF SkipsMatch
  <1> DEFINE before == Passed(progress)
  <1>1. PICK after : after = Passed(progress)'
    OBVIOUS
  <1>2. after \in SUBSET Key /\ before \in SUBSET after
    BY <1>1, PassedKeys DEF Passed, Held
  <1>3. Cardinality(before) \in Nat /\ Cardinality(after) \in Nat
    BY <1>2, KeysCount
  <1>4. Cardinality(before) <= Cardinality(after) /\ (Cardinality(before) = Cardinality(after) => before = after)
    BY <1>2, FewerKeys
  <1>5. progress.skipped \in Nat /\ progress.skipped <= Cardinality(before)
    BY DEF SkipsMatch, Progress
  <1>6. progress.skipped = Cardinality(before) => before \subseteq left[v]
    BY DEF SkipsMatch
  <1>7. progress.cursor = 0 \/ progress.cursor > 0
    BY DEF Progress
  <1>8. progress.cursor = 0 => before = {}
    BY PassedKeys
  <1> HIDE DEF before
  <1> QED
    BY <1>1, <1>3, <1>4, <1>5, <1>6, <1>7, <1>8

LEMMA NoneMoved ==
    /\ NoProgress.cursor = 0 /\ NoProgress.skipped = 0 /\ NoProgress.moved = 0 /\ ~NoProgress.started
    /\ \A v \in Verb : SkipsMatch(v, NoProgress)
  <1>1. NoProgress.cursor = 0 /\ NoProgress.skipped = 0 /\ NoProgress.moved = 0 /\ ~NoProgress.started
    BY DEF NoProgress
  <1> QED
    BY <1>1, NothingSkipped

(* Steps that leave rows and histories alone, and keep a progress, save it, *)
(* or forget it, leave the counts right.                                    *)
LEMMA CountsStay ==
    ASSUME SpaceIInv, UNCHANGED <<rows, left, brought, disturbed>>,
           \A v \in Verb :
              /\ moves'[v] \in {NoProgress, moves[v]}
              /\ ~torn' => (saved'[v] \in {NoProgress, moves[v]} \/ (~torn /\ saved'[v] = saved[v]))
    PROVE  SkipsCounted' /\ MovesCounted'
  <1>1. \A p : Passed(p)' = Passed(p)
    BY DEF Passed, Held
  <1>2. Held("destination")' = Held("destination")
    BY DEF Held
  <1>3. \A v \in Verb : \A p : SkipsMatch(v, p) => SkipsMatch(v, p)'
    BY <1>1 DEF SkipsMatch
  <1>4. \A v \in Verb : /\ SkipsMatch(v, moves[v]) /\ (~torn => SkipsMatch(v, saved[v]))
                        /\ Cardinality(brought[v]) \in Nat
    BY KeysCount DEF SpaceIInv, SkipsCounted, SpaceTypeOK
  <1>5. SkipsCounted'
    <2> SUFFICES ASSUME NEW v \in Verb
                 PROVE  SkipsMatch(v, moves[v])' /\ (~torn' => SkipsMatch(v, saved[v])')
      BY DEF SkipsCounted
    <2>1. PICK m, s : m = moves'[v] /\ s = saved'[v]
      OBVIOUS
    <2>2. SkipsMatch(v, m)' /\ (~torn' => SkipsMatch(v, s)')
      BY <1>3, <1>4, <2>1, NoneMoved
    <2> QED
      BY <2>1, <2>2 DEF SkipsMatch, Passed
  <1>6. MovesCounted'
    BY <1>2, <1>4, NoneMoved DEF SpaceIInv, MovesCounted
  <1> QED
    BY <1>5, <1>6

-----------------------------------------------------------------------------
(* Steps of the progress, in memory and in its file *)

LEMMA RowsStill ==
    ASSUME SpaceIInv, UNCHANGED <<rows, vecs, links, alive, embedded, linked>>
    PROVE  RowsTravel'
  BY DEF SpaceIInv, RowsTravel

LEMMA SaveProgressKeeps ==
    ASSUME SpaceIInv, NEW v \in Verb, SaveProgress(v)
    PROVE  SpaceIInv'
  <1> USE DEF SaveProgress
  <1>0. SpaceTypeOK /\ NoProgress \in Progress
    BY ProgressType DEF SpaceIInv
  <1>1. /\ moves' \in [Verb -> Progress] /\ saved' \in [Verb -> Progress]
        /\ \A x \in Verb :
              /\ moves'[x] \in {NoProgress, moves[x]}
              /\ saved'[x] \in {NoProgress, moves[x]} \/ saved'[x] = saved[x]
              /\ x = v => moves'[x] = saved'[x]
              /\ x # v => moves'[x] = moves[x] /\ saved'[x] = saved[x]
    BY <1>0 DEF SpaceTypeOK
  <1>2. SpaceTypeOK'
    BY <1>0, <1>1 DEF SpaceTypeOK
  <1>3. RowsTravel'
    BY RowsStill
  <1>4. HalfwayIsCopied'
    BY <1>1 DEF HalfwayIsCopied, SpaceIInv
  <1>5. SavedIsCurrent'
    BY <1>1 DEF SavedIsCurrent, SpaceIInv
  <1>6. SkipsCounted' /\ MovesCounted'
    BY <1>1, CountsStay
  <1> QED
    BY <1>2, <1>3, <1>4, <1>5, <1>6 DEF SpaceIInv

LEMMA SaveRefusedKeeps ==
    ASSUME SpaceIInv, NEW v \in Verb, SaveRefused(v)
    PROVE  SpaceIInv'
  <1> USE DEF SaveRefused
  <1>1. torn' = TRUE
    BY DEF SpaceIInv, SpaceTypeOK
  <1>2. SpaceTypeOK'
    BY <1>1 DEF SpaceIInv, SpaceTypeOK
  <1>3. RowsTravel'
    BY RowsStill
  <1>4. HalfwayIsCopied'
    BY DEF HalfwayIsCopied, SpaceIInv
  <1>5. SavedIsCurrent'
    BY <1>1 DEF SavedIsCurrent, SpaceIInv
  <1>6. SkipsCounted' /\ MovesCounted'
    BY <1>1, CountsStay
  <1> QED
    BY <1>2, <1>3, <1>4, <1>5, <1>6 DEF SpaceIInv

LEMMA RemoveFileKeeps ==
    ASSUME SpaceIInv, RemoveFile
    PROVE  SpaceIInv'
  <1> USE DEF RemoveFile
  <1>1. \A v \in Verb : moves'[v] = moves[v] /\ saved'[v] = NoProgress
    OBVIOUS
  <1>2. SpaceTypeOK'
    <2>1. NoProgress \in Progress
      BY DEF NoProgress, Progress
    <2> QED
      BY <2>1 DEF SpaceIInv, SpaceTypeOK
  <1>3. RowsTravel'
    BY RowsStill
  <1>4. HalfwayIsCopied'
    BY <1>1 DEF HalfwayIsCopied, SpaceIInv
  <1>5. SavedIsCurrent'
    BY <1>1 DEF SavedIsCurrent, SpaceIInv
  <1>6. SkipsCounted' /\ MovesCounted'
    BY <1>1, CountsStay
  <1> QED
    BY <1>2, <1>3, <1>4, <1>5, <1>6 DEF SpaceIInv

LEMMA KillMoveKeeps ==
    ASSUME SpaceIInv, KillMove
    PROVE  SpaceIInv'
  <1> USE DEF KillMove
  <1>1. \A v \in Verb : moves'[v] = NoProgress /\ saved'[v] = saved[v]
    OBVIOUS
  <1>2. torn' \in BOOLEAN /\ (~torn' => ~torn)
    BY DEF SpaceIInv, SpaceTypeOK
  <1>3. SpaceTypeOK'
    <2>1. NoProgress \in Progress
      BY DEF NoProgress, Progress
    <2> QED
      BY <1>2, <2>1 DEF SpaceIInv, SpaceTypeOK
  <1>4. RowsTravel'
    BY RowsStill
  <1>5. HalfwayIsCopied'
    BY <1>1 DEF HalfwayIsCopied, SpaceIInv
  <1>6. SavedIsCurrent'
    BY <1>1 DEF SavedIsCurrent, SpaceIInv
  <1>7. SkipsCounted' /\ MovesCounted'
    BY <1>1, <1>2, CountsStay
  <1> QED
    BY <1>3, <1>4, <1>5, <1>6, <1>7 DEF SpaceIInv

-----------------------------------------------------------------------------
(* A move over two files *)

(* Between two files no batched move begins, so there is nothing to count.  *)
LEMMA NoneCounted ==
    ASSUME SpaceIInv, ~shared, UNCHANGED <<shared, moves, saved, torn, job, left, brought, disturbed>>,
           Held("destination") \subseteq Held("destination")'
    PROVE  SavedIsCurrent' /\ SkipsCounted' /\ MovesCounted'
  <1>1. \A v \in Verb : moves[v] = NoProgress /\ saved[v] = NoProgress
    BY DEF SpaceIInv, HalfwayIsCopied
  <1>2. \A v \in Verb : SkipsMatch(v, NoProgress)'
    BY PassedKeys, NoneMoved, FS_EmptySet DEF SkipsMatch, Passed
  <1>3. SavedIsCurrent'
    BY <1>1 DEF SavedIsCurrent
  <1>4. SkipsCounted'
    BY <1>1, <1>2 DEF SkipsCounted
  <1>5. MovesCounted'
    BY DEF SpaceIInv, MovesCounted
  <1> QED
    BY <1>3, <1>4, <1>5

LEMMA MoveAllKeeps ==
    ASSUME SpaceIInv, NEW v \in Verb, MoveAll(v)
    PROVE  SpaceIInv'
  <1> DEFINE moving == (Held("source") \ withheld) \ ((Held("source") \ withheld) \cap Held("destination"))
  <1>0. SpaceTypeOK /\ moving \in SUBSET Key
    BY DEF SpaceIInv, Held
  <1>1. /\ ~shared /\ halfway = {} /\ halfway' = moving
        /\ rows' = [Copied(moving) EXCEPT !["source"] = rows["source"]]
        /\ vecs' = [VectorsCopied(moving) EXCEPT !["source"] = vecs["source"]]
        /\ links' = [links EXCEPT !["destination"] = @ \cup links["source"]]
        /\ UNCHANGED <<shared, withheld, lastStamp, moves, saved, torn, job, kills, alive, embedded, linked,
                       brought, left, disturbed>>
    BY DEF MoveAll
  <1>2. /\ rows' \in [Space -> [Key -> Nat]]
        /\ rows'["source"] = rows["source"]
        /\ \A k \in Key : rows'["destination"][k] = IF k \in moving THEN rows["source"][k]
                                                     ELSE rows["destination"][k]
    BY <1>0, <1>1, CopiedRows DEF Space, SpaceTypeOK
  <1>3. /\ vecs' \in [Space -> [Key -> Nat]]
        /\ vecs'["source"] = vecs["source"]
        /\ \A k \in Key : vecs'["destination"][k] = IF k \in moving THEN vecs["source"][k]
                                                     ELSE vecs["destination"][k]
    <2>1. /\ VectorsCopied(moving) \in [Space -> [Key -> Nat]]
          /\ \A k \in Key : VectorsCopied(moving)["destination"][k] =
                            IF k \in moving THEN vecs["source"][k] ELSE vecs["destination"][k]
      BY <1>0, CopiedVectors
    <2>2. vecs["source"] \in [Key -> Nat]
      BY <1>0 DEF SpaceTypeOK, Space
    <2> QED
      BY <1>1, <2>1, <2>2 DEF Space
  <1>4. /\ links' \in [Space -> SUBSET SUBSET Key]
        /\ links'["source"] = links["source"]
        /\ links'["destination"] = links["destination"] \cup links["source"]
    BY <1>0, <1>1 DEF Space, SpaceTypeOK
  <1>5. \A k \in moving : rows["destination"][k] = 0
    BY DEF Held
  <1> HIDE DEF moving
  <1>6. SpaceTypeOK'
    <2>1. \A space \in Space, k \in Key : rows'[space][k] <= lastStamp
      BY <1>0, <1>2 DEF SpaceTypeOK, Space
    <2> QED
      BY <1>0, <1>1, <1>2, <1>3, <1>4, <2>1 DEF SpaceTypeOK
  <1>7. RowsTravel'
    <2>1. \A s \in alive : s # 0
      BY <1>0 DEF SpaceTypeOK
    <2>2. ASSUME NEW s \in alive
          PROVE  \E space \in Space, k \in Key : rows'[space][k] = s /\ (s \in embedded => vecs'[space][k] = s)
      <3>1. PICK space \in Space, k \in Key : rows[space][k] = s /\ (s \in embedded => vecs[space][k] = s)
        BY DEF SpaceIInv, RowsTravel
      <3>2. space = "source" \/ space = "destination"
        BY DEF Space
      <3>3. space = "destination" => k \notin moving
        BY <1>5, <2>1, <3>1
      <3>4. rows'[space][k] = s /\ (s \in embedded => vecs'[space][k] = s)
        BY <1>2, <1>3, <3>1, <3>2, <3>3
      <3> QED
        BY <3>4
    <2> QED
      BY <1>1, <1>4, <2>2 DEF SpaceIInv, RowsTravel
  <1>8. HalfwayIsCopied'
    BY <1>0, <1>1, <1>2, <1>3, <1>4 DEF SpaceIInv, HalfwayIsCopied
  <1>9. Held("destination") \subseteq Held("destination")'
    BY <1>2, <1>5 DEF Held
  <1> QED
    BY <1>1, <1>6, <1>7, <1>8, <1>9, NoneCounted DEF SpaceIInv

LEMMA CommitSourceKeeps ==
    ASSUME SpaceIInv, CommitSource
    PROVE  SpaceIInv'
  <1>0. SpaceTypeOK /\ HalfwayIsCopied /\ halfway \subseteq Key /\ halfway # {} /\ ~shared
    BY DEF SpaceIInv, SpaceTypeOK, CommitSource, HalfwayIsCopied
  <1>1. /\ halfway' = {}
        /\ rows' = [rows EXCEPT !["source"] = [k \in Key |-> IF k \in halfway THEN 0 ELSE @[k]]]
        /\ vecs' = [vecs EXCEPT !["source"] = [k \in Key |-> IF k \in halfway THEN 0 ELSE @[k]]]
        /\ links' = [links EXCEPT !["source"] = @ \ Touching(@, halfway)]
        /\ UNCHANGED <<shared, withheld, lastStamp, moves, saved, torn, job, kills, alive, embedded, linked,
                       brought, left, disturbed>>
    BY DEF CommitSource
  <1>2. /\ rows' \in [Space -> [Key -> Nat]]
        /\ rows'["destination"] = rows["destination"]
        /\ \A k \in Key \ halfway : rows'["source"][k] = rows["source"][k]
        /\ \A k \in halfway : rows'["source"][k] = 0
    BY <1>0, <1>1 DEF Space, SpaceTypeOK
  <1>3. /\ vecs' \in [Space -> [Key -> Nat]]
        /\ vecs'["destination"] = vecs["destination"]
        /\ \A k \in Key \ halfway : vecs'["source"][k] = vecs["source"][k]
    BY <1>0, <1>1 DEF Space, SpaceTypeOK
  <1>4. /\ links' \in [Space -> SUBSET SUBSET Key]
        /\ links'["destination"] = links["destination"]
        /\ links["source"] \subseteq links["destination"]
    BY <1>0, <1>1 DEF Space, SpaceTypeOK, Touching, HalfwayIsCopied
  <1>5. SpaceTypeOK'
    <2>1. \A space \in Space, k \in Key : rows'[space][k] <= lastStamp
      BY <1>0, <1>2 DEF SpaceTypeOK, Space
    <2> QED
      BY <1>0, <1>1, <1>2, <1>3, <1>4, <2>1 DEF SpaceTypeOK
  <1>6. RowsTravel'
    <2>1. ASSUME NEW s \in alive
          PROVE  \E space \in Space, k \in Key : rows'[space][k] = s /\ (s \in embedded => vecs'[space][k] = s)
      <3>1. PICK space \in Space, k \in Key : rows[space][k] = s /\ (s \in embedded => vecs[space][k] = s)
        BY DEF SpaceIInv, RowsTravel
      <3>2. CASE space = "source" /\ k \in halfway
        <4>1. rows'["destination"][k] = s /\ (s \in embedded => vecs'["destination"][k] = s)
          BY <1>0, <1>2, <1>3, <3>1, <3>2 DEF HalfwayIsCopied
        <4> QED
          BY <4>1 DEF Space
      <3>3. CASE ~(space = "source" /\ k \in halfway)
        <4>1. space = "source" \/ space = "destination"
          BY DEF Space
        <4>2. rows'[space][k] = s /\ (s \in embedded => vecs'[space][k] = s)
          BY <1>2, <1>3, <3>1, <3>3, <4>1
        <4> QED
          BY <4>2
      <3> QED
        BY <3>2, <3>3
    <2> QED
      BY <1>1, <1>4, <2>1 DEF SpaceIInv, RowsTravel
  <1>7. HalfwayIsCopied'
    BY <1>0, <1>1 DEF HalfwayIsCopied
  <1>8. Held("destination") \subseteq Held("destination")'
    BY <1>2 DEF Held
  <1> QED
    BY <1>0, <1>1, <1>5, <1>6, <1>7, <1>8, NoneCounted DEF SpaceIInv

-----------------------------------------------------------------------------
(* Other tenants *)

(* The counts of every move stay right under a step of a tenant, which adds *)
(* to the rows passed or puts the space among the disturbed.                *)
LEMMA TenantCounts ==
    ASSUME SpaceIInv, UNCHANGED <<moves, saved, torn, job, left, brought>>,
           \A v \in Verb : /\ disturbed[v] \subseteq disturbed'[v]
                           /\ "source" \notin disturbed'[v] => \A p \in Progress : Passed(p) \subseteq Passed(p)'
                           /\ "destination" \notin disturbed'[v] => Held("destination") \subseteq Held("destination")'
    PROVE  SavedIsCurrent' /\ SkipsCounted' /\ MovesCounted'
  <1>1. SavedIsCurrent'
    BY DEF SpaceIInv, SavedIsCurrent
  <1>2. ASSUME NEW v \in Verb, NEW p \in Progress, SkipsMatch(v, p) PROVE SkipsMatch(v, p)'
    BY <1>2, SkipsStay
  <1>3. SkipsCounted'
    <2>1. \A v \in Verb : moves[v] \in Progress /\ saved[v] \in Progress
      BY DEF SpaceIInv, SpaceTypeOK
    <2> QED
      BY <1>2, <2>1 DEF SpaceIInv, SkipsCounted
  <1>4. MovesCounted'
    BY DEF SpaceIInv, MovesCounted
  <1> QED
    BY <1>1, <1>3, <1>4

LEMMA TenantStoreKeeps ==
    ASSUME SpaceIInv, NEW space \in Space, NEW k \in Key, TenantStore(space, k)
    PROVE  SpaceIInv'
  <1>0. SpaceTypeOK /\ HalfwayIsCopied
    BY DEF SpaceIInv
  <1>1. PICK embeds \in BOOLEAN, given \in {lastStamp + 1} :
              /\ lastStamp' = given
              /\ rows' = [rows EXCEPT ![space][k] = given]
              /\ vecs' = [vecs EXCEPT ![space][k] = IF embeds THEN given ELSE 0]
              /\ embedded' = IF embeds THEN embedded \cup {given} ELSE embedded
              /\ alive' = (alive \ {rows[space][k]}) \cup {given}
              /\ halfway = {}
              /\ UNCHANGED <<shared, links, withheld, moves, saved, torn, job, halfway, kills, linked,
                             brought, left, disturbed>>
    BY DEF TenantStore, TenantMay
  <1>2. /\ given \in Nat /\ given > 0 /\ given \notin embedded
        /\ \A s \in alive : s \in 1..given /\ s # given
        /\ \A s \in embedded : s \in 1..given
        /\ \A x \in Space, j \in Key : rows[x][j] \in Nat /\ rows[x][j] < given
    BY <1>0, <1>1 DEF SpaceTypeOK
  <1>3. /\ rows' \in [Space -> [Key -> Nat]] /\ rows'[space][k] = given
        /\ \A x \in Space, j \in Key : <<x, j>> # <<space, k>> => rows'[x][j] = rows[x][j]
    BY <1>0, <1>1, <1>2 DEF SpaceTypeOK
  <1>4. /\ vecs' \in [Space -> [Key -> Nat]] /\ vecs'[space][k] = IF embeds THEN given ELSE 0
        /\ \A x \in Space, j \in Key : <<x, j>> # <<space, k>> => vecs'[x][j] = vecs[x][j]
    BY <1>0, <1>1, <1>2 DEF SpaceTypeOK
  <1>5. SpaceTypeOK'
    <2>1. lastStamp' \in Nat /\ alive' \subseteq 1..lastStamp' /\ embedded' \subseteq 1..lastStamp'
      BY <1>1, <1>2
    <2>2. \A x \in Space, j \in Key : rows'[x][j] <= lastStamp'
      BY <1>1, <1>2, <1>3
    <2> QED
      BY <1>0, <1>1, <1>3, <1>4, <2>1, <2>2 DEF SpaceTypeOK
  <1>6. RowsTravel'
    <2>1. ASSUME NEW s \in alive'
          PROVE  \E x \in Space, j \in Key : rows'[x][j] = s /\ (s \in embedded' => vecs'[x][j] = s)
      <3>1. CASE s = given
        <4>1. embeds \/ given \notin embedded' \/ ~embeds
          OBVIOUS
        <4>2. CASE embeds
          BY <1>3, <1>4, <3>1, <4>2
        <4>3. CASE ~embeds
          <5>1. given \notin embedded'
            BY <1>1, <1>2, <4>3
          <5> QED
            BY <1>3, <3>1, <5>1
        <4> QED
          BY <4>2, <4>3
      <3>2. CASE s # given
        <4>1. s \in alive /\ s # rows[space][k] /\ (s \in embedded' => s \in embedded)
          BY <1>1, <2>1, <3>2
        <4>2. PICK x \in Space, j \in Key : rows[x][j] = s /\ (s \in embedded => vecs[x][j] = s)
          BY <4>1 DEF SpaceIInv, RowsTravel
        <4>3. <<x, j>> # <<space, k>>
          BY <4>1, <4>2
        <4>4. rows'[x][j] = s /\ (s \in embedded' => vecs'[x][j] = s)
          BY <1>3, <1>4, <4>1, <4>2, <4>3
        <4> QED
          BY <4>4
      <3> QED
        BY <3>1, <3>2
    <2>2. \A e \in linked' : e \in links'["source"] \cup links'["destination"]
      BY <1>1 DEF SpaceIInv, RowsTravel
    <2> QED
      BY <2>1, <2>2 DEF RowsTravel
  <1>7. HalfwayIsCopied'
    BY <1>0, <1>1 DEF HalfwayIsCopied
  <1>8. Held("destination") \subseteq Held("destination")'
    <2>1. \A j \in Key : rows["destination"][j] # 0 => rows'["destination"][j] # 0
      BY <1>2, <1>3 DEF Space
    <2> QED
      BY <2>1 DEF Held
  <1>9. ASSUME NEW p \in Progress PROVE Passed(p) \subseteq Passed(p)'
    <2> SUFFICES ASSUME NEW j \in Passed(p) PROVE j \in Passed(p)'
      OBVIOUS
    <2>1. /\ j \in Key /\ p.cursor > 0 /\ rows["source"][j] >= p.cursor /\ rows["source"][j] # 0
          /\ rows["source"][j] \in Nat /\ p.cursor \in Nat /\ rows["source"][j] < given
      BY <1>2 DEF Passed, Held, Progress, Space
    <2>2. rows'["source"][j] # 0 /\ rows'["source"][j] >= p.cursor
      BY <1>2, <1>3, <2>1 DEF Space
    <2> QED
      BY <2>1, <2>2 DEF Passed, Held
  <1> QED
    BY <1>1, <1>5, <1>6, <1>7, <1>8, <1>9, TenantCounts DEF SpaceIInv

LEMMA TenantDeleteKeeps ==
    ASSUME SpaceIInv, NEW space \in Space, NEW k \in Key, TenantDelete(space, k)
    PROVE  SpaceIInv'
  <1>0. SpaceTypeOK /\ HalfwayIsCopied
    BY DEF SpaceIInv
  <1>1. /\ lastStamp' = lastStamp + 1 /\ halfway = {}
        /\ rows' = [rows EXCEPT ![space][k] = 0] /\ vecs' = [vecs EXCEPT ![space][k] = 0]
        /\ links' = [links EXCEPT ![space] = @ \ Touching(@, {k})]
        /\ withheld' \subseteq withheld
        /\ alive' = alive \ {rows[space][k]}
        /\ linked' = linked \ Touching(linked, {k})
        /\ disturbed' = [v \in Verb |-> disturbed[v] \cup {space}]
        /\ UNCHANGED <<shared, moves, saved, torn, job, halfway, kills, embedded, brought, left>>
    BY DEF TenantDelete, TenantMay
  <1>2. /\ rows' \in [Space -> [Key -> Nat]] /\ rows'[space][k] = 0
        /\ \A x \in Space, j \in Key : <<x, j>> # <<space, k>> => rows'[x][j] = rows[x][j]
    BY <1>0, <1>1 DEF SpaceTypeOK
  <1>3. /\ vecs' \in [Space -> [Key -> Nat]]
        /\ \A x \in Space, j \in Key : <<x, j>> # <<space, k>> => vecs'[x][j] = vecs[x][j]
    BY <1>0, <1>1 DEF SpaceTypeOK
  <1>4. /\ links' \in [Space -> SUBSET SUBSET Key]
        /\ \A x \in Space : \A e \in links[x] : k \notin e => e \in links'[x]
    <2>1. links \in [Space -> SUBSET SUBSET Key]
      BY <1>0 DEF SpaceTypeOK
    <2>2. links'[space] = links[space] \ Touching(links[space], {k})
      BY <1>1, <2>1
    <2>3. \A x \in Space \ {space} : links'[x] = links[x]
      BY <1>1, <2>1
    <2>4. links' \in [Space -> SUBSET SUBSET Key]
      BY <1>1, <2>1
    <2> QED
      BY <2>2, <2>3, <2>4 DEF Touching
  <1>5. SpaceTypeOK'
    <2>0. lastStamp \in Nat /\ alive \subseteq 1..lastStamp /\ embedded \subseteq 1..lastStamp
      BY <1>0 DEF SpaceTypeOK
    <2>1. lastStamp' \in Nat /\ alive' \subseteq 1..lastStamp' /\ embedded' \subseteq 1..lastStamp'
      BY <1>1, <2>0
    <2>2. \A x \in Space, j \in Key : rows'[x][j] <= lastStamp'
      BY <1>0, <1>1, <1>2 DEF SpaceTypeOK
    <2>3. disturbed' \in [Verb -> SUBSET Space]
      BY <1>0, <1>1 DEF SpaceTypeOK
    <2> QED
      BY <1>0, <1>1, <1>2, <1>3, <1>4, <2>1, <2>2, <2>3 DEF SpaceTypeOK
  <1>6. RowsTravel'
    <2>1. ASSUME NEW s \in alive'
          PROVE  \E x \in Space, j \in Key : rows'[x][j] = s /\ (s \in embedded' => vecs'[x][j] = s)
      <3>1. s \in alive /\ s # rows[space][k]
        BY <1>1, <2>1
      <3>2. PICK x \in Space, j \in Key : rows[x][j] = s /\ (s \in embedded => vecs[x][j] = s)
        BY <3>1 DEF SpaceIInv, RowsTravel
      <3>3. <<x, j>> # <<space, k>>
        BY <3>1, <3>2
      <3>4. rows'[x][j] = s /\ (s \in embedded' => vecs'[x][j] = s)
        BY <1>1, <1>2, <1>3, <3>2, <3>3
      <3> QED
        BY <3>4
    <2>2. ASSUME NEW e \in linked' PROVE e \in links'["source"] \cup links'["destination"]
      <3>1. e \in linked /\ k \notin e
        BY <1>1, <2>2 DEF Touching
      <3>2. e \in links["source"] \cup links["destination"]
        BY <3>1 DEF SpaceIInv, RowsTravel
      <3> QED
        BY <1>4, <3>1, <3>2 DEF Space
    <2> QED
      BY <2>1, <2>2 DEF RowsTravel
  <1>7. HalfwayIsCopied'
    BY <1>0, <1>1 DEF HalfwayIsCopied
  <1>8. space = "source" \/ space = "destination"
    BY DEF Space
  <1>9. space = "source" => Held("destination")' = Held("destination")
    BY <1>2 DEF Held, Space
  <1>10. space = "destination" => \A p \in Progress : Passed(p)' = Passed(p)
    BY <1>2 DEF Passed, Held, Space
  <1>11. \A v \in Verb : disturbed'[v] = disturbed[v] \cup {space}
    BY <1>1
  <1> QED
    BY <1>1, <1>5, <1>6, <1>7, <1>8, <1>9, <1>10, <1>11, TenantCounts DEF SpaceIInv

LEMMA TenantLinkKeeps ==
    ASSUME SpaceIInv, NEW j \in Key, NEW k \in Key, TenantLink(j, k)
    PROVE  SpaceIInv'
  <1>0. SpaceTypeOK /\ HalfwayIsCopied /\ RowsTravel
    BY DEF SpaceIInv
  <1>1. /\ lastStamp' = lastStamp + 1 /\ halfway = {}
        /\ links' = [links EXCEPT !["source"] = @ \cup {{j, k}}]
        /\ linked' = linked \cup {{j, k}}
        /\ UNCHANGED <<shared, rows, vecs, withheld, moves, saved, torn, job, halfway, kills, alive, embedded,
                       brought, left, disturbed>>
    BY DEF TenantLink, TenantMay
  <1>2. /\ links' \in [Space -> SUBSET SUBSET Key]
        /\ links'["source"] = links["source"] \cup {{j, k}} /\ links'["destination"] = links["destination"]
    BY <1>0, <1>1 DEF SpaceTypeOK, Space
  <1>3. SpaceTypeOK'
    <2>1. lastStamp \in Nat /\ alive \subseteq 1..lastStamp /\ embedded \subseteq 1..lastStamp
      BY <1>0 DEF SpaceTypeOK
    <2>2. lastStamp' \in Nat /\ alive' \subseteq 1..lastStamp' /\ embedded' \subseteq 1..lastStamp'
      BY <1>1, <2>1
    <2>3. rows' \in [Space -> [Key -> Nat]] /\ \A x \in Space, i \in Key : rows'[x][i] <= lastStamp'
      BY <1>0, <1>1, <2>1 DEF SpaceTypeOK
    <2>4. linked' \subseteq SUBSET Key
      BY <1>0, <1>1 DEF SpaceTypeOK
    <2> QED
      BY <1>0, <1>1, <1>2, <2>2, <2>3, <2>4 DEF SpaceTypeOK
  <1>4. RowsTravel'
    BY <1>0, <1>1, <1>2 DEF RowsTravel
  <1>5. HalfwayIsCopied'
    BY <1>0, <1>1 DEF HalfwayIsCopied
  <1>6. Held("destination")' = Held("destination") /\ \A p : Passed(p)' = Passed(p)
    BY <1>1 DEF Held, Passed
  <1> QED
    BY <1>1, <1>3, <1>4, <1>5, <1>6, TenantCounts DEF SpaceIInv

-----------------------------------------------------------------------------
(* A batch *)

LEMMA StartCounts ==
    ASSUME SpaceIInv, NEW v \in Verb, Reads(v)
    PROVE  /\ Starting(v).started /\ SkipsMatch(v, Starting(v))
           /\ ~torn => saved[v] \in {NoProgress, Starting(v)}
           /\ Fresh(v) => Starting(v).cursor = 0 /\ Starting(v).moved = 0
           /\ "destination" \notin disturbed[v] => Starting(v).moved <= Cardinality(brought[v])
  <1>0. SpaceTypeOK /\ SavedIsCurrent /\ SkipsCounted /\ MovesCounted
    BY DEF SpaceIInv
  <1>1. Cardinality(brought[v]) \in Nat
    BY <1>0, KeysCount DEF SpaceTypeOK
  <1>2. CASE Found(v).started
    <2>1. Starting(v) = Found(v) /\ ~Fresh(v)
      BY <1>2, NoneMoved DEF Starting, Fresh
    <2>2. moves[v] = NoProgress => ~torn
      BY DEF Reads
    <2>3. SkipsMatch(v, Found(v))
      BY <1>0, <2>2 DEF Found, SkipsCounted
    <2>4. ~torn => saved[v] \in {NoProgress, Found(v)}
      <3>1. job # v
        BY DEF Reads, Verb
      <3> QED
        BY <1>0, <3>1 DEF Found, SavedIsCurrent
    <2>5. "destination" \notin disturbed[v] => Found(v).moved <= Cardinality(brought[v])
      BY <1>0, <2>2 DEF Found, MovesCounted
    <2> QED
      BY <1>2, <2>1, <2>3, <2>4, <2>5
  <1>3. CASE ~Found(v).started
    <2>1. Starting(v) = [NoProgress EXCEPT !.started = TRUE, !.source = Count("source")]
      BY <1>3 DEF Starting
    <2>2. Starting(v).started /\ Starting(v).cursor = 0 /\ Starting(v).skipped = 0 /\ Starting(v).moved = 0
      BY <2>1 DEF NoProgress
    <2>3. moves[v] = NoProgress /\ saved[v] = NoProgress
      BY <1>0, <1>3 DEF Found, SavedIsCurrent
    <2> QED
      BY <1>1, <2>2, <2>3, NothingSkipped
  <1> QED
    BY <1>2, <1>3

(* What the scan of a start has passed, when a batch moves M and skips T. *)
LEMMA StartPassed ==
    ASSUME SpaceIInv, NEW v \in Verb, Reads(v), NEW M \in SUBSET Key, NEW T \in SUBSET Key, Ghosts(v, M, T),
           NEW start \in Progress, start = Starting(v), "source" \notin disturbed'[v]
    PROVE  /\ start.skipped <= Cardinality(Passed(start))
           /\ start.skipped = Cardinality(Passed(start)) => Passed(start) \subseteq left'[v]
  <1>1. /\ SkipsMatch(v, start) /\ (Fresh(v) => start.cursor = 0)
    BY StartCounts
  <1>2. /\ disturbed'[v] = (IF Fresh(v) THEN {} ELSE disturbed[v])
        /\ left'[v] = (IF start.cursor = 0 THEN {} ELSE left[v]) \cup T
    BY DEF Ghosts, SpaceIInv, SpaceTypeOK
  <1>3. CASE start.cursor = 0
    <2>1. start.skipped = 0 /\ Passed(start) = {}
      BY <1>1, <1>3, PassedKeys DEF SkipsMatch
    <2> QED
      BY <2>1, FS_EmptySet
  <1>4. CASE start.cursor # 0
    BY <1>1, <1>2, <1>4 DEF SkipsMatch
  <1> QED
    BY <1>3, <1>4

(* What a batch that moves the keys M and skips the keys T makes of counts. *)
LEMMA BatchCounts ==
    ASSUME SpaceIInv, NEW v \in Verb, Reads(v), NEW M \in SUBSET Key, NEW T \in SUBSET Key,
           NEW reached \in Progress, reached.started,
           moves' = [moves EXCEPT ![v] = reached], job' = v, saved' = saved, torn' = torn,
           Ghosts(v, M, T), rows' = Copied(M),
           M \cap T = {}, M \subseteq Held("source") \ Held("destination"), T \subseteq Held("source"),
           \A k \in M \cup T : Starting(v).cursor > 0 => rows["source"][k] < Starting(v).cursor,
           reached.moved = Starting(v).moved + Cardinality(M),
           \/ reached.cursor = 0 /\ reached.skipped = 0
           \/ /\ reached.cursor > 0 /\ reached.skipped = Starting(v).skipped + Cardinality(T)
              /\ Starting(v).cursor > 0 => reached.cursor <= Starting(v).cursor
              /\ \A k \in T : rows["source"][k] >= reached.cursor
    PROVE  SavedIsCurrent' /\ SkipsCounted' /\ MovesCounted'
  <1>0. SpaceTypeOK /\ SavedIsCurrent /\ SkipsCounted /\ MovesCounted
    BY DEF SpaceIInv
  <1>1. PICK start \in Progress : start = Starting(v)
    BY <1>0, ProgressType
  <1>2. /\ start.started /\ SkipsMatch(v, start)
        /\ ~torn => saved[v] \in {NoProgress, start}
        /\ Fresh(v) => start.cursor = 0 /\ start.moved = 0
        /\ "destination" \notin disturbed[v] => start.moved <= Cardinality(brought[v])
    BY <1>1, StartCounts
  <1>3. \A k \in Key : /\ rows["source"][k] \in Nat
                       /\ rows'["source"][k] = IF k \in M THEN 0 ELSE rows["source"][k]
                       /\ rows'["destination"][k] = IF k \in M THEN rows["source"][k]
                                                    ELSE rows["destination"][k]
    BY <1>0, CopiedRows DEF SpaceTypeOK, Space
  <1>4. /\ moves'[v] = reached /\ \A x \in Verb \ {v} : moves'[x] = moves[x]
        /\ brought'[v] = (IF Fresh(v) THEN {} ELSE brought[v]) \cup M
        /\ \A x \in Verb \ {v} : brought'[x] = brought[x]
        /\ left'[v] = (IF start.cursor = 0 THEN {} ELSE left[v]) \cup T
        /\ \A x \in Verb \ {v} : left'[x] = left[x]
        /\ disturbed'[v] = IF Fresh(v) THEN {} ELSE disturbed[v]
        /\ \A x \in Verb \ {v} : disturbed'[x] = disturbed[x] \cup (IF M = {} THEN {} ELSE Space)
    BY <1>0, <1>1 DEF Ghosts, SpaceTypeOK
  <1>5. job = "none" /\ job' = v
    BY DEF Reads
  <1>6. \A k \in M \cup T : start.cursor > 0 => rows["source"][k] < start.cursor
    BY <1>1
  <1>7. SavedIsCurrent'
    <2> SUFFICES ASSUME NEW x \in Verb
                 PROVE  /\ ~torn' /\ job' # x /\ moves'[x] # NoProgress => saved'[x] \in {NoProgress, moves'[x]}
                        /\ moves'[x] = NoProgress \/ moves'[x].started
                        /\ saved'[x] = NoProgress \/ saved'[x].started
      BY DEF SavedIsCurrent
    <2>1. job # x
      BY <1>5 DEF Verb
    <2> QED
      BY <1>0, <1>4, <1>5, <2>1 DEF SavedIsCurrent
  (* Of the rows that start has passed none moves. *)
  <1>8. ASSUME NEW p \in Progress, p.cursor > 0, start.cursor > 0, p.cursor >= start.cursor \/ p = start
        PROVE  Passed(p) \subseteq Passed(p)'
    <2>1. p.cursor \in Nat /\ start.cursor \in Nat
      BY DEF Progress
    <2>2. \A k \in Passed(p) : k \in Key /\ k \notin M
      BY <1>3, <1>6, <1>8, <2>1 DEF Passed, Held
    <2> QED
      BY <1>3, <2>2 DEF Passed, Held
  <1>9. SkipsMatch(v, reached)'
    <2>1. CASE reached.cursor = 0
      <3>1. Passed(reached)' = {} /\ reached.skipped = 0
        BY <2>1 DEF Passed, Progress
      <3> QED
        BY <2>1, <3>1, FS_EmptySet DEF SkipsMatch
    <2>2. CASE reached.cursor > 0
      <3> DEFINE A == Passed(start)
      <3>1. PICK N : N = Passed(reached)'
        OBVIOUS
      <3>2. /\ reached.skipped = start.skipped + Cardinality(T)
            /\ start.cursor > 0 => reached.cursor <= start.cursor
            /\ \A k \in T : rows["source"][k] >= reached.cursor
            /\ start.cursor \in Nat /\ reached.cursor \in Nat /\ start.skipped \in Nat
        BY <1>1, <2>2 DEF Progress
      <3>3. start.cursor = 0 => A = {}
        BY PassedKeys
      <3>4. A \in SUBSET Key /\ N \in SUBSET Key
        BY <3>1 DEF Passed, Held
      <3>5. A \cap T = {}
        BY <1>3, <1>6, <3>2, <3>3 DEF Passed, Held
      <3>6. A \cup T \subseteq N
        <4>1. ASSUME NEW k \in A PROVE k \in N
          <5>1. start.cursor > 0 /\ k \in Held("source") /\ rows["source"][k] >= start.cursor /\ k \in Key
            BY <4>1 DEF Passed, Held
          <5>2. k \notin M
            BY <1>3, <1>6, <3>2, <5>1
          <5>3. rows'["source"][k] = rows["source"][k] /\ rows["source"][k] >= reached.cursor
            BY <1>3, <3>2, <5>1, <5>2
          <5> QED
            BY <2>2, <3>1, <5>1, <5>3 DEF Passed, Held
        <4>2. ASSUME NEW k \in T PROVE k \in N
          <5>1. k \in Key /\ k \notin M /\ rows["source"][k] >= reached.cursor /\ rows["source"][k] # 0
            BY <3>2, <4>2 DEF Held
          <5> QED
            BY <1>3, <2>2, <3>1, <5>1 DEF Passed, Held
        <4> QED
          BY <4>1, <4>2
      <3>7. "source" \notin disturbed'[v] =>
               /\ start.skipped <= Cardinality(A)
               /\ start.skipped = Cardinality(A) => A \subseteq left'[v]
        BY <1>1, StartPassed
      <3>8. /\ Cardinality(A) \in Nat /\ Cardinality(T) \in Nat /\ Cardinality(N) \in Nat
            /\ Cardinality(A \cup T) \in Nat /\ Cardinality(A \cup T) = Cardinality(A) + Cardinality(T)
        BY <3>4, <3>5, KeysCount, KeysAdded
      <3>9. Cardinality(A \cup T) <= Cardinality(N) /\ (Cardinality(A \cup T) = Cardinality(N) => A \cup T = N)
        BY <3>4, <3>6, FewerKeys
      <3>10. T \subseteq left'[v]
        BY <1>4
      <3> HIDE DEF A
      <3>11. "source" \notin disturbed'[v] =>
                /\ reached.skipped <= Cardinality(N)
                /\ reached.skipped = Cardinality(N) => N \subseteq left'[v]
        <4> SUFFICES ASSUME "source" \notin disturbed'[v]
                     PROVE  /\ reached.skipped <= Cardinality(N)
                            /\ reached.skipped = Cardinality(N) => N \subseteq left'[v]
          OBVIOUS
        <4>1. reached.skipped <= Cardinality(N)
          BY <3>2, <3>7, <3>8, <3>9
        <4>2. ASSUME reached.skipped = Cardinality(N) PROVE N \subseteq left'[v]
          <5>1. start.skipped = Cardinality(A) /\ Cardinality(A \cup T) = Cardinality(N)
            BY <3>2, <3>7, <3>8, <3>9, <4>2
          <5> QED
            BY <3>7, <3>9, <3>10, <5>1
        <4> QED
          BY <4>1, <4>2
      <3> QED
        BY <2>2, <3>1, <3>2, <3>11 DEF SkipsMatch
    <2> QED
      BY <2>1, <2>2 DEF Progress
  <1>10. ~torn' => SkipsMatch(v, saved[v])'
    <2> SUFFICES ASSUME ~torn' PROVE SkipsMatch(v, saved[v])'
      OBVIOUS
    <2>1. PICK s \in Progress : s = saved[v] /\ s = saved'[v]
      BY <1>0 DEF SpaceTypeOK
    <2>2. CASE s.cursor = 0
      <3>1. s.skipped = 0
        <4>1. SkipsMatch(v, s)
          BY <1>0, <2>1 DEF SkipsCounted
        <4> QED
          BY <2>2, <4>1 DEF SkipsMatch
      <3>2. Passed(s)' = {}
        BY <2>2 DEF Passed, Progress
      <3>3. SkipsMatch(v, s)'
        BY <2>2, <3>1, <3>2, FS_EmptySet DEF SkipsMatch
      <3> QED
        BY <2>1, <3>3 DEF SkipsMatch, Passed
    <2>3. CASE s.cursor # 0
      <3>1. s = start /\ ~Fresh(v) /\ s.cursor > 0
        BY <1>2, <2>1, <2>3, NoneMoved DEF Progress
      <3>2. SkipsMatch(v, s)'
        BY <1>2, <1>4, <1>8, <3>1, SkipsStay
      <3> QED
        BY <2>1, <3>2 DEF SkipsMatch, Passed
    <2> QED
      BY <2>2, <2>3
  <1>11. ASSUME NEW x \in Verb \ {v}, NEW p \in Progress, SkipsMatch(x, p) PROVE SkipsMatch(x, p)'
    <2>1. "source" \notin disturbed'[x] => M = {} /\ disturbed'[x] = disturbed[x]
      BY <1>4 DEF Space
    <2>2. M = {} => Passed(p)' = Passed(p)
      BY <1>3 DEF Passed, Held
    <2> QED
      BY <1>4, <1>11, <2>1, <2>2, SkipsStay
  <1>12. SkipsCounted'
    <2> SUFFICES ASSUME NEW x \in Verb
                 PROVE  SkipsMatch(x, moves[x])' /\ (~torn' => SkipsMatch(x, saved[x])')
      BY DEF SkipsCounted
    <2>1. CASE x = v
      <3>1. SkipsMatch(v, moves[v])'
        BY <1>4, <1>9 DEF SkipsMatch, Passed
      <3> QED
        BY <1>10, <2>1, <3>1
    <2>2. CASE x # v
      <3>1. PICK m \in Progress, s \in Progress : m = moves[x] /\ s = saved[x] /\ m = moves'[x] /\ s = saved'[x]
        BY <1>0, <1>4, <2>2 DEF SpaceTypeOK
      <3>2. SkipsMatch(x, m)' /\ (~torn' => SkipsMatch(x, s)')
        BY <1>0, <1>11, <2>2, <3>1 DEF SkipsCounted
      <3> QED
        BY <3>1, <3>2 DEF SkipsMatch, Passed
    <2> QED
      BY <2>1, <2>2
  <1>13. MovesCounted'
    <2> SUFFICES ASSUME NEW x \in Verb, "destination" \notin disturbed'[x]
                 PROVE  /\ brought'[x] \subseteq Held("destination")'
                        /\ moves'[x].moved <= Cardinality(brought'[x])
                        /\ ~torn' => saved'[x].moved <= Cardinality(brought'[x])
      BY DEF MovesCounted
    <2>1. Held("destination") \cup M \subseteq Held("destination")'
      BY <1>3 DEF Held
    <2>2. CASE x = v
      <3> DEFINE before == IF Fresh(v) THEN {} ELSE brought[v]
      <3>1. before \subseteq Held("destination") /\ brought'[v] = before \cup M
        BY <1>0, <1>4, <2>2 DEF MovesCounted
      <3>2. before \in SUBSET Key /\ before \cap M = {}
        BY <3>1 DEF Held
      <3>3. /\ Cardinality(before) \in Nat /\ Cardinality(M) \in Nat
            /\ Cardinality(before \cup M) = Cardinality(before) + Cardinality(M)
        BY <3>2, KeysCount, KeysAdded
      <3>4. start.moved <= Cardinality(before) /\ start.moved \in Nat
        BY <1>2, <1>4, <2>2, FS_EmptySet DEF Progress
      <3>5. ~torn => saved[v].moved = 0 \/ saved[v].moved = start.moved
        BY <1>2, NoneMoved
      <3> HIDE DEF before
      <3>6. moves'[v].moved = start.moved + Cardinality(M)
        BY <1>1, <1>4
      <3> QED
        BY <2>1, <2>2, <3>1, <3>3, <3>4, <3>5, <3>6
    <2>3. CASE x # v
      <3>1. "destination" \notin disturbed[x] /\ brought'[x] = brought[x] /\ moves'[x] = moves[x]
        BY <1>4, <2>3
      <3> QED
        BY <1>0, <2>1, <3>1 DEF MovesCounted
    <2> QED
      BY <2>2, <2>3
  <1> QED
    BY <1>7, <1>12, <1>13

LEMMA MoveNothingKeeps ==
    ASSUME SpaceIInv, NEW v \in Verb, MoveNothing(v)
    PROVE  SpaceIInv'
  <1>0. SpaceTypeOK /\ HalfwayIsCopied /\ RowsTravel
    BY DEF SpaceIInv
  <1>1. PICK start \in Progress : start = Starting(v)
    BY <1>0, ProgressType
  <1>2. PICK reached : reached = IF NeverAny(v) THEN [start EXCEPT !.complete = TRUE]
                                 ELSE EndOfPass(start, Count("source"))
    OBVIOUS
  <1>3. /\ shared /\ Reads(v) /\ Ghosts(v, {}, {}) /\ Report(v, reached)
        /\ links' \in {links, [links EXCEPT !["destination"] = @ \cup links["source"]]}
        /\ UNCHANGED <<shared, rows, vecs, withheld, lastStamp, saved, torn, halfway, kills, alive, embedded, linked>>
    BY <1>1, <1>2 DEF MoveNothing
  <1>4. start.started /\ SkipsMatch(v, start)
    BY <1>1, <1>3, StartCounts
  <1>5. /\ reached \in Progress /\ reached.started /\ reached.moved = start.moved
        /\ \/ reached.cursor = 0 /\ reached.skipped = 0
           \/ reached.cursor > 0 /\ reached.cursor = start.cursor /\ reached.skipped = start.skipped
    <2>1. \/ reached = [start EXCEPT !.complete = TRUE]
          \/ reached = [start EXCEPT !.cursor = 0, !.skipped = 0, !.passMoved = 0]
      BY <1>2 DEF EndOfPass
    <2>2. start.cursor = 0 => start.skipped = 0
      BY <1>4 DEF SkipsMatch
    <2>3. CASE reached = [start EXCEPT !.complete = TRUE]
      <3>1. reached \in Progress /\ start.cursor \in Nat
        BY <2>3 DEF Progress
      <3>2. /\ reached.started = start.started /\ reached.moved = start.moved
            /\ reached.cursor = start.cursor /\ reached.skipped = start.skipped
        BY <2>3 DEF Progress
      <3> QED
        BY <1>4, <2>2, <3>1, <3>2
    <2>4. CASE reached = [start EXCEPT !.cursor = 0, !.skipped = 0, !.passMoved = 0]
      <3>1. reached \in Progress
        BY <2>4 DEF Progress
      <3>2. /\ reached.started = start.started /\ reached.moved = start.moved
            /\ reached.cursor = 0 /\ reached.skipped = 0
        BY <2>4 DEF Progress
      <3> QED
        BY <1>4, <3>1, <3>2
    <2> QED
      BY <2>1, <2>3, <2>4
  <1>6. rows' = Copied({})
    <2>1. Copied({}) = rows
      BY <1>0 DEF Copied, SpaceTypeOK, Space
    <2> QED
      BY <1>3, <2>1
  <1>7. SavedIsCurrent' /\ SkipsCounted' /\ MovesCounted'
    <2>1. start.moved + Cardinality({}) = start.moved /\ start.skipped + Cardinality({}) = start.skipped
      BY FS_EmptySet DEF Progress
    <2>2. start.cursor \in Nat
      BY DEF Progress
    <2>3. moves' = [moves EXCEPT ![v] = reached] /\ job' = v /\ saved' = saved /\ torn' = torn
      BY <1>3 DEF Report
    <2>4. PICK M \in SUBSET Key : M = {}
      OBVIOUS
    <2>5. rows' = Copied(M) /\ Ghosts(v, M, M) /\ Reads(v)
      BY <1>3, <1>6, <2>4
    <2>6. /\ reached.moved = Starting(v).moved + Cardinality(M)
          /\ \/ reached.cursor = 0 /\ reached.skipped = 0
             \/ /\ reached.cursor > 0 /\ reached.skipped = Starting(v).skipped + Cardinality(M)
                /\ Starting(v).cursor > 0 => reached.cursor <= Starting(v).cursor
      BY <1>1, <1>5, <2>1, <2>2, <2>4
    <2>7. /\ \A k \in M \cup M : Starting(v).cursor > 0 => rows["source"][k] < Starting(v).cursor
          /\ \A k \in M : rows["source"][k] >= reached.cursor
          /\ M \cap M = {} /\ M \subseteq Held("source") \ Held("destination") /\ M \subseteq Held("source")
      BY <2>4
    <2> QED
      BY <1>5, <2>3, <2>5, <2>6, <2>7, BatchCounts
  <1>8. links' \in [Space -> SUBSET SUBSET Key] /\ \A x \in Space : links[x] \subseteq links'[x]
    BY <1>0, <1>3 DEF SpaceTypeOK, Space
  <1>9. SpaceTypeOK'
    BY <1>0, <1>3, <1>5, <1>8 DEF SpaceTypeOK, Ghosts, Report
  <1>10. RowsTravel'
    <2>1. \A e \in linked' : e \in links'["source"] \cup links'["destination"]
      BY <1>0, <1>3, <1>8 DEF RowsTravel, Space
    <2> QED
      BY <1>0, <1>3, <2>1 DEF RowsTravel
  <1>11. HalfwayIsCopied'
    BY <1>0, <1>3 DEF HalfwayIsCopied, Reads
  <1> QED
    BY <1>7, <1>9, <1>10, <1>11 DEF SpaceIInv

(* What a batch is: it lists the keys B, moves M of them, skips T, and leaves reached. *)
BatchIs(v, B, M, T, reached, last) ==
    LET skipped == Starting(v).skipped + Cardinality(T)
        finishes == last /\ Count("source") - Cardinality(M) = skipped
    IN
    /\ B = Listed(Starting(v).cursor) /\ B # {} /\ T = B \cap Held("destination") /\ M = B \ T
    /\ shared /\ Reads(v) /\ ~NeverAny(v)
    /\ v = "rename" => Count("destination") = Starting(v).moved /\ T = {}
    /\ rows' = Copied(M) /\ vecs' = VectorsCopied(M)
    /\ links' \in {LinksCopied(B, M),
                  [LinksCopied(B, M) EXCEPT !["destination"] = @ \cup LinksCopied(B, M)["source"]]}
    /\ Ghosts(v, M, T) /\ Report(v, reached)
    /\ UNCHANGED <<shared, withheld, lastStamp, saved, torn, halfway, kills, alive, embedded, linked>>
    /\ reached.moved = Starting(v).moved + Cardinality(M)
    /\ reached.started /\ reached.source = Starting(v).source
    /\ reached.complete <=> Starting(v).complete \/ finishes
    /\ IF last /\ ~finishes THEN reached.cursor = 0 /\ reached.skipped = 0
       ELSE reached.cursor = Min({rows["source"][k] : k \in B}) /\ reached.skipped = skipped

LEMMA BatchMoves ==
    ASSUME SpaceIInv, NEW v \in Verb, MoveBatch(v)
    PROVE  \E B \in SUBSET Key, M \in SUBSET Key, T \in SUBSET Key, reached \in Progress, last \in BOOLEAN :
              BatchIs(v, B, M, T, reached, last)
  <1>0. SpaceTypeOK
    BY DEF SpaceIInv
  <1>1. PICK start \in Progress : start = Starting(v) /\ start.started
    <2>1. Reads(v)
      BY DEF MoveBatch
    <2> QED
      BY <1>0, <2>1, ProgressType, StartCounts
  <1> DEFINE B == Listed(start.cursor)
             T == B \cap Held("destination")
             M == B \ T
             cursor == Min({rows["source"][k] : k \in B})
             progress == [start EXCEPT !.cursor = cursor,
                                       !.moved = @ + Cardinality(M),
                                       !.skipped = @ + Cardinality(T),
                                       !.passMoved = @ + Cardinality(M)]
             remaining == Count("source") - Cardinality(M)
             last == Cardinality(B) < BATCH_LIMIT
             reached == IF last THEN EndOfPass(progress, remaining) ELSE progress
  <1>2. B \in SUBSET Key /\ M \in SUBSET Key /\ T \in SUBSET Key
    BY DEF Listed, Held
  <1>3. /\ B # {} /\ shared /\ Reads(v) /\ ~NeverAny(v)
        /\ v = "rename" => Count("destination") = Starting(v).moved /\ T = {}
        /\ rows' = Copied(M) /\ vecs' = VectorsCopied(M)
        /\ links' \in {LinksCopied(B, M),
                      [LinksCopied(B, M) EXCEPT !["destination"] = @ \cup LinksCopied(B, M)["source"]]}
        /\ Ghosts(v, M, T) /\ Report(v, reached)
        /\ UNCHANGED <<shared, withheld, lastStamp, saved, torn, halfway, kills, alive, embedded, linked>>
    BY <1>1 DEF MoveBatch
  <1>4. Cardinality(M) \in Nat /\ Cardinality(T) \in Nat
    BY <1>2, KeysCount
  <1>5. start.cursor \in Nat
    BY DEF Progress
  <1>6. cursor \in Nat
    BY <1>0, <1>3, <1>5, ListedKeys
  <1> HIDE DEF cursor, M, T, B
  <1>7. progress \in Progress /\ progress.started /\ progress.moved = start.moved + Cardinality(M)
        /\ progress.skipped = start.skipped + Cardinality(T) /\ progress.cursor = cursor
        /\ progress.complete = start.complete /\ progress.source = start.source
    <2>1. PICK c \in Nat, m \in Nat, t \in Nat : c = cursor /\ m = Cardinality(M) /\ t = Cardinality(T)
      BY <1>4, <1>6
    <2>2. progress = [start EXCEPT !.cursor = c, !.moved = @ + m, !.skipped = @ + t, !.passMoved = @ + m]
      BY <2>1
    <2>3. start.moved + m \in Nat /\ start.skipped + t \in Nat /\ start.passMoved + m \in Nat
      BY DEF Progress
    <2> HIDE DEF progress
    <2>4. progress \in Progress
      BY <2>2, <2>3 DEF Progress
    <2>5. /\ progress.started = start.started /\ progress.moved = start.moved + m
          /\ progress.skipped = start.skipped + t /\ progress.cursor = c
          /\ progress.complete = start.complete /\ progress.source = start.source
      BY <2>2 DEF Progress
    <2> QED
      BY <1>1, <2>1, <2>4, <2>5
  <1> HIDE DEF progress
  <1> DEFINE ends == last /\ remaining = progress.skipped
  <1>8. /\ reached \in Progress /\ reached.started /\ reached.moved = progress.moved
        /\ reached.source = progress.source
        /\ (reached.complete <=> progress.complete \/ ends)
        /\ IF last /\ ~ends THEN reached.cursor = 0 /\ reached.skipped = 0
                            ELSE reached.cursor = progress.cursor /\ reached.skipped = progress.skipped
    <2>1. reached \in {progress, [progress EXCEPT !.complete = TRUE],
                      [progress EXCEPT !.cursor = 0, !.skipped = 0, !.passMoved = 0]}
      BY DEF EndOfPass
    <2>2. CASE ~last
      <3>1. reached = progress /\ ~ends
        BY <2>2
      <3> HIDE DEF reached, ends
      <3>2. /\ reached \in Progress /\ reached.started /\ reached.moved = progress.moved
            /\ reached.source = progress.source /\ reached.cursor = progress.cursor
            /\ reached.skipped = progress.skipped
        BY <1>7, <3>1
      <3>3. reached.complete <=> progress.complete \/ ends
        BY <3>1, Zenon
      <3>4. ~(last /\ ~ends)
        BY <2>2, Zenon
      <3> QED
        BY <3>2, <3>3, <3>4, Zenon
    <2>3. CASE ends
      <3>1. reached = [progress EXCEPT !.complete = TRUE]
        BY <2>3 DEF EndOfPass
      <3> HIDE DEF reached
      <3>2. reached \in Progress
        BY <1>7, <3>1 DEF Progress
      <3>3. /\ reached.started = progress.started /\ reached.moved = progress.moved
            /\ reached.source = progress.source /\ reached.complete = TRUE
            /\ reached.cursor = progress.cursor /\ reached.skipped = progress.skipped
        BY <1>7, <3>1 DEF Progress
      <3> HIDE DEF ends
      <3>4. reached.started
        BY <1>7, <3>3, Zenon
      <3>5. reached.complete <=> progress.complete \/ ends
        BY <2>3, <3>3, Zenon
      <3> QED
        BY <2>3, <3>2, <3>3, <3>4, <3>5, Zenon
    <2>4. CASE last /\ ~ends
      <3>1. reached = [progress EXCEPT !.cursor = 0, !.skipped = 0, !.passMoved = 0]
        BY <2>4 DEF EndOfPass
      <3> HIDE DEF reached
      <3>2. reached \in Progress
        BY <1>7, <3>1 DEF Progress
      <3>3. /\ reached.started = progress.started /\ reached.moved = progress.moved
            /\ reached.source = progress.source /\ reached.complete = progress.complete
            /\ reached.cursor = 0 /\ reached.skipped = 0
        BY <1>7, <3>1 DEF Progress
      <3> HIDE DEF ends
      <3>4. reached.started
        BY <1>7, <3>3, Zenon
      <3>5. reached.complete <=> progress.complete \/ ends
        BY <2>4, <3>3, Zenon
      <3> QED
        BY <2>4, <3>2, <3>3, <3>4, <3>5, Zenon
    <2> QED
      BY <2>2, <2>3, <2>4
  <1> HIDE DEF reached
  <1>9. last \in BOOLEAN
    OBVIOUS
  <1>10. B = Listed(Starting(v).cursor) /\ T = B \cap Held("destination") /\ M = B \ T
        /\ cursor = Min({rows["source"][k] : k \in B})
    BY <1>1 DEF B, T, M, cursor
  <1>11. PICK b \in BOOLEAN : b = last
    BY <1>9
  <1>12. ends = (b /\ Count("source") - Cardinality(M) = Starting(v).skipped + Cardinality(T))
    BY <1>1, <1>7, <1>11
  <1> HIDE DEF last, ends, remaining
  <1>13. /\ reached.moved = Starting(v).moved + Cardinality(M)
         /\ reached.started /\ reached.source = Starting(v).source
    BY <1>1, <1>7, <1>8
  <1>15. reached.complete <=> Starting(v).complete \/ ends
    <2>1. progress.complete = Starting(v).complete
      BY <1>1, <1>7
    <2> QED
      BY <1>8, <2>1, Zenon
  <1>16. IF b /\ ~ends THEN reached.cursor = 0 /\ reached.skipped = 0
         ELSE reached.cursor = cursor /\ reached.skipped = Starting(v).skipped + Cardinality(T)
    BY <1>1, <1>7, <1>8, <1>11
  <1>14. reached \in Progress
    BY <1>8
  <1>17. BatchIs(v, B, M, T, reached, b)
    BY <1>3, <1>10, <1>12, <1>13, <1>15, <1>16, Zenon DEF BatchIs
  <1> QED
    BY <1>2, <1>14, <1>17

LEMMA MoveBatchKeeps ==
    ASSUME SpaceIInv, NEW v \in Verb, MoveBatch(v)
    PROVE  SpaceIInv'
  <1>0. SpaceTypeOK /\ HalfwayIsCopied /\ RowsTravel
    BY DEF SpaceIInv
  <1>1. PICK B \in SUBSET Key, M \in SUBSET Key, T \in SUBSET Key, reached \in Progress, last \in BOOLEAN :
              BatchIs(v, B, M, T, reached, last)
    BY BatchMoves
  <1>2. /\ B = Listed(Starting(v).cursor) /\ B # {} /\ T = B \cap Held("destination") /\ M = B \ T
        /\ shared /\ Reads(v) /\ Ghosts(v, M, T) /\ Report(v, reached)
        /\ rows' = Copied(M) /\ vecs' = VectorsCopied(M)
        /\ links' \in {LinksCopied(B, M),
                      [LinksCopied(B, M) EXCEPT !["destination"] = @ \cup LinksCopied(B, M)["source"]]}
        /\ UNCHANGED <<shared, withheld, lastStamp, saved, torn, halfway, kills, alive, embedded, linked>>
        /\ reached.started /\ reached.moved = Starting(v).moved + Cardinality(M)
    BY <1>1, Zenon DEF BatchIs
  <1>3. PICK start \in Progress : start = Starting(v)
    BY <1>0, ProgressType
  <1>4. PICK cursor \in Nat : /\ cursor > 0 /\ cursor = Min({rows["source"][k] : k \in B})
                              /\ start.cursor > 0 => cursor < start.cursor
                              /\ \A k \in B : rows["source"][k] >= cursor
    <2>1. start.cursor \in Nat
      BY DEF Progress
    <2> QED
      BY <1>0, <1>2, <1>3, <2>1, ListedKeys
  <1>5. B \subseteq Held("source") /\ \A k \in B : start.cursor > 0 => rows["source"][k] < start.cursor
    <2>1. start.cursor \in Nat
      BY DEF Progress
    <2> QED
      BY <1>0, <1>2, <1>3, <2>1, ListedKeys
  <1>6. SavedIsCurrent' /\ SkipsCounted' /\ MovesCounted'
    <2>1. \/ reached.cursor = 0 /\ reached.skipped = 0
          \/ reached.cursor = cursor /\ reached.skipped = Starting(v).skipped + Cardinality(T)
      BY <1>1, <1>4 DEF BatchIs
    <2>2. \/ reached.cursor = 0 /\ reached.skipped = 0
          \/ /\ reached.cursor > 0 /\ reached.skipped = Starting(v).skipped + Cardinality(T)
             /\ Starting(v).cursor > 0 => reached.cursor <= Starting(v).cursor
             /\ \A k \in T : rows["source"][k] >= reached.cursor
      <3>1. start.cursor \in Nat
        BY DEF Progress
      <3> QED
        BY <1>2, <1>3, <1>4, <2>1, <3>1
    <2>3. /\ M \cap T = {} /\ M \subseteq Held("source") \ Held("destination") /\ T \subseteq Held("source")
          /\ \A k \in M \cup T : Starting(v).cursor > 0 => rows["source"][k] < Starting(v).cursor
      BY <1>2, <1>3, <1>5
    <2>4. moves' = [moves EXCEPT ![v] = reached] /\ job' = v /\ saved' = saved /\ torn' = torn
      BY <1>2 DEF Report
    <2> QED
      BY <1>2, <2>2, <2>3, <2>4, BatchCounts
  <1>7. /\ rows' \in [Space -> [Key -> Nat]]
        /\ \A k \in Key :
              /\ rows'["source"][k] = IF k \in M THEN 0 ELSE rows["source"][k]
              /\ rows'["destination"][k] = IF k \in M THEN rows["source"][k] ELSE rows["destination"][k]
    BY <1>0, <1>2, CopiedRows
  <1>8. /\ vecs' \in [Space -> [Key -> Nat]]
        /\ \A k \in Key :
              /\ vecs'["source"][k] = IF k \in M THEN 0 ELSE vecs["source"][k]
              /\ vecs'["destination"][k] = IF k \in M THEN vecs["source"][k] ELSE vecs["destination"][k]
    BY <1>0, <1>2, CopiedVectors
  <1>9. /\ links' \in [Space -> SUBSET SUBSET Key]
        /\ links["source"] \cup links["destination"] \subseteq links'["source"] \cup links'["destination"]
    <2>1. PICK carried \in [Space -> SUBSET SUBSET Key] :
              /\ links["source"] \cup links["destination"] \subseteq carried["source"] \cup carried["destination"]
              /\ links' \in {carried, [carried EXCEPT !["destination"] = @ \cup carried["source"]]}
      <3>1. M \in SUBSET B
        BY <1>2
      <3> QED
        BY <1>0, <1>2, <3>1, CopiedLinks
    <2> QED
      BY <2>1 DEF Space
  <1>10. SpaceTypeOK'
    <2>1. \A space \in Space, k \in Key : rows'[space][k] <= lastStamp
      BY <1>0, <1>7 DEF SpaceTypeOK, Space
    <2>2. moves' \in [Verb -> Progress] /\ job' \in Verb
      BY <1>0, <1>2 DEF SpaceTypeOK, Report
    <2>3. /\ brought' \in [Verb -> SUBSET Key] /\ left' \in [Verb -> SUBSET Key]
          /\ disturbed' \in [Verb -> SUBSET Space]
      BY <1>0, <1>2 DEF SpaceTypeOK, Ghosts
    <2> QED
      BY <1>0, <1>2, <1>7, <1>8, <1>9, <2>1, <2>2, <2>3 DEF SpaceTypeOK
  <1>11. RowsTravel'
    <2>1. \A s \in alive : s # 0
      BY <1>0 DEF SpaceTypeOK
    <2>2. \A k \in M : rows["destination"][k] = 0
      BY <1>2 DEF Held
    <2>3. ASSUME NEW s \in alive
          PROVE  \E space \in Space, k \in Key : rows'[space][k] = s /\ (s \in embedded => vecs'[space][k] = s)
      <3>1. PICK space \in Space, k \in Key : rows[space][k] = s /\ (s \in embedded => vecs[space][k] = s)
        BY <1>0 DEF RowsTravel
      <3>2. CASE space = "source" /\ k \in M
        <4>1. rows'["destination"][k] = s /\ (s \in embedded => vecs'["destination"][k] = s)
          BY <1>7, <1>8, <3>1, <3>2
        <4> QED
          BY <4>1 DEF Space
      <3>3. CASE ~(space = "source" /\ k \in M)
        <4>1. space = "source" \/ space = "destination"
          BY DEF Space
        <4>2. space = "destination" => k \notin M
          BY <2>1, <2>2, <3>1
        <4>3. rows'[space][k] = s /\ (s \in embedded => vecs'[space][k] = s)
          BY <1>7, <1>8, <3>1, <3>3, <4>1, <4>2
        <4> QED
          BY <4>3
      <3> QED
        BY <3>2, <3>3
    <2>4. alive' = alive /\ embedded' = embedded /\ linked' = linked
      BY <1>2
    <2>5. \A e \in linked : e \in links["source"] \cup links["destination"]
      BY <1>0 DEF RowsTravel
    <2>6. \A e \in linked : e \in links'["source"] \cup links'["destination"]
      BY <1>9, <2>5
    <2> QED
      BY <2>3, <2>4, <2>6 DEF RowsTravel
  <1>12. HalfwayIsCopied'
    BY <1>0, <1>2 DEF HalfwayIsCopied
  <1> QED
    BY <1>6, <1>10, <1>11, <1>12 DEF SpaceIInv

-----------------------------------------------------------------------------
(* The invariant of a move, whoever else writes and whenever it is killed.  *)
THEOREM SpaceInvariance == SpaceSpec => []SpaceIInv
  <1>1. SpaceIInv /\ [SpaceNext]_spaceVars => SpaceIInv'
    <2> SUFFICES ASSUME SpaceIInv, [SpaceNext]_spaceVars PROVE SpaceIInv'
      OBVIOUS
    <2>1. ASSUME NEW v \in Verb, MoveBatch(v) PROVE SpaceIInv'
      BY <2>1, MoveBatchKeeps
    <2>2. ASSUME NEW v \in Verb, MoveNothing(v) PROVE SpaceIInv'
      BY <2>2, MoveNothingKeeps
    <2>3. ASSUME NEW v \in Verb, SaveProgress(v) PROVE SpaceIInv'
      BY <2>3, SaveProgressKeeps
    <2>4. ASSUME NEW v \in Verb, SaveRefused(v) PROVE SpaceIInv'
      BY <2>4, SaveRefusedKeeps
    <2>5. ASSUME NEW v \in Verb, MoveAll(v) PROVE SpaceIInv'
      BY <2>5, MoveAllKeeps
    <2>6. CASE CommitSource
      BY <2>6, CommitSourceKeeps
    <2>7. CASE RemoveFile
      BY <2>7, RemoveFileKeeps
    <2>8. CASE KillMove
      BY <2>8, KillMoveKeeps
    <2>9. ASSUME NEW space \in Space, NEW k \in Key, TenantStore(space, k) PROVE SpaceIInv'
      BY <2>9, TenantStoreKeeps
    <2>10. ASSUME NEW space \in Space, NEW k \in Key, TenantDelete(space, k) PROVE SpaceIInv'
      BY <2>10, TenantDeleteKeeps
    <2>11. ASSUME NEW j \in Key, NEW k \in Key, TenantLink(j, k) PROVE SpaceIInv'
      BY <2>11, TenantLinkKeeps
    <2>12. CASE UNCHANGED spaceVars
      <3> USE <2>12 DEF spaceVars
      <3>1. SpaceTypeOK' /\ HalfwayIsCopied' /\ SavedIsCurrent'
        BY DEF SpaceIInv, SpaceTypeOK, HalfwayIsCopied, SavedIsCurrent
      <3>2. RowsTravel'
        BY RowsStill
      <3>3. SkipsCounted' /\ MovesCounted'
        BY CountsStay
      <3> QED
        BY <3>1, <3>2, <3>3 DEF SpaceIInv
    <2> QED
      BY <2>1, <2>2, <2>3, <2>4, <2>5, <2>6, <2>7, <2>8, <2>9, <2>10, <2>11, <2>12 DEF SpaceNext
  <1> QED
    BY <1>1, SpaceInitKeeps, PTL DEF SpaceSpec

(* No row a tenant stored is lost between the two namespaces of a move, nor *)
(* the vector it was stored with, nor an edge while its ends live.          *)
THEOREM RowsAreMoved == SpaceSpec => []RowsTravel
  <1>1. SpaceIInv => RowsTravel
    BY DEF SpaceIInv
  <1> QED
    BY <1>1, SpaceInvariance, PTL

(* When as many rows are left as a move counts skipped, they are those it   *)
(* skipped.                                                                 *)
LEMMA LeftAreSkipped ==
    ASSUME SpaceIInv, NEW v \in Verb, Reads(v), NEW M \in SUBSET Key, NEW T \in SUBSET Key, Ghosts(v, M, T),
           M \cap T = {}, M \cup T \subseteq Held("source"),
           \A k \in M \cup T : Starting(v).cursor > 0 => rows["source"][k] < Starting(v).cursor,
           "source" \notin disturbed'[v],
           Count("source") - Cardinality(M) = Starting(v).skipped + Cardinality(T)
    PROVE  Held("source") \ M \subseteq left'[v]
  <1>0. SpaceTypeOK
    BY DEF SpaceIInv
  <1>1. PICK start \in Progress : start = Starting(v)
    BY <1>0, ProgressType
  <1> DEFINE A == Passed(start)
             H == Held("source")
  <1>2. start.skipped <= Cardinality(A) /\ (start.skipped = Cardinality(A) => A \subseteq left'[v])
    BY <1>1, StartPassed
  <1>3. T \subseteq left'[v]
    BY <1>0 DEF Ghosts, SpaceTypeOK
  <1>4. start.skipped \in Nat /\ start.cursor \in Nat
    BY DEF Progress
  <1>5. A \in SUBSET Key /\ H \in SUBSET Key /\ A \subseteq H
    BY DEF Passed, Held
  <1>6. A \cap (M \cup T) = {}
    <2>1. \A k \in Key : rows["source"][k] \in Nat
      BY <1>0 DEF SpaceTypeOK, Space
    <2>2. \A k \in A : start.cursor > 0 /\ rows["source"][k] >= start.cursor
      BY DEF Passed
    <2> HIDE DEF A
    <2> QED
      BY <1>1, <1>4, <1>5, <2>1, <2>2
  <1> DEFINE N == H \ M
  <1>7. N \in SUBSET Key /\ A \cup T \in SUBSET N /\ N \cap M = {} /\ N \cup M = H
    BY <1>5, <1>6
  <1> HIDE DEF A, H, N
  <1>8. /\ Cardinality(A) \in Nat /\ Cardinality(T) \in Nat /\ Cardinality(N) \in Nat /\ Cardinality(M) \in Nat
        /\ Cardinality(H) = Cardinality(N) + Cardinality(M)
        /\ Cardinality(A \cup T) = Cardinality(A) + Cardinality(T)
    BY <1>5, <1>6, <1>7, KeysCount, KeysAdded
  <1>9. Cardinality(A \cup T) <= Cardinality(N) /\ (Cardinality(A \cup T) = Cardinality(N) => A \cup T = N)
    BY <1>7, FewerKeys
  <1>10. Cardinality(N) = start.skipped + Cardinality(T)
    <2>1. Cardinality(H) - Cardinality(M) = start.skipped + Cardinality(T)
      BY <1>1 DEF H, Count
    <2> QED
      BY <1>4, <1>8, <2>1
  <1>11. start.skipped = Cardinality(A) /\ A \cup T = N
    BY <1>2, <1>4, <1>8, <1>9, <1>10
  <1> QED
    BY <1>2, <1>3, <1>11 DEF N, H

LEMMA NothingIsHonest ==
    ASSUME SpaceIInv, NEW v \in Verb, MoveNothing(v), Completes(v), "source" \notin disturbed'[v]
    PROVE  Held("source")' \subseteq left'[v]
  <1>0. SpaceTypeOK /\ Reads(v) /\ Ghosts(v, {}, {}) /\ rows' = rows
    BY DEF SpaceIInv, MoveNothing
  <1>1. PICK start \in Progress : start = Starting(v)
    BY <1>0, ProgressType
  <1>2. PICK reached : /\ reached = IF NeverAny(v) THEN [start EXCEPT !.complete = TRUE]
                                     ELSE EndOfPass(start, Count("source"))
                       /\ Report(v, reached)
    BY <1>1 DEF MoveNothing
  <1>3. moves'[v] = reached /\ reached.complete /\ ~start.complete /\ reached.source > 0
    BY <1>0, <1>1, <1>2 DEF Report, Completes, SpaceTypeOK
  <1>4. ~NeverAny(v)
    <2> SUFFICES ASSUME NeverAny(v) PROVE FALSE
      OBVIOUS
    <2>1. start = [NoProgress EXCEPT !.started = TRUE, !.source = 0]
      BY <1>1 DEF NeverAny, Starting
    <2>2. reached = [start EXCEPT !.complete = TRUE]
      BY <1>2
    <2>3. reached.source = start.source
      BY <2>2 DEF Progress
    <2>4. start.source = 0
      BY <2>1 DEF NoProgress
    <2> QED
      BY <1>3, <2>3, <2>4
  <1>5. Count("source") = start.skipped
    <2> SUFFICES ASSUME Count("source") # start.skipped PROVE FALSE
      OBVIOUS
    <2>1. reached = [start EXCEPT !.cursor = 0, !.skipped = 0, !.passMoved = 0]
      BY <1>2, <1>4 DEF EndOfPass
    <2>2. reached.complete = start.complete
      BY <2>1 DEF Progress
    <2> QED
      BY <1>3, <2>2, Zenon
  <1>6. PICK M \in SUBSET Key : M = {}
    OBVIOUS
  <1>7. Count("source") \in Nat /\ start.skipped \in Nat
    BY KeysCount DEF Count, Held, Progress
  <1>8. Count("source") - Cardinality(M) = Starting(v).skipped + Cardinality(M)
    BY <1>1, <1>5, <1>6, <1>7, FS_EmptySet
  <1>9. Held("source") \ M \subseteq left'[v]
    BY <1>0, <1>6, <1>8, LeftAreSkipped
  <1> QED
    BY <1>0, <1>6, <1>9 DEF Held

LEMMA BatchIsHonest ==
    ASSUME SpaceIInv, NEW v \in Verb, MoveBatch(v)
    PROVE  /\ Completes(v) /\ "source" \notin disturbed'[v] => Held("source")' \subseteq left'[v]
           /\ v = "rename" /\ "destination" \notin disturbed'[v] => Held("destination") \subseteq brought'[v]
  <1>0. SpaceTypeOK
    BY DEF SpaceIInv
  <1>1. PICK B \in SUBSET Key, M \in SUBSET Key, T \in SUBSET Key, reached \in Progress, last \in BOOLEAN :
              BatchIs(v, B, M, T, reached, last)
    BY BatchMoves
  <1>2. /\ B = Listed(Starting(v).cursor) /\ T = B \cap Held("destination") /\ M = B \ T
        /\ Reads(v) /\ Ghosts(v, M, T) /\ Report(v, reached) /\ rows' = Copied(M)
        /\ v = "rename" => Count("destination") = Starting(v).moved
    BY <1>1, Zenon DEF BatchIs
  <1>3. PICK start \in Progress : start = Starting(v)
    BY <1>0, ProgressType
  <1>4. B \subseteq Held("source") /\ \A k \in B : start.cursor > 0 => rows["source"][k] < start.cursor
    <2>1. start.cursor \in Nat
      BY DEF Progress
    <2> QED
      BY <1>0, <1>2, <1>3, <2>1, ListedKeys
  <1>5. ASSUME Completes(v), "source" \notin disturbed'[v] PROVE Held("source")' \subseteq left'[v]
    <2>1. moves'[v] = reached
      BY <1>0, <1>2 DEF Report, SpaceTypeOK
    <2>2. Count("source") - Cardinality(M) = Starting(v).skipped + Cardinality(T)
      <3>1. reached.complete /\ ~Starting(v).complete
        BY <1>5, <2>1 DEF Completes
      <3> QED
        BY <1>1, <3>1, Zenon DEF BatchIs
    <2>3. /\ M \cap T = {} /\ M \cup T \subseteq Held("source")
          /\ \A k \in M \cup T : Starting(v).cursor > 0 => rows["source"][k] < Starting(v).cursor
      BY <1>2, <1>3, <1>4
    <2>4. Held("source") \ M \subseteq left'[v]
      BY <1>2, <1>5, <2>2, <2>3, LeftAreSkipped
    <2>5. Held("source")' = Held("source") \ M
      BY <1>0, <1>2, CopiedRows DEF Held
    <2> QED
      BY <2>4, <2>5
  <1>6. ASSUME v = "rename", "destination" \notin disturbed'[v] PROVE Held("destination") \subseteq brought'[v]
    <2> DEFINE H == Held("destination")
    <2>1. Cardinality(H) = start.moved
      BY <1>2, <1>3, <1>6 DEF Count
    <2>2. H \in SUBSET Key
      BY DEF Held
    <2>3. /\ disturbed'[v] = (IF Fresh(v) THEN {} ELSE disturbed[v])
          /\ ~Fresh(v) => brought[v] \subseteq brought'[v]
      BY <1>0, <1>2 DEF Ghosts, SpaceTypeOK
    <2>4. /\ Fresh(v) => start.moved = 0
          /\ "destination" \notin disturbed[v] => start.moved <= Cardinality(brought[v])
      BY <1>2, <1>3, StartCounts
    <2>5. "destination" \notin disturbed[v] => brought[v] \subseteq H
      BY DEF SpaceIInv, MovesCounted
    <2>6. IsFiniteSet(H) /\ Cardinality(H) \in Nat
      BY <2>2, KeysCount
    <2> HIDE DEF H
    <2>7. CASE Fresh(v)
      <3>1. H = {}
        BY <2>1, <2>4, <2>6, <2>7, FS_EmptySet
      <3> QED
        BY <3>1 DEF H
    <2>8. CASE ~Fresh(v)
      <3>1. brought[v] \in SUBSET H /\ start.moved <= Cardinality(brought[v])
        BY <1>6, <2>3, <2>4, <2>5, <2>8
      <3>2. Cardinality(brought[v]) <= Cardinality(H) /\ (Cardinality(brought[v]) = Cardinality(H) => brought[v] = H)
        BY <2>2, <3>1, FewerKeys
      <3>3. Cardinality(brought[v]) \in Nat
        BY <2>2, <3>1, KeysCount
      <3>4. brought[v] = H
        BY <2>1, <2>6, <3>1, <3>2, <3>3
      <3> QED
        BY <2>3, <2>8, <3>4 DEF H
    <2> QED
      BY <2>7, <2>8
  <1> QED
    BY <1>5, <1>6

(* A move that reports it is complete has left only rows it had skipped,    *)
(* and a rename adds rows only beside those it put there itself.            *)
THEOREM MovesAreHonest == SpaceSpec => [][MoveHonest]_spaceVars
  <1>1. ASSUME SpaceIInv, SpaceNext, NEW v \in Verb
        PROVE  /\ Completes(v) /\ "source" \notin disturbed'[v] => Held("source")' \subseteq left'[v]
               /\ v = "rename" /\ Brings(v) /\ "destination" \notin disturbed'[v]
                     => Held("destination") \subseteq brought'[v]
    <2>1. ASSUME job = "none", job' = v
          PROVE  MoveBatch(v) \/ MoveNothing(v)
      <3>1. \A x \in Verb : x # "none"
        BY DEF Verb
      <3>2. PICK x \in Verb : MoveBatch(x) \/ MoveNothing(x)
        BY <1>1, <2>1, <3>1 DEF SpaceNext, SaveProgress, SaveRefused, MoveAll, CommitSource, RemoveFile, KillMove,
                                TenantStore, TenantDelete, TenantLink
      <3>3. MoveBatch(x) => job' = x
        BY DEF MoveBatch, Report
      <3>4. MoveNothing(x) => job' = x
        BY DEF MoveNothing, Report
      <3> QED
        BY <2>1, <3>2, <3>3, <3>4
    <2>2. CASE MoveBatch(v)
      BY <1>1, <2>2, BatchIsHonest
    <2>3. CASE MoveNothing(v)
      <3>1. Held("destination")' = Held("destination")
        BY <2>3 DEF MoveNothing, Held
      <3> QED
        BY <1>1, <2>3, <3>1, NothingIsHonest DEF Brings
    <2> QED
      BY <2>1, <2>2, <2>3 DEF Completes, Brings
  <1>2. SpaceIInv /\ [SpaceNext]_spaceVars => [MoveHonest]_spaceVars
    BY <1>1 DEF MoveHonest
  <1> QED
    BY <1>2, SpaceInvariance, PTL DEF SpaceSpec

-----------------------------------------------------------------------------
(* Places in order *)

LEMMA PlacesCount ==
    ASSUME NEW S \in SUBSET Place
    PROVE  S \in SUBSET Nat /\ IsFiniteSet(S) /\ Cardinality(S) \in Nat
  <1>1. IsFiniteSet(Place) /\ Place \subseteq Nat
    BY MaintenanceAssumption, FS_Interval DEF Place
  <1> QED
    BY <1>1, FS_Subset, FS_CardinalityType

LEMMA GreatestOf ==
    ASSUME NEW S \in SUBSET Place, S # {}
    PROVE  Max(S) \in S /\ \A n \in S : n <= Max(S)
  <1> DEFINE below == {LAST - n : n \in S}
  <1>1. \A n \in S : n \in Nat /\ n <= LAST /\ LAST \in Nat
    BY MaintenanceAssumption DEF Place
  <1>2. below \in SUBSET Nat /\ below # {}
    BY <1>1
  <1>3. Min(below) \in below /\ \A x \in below : Min(below) <= x
    <2> HIDE DEF below
    <2> QED
      BY <1>2, LeastOf
  <1>4. PICK m \in S : Min(below) = LAST - m
    BY <1>3
  <1>5. \A n \in S : LAST - m <= LAST - n
    BY <1>3, <1>4
  <1>6. \A n \in S : n <= m
    BY <1>1, <1>5
  <1> QED
    BY <1>6 DEF Max

(* The first n places of some leave out none before one of them. *)
LEMMA FirstsBelow ==
    ASSUME NEW S \in SUBSET Place, NEW n \in Nat
    PROVE  /\ Firsts(S, n) \in SUBSET S
           /\ \A q \in Firsts(S, n), p \in S : p <= q => p \in Firsts(S, n)
  <1>1. Firsts(S, n) \in SUBSET S
    BY DEF Firsts
  <1>2. ASSUME NEW q \in Firsts(S, n), NEW p \in S, p <= q PROVE p \in Firsts(S, n)
    <2> DEFINE P == {x \in S : x < p}
               Q == {x \in S : x < q}
    <2>1. q \in S /\ Cardinality(Q) < n
      BY DEF Firsts
    <2>2. \A x \in S : x \in Nat
      BY PlacesCount
    <2>3. P \in SUBSET Q /\ Q \in SUBSET Place
      BY <1>2, <2>1, <2>2
    <2>4. IsFiniteSet(Q) /\ Cardinality(Q) \in Nat /\ Cardinality(P) \in Nat
      BY <2>3, PlacesCount
    <2> HIDE DEF P, Q
    <2>5. Cardinality(P) <= Cardinality(Q)
      BY <2>3, <2>4, FS_Subset
    <2>6. Cardinality(P) < n
      BY <2>1, <2>4, <2>5
    <2> QED
      BY <2>6 DEF P, Firsts
  <1> QED
    BY <1>1, <1>2

(* If they are fewer than n, they are all there are. *)
LEMMA FirstsAll ==
    ASSUME NEW S \in SUBSET Place, NEW n \in Nat, Cardinality(Firsts(S, n)) < n
    PROVE  Firsts(S, n) = S
  <1> DEFINE F == Firsts(S, n)
             rest == S \ F
  <1>1. F \in SUBSET S
    BY FirstsBelow
  <1> SUFFICES ASSUME rest # {} PROVE FALSE
    BY <1>1
  <1>2. rest \in SUBSET Nat /\ \A x \in S : x \in Nat
    BY PlacesCount
  <1>3. Min(rest) \in rest /\ \A x \in rest : Min(rest) <= x
    <2> HIDE DEF rest
    <2> QED
      BY <1>2, LeastOf
  <1>4. PICK m \in S : m \notin F /\ \A x \in rest : m <= x
    BY <1>3
  <1> DEFINE before == {x \in S : x < m}
  <1>5. before \in SUBSET F
    BY <1>2, <1>4
  <1>6. IsFiniteSet(F) /\ Cardinality(F) \in Nat /\ Cardinality(before) \in Nat
    BY <1>1, <1>5, PlacesCount
  <1> HIDE DEF F, before
  <1>7. Cardinality(before) <= Cardinality(F)
    BY <1>5, <1>6, FS_Subset
  <1>8. Cardinality(before) < n
    BY <1>6, <1>7 DEF F
  <1>9. m \in F
    BY <1>8 DEF before, F, Firsts
  <1> QED
    BY <1>4, <1>9

-----------------------------------------------------------------------------
(* Types *)

LEMMA RunType ==
    ASSUME SweepTypeOK, run # NoRun
    PROVE  \E places \in SUBSET Place :
              /\ run \in Call([places -> Row]) /\ Unread = places
              /\ run.kind # "none" /\ run.phase \in Phase
              /\ run.after \in Nat /\ run.decayed \in Nat /\ run.short \in BOOLEAN
              /\ \A p \in Unread : run.page[p] \in Row
  <1>1. PICK places \in SUBSET Place : run \in Call([places -> Row])
    BY DEF SweepTypeOK
  <1>2. run.page \in [places -> Row] /\ run.kind \in {"maintain", "verify"} /\ run.phase \in Phase
    BY <1>1 DEF Call
  <1>3. run.after \in Nat /\ run.decayed \in Nat /\ run.short \in BOOLEAN
    BY <1>1 DEF Call
  <1>4. Unread = places
    BY <1>2 DEF Unread
  <1> QED
    BY <1>1, <1>2, <1>3, <1>4

LEMMA NoRunIsNone == NoRun.kind = "none" /\ \A p : In(p) => run # NoRun
  BY DEF NoRun, In

LEMMA RowTypes ==
    /\ NoRow \in Row /\ NoRow.rev = 0 /\ \A c \in ClaimNo : NoRow.since[c] = 0
    /\ NoRow.verdict = "none" /\ ~NoRow.judged
    /\ NoPage \in [{} -> Row]
  BY DEF NoRow, Row, NoPage

(* The verdict on a row has the evidence its kind needs. *)
LEMMA JudgedRow ==
    ASSUME SweepTypeOK, NEW row \in Row
    PROVE  Judged(row) \in Row /\ Judged(row).rev = row.rev /\ Evident(Judged(row))
  <1> DEFINE since == [c \in ClaimNo |-> Since(row, c)]
  <1>1. row.since \in [ClaimNo -> Nat] /\ row.rev \in Nat /\ day \in Nat \ {0}
    BY DEF Row, SweepTypeOK
  <1>2. since \in [ClaimNo -> Nat]
    BY <1>1 DEF Since
  <1>3. Verdict(since) \in {"none", "stale", "verified"}
    BY DEF Verdict
  <1>4. \A c \in ClaimNo : Result(c) = "fails" => since[c] # 0
    BY <1>1 DEF Since, Result
  <1>5. \A c \in ClaimNo : Result(c) = "passes" => since[c] = 0
    BY DEF Since, Result
  <1>6. /\ Verdict(since) = "stale" => \A c \in ClaimNo : since[c] # 0 /\ since[c] + STALE_DAYS < day
        /\ Verdict(since) = "verified" => \A c \in ClaimNo : since[c] = 0
    <2> HIDE DEF since
    <2> QED
      BY <1>4, <1>5 DEF Verdict
  <1>7. Judged(row) = [row EXCEPT !.since = since, !.verdict = Verdict(since), !.judged = TRUE]
    BY DEF Judged
  <1> HIDE DEF since
  <1>8. Judged(row) \in Row
    BY <1>2, <1>3, <1>7 DEF Row
  <1>9. Judged(row).rev = row.rev /\ Judged(row).since = since /\ Judged(row).verdict = Verdict(since)
    BY <1>7 DEF Row
  <1> QED
    BY <1>6, <1>8, <1>9 DEF Evident

(* What one visit makes of the row at its place. *)
LEMMA VisitedRow ==
    ASSUME SweepTypeOK, RowsEvident, NEW p \in Place, NEW row \in Row,
           IF Verifiable THEN Persist(p, row) ELSE ClearVerified(p, row)
    PROVE  /\ held' \in [Place -> Row]
           /\ \A q \in Place : held'[q].rev = held[q].rev /\ Evident(held'[q])
  <1>0. held \in [Place -> Row] /\ \A q \in Place : Evident(held[q])
    BY DEF SweepTypeOK, RowsEvident
  <1>1. PICK after \in Row : /\ held' = [held EXCEPT ![p] = after]
                             /\ after.rev = held[p].rev /\ Evident(after)
    <2>1. CASE Verifiable
      <3> DEFINE after == IF held[p].rev = row.rev /\ held[p].since = row.since THEN Judged(row) ELSE held[p]
      <3>1. held' = [held EXCEPT ![p] = after]
        BY <1>0, <2>1 DEF Persist
      <3>2. after \in Row /\ after.rev = held[p].rev /\ Evident(after)
        BY <1>0, JudgedRow
      <3> HIDE DEF after
      <3> QED
        BY <3>1, <3>2
    <2>2. CASE ~Verifiable
      <3> DEFINE verdict == IF row.verdict = "verified" THEN "none" ELSE held[p].verdict
                 after == [held[p] EXCEPT !.verdict = verdict]
      <3>1. held' = [held EXCEPT ![p] = after]
        BY <1>0, <2>2 DEF ClearVerified
      <3>2. verdict \in {"none", held[p].verdict} /\ held[p] \in Row /\ Evident(held[p])
        BY <1>0
      <3> HIDE DEF verdict
      <3>3. after \in Row
        BY <3>2 DEF Row
      <3>4. /\ after.rev = held[p].rev /\ after.since = held[p].since
            /\ after.verdict = verdict /\ after.judged = held[p].judged
        BY <3>2 DEF Row
      <3> HIDE DEF after
      <3>5. Evident(after)
        BY <3>2, <3>4 DEF Evident
      <3> QED
        BY <3>1, <3>3, <3>4, <3>5
    <2> QED
      BY <2>1, <2>2
  <1>2. \A q \in Place : held'[q] = IF q = p THEN after ELSE held[q]
    BY <1>0, <1>1
  <1>3. held' \in [Place -> Row]
    BY <1>0, <1>1
  <1> QED
    BY <1>0, <1>1, <1>2, <1>3

-----------------------------------------------------------------------------
(* What a step leaves as it is *)

LEMMA RowsStay ==
    ASSUME SweepIInv, UNCHANGED <<held, shot, claims, day>>
    PROVE  RowsEvident'
  BY DEF SweepIInv, RowsEvident, Evident

LEMMA DecaysStay ==
    ASSUME SweepIInv, UNCHANGED decays, DecayStands' = DecayStands
    PROVE  DecayInOrder'
  BY DEF SweepIInv, DecayInOrder

LEMMA SavedStays ==
    ASSUME SweepIInv, UNCHANGED <<stamp, inode>>, due' \subseteq due
    PROVE  SavedSweepIsAhead'
  BY DEF SweepIInv, SavedSweepIsAhead

(* A step of the call that changes no row. *)
LEMMA RunSteps ==
    ASSUME SweepIInv, UNCHANGED <<held, inode, shot, claims, day, due, rowWrites, callsMade>>,
           run' = NoRun \/ \E places \in SUBSET Place : run' \in Call([places -> Row])
    PROVE  /\ RowsEvident'
           /\ UNCHANGED <<stamp, decays>> => SweepTypeOK' /\ SavedSweepIsAhead'
  <1>1. RowsEvident'
    BY RowsStay
  <1>2. ASSUME UNCHANGED <<stamp, decays>> PROVE SweepTypeOK' /\ SavedSweepIsAhead'
    <2>1. SavedSweepIsAhead'
      BY <1>2, SavedStays
    <2>2. SweepTypeOK'
      BY <1>2 DEF SweepIInv, SweepTypeOK, There
    <2> QED
      BY <2>1, <2>2
  <1> QED
    BY <1>1, <1>2

-----------------------------------------------------------------------------
(* The call *)

LEMMA BeginKeeps ==
    ASSUME SweepIInv, NEW kind \in {"maintain", "verify"}, Begin(kind)
    PROVE  SweepIInv'
  <1>0. SweepTypeOK /\ SavedSweepIsAhead /\ run = NoRun
    BY DEF SweepIInv, Begin
  <1>1. PICK after \in Nat, carried \in BOOLEAN :
              /\ after = (IF Resumed THEN stamp.sweep.next ELSE 0)
              /\ carried <=> Resumed /\ stamp.sweep.failed
    BY <1>0 DEF SweepTypeOK
  <1>2. PICK first \in {"decay", "verify"} : first = IF kind = "maintain" THEN "decay" ELSE "verify"
    OBVIOUS
  <1>3. /\ run'.kind = kind /\ run'.phase = first /\ run'.after = after
        /\ run'.carried = (Resumed /\ stamp.sweep.failed)
        /\ run'.failed = FALSE /\ run'.otherFailed = FALSE /\ run'.page = NoPage
        /\ run'.short = FALSE /\ run'.decayed = 0
        /\ run' = [kind |-> kind, phase |-> first, after |-> after, carried |-> Resumed /\ stamp.sweep.failed,
                   failed |-> FALSE, otherFailed |-> FALSE, page |-> NoPage, short |-> FALSE, decayed |-> 0]
        /\ due' = (IF Resumed THEN due ELSE There(held))
        /\ callsMade' = callsMade + 1
        /\ UNCHANGED <<held, day, inode, stamp, shot, rowWrites, claims, decays>>
    BY <1>1, <1>2 DEF Begin
  <1>4. run' \in Call([{} -> Row]) /\ Unread' = {}
    <2>1. first \in Phase /\ NoPage \in [{} -> Row] /\ DOMAIN NoPage = {}
      BY RowTypes DEF Phase, NoPage
    <2>2. (Resumed /\ stamp.sweep.failed) \in BOOLEAN
      OBVIOUS
    <2>3. run' \in Call([{} -> Row])
      BY <1>3, <2>1, <2>2 DEF Call
    <2> QED
      BY <1>3, <2>1, <2>3 DEF Unread
  <1>5. SweepTypeOK'
    <2>1. due' \subseteq There(held')
      BY <1>0, <1>3 DEF SweepTypeOK, There
    <2>2. \E places \in SUBSET Place : run' \in Call([places -> Row])
      BY <1>4
    <2>3. callsMade' \in Nat
      BY <1>0, <1>3 DEF SweepTypeOK
    <2>4. There(held') = There(held)
      BY <1>3
    <2> QED
      BY <1>0, <1>3, <2>1, <2>2, <2>3, <2>4 DEF SweepTypeOK
  <1>6. RowsEvident'
    BY <1>3, RowsStay
  <1>7. DecayInOrder'
    <2>1. ~In("decayed") /\ ~In("decayed")'
      BY <1>0, <1>2, <1>3, NoRunIsNone DEF In
    <2> QED
      BY <1>3, <2>1, DecaysStay DEF DecayStands
  <1>8. SavedSweepIsAhead'
    <2>1. stamp.sweep.store = inode => Resumed
      <3>1. inode # 0 /\ NoSweep.store = 0
        BY <1>0 DEF SweepTypeOK, NoSweep
      <3> QED
        BY <3>1 DEF Resumed
    <2> QED
      BY <1>0, <1>3, <2>1 DEF SavedSweepIsAhead
  <1>9. SweepIsAhead'
    <2> SUFFICES ASSUME ~Failed' PROVE \A p \in due' : p > run'.after
      BY <1>2, <1>3, <1>4 DEF SweepIsAhead
    <2>1. \A p \in There(held) : p \in Nat /\ p > 0
      BY MaintenanceAssumption DEF There, Place
    <2>2. Resumed => ~stamp.sweep.failed
      BY <1>3 DEF Failed
    <2> QED
      BY <1>0, <1>1, <1>3, <2>1, <2>2 DEF SavedSweepIsAhead, Resumed
  <1>10. PageInPhase'
    BY <1>3, <1>4 DEF PageInPhase
  <1> QED
    BY <1>5, <1>6, <1>7, <1>8, <1>9, <1>10 DEF SweepIInv

LEMMA DecayKeeps ==
    ASSUME SweepIInv, Decay
    PROVE  SweepIInv'
  <1>0. SweepTypeOK /\ DecayInOrder /\ SweepIsAhead /\ PageInPhase
    BY DEF SweepIInv
  <1> DEFINE S == {p \in There(held) : p > stamp.decayNext}
             window == Firsts(S, DECAY_WINDOW)
             decayed == IF Cardinality(window) < DECAY_WINDOW THEN 0 ELSE Max(window)
  <1>1. /\ In("decay") /\ run' = [run EXCEPT !.phase = "decayed", !.decayed = decayed]
        /\ decays' = [p \in DOMAIN decays |-> decays[p] + IF p \in window THEN 1 ELSE 0]
        /\ UNCHANGED <<held, day, inode, stamp, shot, callsMade, rowWrites, claims, due>>
    BY DEF Decay
  <1>2. S \in SUBSET Place /\ window \in SUBSET S /\ DECAY_WINDOW \in Nat \ {0}
    BY FirstsBelow, MaintenanceAssumption DEF There
  <1>3. stamp.decayNext \in Nat
    BY <1>0 DEF SweepTypeOK
  <1>4. /\ decayed \in Nat
        /\ \A p \in There(held) : (p <= stamp.decayNext \/ p \in window) <=> (decayed = 0 \/ p <= decayed)
    <2>1. \A p \in There(held) : p \in Nat /\ p > 0
      BY MaintenanceAssumption DEF There, Place
    <2>2. CASE Cardinality(window) < DECAY_WINDOW
      <3>1. window = S
        BY <1>2, <2>2, FirstsAll
      <3> HIDE DEF window
      <3> QED
        BY <1>3, <2>1, <2>2, <3>1
    <2>3. CASE ~(Cardinality(window) < DECAY_WINDOW)
      <3>1. window # {}
        <4>1. Cardinality({}) = 0
          BY FS_EmptySet
        <4> QED
          BY <1>2, <2>3, <4>1
      <3>2. window \in SUBSET Place
        BY <1>2
      <3>3. Max(window) \in window /\ \A n \in window : n <= Max(window)
        <4> HIDE DEF window
        <4> QED
          BY <3>1, <3>2, GreatestOf
      <3>4. PICK m \in Nat : decayed = m /\ m \in window /\ \A n \in window : n <= m
        BY <1>2, <2>1, <2>3, <3>3
      <3>5. \A p \in S : p <= m => p \in window
        BY <1>2, <3>4, FirstsBelow
      <3>6. m > stamp.decayNext /\ m > 0
        BY <1>2, <2>1, <3>4
      <3>7. ASSUME NEW p \in There(held) PROVE (p <= stamp.decayNext \/ p \in window) <=> p <= m
        <4>1. p > stamp.decayNext => p \in S
          OBVIOUS
        <4> HIDE DEF S, window
        <4> QED
          BY <1>3, <2>1, <3>4, <3>5, <3>6, <4>1
      <3> HIDE DEF decayed
      <3> QED
        BY <3>4, <3>6, <3>7
    <2> QED
      BY <2>2, <2>3
  <1>5. \A p \in window : p > stamp.decayNext
    BY <1>2
  <1> HIDE DEF S, window, decayed
  <1>6. PICK places \in SUBSET Place : run \in Call([places -> Row])
    BY <1>0, <1>1, RunType, NoRunIsNone
  <1>7. run' \in Call([places -> Row])
    BY <1>1, <1>4, <1>6 DEF Call, Phase
  <1>8. /\ run'.kind = run.kind /\ run'.phase = "decayed" /\ run'.decayed = decayed /\ run'.after = run.after
        /\ run'.page = run.page /\ run'.short = run.short /\ run'.failed = run.failed
        /\ run'.carried = run.carried
    BY <1>1, <1>6 DEF Call
  <1>9. RowsEvident'
    BY <1>1, RowsStay
  <1>10. SavedSweepIsAhead'
    BY <1>1, SavedStays
  <1>11. PICK there \in SUBSET There(held) : decays \in [there -> Nat]
    BY <1>0 DEF SweepTypeOK
  <1>12. /\ decays' \in [there -> Nat]
         /\ \A p \in there : decays'[p] = IF p \in window THEN decays[p] + 1 ELSE decays[p]
    BY <1>1, <1>11
  <1>13. SweepTypeOK'
    <2>1. There(held') = There(held)
      BY <1>1
    <2>2. \E set \in SUBSET Place : run' \in Call([set -> Row])
      BY <1>7
    <2>3. \E set \in SUBSET There(held) : decays' \in [set -> Nat]
      BY <1>11, <1>12
    <2> QED
      BY <1>0, <1>1, <2>1, <2>2, <2>3 DEF SweepTypeOK
  <1>14. DecayInOrder'
    <2>1. ~In("decayed")
      BY <1>1 DEF In
    <2>2. DecayStands = stamp.decayNext
      BY <2>1 DEF DecayStands
    <2>3. PICK n \in Nat : \A p \in there : decays[p] = IF p <= stamp.decayNext THEN n + 1 ELSE n
      BY <1>0, <1>11, <2>2 DEF DecayInOrder
    <2>4. In("decayed")'
      BY <1>1, <1>8 DEF In
    <2>5. DecayStands' = decayed
      BY <1>8, <2>4 DEF DecayStands
    <2>6. \A p \in there : p \in Nat /\ p > 0
      BY MaintenanceAssumption DEF There, Place
    <2>7. \A p \in there : decays'[p] = IF p <= stamp.decayNext \/ p \in window THEN n + 1 ELSE n
      BY <1>3, <1>5, <1>12, <2>3, <2>6
    <2>8. \A p \in there : decays'[p] = IF decayed = 0 \/ p <= decayed THEN n + 1 ELSE n
      BY <1>4, <2>7
    <2>9. CASE decayed = 0
      <3>1. \A p \in there : decays'[p] = IF p <= decayed THEN (n + 1) + 1 ELSE n + 1
        BY <2>6, <2>8, <2>9
      <3> QED
        BY <1>12, <2>5, <3>1 DEF DecayInOrder
    <2>10. CASE decayed # 0
      <3>1. \A p \in there : decays'[p] = IF p <= decayed THEN n + 1 ELSE n
        BY <2>8, <2>10
      <3> QED
        BY <1>12, <2>5, <3>1 DEF DecayInOrder
    <2> QED
      BY <2>9, <2>10
  <1>15. run # NoRun /\ Unread' = Unread /\ (Failed' <=> Failed)
    BY <1>1, <1>8, NoRunIsNone DEF Unread, Failed
  <1>16. SweepIsAhead'
    BY <1>0, <1>1, <1>8, <1>15 DEF SweepIsAhead
  <1>17. PageInPhase'
    BY <1>0, <1>1, <1>8, <1>15 DEF PageInPhase, In
  <1> QED
    BY <1>9, <1>10, <1>13, <1>14, <1>16, <1>17 DEF SweepIInv

(* The steps of a call that leave rows, decays and its stamp alone. *)
LEMMA PassSteps ==
    ASSUME SweepIInv, run # NoRun,
           UNCHANGED <<held, inode, shot, claims, day, due, rowWrites, callsMade, stamp, decays>>,
           NEW places \in SUBSET Place, run' \in Call([places -> Row]),
           run'.phase # "decayed", run.phase # "decayed", SweepIsAhead', PageInPhase'
    PROVE  SweepIInv'
  <1>1. SweepTypeOK' /\ RowsEvident' /\ SavedSweepIsAhead'
    BY RunSteps
  <1>2. DecayInOrder'
    <2>1. ~In("decayed") /\ ~In("decayed")'
      BY DEF In
    <2> QED
      BY <2>1, DecaysStay DEF DecayStands
  <1> QED
    BY <1>1, <1>2 DEF SweepIInv

LEMMA DecayStampedKeeps ==
    ASSUME SweepIInv, DecayStamped
    PROVE  SweepIInv'
  <1>0. SweepTypeOK /\ DecayInOrder /\ SweepIsAhead /\ PageInPhase /\ SavedSweepIsAhead
    BY DEF SweepIInv
  <1>1. /\ In("decayed") /\ run' = [run EXCEPT !.phase = "verify"]
        /\ stamp' = [stamp EXCEPT !.decayNext = run.decayed]
        /\ UNCHANGED <<held, day, inode, shot, callsMade, rowWrites, claims, due, decays>>
    BY DEF DecayStamped, Passes
  <1>2. PICK places \in SUBSET Place : run \in Call([places -> Row]) /\ run.decayed \in Nat
    BY <1>0, <1>1, RunType, NoRunIsNone
  <1>3. run' \in Call([places -> Row])
    BY <1>1, <1>2 DEF Call, Phase
  <1>4. /\ run'.kind = run.kind /\ run'.phase = "verify" /\ run'.after = run.after
        /\ run'.page = run.page /\ run'.short = run.short /\ run'.failed = run.failed
        /\ run'.carried = run.carried
    BY <1>1, <1>2 DEF Call
  <1>5. stamp' \in [maintained : Nat, sweep : [next : Nat, store : Nat, failed : BOOLEAN], decayNext : Nat]
    BY <1>0, <1>1, <1>2 DEF SweepTypeOK
  <1>6. stamp'.sweep = stamp.sweep /\ stamp'.decayNext = run.decayed
    BY <1>0, <1>1 DEF SweepTypeOK
  <1>7. SweepTypeOK'
    <2>1. There(held') = There(held)
      BY <1>1
    <2>2. \E set \in SUBSET Place : run' \in Call([set -> Row])
      BY <1>3
    <2> QED
      BY <1>0, <1>1, <1>5, <2>1, <2>2 DEF SweepTypeOK
  <1>8. RowsEvident'
    BY <1>1, RowsStay
  <1>9. DecayInOrder'
    <2>1. DecayStands = run.decayed
      BY <1>1 DEF DecayStands
    <2>2. ~In("decayed")'
      BY <1>4 DEF In
    <2>3. DecayStands' = run.decayed
      BY <1>6, <2>2 DEF DecayStands
    <2> QED
      BY <1>1, <2>1, <2>3, DecaysStay
  <1>10. SavedSweepIsAhead'
    BY <1>0, <1>1, <1>6 DEF SavedSweepIsAhead
  <1>11. run # NoRun /\ Unread' = Unread /\ (Failed' <=> Failed)
    BY <1>1, <1>4, NoRunIsNone DEF Unread, Failed
  <1>12. Unread = {} /\ ~run.short
    BY <1>0, <1>1, <1>11 DEF PageInPhase, In
  <1>13. SweepIsAhead'
    BY <1>0, <1>1, <1>4, <1>11, <1>12 DEF SweepIsAhead
  <1>14. PageInPhase'
    BY <1>0, <1>4, <1>11 DEF PageInPhase
  <1> QED
    BY <1>7, <1>8, <1>9, <1>10, <1>13, <1>14 DEF SweepIInv

LEMMA DecayFailsKeeps ==
    ASSUME SweepIInv, DecayFails
    PROVE  SweepIInv'
  <1>0. SweepTypeOK /\ SweepIsAhead /\ PageInPhase
    BY DEF SweepIInv
  <1>1. /\ In("decay") /\ run' = [run EXCEPT !.phase = "verify", !.otherFailed = TRUE]
        /\ UNCHANGED <<held, day, inode, stamp, shot, callsMade, rowWrites, claims, due, decays>>
    BY DEF DecayFails
  <1>2. PICK places \in SUBSET Place : run \in Call([places -> Row])
    BY <1>0, <1>1, RunType, NoRunIsNone
  <1>3. run' \in Call([places -> Row])
    BY <1>1, <1>2 DEF Call, Phase
  <1>4. /\ run'.kind = run.kind /\ run'.phase = "verify" /\ run'.after = run.after
        /\ run'.page = run.page /\ run'.short = run.short /\ run'.failed = run.failed
        /\ run'.carried = run.carried
    BY <1>1, <1>2 DEF Call
  <1>5. run # NoRun /\ Unread' = Unread /\ (Failed' <=> Failed) /\ run.phase = "decay"
    BY <1>1, <1>4, NoRunIsNone DEF Unread, Failed, In
  <1>6. Unread = {} /\ ~run.short
    BY <1>0, <1>5 DEF PageInPhase
  <1>7. SweepIsAhead'
    BY <1>0, <1>1, <1>4, <1>5, <1>6 DEF SweepIsAhead
  <1>8. PageInPhase'
    BY <1>0, <1>4, <1>5 DEF PageInPhase
  <1> QED
    BY <1>1, <1>3, <1>4, <1>5, <1>7, <1>8, PassSteps

-----------------------------------------------------------------------------
(* The sweep *)

LEMMA ReadPageKeeps ==
    ASSUME SweepIInv, ReadPage
    PROVE  SweepIInv'
  <1> DEFINE S == {p \in There(held) : p > run.after}
             found == Firsts(S, VERIFY_PAGE)
             page == [p \in found |-> held[p]]
             short == Cardinality(found) < VERIFY_PAGE
             failed == run.failed \/ ~tree.root
  <1>0. SweepTypeOK /\ SweepIsAhead /\ PageInPhase
    BY DEF SweepIInv
  <1>1. /\ In("verify") /\ run' = [run EXCEPT !.page = page, !.short = short, !.failed = failed]
        /\ UNCHANGED <<held, day, inode, stamp, shot, callsMade, rowWrites, claims, due, decays>>
    BY DEF ReadPage
  <1>2. S \in SUBSET Place /\ found \in SUBSET S /\ VERIFY_PAGE \in Nat
    BY FirstsBelow, MaintenanceAssumption DEF There
  <1>3. /\ short => found = S
        /\ \A q \in found, p \in S : p <= q => p \in found
    BY <1>2, FirstsBelow, FirstsAll
  <1>4. page \in [found -> Row] /\ DOMAIN page = found
    BY <1>0, <1>2 DEF SweepTypeOK
  <1>5. PICK places \in SUBSET Place : run \in Call([places -> Row])
    BY <1>0, <1>1, RunType, NoRunIsNone
  <1>6. short \in BOOLEAN /\ failed \in BOOLEAN /\ (failed <=> run.failed \/ ~tree.root)
    BY DEF failed, short
  <1>7. S = {p \in There(held) : p > run.after}
    OBVIOUS
  <1> HIDE DEF S, found, page, short, failed
  <1>8. run' \in Call([found -> Row])
    BY <1>1, <1>4, <1>5, <1>6 DEF Call
  <1>9. /\ run'.kind = run.kind /\ run'.phase = run.phase /\ run'.after = run.after
        /\ run'.page = page /\ run'.short = short /\ run'.failed = failed
        /\ run'.carried = run.carried
    BY <1>1, <1>5 DEF Call
  <1>10. run # NoRun /\ run.phase = "verify" /\ Unread' = found
    BY <1>1, <1>4, <1>9, NoRunIsNone DEF Unread, In
  <1>11. ~Failed' => ~Failed
    BY <1>6, <1>9, Zenon DEF Failed
  <1>12. SweepIsAhead'
    <2> SUFFICES ASSUME ~Failed'
                 PROVE  /\ \A p \in due' : p > run'.after
                        /\ \A p \in due', q \in Unread' : p <= q => p \in Unread'
                        /\ run'.short => due' \subseteq Unread'
      BY <1>9, <1>10 DEF SweepIsAhead
    <2>1. \A p \in due : p > run.after
      BY <1>0, <1>10, <1>11 DEF SweepIsAhead
    <2>2. due \subseteq S
      BY <1>0, <1>7, <2>1 DEF SweepTypeOK
    <2> QED
      BY <1>1, <1>3, <1>9, <1>10, <2>1, <2>2
  <1>13. PageInPhase'
    BY <1>9, <1>10 DEF PageInPhase
  <1>14. found \in SUBSET Place
    BY <1>2
  <1> QED
    BY <1>1, <1>8, <1>9, <1>10, <1>12, <1>13, <1>14, PassSteps

LEMMA VisitRowKeeps ==
    ASSUME SweepIInv, VisitRow
    PROVE  SweepIInv'
  <1>0. SweepTypeOK /\ SweepIsAhead /\ PageInPhase /\ RowsEvident /\ DecayInOrder
    BY DEF SweepIInv
  <1>1. In("verify") /\ Unread # {} /\ run # NoRun /\ run.phase = "verify"
    BY NoRunIsNone DEF VisitRow, In
  <1>2. PICK places \in SUBSET Place : /\ run \in Call([places -> Row]) /\ Unread = places
                                       /\ \A q \in Unread : run.page[q] \in Row
    BY <1>0, <1>1, RunType
  <1>3. Min(Unread) \in Unread /\ \A n \in Unread : Min(Unread) <= n
    <2>1. Unread \in SUBSET Nat
      BY <1>2, PlacesCount
    <2> QED
      BY <1>1, <2>1, LeastOf
  <1>4. PICK p \in Place : p = Min(Unread) /\ p \in Unread /\ \A n \in Unread : p <= n
    BY <1>2, <1>3
  <1>5. PICK row \in Row : row = run.page[p]
    BY <1>2, <1>4
  <1> DEFINE rest == Unread \ {p}
             page == [q \in rest |-> run.page[q]]
  <1>6. page \in [rest -> Row] /\ rest \in SUBSET Place /\ DOMAIN page = rest
    BY <1>2
  <1>7. PICK failed \in BOOLEAN :
             /\ run' = [run EXCEPT !.page = page, !.after = p, !.failed = failed]
             /\ run.failed => failed
             /\ \/ /\ IF Verifiable THEN Persist(p, row) ELSE ClearVerified(p, row)
                   /\ due' = due \ {p}
                \/ failed /\ UNCHANGED <<held, due>>
    <2>1. run.failed \in BOOLEAN
      BY <1>2 DEF Call
    <2>2. run = [run EXCEPT !.failed = run.failed]
      BY <1>2 DEF Call
    <2>3. \/ /\ IF Verifiable THEN Persist(p, row) ELSE ClearVerified(p, row)
             /\ due' = due \ {p}
             /\ run' = [run EXCEPT !.page = page, !.after = p]
          \/ /\ UNCHANGED <<held, due>>
             /\ run' = [run EXCEPT !.page = page, !.after = p, !.failed = TRUE]
      BY <1>4, <1>5 DEF VisitRow
    <2> HIDE DEF page
    <2>4. [run EXCEPT !.page = page, !.after = p] = [run EXCEPT !.page = page, !.after = p, !.failed = run.failed]
      BY <1>2 DEF Call
    <2> QED
      BY <2>1, <2>3, <2>4
  <1>8. UNCHANGED <<day, inode, stamp, shot, callsMade, rowWrites, claims, decays>>
    BY DEF VisitRow
  <1> HIDE DEF page, rest
  <1>9. run' \in Call([rest -> Row])
    <2>1. p \in Nat
      BY PlacesCount
    <2> QED
      BY <1>2, <1>6, <1>7, <2>1 DEF Call
  <1>10. /\ run'.kind = run.kind /\ run'.phase = run.phase /\ run'.after = p
         /\ run'.page = page /\ run'.short = run.short /\ run'.failed = failed
         /\ run'.carried = run.carried
    BY <1>2, <1>7 DEF Call
  <1>11. Unread' = rest
    BY <1>6, <1>10 DEF Unread
  <1>12. /\ held' \in [Place -> Row]
         /\ \A q \in Place : held'[q].rev = held[q].rev /\ Evident(held'[q])
    <2>1. CASE UNCHANGED held
      BY <1>0, <2>1 DEF SweepTypeOK, RowsEvident
    <2>2. CASE IF Verifiable THEN Persist(p, row) ELSE ClearVerified(p, row)
      BY <1>0, <2>2, VisitedRow
    <2> QED
      BY <1>7, <2>1, <2>2
  <1>13. There(held') = There(held)
    BY <1>12 DEF There
  <1>14. due' \subseteq due
    BY <1>7
  <1>15. SweepTypeOK'
    <2>1. \E set \in SUBSET Place : run' \in Call([set -> Row])
      BY <1>6, <1>9
    <2> QED
      BY <1>0, <1>8, <1>12, <1>13, <1>14, <2>1 DEF SweepTypeOK
  <1>16. RowsEvident'
    BY <1>0, <1>8, <1>12 DEF RowsEvident, Evident
  <1>17. DecayInOrder'
    <2>1. ~In("decayed") /\ ~In("decayed")'
      BY <1>1, <1>10 DEF In
    <2> QED
      BY <1>8, <2>1, DecaysStay DEF DecayStands
  <1>18. SavedSweepIsAhead'
    BY <1>8, <1>14, SavedStays
  <1>19. SweepIsAhead'
    <2> SUFFICES ASSUME ~Failed'
                 PROVE  /\ \A d \in due' : d > run'.after
                        /\ \A d \in due', q \in Unread' : d <= q => d \in Unread'
                        /\ run'.short => due' \subseteq Unread'
      BY <1>1, <1>10 DEF SweepIsAhead
    <2>1. ~Failed /\ ~failed
      <3>1. ~run'.failed /\ ~run'.carried
        BY DEF Failed
      <3>2. ~failed /\ ~run.carried
        BY <1>10, <3>1, Zenon
      <3> QED
        BY <1>7, <3>2, Zenon DEF Failed
    <2>2. due' = due \ {p}
      BY <1>7, <2>1
    <2>3. /\ \A d \in due, q \in Unread : d <= q => d \in Unread
          /\ run.short => due \subseteq Unread
      BY <1>0, <1>1, <2>1 DEF SweepIsAhead
    <2>4. \A d \in due : d \in Nat /\ d \in Place
      BY <1>0, PlacesCount DEF SweepTypeOK, There
    <2>5. p \in Nat
      BY PlacesCount
    <2>6. \A d \in due \ {p} : d > p
      BY <1>4, <2>3, <2>4, <2>5
    <2> QED
      BY <1>10, <1>11, <2>2, <2>3, <2>6 DEF rest
  <1>20. PageInPhase'
    BY <1>1, <1>10 DEF PageInPhase
  <1> QED
    BY <1>15, <1>16, <1>17, <1>18, <1>19, <1>20 DEF SweepIInv

LEMMA SliceEndsKeeps ==
    ASSUME SweepIInv, SliceEnds
    PROVE  SweepIInv'
  <1>0. SweepTypeOK /\ SweepIsAhead
    BY DEF SweepIInv
  <1>1. /\ In("verify") /\ run' = [run EXCEPT !.page = NoPage, !.short = FALSE]
        /\ UNCHANGED <<held, day, inode, stamp, shot, callsMade, rowWrites, claims, due, decays>>
    BY DEF SliceEnds
  <1>2. PICK places \in SUBSET Place : run \in Call([places -> Row])
    BY <1>0, <1>1, RunType, NoRunIsNone
  <1>3. NoPage \in [{} -> Row] /\ DOMAIN NoPage = {}
    BY RowTypes DEF NoPage
  <1>4. run' \in Call([{} -> Row])
    BY <1>1, <1>2, <1>3 DEF Call
  <1>5. /\ run'.kind = run.kind /\ run'.phase = run.phase /\ run'.after = run.after
        /\ run'.page = NoPage /\ run'.short = FALSE /\ run'.failed = run.failed
        /\ run'.carried = run.carried
    BY <1>1, <1>2 DEF Call
  <1>6. run # NoRun /\ Unread' = {} /\ (Failed' <=> Failed) /\ run.phase = "verify"
    BY <1>1, <1>3, <1>5, NoRunIsNone DEF Unread, Failed, In
  <1>7. SweepIsAhead'
    BY <1>0, <1>1, <1>5, <1>6 DEF SweepIsAhead
  <1>8. PageInPhase'
    BY <1>5, <1>6 DEF PageInPhase
  <1> QED
    BY <1>1, <1>4, <1>5, <1>6, <1>7, <1>8, PassSteps

LEMMA SweepEndsKeeps ==
    ASSUME SweepIInv, SweepEnds
    PROVE  SweepIInv'
  <1>0. SweepTypeOK /\ SweepIsAhead
    BY DEF SweepIInv
  <1>1. In("verify") /\ Unread = {} /\ run # NoRun /\ run.phase = "verify"
    BY NoRunIsNone DEF SweepEnds, In
  <1>2. PICK places \in SUBSET Place : run \in Call([places -> Row]) /\ run.after \in Nat /\ run.short \in BOOLEAN
    BY <1>0, <1>1, RunType
  <1>3. PICK after \in Nat : /\ run' = [run EXCEPT !.phase = "swept", !.after = after]
                             /\ (run.short /\ after = 0) \/ (~run.short /\ after = run.after /\ after > 0)
    <2>1. [run EXCEPT !.phase = "swept"] = [run EXCEPT !.phase = "swept", !.after = run.after]
      BY <1>2 DEF Call
    <2>2. CASE run.short
      <3>1. run' = [run EXCEPT !.phase = "swept", !.after = 0]
        BY <2>2 DEF SweepEnds
      <3> QED
        BY <2>2, <3>1
    <2>3. CASE ~run.short
      <3>1. run' = [run EXCEPT !.phase = "swept"] /\ run.after > 0
        BY <2>3 DEF SweepEnds, Passes
      <3> QED
        BY <1>2, <2>1, <2>3, <3>1
    <2> QED
      BY <2>2, <2>3
  <1>4. UNCHANGED <<held, day, inode, stamp, shot, callsMade, rowWrites, claims, due, decays>>
    BY DEF SweepEnds
  <1>5. run' \in Call([places -> Row])
    BY <1>2, <1>3 DEF Call, Phase
  <1>6. /\ run'.kind = run.kind /\ run'.phase = "swept" /\ run'.after = after
        /\ run'.page = run.page /\ run'.short = run.short /\ run'.failed = run.failed
        /\ run'.carried = run.carried
    BY <1>2, <1>3 DEF Call
  <1>7. Unread' = {} /\ (Failed' <=> Failed)
    BY <1>1, <1>6 DEF Unread, Failed
  <1>8. SweepIsAhead'
    <2> SUFFICES ASSUME ~Failed' PROVE (\A p \in due : p > after) /\ (after = 0 => due = {})
      BY <1>4, <1>6, <1>7 DEF SweepIsAhead
    <2>1. /\ \A p \in due : p > run.after
          /\ run.short => due = {}
      BY <1>0, <1>1, <1>7 DEF SweepIsAhead
    <2> QED
      BY <1>3, <2>1
  <1>9. PageInPhase'
    BY <1>6, <1>7 DEF PageInPhase
  <1> QED
    BY <1>1, <1>4, <1>5, <1>6, <1>8, <1>9, PassSteps

LEMMA SliceRaisesKeeps ==
    ASSUME SweepIInv, SliceRaises
    PROVE  SweepIInv'
  <1>0. SweepTypeOK
    BY DEF SweepIInv
  <1>1. /\ In("verify") /\ run' = [run EXCEPT !.phase = "swept", !.after = 0, !.failed = TRUE, !.page = NoPage]
        /\ UNCHANGED <<held, day, inode, stamp, shot, callsMade, rowWrites, claims, due, decays>>
    BY DEF SliceRaises
  <1>2. PICK places \in SUBSET Place : run \in Call([places -> Row])
    BY <1>0, <1>1, RunType, NoRunIsNone
  <1>3. NoPage \in [{} -> Row] /\ DOMAIN NoPage = {}
    BY RowTypes DEF NoPage
  <1>4. run' \in Call([{} -> Row])
    BY <1>1, <1>2, <1>3 DEF Call, Phase
  <1>5. /\ run'.phase = "swept" /\ run'.page = NoPage /\ run'.failed = TRUE
    BY <1>1, <1>2 DEF Call
  <1>6. run # NoRun /\ Unread' = {} /\ Failed' /\ run.phase = "verify"
    BY <1>1, <1>3, <1>5, NoRunIsNone DEF Unread, Failed, In
  <1>7. SweepIsAhead' /\ PageInPhase'
    BY <1>5, <1>6 DEF SweepIsAhead, PageInPhase
  <1> QED
    BY <1>1, <1>4, <1>5, <1>6, <1>7, PassSteps

-----------------------------------------------------------------------------
(* The end of a call *)

LEMMA SnapshotKeeps ==
    ASSUME SweepIInv, Snapshot
    PROVE  SweepIInv'
  <1>0. SweepTypeOK /\ SweepIsAhead /\ PageInPhase /\ RowsEvident
    BY DEF SweepIInv
  <1>1. In("swept") /\ run # NoRun /\ run.phase = "swept"
    BY NoRunIsNone DEF Snapshot, In
  <1>2. PICK places \in SUBSET Place : run \in Call([places -> Row])
    BY <1>0, <1>1, RunType
  <1>3. PICK other \in BOOLEAN : run' = [run EXCEPT !.phase = "stamp", !.otherFailed = other]
    <2>1. run.otherFailed \in BOOLEAN
      BY <1>2 DEF Call
    <2>2. [run EXCEPT !.phase = "stamp"] = [run EXCEPT !.phase = "stamp", !.otherFailed = run.otherFailed]
      BY <1>2 DEF Call
    <2> QED
      BY <2>1, <2>2 DEF Snapshot, Passes
  <1>4. /\ shot' \in {shot, held}
        /\ UNCHANGED <<held, day, inode, stamp, callsMade, rowWrites, claims, due, decays>>
    BY DEF Snapshot, Shot
  <1>5. run' \in Call([places -> Row])
    BY <1>2, <1>3 DEF Call, Phase
  <1>6. /\ run'.kind = run.kind /\ run'.phase = "stamp" /\ run'.after = run.after
        /\ run'.page = run.page /\ run'.short = run.short /\ run'.failed = run.failed
        /\ run'.carried = run.carried
    BY <1>2, <1>3 DEF Call
  <1>7. Unread' = {} /\ (Failed' <=> Failed)
    BY <1>0, <1>1, <1>6 DEF Unread, Failed, PageInPhase
  <1>8. SweepTypeOK'
    <2>1. \E set \in SUBSET Place : run' \in Call([set -> Row])
      BY <1>5
    <2>2. There(held') = There(held) /\ shot' \in [Place -> Row]
      BY <1>0, <1>4 DEF SweepTypeOK
    <2> QED
      BY <1>0, <1>4, <2>1, <2>2 DEF SweepTypeOK
  <1>9. RowsEvident'
    BY <1>0, <1>4 DEF RowsEvident, Evident
  <1>10. DecayInOrder'
    <2>1. ~In("decayed") /\ ~In("decayed")'
      BY <1>1, <1>6 DEF In
    <2> QED
      BY <1>4, <2>1, DecaysStay DEF DecayStands
  <1>11. SavedSweepIsAhead'
    BY <1>4, SavedStays
  <1>12. SweepIsAhead'
    BY <1>0, <1>1, <1>4, <1>6, <1>7 DEF SweepIsAhead
  <1>13. PageInPhase'
    BY <1>6, <1>7 DEF PageInPhase
  <1> QED
    BY <1>8, <1>9, <1>10, <1>11, <1>12, <1>13 DEF SweepIInv

(* The sweep a call leaves for the next. *)
LEMMA SweepRecorded ==
    ASSUME SweepIInv, run # NoRun
    PROVE  /\ SweepRecord \in [next : Nat, store : Nat, failed : BOOLEAN]
           /\ SweepRecord = NoSweep => run.after = 0
           /\ SweepRecord.store <= inode
           /\ SweepRecord.store = inode /\ ~SweepRecord.failed => \A p \in due : p > SweepRecord.next
  <1>0. SweepTypeOK /\ SweepIsAhead /\ inode \in Nat \ {0}
    BY DEF SweepIInv, SweepTypeOK
  <1>1. run.after \in Nat
    BY <1>0, RunType
  <1>2. CASE run.after = 0
    BY <1>0, <1>2 DEF SweepRecord, NoSweep
  <1>3. CASE run.after # 0
    <2>1. PICK failed \in BOOLEAN : failed <=> Failed
      OBVIOUS
    <2>2. SweepRecord = [next |-> run.after, store |-> inode, failed |-> Failed]
      BY <1>3 DEF SweepRecord
    <2>3. Failed \in BOOLEAN
      <3>1. PICK places \in SUBSET Place : run \in Call([places -> Row])
        BY <1>0, RunType
      <3> QED
        BY DEF Failed
    <2>4. SweepRecord.next = run.after /\ SweepRecord.store = inode /\ SweepRecord.failed = Failed
      BY <2>2
    <2>5. SweepRecord \in [next : Nat, store : Nat, failed : BOOLEAN]
      BY <1>0, <1>1, <2>2, <2>3
    <2>6. SweepRecord # NoSweep
      BY <1>3, <2>4 DEF NoSweep
    <2>7. ~Failed => \A p \in due : p > run.after
      BY <1>0 DEF SweepIsAhead
    <2> QED
      BY <1>0, <2>4, <2>5, <2>6, <2>7
  <1> QED
    BY <1>2, <1>3

LEMMA EndOfCall ==
    ASSUME SweepIInv, run # NoRun, run.phase # "decayed", run' = NoRun,
           UNCHANGED <<held, day, inode, shot, callsMade, rowWrites, claims, due, decays>>,
           stamp' \in [maintained : Nat, sweep : [next : Nat, store : Nat, failed : BOOLEAN], decayNext : Nat],
           stamp'.sweep = SweepRecord, stamp'.decayNext = stamp.decayNext
    PROVE  SweepIInv'
  <1>1. SweepTypeOK'
    BY DEF SweepIInv, SweepTypeOK, There
  <1>2. RowsEvident'
    BY RowsStay
  <1>3. DecayInOrder'
    <2>1. ~In("decayed") /\ ~In("decayed")'
      BY NoRunIsNone DEF In
    <2> QED
      BY <2>1, DecaysStay DEF DecayStands
  <1>4. SavedSweepIsAhead'
    BY SweepRecorded DEF SavedSweepIsAhead
  <1>5. SweepIsAhead' /\ PageInPhase'
    BY DEF SweepIsAhead, PageInPhase
  <1> QED
    BY <1>1, <1>2, <1>3, <1>4, <1>5 DEF SweepIInv

LEMMA FinishRunKeeps ==
    ASSUME SweepIInv, FinishRun
    PROVE  /\ SweepIInv'
           /\ StampHonest
  <1>0. SweepTypeOK /\ SweepIsAhead
    BY DEF SweepIInv
  <1>1. In("stamp") /\ run # NoRun /\ run.phase = "stamp"
    BY NoRunIsNone DEF FinishRun, In
  <1>2. PICK sweep \in [next : Nat, store : Nat, failed : BOOLEAN], maintained \in Nat :
             /\ sweep = SweepRecord
             /\ stamp' = [stamp EXCEPT !.sweep = sweep, !.maintained = maintained]
             /\ maintained = stamp.maintained \/ (~Failed /\ sweep = NoSweep)
    <2>1. SweepRecord \in [next : Nat, store : Nat, failed : BOOLEAN]
      BY <1>1, SweepRecorded
    <2>2. stamp.maintained \in Nat /\ callsMade \in Nat
      BY <1>0 DEF SweepTypeOK
    <2> DEFINE maintained == IF Failed \/ run.otherFailed \/ SweepRecord # NoSweep THEN stamp.maintained
                             ELSE callsMade
    <2>3. stamp' = [stamp EXCEPT !.sweep = SweepRecord, !.maintained = maintained]
      BY DEF FinishRun
    <2>4. maintained \in Nat /\ (maintained = stamp.maintained \/ (~Failed /\ SweepRecord = NoSweep))
      BY <2>2
    <2> HIDE DEF maintained
    <2> QED
      BY <2>1, <2>3, <2>4
  <1>3. /\ stamp' \in [maintained : Nat, sweep : [next : Nat, store : Nat, failed : BOOLEAN], decayNext : Nat]
        /\ stamp'.sweep = SweepRecord /\ stamp'.decayNext = stamp.decayNext /\ stamp'.maintained = maintained
    BY <1>0, <1>2 DEF SweepTypeOK
  <1>4. SweepIInv'
    BY <1>1, <1>3, EndOfCall DEF FinishRun
  <1>5. StampHonest
    <2> SUFFICES ASSUME maintained # stamp.maintained PROVE due = {}
      BY <1>3 DEF StampHonest, FinishRun
    <2>1. ~Failed /\ run.after = 0
      BY <1>1, <1>2, SweepRecorded
    <2> QED
      BY <1>0, <1>1, <2>1 DEF SweepIsAhead
  <1> QED
    BY <1>4, <1>5

LEMMA SaveSweepKeeps ==
    ASSUME SweepIInv, SaveSweep
    PROVE  /\ SweepIInv'
           /\ stamp'.maintained = stamp.maintained
  <1>1. In("swept") /\ run # NoRun /\ run.phase = "swept"
    BY NoRunIsNone DEF SaveSweep, In
  <1>2. PICK sweep \in [next : Nat, store : Nat, failed : BOOLEAN] :
             sweep = SweepRecord /\ stamp' = [stamp EXCEPT !.sweep = sweep]
    BY <1>1, SweepRecorded DEF SaveSweep
  <1>3. /\ stamp' \in [maintained : Nat, sweep : [next : Nat, store : Nat, failed : BOOLEAN], decayNext : Nat]
        /\ stamp'.sweep = SweepRecord /\ stamp'.decayNext = stamp.decayNext
        /\ stamp'.maintained = stamp.maintained
    BY <1>2 DEF SweepIInv, SweepTypeOK
  <1> QED
    BY <1>1, <1>3, EndOfCall DEF SaveSweep

LEMMA KillDaemonKeeps ==
    ASSUME SweepIInv, KillDaemon
    PROVE  SweepIInv'
  <1>0. SweepTypeOK
    BY DEF SweepIInv
  <1>1. /\ run # NoRun /\ run' = NoRun
        /\ decays' = (IF run.phase = "decayed" THEN [p \in {} |-> 0] ELSE decays)
        /\ UNCHANGED <<held, day, inode, stamp, shot, callsMade, rowWrites, claims, due>>
    BY DEF KillDaemon
  <1>2. RowsEvident' /\ SavedSweepIsAhead' /\ SweepIsAhead' /\ PageInPhase'
    BY <1>1, RowsStay, SavedStays DEF SweepIsAhead, PageInPhase
  <1>3. CASE run.phase = "decayed"
    <2>1. decays' \in [{} -> Nat] /\ DOMAIN decays' = {}
      BY <1>1, <1>3
    <2>2. DecayInOrder'
      BY <2>1 DEF DecayInOrder
    <2>3. \E set \in SUBSET There(held') : decays' \in [set -> Nat]
      BY <2>1
    <2>4. SweepTypeOK'
      BY <1>0, <1>1, <2>3 DEF SweepTypeOK, There
    <2> QED
      BY <1>2, <2>2, <2>4 DEF SweepIInv
  <1>4. CASE run.phase # "decayed"
    <2>1. ~In("decayed") /\ ~In("decayed")'
      BY <1>1, <1>4, NoRunIsNone DEF In
    <2>2. DecayInOrder'
      BY <1>1, <1>4, <2>1, DecaysStay DEF DecayStands
    <2>3. SweepTypeOK'
      BY <1>0, <1>1, <1>4 DEF SweepTypeOK, There
    <2> QED
      BY <1>2, <2>2, <2>3 DEF SweepIInv
  <1> QED
    BY <1>3, <1>4

-----------------------------------------------------------------------------
(* Other hands *)

LEMMA WriteClaimsKeeps ==
    ASSUME SweepIInv, NEW p \in Place, WriteClaims(p)
    PROVE  SweepIInv'
  <1>0. SweepTypeOK /\ SweepIsAhead /\ PageInPhase /\ RowsEvident /\ DecayInOrder
    BY DEF SweepIInv
  <1>1. /\ rowWrites' = rowWrites + 1
        /\ claims' = [claims EXCEPT ![p] = LAST + rowWrites']
        /\ \E before \in {NoRow, held[p]} :
              held' = [held EXCEPT ![p] = [before EXCEPT !.rev = LAST + rowWrites', !.since = NoRow.since,
                                                        !.judged = FALSE]]
        /\ due' = due \ {p}
        /\ decays' = [q \in {q \in DOMAIN decays : q # p \/ held[p].rev # 0} |-> decays[q]]
        /\ UNCHANGED <<day, inode, stamp, run, shot, callsMade>>
    BY DEF WriteClaims, RowWrite
  <1>2. PICK rev \in Nat : rev = LAST + rowWrites' /\ rev # 0 /\ rowWrites' \in Nat
    BY <1>0, <1>1, MaintenanceAssumption DEF SweepTypeOK
  <1>3. PICK row \in Row : held' = [held EXCEPT ![p] = row] /\ row.rev = rev /\ Evident(row)
    <2>1. PICK before \in {NoRow, held[p]} :
              held' = [held EXCEPT ![p] = [before EXCEPT !.rev = LAST + rowWrites', !.since = NoRow.since,
                                                        !.judged = FALSE]]
      BY <1>1
    <2> DEFINE row == [before EXCEPT !.rev = rev, !.since = NoRow.since, !.judged = FALSE]
    <2>2. before \in Row /\ NoRow.since \in [ClaimNo -> Nat]
      BY <1>0, RowTypes DEF SweepTypeOK, Row
    <2>3. row \in Row /\ row.rev = rev /\ ~row.judged
      BY <2>2 DEF Row
    <2>4. held' = [held EXCEPT ![p] = row]
      BY <1>2, <2>1
    <2> HIDE DEF row
    <2> QED
      BY <2>3, <2>4 DEF Evident
  <1>4. held' \in [Place -> Row] /\ \A q \in Place : held'[q] = IF q = p THEN row ELSE held[q]
    BY <1>0, <1>1, <1>3 DEF SweepTypeOK
  <1>5. claims' \in [Place -> Nat] /\ \A q \in Place : claims'[q] = IF q = p THEN rev ELSE claims[q]
    BY <1>0, <1>1, <1>2 DEF SweepTypeOK
  <1>6. There(held) \subseteq There(held')
    BY <1>2, <1>3, <1>4 DEF There
  <1>7. PICK there \in SUBSET There(held) : decays \in [there -> Nat]
    BY <1>0 DEF SweepTypeOK
  <1>8. PICK still \in SUBSET there : decays' \in [still -> Nat] /\ \A q \in still : decays'[q] = decays[q]
    BY <1>1, <1>7
  <1>9. SweepTypeOK'
    <2>1. \E set \in SUBSET There(held') : decays' \in [set -> Nat]
      BY <1>6, <1>7, <1>8
    <2>2. due' \subseteq There(held')
      BY <1>0, <1>1, <1>6 DEF SweepTypeOK
    <2> QED
      BY <1>0, <1>1, <1>2, <1>4, <1>5, <2>1, <2>2 DEF SweepTypeOK
  <1>10. RowsEvident'
    BY <1>0, <1>1, <1>3, <1>4, <1>5 DEF RowsEvident, Evident
  <1>11. DecayInOrder'
    <2>1. DecayStands' = DecayStands
      BY <1>1 DEF DecayStands, In
    <2> QED
      BY <1>0, <1>7, <1>8, <2>1 DEF DecayInOrder
  <1>12. SavedSweepIsAhead'
    BY <1>1, SavedStays
  <1>13. SweepIsAhead'
    BY <1>0, <1>1 DEF SweepIsAhead, Failed, Unread
  <1>14. PageInPhase'
    BY <1>0, <1>1 DEF PageInPhase, Unread
  <1> QED
    BY <1>9, <1>10, <1>11, <1>12, <1>13, <1>14 DEF SweepIInv

LEMMA DeleteRowKeeps ==
    ASSUME SweepIInv, NEW p \in Place, DeleteRow(p)
    PROVE  SweepIInv'
  <1>0. SweepTypeOK /\ SweepIsAhead /\ PageInPhase /\ RowsEvident /\ DecayInOrder
    BY DEF SweepIInv
  <1>1. /\ rowWrites' = rowWrites + 1
        /\ claims' = [claims EXCEPT ![p] = 0] /\ held' = [held EXCEPT ![p] = NoRow]
        /\ due' = due \ {p}
        /\ decays' = [q \in DOMAIN decays \ {p} |-> decays[q]]
        /\ UNCHANGED <<day, inode, stamp, run, shot, callsMade>>
    BY DEF DeleteRow, RowWrite
  <1>2. held' \in [Place -> Row] /\ \A q \in Place : held'[q] = IF q = p THEN NoRow ELSE held[q]
    BY <1>0, <1>1, RowTypes DEF SweepTypeOK
  <1>3. claims' \in [Place -> Nat] /\ \A q \in Place : claims'[q] = IF q = p THEN 0 ELSE claims[q]
    BY <1>0, <1>1 DEF SweepTypeOK
  <1>4. There(held) \ {p} \subseteq There(held')
    BY <1>2 DEF There
  <1>5. PICK there \in SUBSET There(held) : decays \in [there -> Nat]
    BY <1>0 DEF SweepTypeOK
  <1>6. PICK still \in SUBSET (there \ {p}) : decays' \in [still -> Nat] /\ \A q \in still : decays'[q] = decays[q]
    BY <1>1, <1>5
  <1>7. SweepTypeOK'
    <2>1. \E set \in SUBSET There(held') : decays' \in [set -> Nat]
      BY <1>4, <1>5, <1>6
    <2>2. due' \subseteq There(held')
      BY <1>0, <1>1, <1>4 DEF SweepTypeOK
    <2>3. rowWrites' \in Nat
      BY <1>0, <1>1 DEF SweepTypeOK
    <2> QED
      BY <1>0, <1>1, <1>2, <1>3, <2>1, <2>2, <2>3 DEF SweepTypeOK
  <1>8. RowsEvident'
    <2>1. Evident(NoRow)'
      BY RowTypes DEF Evident
    <2> QED
      BY <1>0, <1>1, <1>2, <1>3, <2>1, RowTypes DEF RowsEvident, Evident
  <1>9. DecayInOrder'
    <2>1. DecayStands' = DecayStands
      BY <1>1 DEF DecayStands, In
    <2> QED
      BY <1>0, <1>5, <1>6, <2>1 DEF DecayInOrder
  <1>10. SavedSweepIsAhead'
    BY <1>1, SavedStays
  <1>11. SweepIsAhead'
    BY <1>0, <1>1 DEF SweepIsAhead, Failed, Unread
  <1>12. PageInPhase'
    BY <1>0, <1>1 DEF PageInPhase, Unread
  <1> QED
    BY <1>7, <1>8, <1>9, <1>10, <1>11, <1>12 DEF SweepIInv

(* The checkout and the calendar. *)
LEMMA OutsideKeeps ==
    ASSUME SweepIInv, CheckoutMoves \/ DayPasses
    PROVE  SweepIInv'
  <1>1. /\ day' \in {day, day + 1} /\ rowWrites' \in {rowWrites, rowWrites + 1}
        /\ UNCHANGED <<held, inode, stamp, run, shot, callsMade, claims, due, decays>>
    BY DEF CheckoutMoves, DayPasses, RowWrite
  <1>2. SweepTypeOK'
    <2>1. day' \in Nat \ {0} /\ rowWrites' \in Nat
      BY <1>1 DEF SweepIInv, SweepTypeOK
    <2> QED
      BY <1>1, <2>1 DEF SweepIInv, SweepTypeOK, There
  <1>3. RowsEvident'
    <2>1. ASSUME NEW row \in Row, Evident(row) PROVE Evident(row)'
      <3>1. day \in Nat /\ STALE_DAYS \in Nat /\ \A c \in ClaimNo : row.since[c] \in Nat
        BY MaintenanceAssumption DEF SweepIInv, SweepTypeOK, Row
      <3> QED
        BY <1>1, <2>1, <3>1 DEF Evident
    <2>2. \A p \in Place : held[p] \in Row /\ shot[p] \in Row
      BY DEF SweepIInv, SweepTypeOK
    <2>3. \A p \in Place : Evident(held[p])' /\ Evident(shot[p])'
      <3> SUFFICES ASSUME NEW p \in Place PROVE Evident(held[p])' /\ Evident(shot[p])'
        OBVIOUS
      <3>1. PICK h \in Row, s \in Row : h = held[p] /\ s = shot[p]
        BY <2>2
      <3>2. Evident(h)' /\ Evident(s)'
        BY <2>1, <3>1 DEF SweepIInv, RowsEvident
      <3> QED
        BY <1>1, <3>1, <3>2 DEF Evident
    <2> QED
      BY <1>1, <2>3 DEF SweepIInv, RowsEvident
  <1>4. DecayInOrder'
    <2>1. DecayStands' = DecayStands
      BY <1>1 DEF DecayStands, In
    <2> QED
      BY <1>1, <2>1, DecaysStay
  <1>5. SavedSweepIsAhead'
    BY <1>1, SavedStays
  <1>6. SweepIsAhead'
    BY <1>1 DEF SweepIInv, SweepIsAhead, Failed, Unread
  <1>7. PageInPhase'
    BY <1>1 DEF SweepIInv, PageInPhase, Unread
  <1> QED
    BY <1>2, <1>3, <1>4, <1>5, <1>6, <1>7 DEF SweepIInv

LEMMA RestoreKeeps ==
    ASSUME SweepIInv, Restore
    PROVE  SweepIInv'
  <1>0. SweepTypeOK /\ RowsEvident /\ SavedSweepIsAhead
    BY DEF SweepIInv
  <1>1. /\ run = NoRun /\ inode' = inode + 1 /\ rowWrites' = rowWrites + 1
        /\ held' = shot /\ claims' = [p \in Place |-> shot[p].rev] /\ due' = There(shot)
        /\ decays' = [p \in {} |-> 0]
        /\ UNCHANGED <<day, stamp, run, shot, callsMade>>
    BY DEF Restore, RowWrite
  <1>2. SweepTypeOK'
    <2>1. claims' \in [Place -> Nat]
      BY <1>0, <1>1 DEF SweepTypeOK, Row
    <2>2. inode' \in Nat \ {0} /\ rowWrites' \in Nat
      BY <1>0, <1>1 DEF SweepTypeOK
    <2>3. \E set \in SUBSET There(held') : decays' \in [set -> Nat]
      <3>1. decays' \in [{} -> Nat]
        BY <1>1
      <3> QED
        BY <3>1
    <2> QED
      BY <1>0, <1>1, <2>1, <2>2, <2>3 DEF SweepTypeOK
  <1>3. RowsEvident'
    BY <1>0, <1>1 DEF RowsEvident, Evident
  <1>4. DecayInOrder'
    <2>1. DOMAIN decays' = {}
      BY <1>1
    <2> QED
      BY <2>1 DEF DecayInOrder
  <1>5. SavedSweepIsAhead'
    BY <1>0, <1>1 DEF SavedSweepIsAhead, SweepTypeOK
  <1>6. SweepIsAhead' /\ PageInPhase'
    BY <1>1 DEF SweepIsAhead, PageInPhase
  <1> QED
    BY <1>2, <1>3, <1>4, <1>5, <1>6 DEF SweepIInv

LEMMA SweepInitKeeps == SweepInit => SweepIInv
  <1> SUFFICES ASSUME SweepInit PROVE SweepIInv
    OBVIOUS
  <1>1. PICK there \in SUBSET Place :
             /\ held = [p \in Place |-> IF p \in there THEN [NoRow EXCEPT !.rev = p] ELSE NoRow]
             /\ due = there /\ decays = [p \in there |-> 0]
    BY DEF SweepInit
  <1>2. \A p \in Place : p \in Nat /\ p > 0
    BY MaintenanceAssumption DEF Place
  <1>3. \A p \in Place : /\ held[p] \in Row /\ held[p].verdict = "none"
                         /\ held[p].rev = IF p \in there THEN p ELSE 0
    <2> SUFFICES ASSUME NEW p \in Place
                 PROVE  /\ held[p] \in Row /\ held[p].verdict = "none"
                        /\ held[p].rev = IF p \in there THEN p ELSE 0
      OBVIOUS
    <2> DEFINE row == [NoRow EXCEPT !.rev = p]
    <2>1. row \in Row /\ row.verdict = "none" /\ row.rev = p
      BY <1>2, RowTypes DEF Row
    <2>2. held[p] = IF p \in there THEN row ELSE NoRow
      BY <1>1
    <2> HIDE DEF row
    <2> QED
      BY <2>1, <2>2, RowTypes
  <1>4. /\ claims = [p \in Place |-> held[p].rev] /\ day = 1 /\ inode = 1 /\ run = NoRun
        /\ stamp = [maintained |-> 0, sweep |-> NoSweep, decayNext |-> 0]
        /\ shot = [p \in Place |-> NoRow] /\ callsMade = 0 /\ rowWrites = 0
    BY DEF SweepInit
  <1>5. There(held) = there
    BY <1>2, <1>3 DEF There
  <1>6. SweepTypeOK
    <2>1. held \in [Place -> Row] /\ shot \in [Place -> Row] /\ claims \in [Place -> Nat]
      BY <1>1, <1>3, <1>4, RowTypes DEF Row
    <2>2. stamp \in [maintained : Nat, sweep : [next : Nat, store : Nat, failed : BOOLEAN], decayNext : Nat]
      BY <1>4 DEF NoSweep
    <2>3. \E set \in SUBSET There(held) : decays \in [set -> Nat]
      BY <1>1, <1>5
    <2> QED
      BY <1>1, <1>4, <1>5, <2>1, <2>2, <2>3 DEF SweepTypeOK
  <1>7. RowsEvident
    BY <1>3, <1>4, RowTypes DEF RowsEvident, Evident
  <1>8. DecayInOrder
    <2>1. DecayStands = 0
      BY <1>4, NoRunIsNone DEF DecayStands, In
    <2>2. \A p \in there : decays[p] = IF p <= 0 THEN 0 + 1 ELSE 0
      BY <1>1, <1>2
    <2> QED
      BY <1>1, <2>1, <2>2 DEF DecayInOrder
  <1>9. SavedSweepIsAhead
    BY <1>4 DEF SavedSweepIsAhead, NoSweep
  <1>10. SweepIsAhead /\ PageInPhase
    BY <1>4 DEF SweepIsAhead, PageInPhase
  <1> QED
    BY <1>6, <1>7, <1>8, <1>9, <1>10 DEF SweepIInv

-----------------------------------------------------------------------------
LEMMA SweepSteps ==
    ASSUME SweepIInv, [SweepNext]_sweepVars
    PROVE  SweepIInv' /\ StampHonest
  <1>1. ASSUME NEW kind \in {"maintain", "verify"}, Begin(kind) PROVE SweepIInv' /\ StampHonest
    BY <1>1, BeginKeeps DEF Begin, StampHonest
  <1>2. CASE Decay
    BY <1>2, DecayKeeps DEF Decay, StampHonest
  <1>3. CASE DecayStamped
    <2>1. stamp'.maintained = stamp.maintained
      BY <1>3 DEF DecayStamped, SweepIInv, SweepTypeOK
    <2> QED
      BY <1>3, <2>1, DecayStampedKeeps DEF StampHonest
  <1>4. CASE DecayFails
    BY <1>4, DecayFailsKeeps DEF DecayFails, StampHonest
  <1>5. CASE ReadPage
    BY <1>5, ReadPageKeeps DEF ReadPage, StampHonest
  <1>6. CASE VisitRow
    BY <1>6, VisitRowKeeps DEF VisitRow, StampHonest
  <1>7. CASE SliceEnds
    BY <1>7, SliceEndsKeeps DEF SliceEnds, StampHonest
  <1>8. CASE SweepEnds
    BY <1>8, SweepEndsKeeps DEF SweepEnds, StampHonest
  <1>9. CASE SliceRaises
    BY <1>9, SliceRaisesKeeps DEF SliceRaises, StampHonest
  <1>10. CASE Snapshot
    BY <1>10, SnapshotKeeps DEF Snapshot, StampHonest
  <1>11. CASE FinishRun
    BY <1>11, FinishRunKeeps
  <1>12. CASE SaveSweep
    BY <1>12, SaveSweepKeeps DEF StampHonest
  <1>13. CASE KillDaemon
    BY <1>13, KillDaemonKeeps DEF KillDaemon, StampHonest
  <1>14. ASSUME NEW p \in Place, WriteClaims(p) PROVE SweepIInv' /\ StampHonest
    BY <1>14, WriteClaimsKeeps DEF WriteClaims, StampHonest
  <1>15. ASSUME NEW p \in Place, DeleteRow(p) PROVE SweepIInv' /\ StampHonest
    BY <1>15, DeleteRowKeeps DEF DeleteRow, StampHonest
  <1>16. CASE CheckoutMoves \/ DayPasses
    BY <1>16, OutsideKeeps DEF CheckoutMoves, DayPasses, StampHonest
  <1>17. CASE Restore
    BY <1>17, RestoreKeeps DEF Restore, StampHonest
  <1>18. CASE UNCHANGED sweepVars
    <2> USE <1>18 DEF sweepVars
    <2>1. SweepTypeOK' /\ SweepIsAhead' /\ PageInPhase'
      BY DEF SweepIInv, SweepTypeOK, There, SweepIsAhead, PageInPhase, Failed, Unread
    <2>2. RowsEvident' /\ SavedSweepIsAhead'
      BY RowsStay, SavedStays
    <2>3. DecayInOrder'
      BY DecaysStay DEF DecayStands, In
    <2> QED
      BY <2>1, <2>2, <2>3 DEF SweepIInv, StampHonest
  <1> QED
    BY <1>1, <1>2, <1>3, <1>4, <1>5, <1>6, <1>7, <1>8, <1>9, <1>10, <1>11, <1>12, <1>13, <1>14, <1>15, <1>16,
       <1>17, <1>18 DEF SweepNext

(* The invariant of maintenance, whatever is written, fails or is killed    *)
(* between its steps.                                                       *)
THEOREM SweepInvariance == SweepSpec => []SweepIInv
  <1>1. SweepIInv /\ [SweepNext]_sweepVars => SweepIInv'
    BY SweepSteps
  <1> QED
    BY <1>1, SweepInitKeeps, PTL DEF SweepSpec

(* A verification never overwrites newer claims, its verdicts stand on      *)
(* evidence while the claims they were given on do, and decay reaches every *)
(* row in turn.                                                             *)
THEOREM EvidenceIsKept == SweepSpec => []EvidenceKept
  <1>1. SweepIInv => VerdictsStand
    BY DEF SweepIInv, RowsEvident, Evident, VerdictsStand
  <1>2. SweepIInv => DecayEven
    <2> SUFFICES ASSUME SweepIInv, NEW p \in DOMAIN decays, NEW q \in DOMAIN decays
                 PROVE  decays[p] <= decays[q] + 1
      BY DEF DecayEven
    <2>1. PICK n \in Nat : decays[p] \in {n, n + 1} /\ decays[q] \in {n, n + 1}
      BY DEF SweepIInv, DecayInOrder
    <2> QED
      BY <2>1
  <1> QED
    BY <1>1, <1>2, SweepInvariance, PTL DEF EvidenceKept

(* The time of the last successful maintenance moves only when the sweep    *)
(* has checked every row it had to, over however many calls.                *)
THEOREM StampsAreHonest == SweepSpec => [][StampHonest]_sweepVars
  <1>1. SweepIInv /\ [SweepNext]_sweepVars => [StampHonest]_sweepVars
    BY SweepSteps
  <1> QED
    BY <1>1, SweepInvariance, PTL DEF SweepSpec
=============================================================================
