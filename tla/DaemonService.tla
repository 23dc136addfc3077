--------------------------- MODULE DaemonService ---------------------------
(***************************************************************************)
(* The life of the loopback daemon and of a call to it: the claim on the   *)
(* discovery record (daemon/_instance.py), serving, the drain and the      *)
(* shutdown (_serve.py, _drain.py), and the client that attaches, starts,  *)
(* replaces, calls and retries (client.py, _upgrade.py, _spawn.py).        *)
(*                                                                         *)
(* A process is its pid and its OS start; a pid is used again by a later   *)
(* process.  A record or a drain key on disk is the process that wrote it. *)
(* Every client makes one call.  Time is not modelled: a deadline may pass *)
(* at any moment it is waited for.                                         *)
(***************************************************************************)
EXTENDS Naturals

CONSTANTS
    Proc,        \* the processes that can be started as daemons
    Client,      \* clients, one call each
    Major,       \* client -> the major version of its installation
    Replayable,  \* the clients whose tool is in _REPLAYABLE_TOOLS
    Lists,       \* the clients whose call is followed by a tools/list
    Pinned       \* the clients that may have been checked against one daemon

NoProc == << >>

Invalid == <<"invalid">>

ASSUME DaemonServiceAssumption ==
    /\ Proc \subseteq Nat \X Nat
    /\ {NoProc, Invalid} \cap Proc = {}
    /\ Major \in [Client -> Nat]
    /\ Replayable \subseteq Client
    /\ Lists \subseteq Client
    /\ Pinned \subseteq Client

Pid(d) == d[1]

OSStart(d) == d[2]

VARIABLES
    daemon,  \* process -> its phase, version, exit request, door and calls
    disc,    \* daemon.json: NoProc, Invalid or the process it names
    key,     \* drain.key: NoProc or the process whose key it holds
    lock,    \* daemon.lock: NoProc or the process that claims under it
    client   \* client -> where its call is, and what the call remembers

vars == <<daemon, disc, key, lock, client>>

NewDaemon == [pc |-> "none", version |-> 0, exit |-> "no", draining |-> FALSE, inFlight |-> {}]

Gone == [NewDaemon EXCEPT !.pc = "gone"]

NewClient == [pc |-> "idle", attempt |-> 1, info |-> NoProc, instance |-> NoProc,
              tried |-> FALSE, adminKey |-> NoProc, spawned |-> NoProc, applied |-> 0]

Init ==
    /\ daemon = [d \in Proc |-> NewDaemon]
    /\ disc = NoProc
    /\ key = NoProc
    /\ lock = NoProc
    /\ client = [c \in Client |-> NewClient]

Alive(d) == daemon[d].pc \notin {"none", "gone"}

(* The socket is bound and listens from the claim until uvicorn shuts down. *)
Listening(d) == daemon[d].pc \in {"claimed", "serving"}

(* is_process_live: the pid runs, and what runs there started when d did. *)
IsLive(d) == \E e \in Proc : Alive(e) /\ Pid(e) = Pid(d) /\ OSStart(e) = OSStart(d)

(* read_live_discovery: a record of a dead process reads as none. *)
LiveRecord == IF disc \in Proc /\ ~IsLive(disc) THEN NoProc ELSE disc

-----------------------------------------------------------------------------
(* The daemon.                                                              *)

ClaimRefusedNever == FALSE  \* mutant: an untrusted record reads as no record

(***************************************************************************)
(* claim_single_instance, steps 1 to 3, under the lock: an untrusted       *)
(* record and another live pid's refuse it, a dead one's is reaped.        *)
(***************************************************************************)
ClaimRefused == disc = Invalid

ClaimBlocked(d) ==
    \/ ClaimRefused
    \/ disc \in Proc /\ Pid(disc) # Pid(d) /\ IsLive(disc)

Claim(d) ==
    /\ daemon[d].pc = "starting"
    /\ lock = NoProc
    /\ IF ClaimBlocked(d)
       THEN /\ daemon' = [daemon EXCEPT ![d] = Gone]
            /\ UNCHANGED <<disc, lock>>
       ELSE /\ daemon' = [daemon EXCEPT ![d].pc = "checked"]
            /\ disc' = IF disc \in Proc /\ Pid(disc) # Pid(d) THEN NoProc ELSE disc
            /\ lock' = d
    /\ UNCHANGED <<key, client>>

(* Steps 4 and 5: bind, write the drain key, then the record, unlock. *)
Publish(d) ==
    /\ daemon[d].pc = "checked"
    /\ daemon' = [daemon EXCEPT ![d].pc = "claimed"]
    /\ key' = d
    /\ disc' = d
    /\ lock' = NoProc
    /\ UNCHANGED client

BindFails(d) ==
    /\ daemon[d].pc = "checked"
    /\ daemon' = [daemon EXCEPT ![d] = Gone]
    /\ lock' = NoProc
    /\ UNCHANGED <<key, disc, client>>

(* serve_loopback's body: a start that fails, or was signalled, skips serve. *)
Serve(d) ==
    /\ daemon[d].pc = "claimed"
    /\ daemon' = [daemon EXCEPT ![d].pc = IF daemon[d].exit = "no" THEN "serving" ELSE "closing"]
    /\ UNCHANGED <<disc, key, lock, client>>

ServeFails(d) ==
    /\ daemon[d].pc = "claimed"
    /\ daemon' = [daemon EXCEPT ![d].pc = "closing"]
    /\ UNCHANGED <<disc, key, lock, client>>

(* Mutant: the watchdog leaves a draining daemon to its drain. *)
IdleExitUndrained(d) ==
    /\ daemon[d].pc = "serving"
    /\ daemon[d].inFlight = {} /\ ~daemon[d].draining
    /\ daemon[d].exit = "no"
    /\ daemon' = [daemon EXCEPT ![d].exit = "asked"]
    /\ UNCHANGED <<disc, key, lock, client>>

(* _watch_idle: refused requests are not counted, so a shut door is idle. *)
IdleExit(d) ==
    /\ daemon[d].pc = "serving"
    /\ daemon[d].inFlight = {}
    /\ daemon[d].exit = "no"
    /\ daemon' = [daemon EXCEPT ![d].exit = "asked"]
    /\ UNCHANGED <<disc, key, lock, client>>

(***************************************************************************)
(* SIGTERM: before its handlers are installed the process dies; then it is *)
(* recorded, and the serving loop ends.                                    *)
(***************************************************************************)
Signalled(D, d) ==
    CASE D[d].pc \in {"checked", "claimed", "serving"} /\ D[d].exit = "no" ->
             {[D EXCEPT ![d].exit = "asked"]}
      [] D[d].pc = "starting" ->
             {[D EXCEPT ![d].exit = "asked"], [D EXCEPT ![d] = Gone]}
      [] OTHER -> {D}

(* uvicorn stops listening, and waits for the calls in flight. *)
Shutdown(d) ==
    /\ daemon[d].pc = "serving"
    /\ daemon[d].exit # "no"
    /\ daemon' = [daemon EXCEPT ![d].pc = "closing"]
    /\ UNCHANGED <<disc, key, lock, client>>

(* The finally of serve_loopback up to the release of the store lock. *)
Finish(d) ==
    /\ daemon[d].pc = "closing"
    /\ daemon[d].inFlight = {}
    /\ daemon' = [daemon EXCEPT ![d] = [Gone EXCEPT !.pc = "released", !.version = daemon[d].version]]
    /\ key' = IF key = d THEN NoProc ELSE key
    /\ UNCHANGED <<disc, lock, client>>

(* release_single_instance: only the record this claim wrote is removed. *)
Release(d) ==
    /\ daemon[d].pc = "released"
    /\ lock = NoProc
    /\ daemon' = [daemon EXCEPT ![d] = Gone]
    /\ disc' = IF disc = d THEN NoProc ELSE disc
    /\ UNCHANGED <<key, lock, client>>

(* The process dies: its sockets close, its claim lock is free. *)
Crash(d) ==
    /\ Alive(d)
    /\ daemon' = [daemon EXCEPT ![d] = Gone]
    /\ lock' = IF lock = d THEN NoProc ELSE lock
    /\ UNCHANGED <<disc, key, client>>

(* The record becomes unreadable, or another build's. *)
Damage ==
    /\ disc \in Proc
    /\ disc' = Invalid
    /\ UNCHANGED <<daemon, key, lock, client>>

(* The user follows the errors' remedy: no daemon serves, remove the record. *)
UserRemoves ==
    /\ disc # NoProc
    /\ \A d \in Proc : ~Listening(d)
    /\ disc' = NoProc
    /\ UNCHANGED <<daemon, key, lock, client>>

-----------------------------------------------------------------------------
(* The client: attach.                                                      *)

Ended(r, how) == [NewClient EXCEPT !.pc = how, !.applied = r.applied]

Fail(c) == client' = [client EXCEPT ![c] = Ended(@, "failed")]

(* call_tool; a pinned caller checked the daemon that was recorded then. *)
CallTool(c) ==
    /\ client[c].pc = "idle"
    /\ \E p \in {NoProc} \cup (IF c \in Pinned THEN {disc} \cap Proc ELSE {}) :
           client' = [client EXCEPT ![c] = [@ EXCEPT !.pc = "attach", !.instance = p]]
    /\ UNCHANGED <<daemon, disc, key, lock>>

(* _compatible and the instance check decide what a live record is good for. *)
Attached(c, d) ==
    IF /\ daemon[d].version = Major[c]
       /\ client[c].instance \in {NoProc, d}
    THEN client' = [client EXCEPT ![c] = [@ EXCEPT !.pc = "call", !.info = d, !.spawned = NoProc,
                                                   !.tried = FALSE, !.adminKey = NoProc]]
    ELSE Fail(c)

(* restart_blocker: replace only an older major's, and not when pinned. *)
MayReplace(c, d) ==
    /\ daemon[d].version < Major[c]
    /\ client[c].instance = NoProc
    /\ ~client[c].tried

Attach(c) ==
    /\ client[c].pc = "attach"
    /\ LiveRecord # NoProc
    /\ IF LiveRecord = Invalid THEN Fail(c)
       ELSE IF MayReplace(c, LiveRecord)
       THEN client' = [client EXCEPT ![c] = [@ EXCEPT !.pc = "replace", !.info = LiveRecord]]
       ELSE Attached(c, LiveRecord)
    /\ UNCHANGED <<daemon, disc, key, lock>>

(* start_daemon_detached, of this client's installation. *)
Spawn(c) ==
    /\ client[c].pc = "attach"
    /\ LiveRecord = NoProc
    /\ \E d \in Proc :
        /\ daemon[d].pc = "none"
        /\ \A e \in Proc : Pid(e) = Pid(d) /\ OSStart(e) < OSStart(d) => daemon[e].pc = "gone"
        /\ daemon' = [daemon EXCEPT ![d] = [@ EXCEPT !.pc = "starting", !.version = Major[c]]]
        /\ client' = [client EXCEPT ![c] = [@ EXCEPT !.pc = "awaiting", !.spawned = d]]
    /\ UNCHANGED <<disc, key, lock>>

(* The launcher fails; the only outcome once every process has run. *)
SpawnFails(c) ==
    /\ client[c].pc = "attach"
    /\ LiveRecord = NoProc
    /\ Fail(c)
    /\ UNCHANGED <<daemon, disc, key, lock>>

Poll(c) ==
    /\ client[c].pc = "awaiting"
    /\ LiveRecord # NoProc
    /\ IF LiveRecord = Invalid THEN Fail(c) ELSE Attached(c, LiveRecord)
    /\ UNCHANGED <<daemon, disc, key, lock>>

(***************************************************************************)
(* The startup deadline passes after the last poll, and the daemon this    *)
(* client started is stopped: SIGTERM, and SIGKILL (Crash) after a grace.  *)
(***************************************************************************)
StopUnpublished(c) ==
    /\ client[c].pc = "awaiting"
    /\ daemon' \in Signalled(daemon, client[c].spawned)
    /\ Fail(c)
    /\ UNCHANGED <<disc, key, lock>>

-----------------------------------------------------------------------------
(* The drain: the client's side and the daemon's.                           *)

(* _drain's checks: the process is proven, its key can be read. *)
ReadDrainKey(c) ==
    /\ client[c].pc = "replace"
    /\ IF IsLive(client[c].info) /\ key # NoProc
       THEN client' = [client EXCEPT ![c] = [@ EXCEPT !.pc = "asking", !.adminKey = key]]
       ELSE Fail(c)
    /\ UNCHANGED <<daemon, disc, key, lock>>

(* No answer to the drain: only the record tells whether it took effect. *)
Unanswered(c) == client' = [client EXCEPT ![c] = [@ EXCEPT !.pc = "withdrawing", !.adminKey = NoProc]]

(* Refused at the port or at the door of a daemon that already drains. *)
DrainUnheard(c) ==
    LET d == client[c].info IN
    /\ client[c].pc = "asking"
    /\ \/ ~Listening(d)
       \/ daemon[d].pc = "serving" /\ daemon[d].draining
    /\ Unanswered(c)
    /\ UNCHANGED <<daemon, disc, key, lock>>

(* drain: a wrong key changes nothing; else the door shuts. *)
Drain(c) ==
    LET d == client[c].info IN
    /\ client[c].pc = "asking"
    /\ daemon[d].pc = "serving" /\ ~daemon[d].draining
    /\ IF client[c].adminKey = d
       THEN /\ daemon' = [daemon EXCEPT ![d] = [@ EXCEPT !.draining = TRUE,
                                                      !.inFlight = daemon[d].inFlight \cup {c}]]
            /\ client' = [client EXCEPT ![c].pc = "draining"]
       ELSE Fail(c) /\ UNCHANGED daemon
    /\ UNCHANGED <<disc, key, lock>>

(* No call but the drain's own is in flight: exit. *)
Drained(c) ==
    LET d == client[c].info IN
    /\ client[c].pc = "draining"
    /\ daemon[d].inFlight = {c}
    /\ daemon' = [daemon EXCEPT ![d] = [@ EXCEPT !.inFlight = {}, !.exit = "drain"]]
    /\ key' = IF key = d THEN NoProc ELSE key
    /\ Unanswered(c)
    /\ UNCHANGED <<disc, lock>>

(* The deadline passes with others in flight: the daemon serves on. *)
DrainBusy(c) ==
    LET d == client[c].info IN
    /\ client[c].pc = "draining"
    /\ c \in daemon[d].inFlight /\ daemon[d].inFlight # {c}
    /\ daemon' = [daemon EXCEPT ![d] = [@ EXCEPT !.draining = FALSE,
                                                  !.inFlight = daemon[d].inFlight \ {c}]]
    /\ Fail(c)
    /\ UNCHANGED <<disc, key, lock>>

(* The drain's request is cancelled, which leaves the door shut. *)
DrainCancelled(c) ==
    LET d == client[c].info IN
    /\ client[c].pc = "draining"
    /\ c \in daemon[d].inFlight
    /\ daemon' = [daemon EXCEPT ![d].inFlight = @ \ {c}]
    /\ Unanswered(c)
    /\ UNCHANGED <<disc, key, lock>>

DrainLost(c) ==
    /\ client[c].pc = "draining"
    /\ c \notin daemon[client[c].info].inFlight
    /\ Unanswered(c)
    /\ UNCHANGED <<daemon, disc, key, lock>>

(* await_withdrawal, then _attach reads the record once more. *)
Withdrawn(c) ==
    /\ client[c].pc = "withdrawing"
    /\ LiveRecord # client[c].info
    /\ client' = [client EXCEPT ![c] = [@ EXCEPT !.pc = "attach", !.tried = TRUE, !.info = NoProc]]
    /\ UNCHANGED <<daemon, disc, key, lock>>

NotWithdrawn(c) ==
    /\ client[c].pc = "withdrawing"
    /\ Fail(c)
    /\ UNCHANGED <<daemon, disc, key, lock>>

-----------------------------------------------------------------------------
(* The client: the call.                                                    *)

(***************************************************************************)
(* call_tool's handling of a transport failure.  The wait for the refusing *)
(* record to be withdrawn ends in the second attempt either way.           *)
(***************************************************************************)
Retried(c) ==
    IF client[c].attempt = 1
    THEN client' = [client EXCEPT ![c] = [Ended(@, "attach") EXCEPT !.attempt = 2,
                                                            !.instance = client[c].instance]]
    ELSE Fail(c)

(* Mutant: a tool outside the replay list is retried like the others. *)
RetriedAll(c) == Retried(c)

(* The response is lost: only a replayable tool is tried again. *)
RetriedIfReplayable(c) == IF c \in Replayable THEN Retried(c) ELSE Fail(c)

Connect(c) ==
    /\ client[c].pc = "call"
    /\ Listening(client[c].info)
    /\ client' = [client EXCEPT ![c].pc = "posted"]
    /\ UNCHANGED <<daemon, disc, key, lock>>

(* never_sent: the connection was refused, or the door answered 503. *)
NeverSent(c) ==
    LET d == client[c].info IN
    /\ \/ client[c].pc = "call" /\ ~Listening(d)
       \/ client[c].pc = "posted" /\ daemon[d].pc = "serving" /\ daemon[d].draining
    /\ Retried(c)
    /\ UNCHANGED <<daemon, disc, key, lock>>

(* _IdleTracker counts the request in. *)
Admit(c) ==
    LET d == client[c].info IN
    /\ client[c].pc = "posted"
    /\ daemon[d].pc = "serving" /\ ~daemon[d].draining
    /\ daemon' = [daemon EXCEPT ![d].inFlight = @ \cup {c}]
    /\ client' = [client EXCEPT ![c].pc = "sent"]
    /\ UNCHANGED <<disc, key, lock>>

Apply(c) ==
    /\ client[c].pc = "sent"
    /\ c \in daemon[client[c].info].inFlight
    /\ client' = [client EXCEPT ![c] = [@ EXCEPT !.pc = "applied", !.applied = client[c].applied + 1]]
    /\ UNCHANGED <<daemon, disc, key, lock>>

(* The answer: a refusal, or a result the session looks up a schema for. *)
Answer(c) ==
    LET d == client[c].info IN
    /\ client[c].pc \in {"sent", "applied"}
    /\ c \in daemon[d].inFlight
    /\ daemon' = [daemon EXCEPT ![d].inFlight = @ \ {c}]
    /\ client' = [client EXCEPT ![c] = IF @.pc = "applied" /\ c \in Lists
                                       THEN [@ EXCEPT !.pc = "listing"] ELSE Ended(@, "done")]
    /\ UNCHANGED <<disc, key, lock>>

(* The connection breaks before the answer. *)
Lost(c) ==
    LET d == client[c].info IN
    /\ \/ client[c].pc = "posted" /\ ~Listening(d)
       \/ client[c].pc \in {"sent", "applied"} /\ c \notin daemon[d].inFlight
    /\ RetriedIfReplayable(c)
    /\ UNCHANGED <<daemon, disc, key, lock>>

(***************************************************************************)
(* tools/list, after a successful call.  Answered; refused at the door or  *)
(* broken, which counts as sent; or refused at the port, which does not.   *)
(***************************************************************************)
ListTools(c) ==
    LET d == client[c].info IN
    /\ client[c].pc = "listing"
    /\ \/ daemon[d].pc = "serving" /\ ~daemon[d].draining
          /\ client' = [client EXCEPT ![c] = Ended(@, "done")]
       \/ (daemon[d].draining \/ ~Listening(d)) /\ RetriedIfReplayable(c)
       \/ ~Listening(d) /\ Retried(c)
    /\ UNCHANGED <<daemon, disc, key, lock>>

-----------------------------------------------------------------------------
DaemonStep(d) ==
    \/ Claim(d) \/ Publish(d) \/ BindFails(d)
    \/ Serve(d) \/ ServeFails(d)
    \/ IdleExit(d) \/ Shutdown(d) \/ Finish(d) \/ Release(d)

ClientStep(c) ==
    \/ Attach(c) \/ Spawn(c) \/ SpawnFails(c) \/ Poll(c) \/ StopUnpublished(c)
    \/ ReadDrainKey(c) \/ DrainUnheard(c) \/ Drain(c) \/ Drained(c) \/ DrainBusy(c)
    \/ DrainCancelled(c) \/ DrainLost(c) \/ Withdrawn(c) \/ NotWithdrawn(c)
    \/ Connect(c) \/ NeverSent(c) \/ Admit(c) \/ Apply(c) \/ Answer(c) \/ Lost(c)
    \/ ListTools(c)

Next ==
    \/ \E d \in Proc : DaemonStep(d) \/ Crash(d)
    \/ \E c \in Client : CallTool(c) \/ ClientStep(c)
    \/ Damage \/ UserRemoves

(***************************************************************************)
(* Every process and every client keeps running (each wait of theirs has a *)
(* deadline, and the watchdog polls); nobody need call, crash, damage or   *)
(* repair.                                                                 *)
(***************************************************************************)
Fairness ==
    /\ \A d \in Proc : WF_vars(DaemonStep(d))
    /\ \A c \in Client : WF_vars(ClientStep(c))

Spec == Init /\ [][Next]_vars

FairSpec == Spec /\ Fairness

-----------------------------------------------------------------------------
(***************************************************************************)
(* Two daemons never accept calls at once: whatever starts, crashes, drains *)
(* or loses its record, the claim of _instance.py lets one through.        *)
(***************************************************************************)
OneAccepting == \A d, e \in Proc : Listening(d) /\ Listening(e) => d = e

(***************************************************************************)
(* A daemon that accepts calls can be found: its record is there, or is    *)
(* damaged, but no slow exit of a predecessor removed it                   *)
(* (release_single_instance).                                              *)
(***************************************************************************)
RecordKept == \A d \in Proc : Listening(d) => disc \in {d, Invalid}

(***************************************************************************)
(* Both: one daemon accepts calls for the root, and clients find that one. *)
(***************************************************************************)
OneFindable == OneAccepting /\ RecordKept

(***************************************************************************)
(* A drain never costs another session its call: once the daemon exits for *)
(* a drain no call is in flight, and none gets in (_drain.py, "a restart   *)
(* is never worth another session's write").                               *)
(***************************************************************************)
DrainFinishesCalls == \A d \in Proc : daemon[d].exit = "drain" => daemon[d].inFlight = {}

(***************************************************************************)
(* A call is applied at most once, across the retry, drains, restarts and  *)
(* lost answers (call_tool), and at most once in each of its two attempts  *)
(* if its tool may be replayed, or if tools/list follows it: a port that   *)
(* refuses the list counts as a call that was not sent.                    *)
(***************************************************************************)
AppliedOnce ==
    \A c \in Client : client[c].applied <= IF c \in Replayable \cup Lists THEN 2 ELSE 1

(***************************************************************************)
(* Both: a call is neither cut off by a drain nor applied twice.           *)
(***************************************************************************)
CallsKept == DrainFinishesCalls /\ AppliedOnce

-----------------------------------------------------------------------------
(* The inductive invariant: of the processes that had one pid all but the   *)
(* last are gone, the claim lock is held from the check to the record and   *)
(* by a process that met no listening one; a call in flight is the call of  *)
(* a client that waits for it, one drain at a time has the door shut, and a *)
(* daemon that exits for a drain keeps it shut.                             *)

DaemonPhase == {"none", "starting", "checked", "claimed", "serving", "closing", "released", "gone"}

(* Phases of a client that talks to the daemon of its info. *)
Talking == {"replace", "asking", "draining", "withdrawing", "call", "posted", "sent", "applied", "listing"}

ClientPhase == Talking \cup {"idle", "attach", "awaiting", "done", "failed"}

MaybeProc == Proc \cup {NoProc}

DaemonState == [pc : DaemonPhase, version : Nat, exit : {"no", "asked", "drain"},
                draining : BOOLEAN, inFlight : SUBSET Client]

ClientState == [pc : ClientPhase, attempt : {1, 2}, info : MaybeProc, instance : MaybeProc,
                tried : BOOLEAN, adminKey : MaybeProc, spawned : MaybeProc, applied : Nat]

TypeOK ==
    /\ daemon \in [Proc -> DaemonState] /\ client \in [Client -> ClientState]
    /\ disc \in MaybeProc \cup {Invalid} /\ key \in MaybeProc /\ lock \in MaybeProc

PartnerKnown ==
    \A c \in Client : /\ client[c].pc \in Talking => client[c].info \in Proc
                      /\ client[c].pc = "awaiting" => client[c].spawned \in Proc

PidsReused ==
    \A d, e \in Proc : Pid(d) = Pid(e) /\ OSStart(d) < OSStart(e) /\ daemon[e].pc # "none"
                          => daemon[d].pc = "gone"

ClaimIsLocked == \A d \in Proc : daemon[d].pc = "checked" <=> lock = d

ClaimIsAlone == \A d, e \in Proc : daemon[d].pc = "checked" => ~Listening(e)

InFlightIsWaited ==
    \A d \in Proc : \A c \in daemon[d].inFlight :
        client[c].info = d /\ client[c].pc \in {"draining", "sent", "applied"}

(* The clients whose drain the daemon is at. *)
Drains(d) == {c \in daemon[d].inFlight : client[c].pc = "draining"}

DrainShutsDoor ==
    \A d \in Proc : /\ Drains(d) # {} => daemon[d].draining
                    /\ \A c, e \in Drains(d) : c = e

DrainExitIsShut ==
    \A d \in Proc : daemon[d].exit = "drain" => daemon[d].draining /\ daemon[d].inFlight = {}

(* A call that may yet be applied was not, in this attempt. *)
AppliedInAttempt ==
    \A c \in Client :
        /\ client[c].pc \notin {"applied", "listing", "done", "failed"} => client[c].applied < client[c].attempt
        /\ client[c].pc \in {"applied", "listing"} => client[c].applied <= client[c].attempt
        /\ client[c].pc = "listing" => c \in Lists
        /\ client[c].applied = 1 /\ client[c].pc \notin {"applied", "listing", "done", "failed"}
               => c \in Replayable \cup Lists

IInv ==
    /\ TypeOK /\ PartnerKnown
    /\ PidsReused /\ ClaimIsLocked /\ ClaimIsAlone /\ OneFindable
    /\ InFlightIsWaited /\ DrainShutsDoor /\ DrainExitIsShut
    /\ AppliedInAttempt /\ AppliedOnce

-----------------------------------------------------------------------------
(***************************************************************************)
(* Again and again there is no live daemon behind a shut door: a drain     *)
(* opens the door again or the daemon exits, and when the drain was        *)
(* cancelled the idle watchdog sees to it (_drain.py, _watch_idle).        *)
(***************************************************************************)
DoorSettles == []<>(\A d \in Proc : ~(daemon[d].draining /\ Alive(d)))
=============================================================================
