----------------------------- MODULE MCOpenings -----------------------------
(***************************************************************************)
(* What a client has and what may fail under it, on small instances of     *)
(* three modules: the revisions of a row it publishes (SyncRows), its      *)
(* store, which other processes open, damage and restore (StoreRecovery),  *)
(* and the platform's stream and fetches (RemoteEvents).  The modules      *)
(* share no state: a behaviour runs one while the others rest.             *)
(*                                                                         *)
(* SyncRows has two clients, two publishes and one retry.  StoreRecovery   *)
(* has two processes on a store of one row, which another may join; a      *)
(* third row is in the cold tier.  RemoteEvents has one item of two        *)
(* events, two queries, and a cache of one query.                          *)
(***************************************************************************)
EXTENDS SyncRows, RemoteEvents, StoreRecovery, TLC

VARIABLE part

MCSymmetry == Permutations(Proc) \cup Permutations(Query)

allVars == <<part, vars, recoveryVars, eventVars>>

(* The module that runs begins in its initial states; a store that rests is *)
(* one that was never made.  A rebuild is asked for only under the strict   *)
(* policy.  There is a cold tier, a backup of before, or no room beside     *)
(* backups with old names, but no two of them, and under the other policy   *)
(* none.                                                                    *)
AllInit ==
    /\ part \in {"sync", "store", "remote"}
    /\ Init /\ EventInit /\ RecoveryInit
    /\ part # "store" =>
          policy = [strict |-> FALSE, knob |-> FALSE, cold |-> {}, room |-> KEEP] /\ ~Exists /\ backups = <<>>
    /\ policy.knob => policy.strict
    /\ policy.cold # {} \/ backups # <<>> => policy.strict /\ policy.room = KEEP
    /\ policy.cold = {} \/ backups = <<>>
    /\ policy.room < KEEP => policy.strict /\ ~policy.knob

SyncStep == part = "sync" /\ Next /\ UNCHANGED <<part, recoveryVars, eventVars>>

StoreStep == part = "store" /\ RecoveryNext /\ UNCHANGED <<part, vars, eventVars>>

RemoteStep == part = "remote" /\ EventNext /\ UNCHANGED <<part, vars, recoveryVars>>

AllNext == SyncStep \/ StoreStep \/ RemoteStep

AllSpec == AllInit /\ [][AllNext]_allVars
=============================================================================
