------------------------------- MODULE Review -------------------------------
(***************************************************************************)
(* The quarantine of one entry id (security/_runtime_quarantine.py): the   *)
(* quarantine store, the review log, the append-only ledger by which every *)
(* read of an active store is filtered (security/quarantine_ledger.py),    *)
(* and the active row under the same id.  Holds, reviews and forgets of    *)
(* several processes take the lock of the quarantine store; writers of the *)
(* active store do not.  Each step is one commit of its own, and a process *)
(* may be killed between two.                                              *)
(***************************************************************************)
EXTENDS Integers, Sequences, FiniteSets

CONSTANTS
    Call,           \* the calls made
    Role,           \* Call -> "hold", "approve", "reject", "forget", "write", "remove"
    TextOf,         \* Call -> the text a hold or a write is of
    Tainted,        \* the texts that the recheck of an approval refuses
    MAX_KILLS

Texts == {TextOf[c] : c \in Call}

NoEntry == [text |-> "none", by |-> "none"]

ASSUME ReviewAssumption ==
    /\ "free" \notin Call /\ DOMAIN TextOf = Call
    /\ Role \in [Call -> {"hold", "approve", "reject", "forget", "write", "remove"}]

VARIABLES
    held,           \* the row of the quarantine store: its text, by "hold" or "reject"
    reviews,        \* the decisions logged for the id
    ledger,         \* sequence of [text, decision]
    active,         \* the active row: its text, and who wrote it
    at,             \* Call -> where it is
    found,          \* Call -> the held row it read
    locked,         \* the call that has the quarantine lock, or "free"
    verdict,        \* text -> what was decided last of it
    kills

reviewVars == <<held, reviews, ledger, active, at, found, locked, verdict, kills>>

Blocking == {"quarantined", "rejected"}

Terminal == {"active", "obsolete_poisoned"}

(* LedgerView.blocks: by the latest row of the id or of the text; all rows  *)
(* here are of one id.                                                      *)
Latest(i, rows) == i \in rows /\ \A k \in rows : k <= i

Blocks(text) ==
    \E i \in DOMAIN ledger :
        /\ ledger[i].decision \in Blocking
        /\ Latest(i, DOMAIN ledger) \/ Latest(i, {k \in DOMAIN ledger : ledger[k].text = text})

(* A read of the active store by the id. *)
Get == IF active # NoEntry /\ Blocks(active.text) THEN NoEntry ELSE active

StartsAs(c, role) == Role[c] = role /\ at[c] = "start"

To(c, step) == at' = [at EXCEPT ![c] = step]

Ends(c) == To(c, "done") /\ locked' = "free"

Log(decision) == reviews' = Append(reviews, decision)

Enter(text, decision) == ledger' = Append(ledger, [text |-> text, decision |-> decision])

-----------------------------------------------------------------------------
(* store_quarantined_entry *)
HoldStore(c) ==
    /\ StartsAs(c, "hold") /\ locked = "free"
    /\ held' = [text |-> TextOf[c], by |-> "hold"] /\ To(c, "log") /\ locked' = c
    /\ UNCHANGED <<reviews, ledger, active, found, verdict, kills>>

HoldLog(c) ==
    /\ Role[c] = "hold" /\ at[c] = "log"
    /\ Log("quarantined") /\ To(c, "ledger")
    /\ UNCHANGED <<held, ledger, active, found, locked, verdict, kills>>

HoldLedger(c) ==
    /\ Role[c] = "hold" /\ at[c] = "ledger"
    /\ Enter(TextOf[c], "quarantined") /\ Ends(c)
    /\ verdict' = [verdict EXCEPT ![TextOf[c]] = "held"]
    /\ UNCHANGED <<held, reviews, active, found, kills>>

-----------------------------------------------------------------------------
(* review_quarantined_entry *)

Resolved == \E i \in DOMAIN reviews : reviews[i] \in Terminal

ReviewRead(c) ==
    /\ Role[c] \in {"approve", "reject"} /\ at[c] = "start" /\ locked = "free"
    /\ found' = [found EXCEPT ![c] = held]
    /\ IF Resolved \/ held = NoEntry THEN Ends(c)
       ELSE To(c, IF Role[c] = "approve" THEN "recheck" ELSE "mark") /\ locked' = c
    /\ UNCHANGED <<held, reviews, ledger, active, verdict, kills>>

ApproveBlocked(c) ==
    /\ at[c] = "recheck" /\ found[c].text \in Tainted
    /\ Log("approve_blocked") /\ Ends(c)
    /\ UNCHANGED <<held, ledger, active, found, verdict, kills>>

(* Mutant: by `get`, which hides what the ledger blocks. *)
HoldsIdVisible == Get # NoEntry

HoldsId == active # NoEntry

(* One transaction: nothing is stored over a row of the id. *)
ApproveStore(c) ==
    /\ at[c] = "recheck" /\ found[c].text \notin Tainted /\ ~HoldsId
    /\ active' = [text |-> found[c].text, by |-> "review"] /\ To(c, "delete")
    /\ verdict' = [verdict EXCEPT ![found[c].text] = "approved"]
    /\ UNCHANGED <<held, reviews, ledger, found, locked, kills>>

ApproveConflict(c) ==
    /\ at[c] = "recheck" /\ found[c].text \notin Tainted /\ HoldsId
    /\ Log("approve_conflict") /\ Ends(c)
    /\ UNCHANGED <<held, ledger, active, found, verdict, kills>>

ApproveDelete(c) ==
    /\ at[c] = "delete"
    /\ held' = NoEntry /\ To(c, "activate")
    /\ UNCHANGED <<reviews, ledger, active, found, locked, verdict, kills>>

RejectStore(c) ==
    /\ at[c] = "mark"
    /\ held' = [text |-> found[c].text, by |-> "reject"] /\ To(c, "poison")
    /\ UNCHANGED <<reviews, ledger, active, found, locked, verdict, kills>>

ReviewLog(c) ==
    /\ at[c] \in {"activate", "poison"}
    /\ Log(IF at[c] = "activate" THEN "active" ELSE "obsolete_poisoned")
    /\ To(c, "close")
    /\ UNCHANGED <<held, ledger, active, found, locked, verdict, kills>>

ReviewLedger(c) ==
    /\ at[c] = "close"
    /\ Enter(found[c].text, IF Role[c] = "approve" THEN "approved" ELSE "rejected") /\ Ends(c)
    /\ verdict' = IF Role[c] = "reject" THEN [verdict EXCEPT ![found[c].text] = "rejected"] ELSE verdict
    /\ UNCHANGED <<held, reviews, active, found, kills>>

-----------------------------------------------------------------------------
(* delete_quarantined_entries by id: also what a reviewer rejected, which   *)
(* keeps its mark.                                                          *)
ForgetHeld(c) ==
    /\ StartsAs(c, "forget") /\ locked = "free"
    /\ held' = NoEntry /\ To(c, "done")
    /\ UNCHANGED <<reviews, ledger, active, found, locked, verdict, kills>>

(* A store of the id, and a forget of the active row as it is read. *)
WriteActive(c) ==
    /\ StartsAs(c, "write")
    /\ active' = [text |-> TextOf[c], by |-> "write"] /\ To(c, "done")
    /\ UNCHANGED <<held, reviews, ledger, found, locked, verdict, kills>>

RemoveActive(c) ==
    /\ StartsAs(c, "remove") /\ Get # NoEntry
    /\ active' = NoEntry /\ To(c, "done")
    /\ UNCHANGED <<held, reviews, ledger, found, locked, verdict, kills>>

(* The process of a call dies; its lock goes with it. *)
Killed(c) ==
    /\ at[c] \notin {"start", "done"} /\ kills < MAX_KILLS
    /\ To(c, "done") /\ kills' = kills + 1
    /\ locked' = IF locked = c THEN "free" ELSE locked
    /\ UNCHANGED <<held, reviews, ledger, active, found, verdict>>

-----------------------------------------------------------------------------
ReviewInit ==
    /\ held = NoEntry /\ reviews = <<>> /\ ledger = <<>> /\ active = NoEntry
    /\ at = [c \in Call |-> "start"] /\ found = [c \in Call |-> NoEntry] /\ locked = "free"
    /\ verdict = [t \in Texts |-> "none"] /\ kills = 0

ReviewNext ==
    \E c \in Call :
        \/ HoldStore(c) \/ HoldLog(c) \/ HoldLedger(c)
        \/ ReviewRead(c) \/ ApproveBlocked(c) \/ ApproveStore(c) \/ ApproveConflict(c)
        \/ ApproveDelete(c) \/ RejectStore(c) \/ ReviewLog(c) \/ ReviewLedger(c)
        \/ ForgetHeld(c) \/ WriteActive(c) \/ RemoveActive(c) \/ Killed(c)

ReviewSpec == ReviewInit /\ [][ReviewNext]_reviewVars

-----------------------------------------------------------------------------
(* A text whose hold or rejection finished last is not answered from the    *)
(* active store, and an id is resolved once however reviewers meet          *)
(* (memory_review: "approve or reject it once").                            *)
HeldNotServed ==
    /\ Get # NoEntry => verdict[Get.text] \notin {"held", "rejected"}
    /\ Cardinality({i \in DOMAIN reviews : reviews[i] \in Terminal}) <= 1

(* A held row leaves the quarantine store once it is active or by a forget, *)
(* and no review writes over a row that a writer stored while the other was *)
(* held, whatever is killed when.                                           *)
HeldRowsKept ==
    /\ held # NoEntry /\ held' = NoEntry =>
          verdict[held.text] = "approved" \/ \E c \in Call : Role[c] = "forget" /\ at[c] # at'[c]
    /\ active.by = "write" => active'.by \in {"write", "none"}

(* A held or rejected text is not served, an id is resolved once, and a     *)
(* review neither loses the held row nor writes over one that a writer      *)
(* stored meanwhile, however reviews meet and whatever is killed.           *)
ReviewSound == [][HeldRowsKept /\ HeldNotServed']_reviewVars

-----------------------------------------------------------------------------
(* Why: the inductive invariant.                                            *)

QuarantineRow == {NoEntry} \cup [text : Texts, by : {"hold", "reject", "review", "write"}]

Inside == {"log", "ledger", "recheck", "mark", "delete", "activate", "poison", "close"}

ReviewTypeOK ==
    /\ held \in QuarantineRow /\ active \in QuarantineRow /\ found \in [Call -> QuarantineRow]
    /\ reviews \in Seq(Terminal \cup {"quarantined", "approve_blocked", "approve_conflict"})
    /\ ledger \in Seq([text : Texts, decision : {"quarantined", "approved", "rejected"}])
    /\ at \in [Call -> {"start", "done"} \cup Inside]
    /\ locked \in Call \cup {"free"}
    /\ verdict \in [Texts -> {"none", "held", "approved", "rejected"}]

(* A call between two of its commits has the lock. *)
InsideIsLocked == \A c \in Call : at[c] \in Inside => locked = c

(* What is held is what the review read, until it is deleted; what is       *)
(* approved stays so until the ledger says it.                              *)
ReviewHasHeld ==
    \A c \in Call :
        /\ at[c] \in {"recheck", "mark", "delete"} => found[c] # NoEntry /\ held = found[c]
        /\ at[c] \in {"recheck", "mark", "delete", "activate", "poison", "close"} =>
              found[c] # NoEntry /\ Role[c] \in {"approve", "reject"}
        /\ at[c] \in {"recheck", "delete", "activate"} => Role[c] = "approve"
        /\ at[c] \in {"mark", "poison"} => Role[c] = "reject"
        /\ at[c] \in {"delete", "activate"} \/ (at[c] = "close" /\ Role[c] = "approve") =>
              verdict[found[c].text] = "approved"
        /\ at[c] \in {"log", "ledger"} => Role[c] = "hold"

(* A review that is not logged finds the id unresolved; there is one log.   *)
ResolvedOnce ==
    /\ \A c \in Call : at[c] \in {"recheck", "mark", "delete", "activate", "poison"} => ~Resolved
    /\ \A i, j \in DOMAIN reviews : reviews[i] \in Terminal /\ reviews[j] \in Terminal => i = j

(* The ledger's latest row of a text that is held or rejected blocks it.    *)
LedgerBlocks ==
    \A t \in Texts : verdict[t] \in {"held", "rejected"} =>
        \E i \in DOMAIN ledger :
            ledger[i].decision \in Blocking /\ Latest(i, {k \in DOMAIN ledger : ledger[k].text = t})

ReviewIInv == ReviewTypeOK /\ InsideIsLocked /\ ReviewHasHeld /\ ResolvedOnce /\ LedgerBlocks
=============================================================================
