----------------------------- MODULE GraphIndex -----------------------------
(***************************************************************************)
(* The vectors of one namespace that a process keeps in memory for graph   *)
(* enrichment (_graph_namespace_index.py), and the change token and feed   *)
(* that keep them fresh (storage/_change_feed.py).  A refresh reads token, *)
(* feed, proofs and vectors in transactions of their own, while this and   *)
(* other processes write rows and vectors, delete rows or replace the      *)
(* database file.                                                          *)
(*                                                                         *)
(* A vector is the number of its proof; rowids and stamps are numbers; the *)
(* clock is that of the stamps and of the reconcile: no two writes stamp   *)
(* the same instant.                                                       *)
(***************************************************************************)
EXTENDS Naturals, FiniteSets, FiniteSetsExt

CONSTANTS
    Member,            \* ids of rows
    FEED_LIMIT,
    RECONCILE,         \* RECONCILE_SECONDS, in steps of the clock
    MAX_INDEX_ROWS,
    MAX_CLOCK, MAX_VECTOR_WRITES

VARIABLES
    member,       \* id -> [rowid, stamp, active, proof], or Absent
    clock, proofs, epoch, fileId,
    index,        \* [file, token, at, oversize, proof, vector]: what the process keeps
    pass,         \* the refresh in progress
    dirty,        \* ids written since the last finished refresh read its token
    unseen,       \* ids written, since the last reconcile, in ways the token cannot see
    vectorWrites

indexVars == <<member, clock, proofs, epoch, fileId, index, pass, dirty, unseen, vectorWrites>>

Absent == [rowid |-> 0, stamp |-> 0, active |-> FALSE, proof |-> 0]

NoToken == [rowid |-> 0, stamp |-> 0, epoch |-> 0, file |-> 0]

Fresh(file) ==
    [file |-> file, token |-> NoToken, at |-> 0, oversize |-> FALSE,
     proof |-> [m \in Member |-> 0], vector |-> [m \in Member |-> 0]]

NoPass == [at |-> "none"]

Present == {m \in Member : member[m] # Absent}

Highest(field) == Max({0} \cup {member[m][field] : m \in Present})

-----------------------------------------------------------------------------
(* _change_feed.py                                                         *)

ChangeToken ==
    [rowid |-> Highest("rowid"), stamp |-> Highest("stamp"), epoch |-> epoch, file |-> fileId]

(* Rows inserted, or stamped no earlier than the newest, since a token.     *)
ChangedSince(token) ==
    {m \in Present : member[m].rowid > token.rowid \/ member[m].stamp >= token.stamp}

(* The proofs of the active rows' vectors.                                  *)
ReadProofs(ids) == [m \in ids |-> IF member[m].active THEN member[m].proof ELSE 0]

-----------------------------------------------------------------------------
(* namespace_candidates: one refresh.                                      *)

In(step) == pass.at = step

Proceed(step) == pass' = [pass EXCEPT !.at = step]

(* A replaced file starts over; the token is read before any data.          *)
RefreshBegins ==
    /\ In("none") \/ In("ready")
    /\ index' = IF index.file = fileId THEN index ELSE Fresh(fileId)
    /\ pass' = [at |-> "feed", token |-> ChangeToken, ids |-> {}, found |-> [m \in {} |-> 0], full |-> FALSE]
    /\ dirty' = {}
    /\ UNCHANGED <<member, clock, proofs, epoch, fileId, unseen, vectorWrites>>

Recent == index.token # NoToken /\ clock - index.at <= RECONCILE

Followable ==
    /\ Recent
    /\ pass.token.epoch = index.token.epoch
    /\ pass.token.rowid >= index.token.rowid

(* Unchanged, or caught up by the feed, or all of it read again.            *)
ReadFeed ==
    /\ In("feed")
    /\ LET changed == ChangedSince(index.token)
           full == ~Followable \/ Cardinality(changed) > FEED_LIMIT
       IN  IF Recent /\ (pass.token = index.token \/ index.oversize)
           THEN Proceed("ready") /\ UNCHANGED <<index, unseen>>
           ELSE /\ pass' = [pass EXCEPT !.at = IF ~full /\ changed = {} THEN "stamp" ELSE "proofs",
                                        !.ids = IF full THEN Member ELSE changed,
                                        !.full = full]
                /\ index' = [index EXCEPT !.oversize = IF full THEN FALSE ELSE @]
                /\ unseen' = IF full THEN {} ELSE unseen
    /\ UNCHANGED <<member, clock, proofs, epoch, fileId, dirty, vectorWrites>>

(* _sync: a namespace of too many vectors is not kept.                      *)
SyncProofs ==
    LET found == ReadProofs(pass.ids)
        gone == {m \in pass.ids : found[m] = 0}
        kept == [index EXCEPT !.proof = [m \in Member |-> IF m \in gone THEN 0 ELSE @[m]],
                              !.vector = [m \in Member |-> IF m \in gone THEN 0 ELSE @[m]]]
    IN
    /\ In("proofs")
    /\ IF pass.full /\ Cardinality(pass.ids \ gone) > MAX_INDEX_ROWS
       THEN /\ index' = [Fresh(index.file) EXCEPT !.oversize = TRUE, !.token = index.token, !.at = index.at]
            /\ Proceed("stamp")
       ELSE /\ index' = kept
            /\ pass' = [pass EXCEPT !.at = "vectors", !.found = found]
    /\ UNCHANGED <<member, clock, proofs, epoch, fileId, dirty, unseen, vectorWrites>>

(* A vector is read later than its proof; one gone meanwhile is left out.   *)
SyncVectors ==
    LET stale == {m \in pass.ids : pass.found[m] # 0 /\ index.proof[m] # pass.found[m]}
        readable == {m \in stale : member[m].proof # 0}
    IN
    /\ In("vectors") /\ Proceed("stamp")
    /\ index' = [index EXCEPT
          !.proof = [m \in Member |-> IF m \in readable THEN pass.found[m] ELSE IF m \in stale THEN 0 ELSE @[m]],
          !.vector = [m \in Member |-> IF m \in stale THEN member[m].proof ELSE @[m]]]
    /\ UNCHANGED <<member, clock, proofs, epoch, fileId, dirty, unseen, vectorWrites>>

(* Mutant: the token is read after the data.                                *)
TokenAfter == ChangeToken

(* The token that was read before the data it vouches for.                  *)
TokenBefore == pass.token

RefreshEnds ==
    /\ In("stamp") /\ Proceed("ready")
    /\ index' = [index EXCEPT !.token = TokenBefore, !.at = IF pass.full THEN clock ELSE @]
    /\ UNCHANGED <<member, clock, proofs, epoch, fileId, dirty, unseen, vectorWrites>>

-----------------------------------------------------------------------------
(* What others write, at any moment.                                       *)

Wrote(m) == dirty' = dirty \cup {m}

Unseen(m) == unseen' = unseen \cup {m}

Writes == vectorWrites < MAX_VECTOR_WRITES /\ vectorWrites' = vectorWrites + 1

(* store: INSERT OR REPLACE, with the vector in the same transaction.       *)
StoreRow(m, active) ==
    /\ Writes /\ Wrote(m) /\ clock' = clock + 1
    /\ proofs' = proofs + 1
    /\ member' = [member EXCEPT ![m] = [rowid |-> Highest("rowid") + 1, stamp |-> clock', active |-> active,
                                        proof |-> proofs']]
    /\ UNCHANGED <<epoch, fileId, index, pass, unseen>>

(* update: of the status, stamped now, or with an older stamp of the caller's. *)
StampRow(m, now) ==
    /\ Writes /\ Wrote(m) /\ m \in Present /\ clock' = clock + 1
    /\ member' = [member EXCEPT ![m].active = ~@, ![m].stamp = IF now THEN clock' ELSE 1]
    /\ IF now THEN UNCHANGED unseen ELSE Unseen(m)
    /\ UNCHANGED <<proofs, epoch, fileId, index, pass>>

(* A re-embed: a vector without a row write.                                *)
PutVector(m) ==
    /\ Writes /\ Wrote(m) /\ m \in Present /\ Unseen(m)
    /\ proofs' = proofs + 1
    /\ member' = [member EXCEPT ![m].proof = proofs']
    /\ UNCHANGED <<clock, epoch, fileId, index, pass>>

(* A delete is counted by the process that runs it.                         *)
DeleteRow(m, own) ==
    /\ Writes /\ Wrote(m) /\ m \in Present
    /\ member' = [member EXCEPT ![m] = Absent]
    /\ IF own THEN epoch' = epoch + 1 /\ UNCHANGED unseen ELSE Unseen(m) /\ UNCHANGED epoch
    /\ UNCHANGED <<clock, proofs, fileId, index, pass>>

(* The database file is replaced by a copy without its newest row.          *)
ReplaceFile ==
    /\ Writes
    /\ fileId' = fileId + 1
    /\ member' = [m \in Member |-> IF member[m].rowid = Highest("rowid") THEN Absent ELSE member[m]]
    /\ dirty' = Member
    /\ UNCHANGED <<clock, proofs, epoch, index, pass, unseen>>

Tick ==
    /\ clock < MAX_CLOCK /\ clock' = clock + 1
    /\ UNCHANGED <<member, proofs, epoch, fileId, index, pass, dirty, unseen, vectorWrites>>

-----------------------------------------------------------------------------
IndexInit ==
    /\ \E there \in {Member, {}} :
          LET place == CHOOSE f \in [Member -> 1..Cardinality(Member)] : \A a, b \in Member : a # b => f[a] # f[b]
          IN member = [m \in Member |-> IF m \in there THEN [rowid |-> place[m], stamp |-> 1, active |-> TRUE,
                                                             proof |-> place[m]] ELSE Absent]
    /\ clock = 1 /\ proofs = Cardinality(Member) /\ epoch = 0 /\ fileId = 1
    /\ index = Fresh(fileId) /\ pass = NoPass
    /\ dirty = {} /\ unseen = {} /\ vectorWrites = 0

IndexNext ==
    \/ RefreshBegins \/ ReadFeed \/ SyncProofs \/ SyncVectors \/ RefreshEnds
    \/ \E m \in Member :
          \/ \E active \in BOOLEAN : StoreRow(m, active)
          \/ \E now \in BOOLEAN : StampRow(m, now)
          \/ PutVector(m)
          \/ \E own \in BOOLEAN : DeleteRow(m, own)
    \/ ReplaceFile \/ Tick

IndexSpec == IndexInit /\ [][IndexNext]_indexVars

-----------------------------------------------------------------------------
Current(m) == IF member[m].active THEN member[m].proof ELSE 0

(* A refreshed index has the vector of every active row and no other, but   *)
(* for rows written since its token was read, and those written, since its  *)
(* last reconcile, in the ways a token cannot see.                          *)
IndexFollows ==
    In("ready") /\ ~index.oversize =>
        \A m \in Member \ (dirty \cup unseen) : index.vector[m] = Current(m)

(* A proof that is kept is never that of a newer vector than the one kept   *)
(* with it, so a later reconcile finds every vector that fell behind.       *)
ProofNoNewer == \A m \in Member : index.proof[m] <= index.vector[m]

IndexFresh == IndexFollows /\ ProofNoNewer
=============================================================================
