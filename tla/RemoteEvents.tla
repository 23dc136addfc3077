---------------------------- MODULE RemoteEvents ----------------------------
(***************************************************************************)
(* What an SDK client learns from the platform's event stream              *)
(* (sync/subscriber.py, _client_sse.py) and what its recalls make of it    *)
(* (_client_org_shared.py, _client_lifecycle.py, sync/_remote_fetch.py,    *)
(* sync/_remote_admission.py): a listening thread, a watcher of the        *)
(* contact switch, stop(), and recalls as coroutines, around a cache of    *)
(* events and a set of retirements.                                        *)
(*                                                                         *)
(* An event's id is its place in the platform's log and the version of its *)
(* item's text; a bad text is one the admission gate refuses, an odd event *)
(* one whose payload the projection raises on.                             *)
(***************************************************************************)
EXTENDS Naturals, Sequences, FiniteSets

CONSTANTS
    Item,              \* remote ids
    Query,             \* recalls
    CACHE_MAX,         \* SHARED_EVENT_CACHE_MAX
    MAX_EVENTS, MAX_SWITCHES,
    MAX_MISSES         \* bound on connections cut and updates failed, together

VARIABLES
    log,               \* the platform's events: [type, item, kind]
    stream,            \* [at, next, closed]: the listening thread and its connection
    pendingId, lastId,
    stopping,          \* stop(): "no", "set", then "done" when it closed the connection
    contact,           \* the platform contact switch
    polled,            \* the watcher has looked since the switch went off
    cached,            \* _shared_event_cache: [item, version, kind], in the order of the versions
    pending,           \* _pending_remote_retirements
    localRow,          \* item -> "none", "synced" or "marked": the local row with that remote id
    recall,            \* query -> [at, took, retired, known, fetched, shared]
    learned,           \* retirements that an event told, or a fetch that passed them on
    cuts, switches, applyFails

eventVars == <<log, stream, pendingId, lastId, stopping, contact, polled, cached, pending, localRow, recall,
               learned, cuts, switches, applyFails>>

streamVars == <<stream, pendingId, lastId>>

clientVars == <<cached, pending, localRow, recall, learned, applyFails>>

outside == <<log, contact, switches>>

-----------------------------------------------------------------------------
(* The platform and the user.                                              *)

Retired(item) == \E n \in DOMAIN log : log[n].type = "retired" /\ log[n].item = item

LatestText(item) ==
    LET shown == {n \in DOMAIN log : log[n] \in [type : {"published"}, item : {item}, kind : {"good", "bad"}]}
    IN  IF shown = {} THEN 0 ELSE CHOOSE n \in shown : \A m \in shown : m <= n

Happens(type, item, kind) ==
    /\ Len(log) < MAX_EVENTS /\ ~Retired(item)
    /\ type = "retired" => kind = "good" /\ LatestText(item) # 0
    /\ log' = Append(log, [type |-> type, item |-> item, kind |-> kind])
    /\ UNCHANGED <<streamVars, stopping, contact, polled, clientVars, cuts, switches>>

Switch ==
    /\ switches < MAX_SWITCHES /\ switches' = switches + 1
    /\ contact' = ~contact /\ polled' = FALSE
    /\ UNCHANGED <<log, streamVars, stopping, clientVars, cuts>>

(* The acknowledgement of a publish gives the local row its remote id.      *)
GetsRemoteId(item) ==
    /\ localRow[item] = "none" /\ LatestText(item) # 0 /\ localRow' = [localRow EXCEPT ![item] = "synced"]
    /\ UNCHANGED <<outside, streamVars, stopping, polled, cached, pending, recall, learned, cuts, applyFails>>

-----------------------------------------------------------------------------
(* The listening thread.                                                   *)

At(step) == stream.at = step

(* Whether a connection is open that stop() or the watcher can close.       *)
Active == stream.at \in {"registered", "handshake", "opened", "reading"} /\ ~stream.closed

Thread(new) == stream' = new /\ UNCHANGED <<outside, stopping, polled, clientVars>>

Moves(step) == Thread([stream EXCEPT !.at = step])

Reconnects == Thread([at |-> "top", next |-> 0, closed |-> FALSE])

(* An exception that the loop does not catch.                               *)
Dies == Thread([at |-> "dead", next |-> 0, closed |-> FALSE])

Ask ==
    /\ At("top")
    /\ IF stopping # "no" THEN Moves("ended") ELSE IF contact THEN Moves("allowed") ELSE Reconnects
    /\ UNCHANGED <<pendingId, lastId, cuts>>

StopSeen == stopping # "no"

(* The client is registered before it connects.                             *)
Register ==
    /\ At("allowed") /\ (IF StopSeen THEN Moves("ended") ELSE Moves("registered"))
    /\ UNCHANGED <<pendingId, lastId, cuts>>

(* A client that was closed before it is entered raises a RuntimeError.     *)
Enter ==
    /\ At("registered") /\ (IF stream.closed THEN Dies ELSE Moves("handshake"))
    /\ UNCHANGED <<pendingId, lastId, cuts>>

(* The stream starts after the last event id the client names.              *)
Handshake ==
    /\ At("handshake")
    /\ IF stream.closed THEN Reconnects ELSE Thread([stream EXCEPT !.at = "opened", !.next = lastId + 1])
    /\ UNCHANGED <<pendingId, lastId, cuts>>

ContactOn == contact

Read ==
    /\ At("opened") /\ (IF ContactOn THEN Moves("reading") ELSE Reconnects)
    /\ UNCHANGED <<pendingId, lastId, cuts>>

Cut ==
    /\ At("reading") /\ Reconnects
    /\ IF stream.closed THEN UNCHANGED cuts ELSE cuts + applyFails < MAX_MISSES /\ cuts' = cuts + 1
    /\ UNCHANGED <<pendingId, lastId>>

More == At("reading") /\ ~stream.closed /\ stream.next \in DOMAIN log

StopRead ==
    /\ At("reading") /\ ~stream.closed /\ stopping # "no" /\ Moves("ended")
    /\ UNCHANGED <<pendingId, lastId, cuts>>

IdLine ==
    /\ More /\ stopping = "no" /\ pendingId # stream.next /\ pendingId' = stream.next
    /\ UNCHANGED <<outside, stream, lastId, stopping, polled, clientVars, cuts>>

(* cache_shared_event: the newest text of an item, within the cache's size. *)
WithEvent(n) ==
    LET kept == {c \in cached : c.item # log[n].item}
        all == kept \cup {[item |-> log[n].item, version |-> n, kind |-> log[n].kind]}
    IN  IF Cardinality(all) > CACHE_MAX THEN {c \in all : \E d \in all : d.version < c.version} ELSE all

WithoutItem(item) == {c \in cached : c.item # item}

(* _process_line: the place in the stream moves before the event is handled. *)
DataLine ==
    LET event == log[stream.next]
        told == event.type = "retired"
    IN
    /\ More /\ stopping = "no" /\ pendingId = stream.next
    /\ lastId' = pendingId /\ pendingId' = 0
    /\ stream' = IF event.kind = "odd" THEN [at |-> "dead", next |-> 0, closed |-> FALSE]
                 ELSE [stream EXCEPT !.next = @ + 1]
    /\ pending' = IF told THEN pending \cup {event.item} ELSE pending
    /\ learned' = IF told THEN learned \cup {event.item} ELSE learned
    /\ cached' = IF told THEN WithoutItem(event.item) ELSE IF event.kind = "odd" THEN cached ELSE WithEvent(stream.next)
    /\ UNCHANGED <<outside, stopping, polled, localRow, recall, applyFails, cuts>>

-----------------------------------------------------------------------------
(* stop() and the watcher.                                                 *)

CloseActive == stream' = IF Active THEN [stream EXCEPT !.closed = TRUE] ELSE stream

StopSets ==
    /\ stopping = "no" /\ stopping' = "set"
    /\ UNCHANGED <<outside, streamVars, polled, clientVars, cuts>>

StopCloses ==
    /\ stopping = "set" /\ stopping' = "done" /\ CloseActive
    /\ UNCHANGED <<outside, pendingId, lastId, polled, clientVars, cuts>>

WatchSwitch ==
    /\ stopping = "no" /\ ~contact /\ ~polled /\ polled' = TRUE /\ CloseActive
    /\ UNCHANGED <<outside, pendingId, lastId, stopping, clientVars, cuts>>

-----------------------------------------------------------------------------
(* A recall of shared rows: merge_shared_results.                          *)

Goes(q, new) == recall' = [recall EXCEPT ![q] = new]

In(q, step) == recall[q].at = step

Client == UNCHANGED <<outside, streamVars, stopping, polled, cuts>>

(* What the stream told of before the recall.                               *)
ToldByStream == {log[n].item : n \in {m \in 1..lastId : log[m].type = "retired"}}

(* apply_pending_remote_retirements takes the set, and marks the rows once  *)
(* it has the client's lock.                                                *)
RecallBegins(q) ==
    /\ In(q, "none") /\ pending' = {}
    /\ Goes(q, [recall[q] EXCEPT !.at = "first", !.took = pending, !.known = ToldByStream])
    /\ Client /\ UNCHANGED <<cached, localRow, learned, applyFails>>

(* Mutant: what could not be applied is not put back.                       *)
NothingBack(left) == pending

PutBack(left) == pending \cup left

Applicable(q) == {i \in recall[q].took : localRow[i] = "synced"}

(* All the rows, or those up to one whose update raises.                    *)
Apply(q, done) ==
    /\ In(q, "first") \/ In(q, "last")
    /\ done \subseteq Applicable(q)
    /\ localRow' = [i \in Item |-> IF i \in done THEN "marked" ELSE localRow[i]]
    /\ pending' = PutBack(recall[q].took \ done)
    /\ IF done = Applicable(q)
       THEN /\ Goes(q, [recall[q] EXCEPT !.at = IF In(q, "first") THEN "applied" ELSE "answered", !.took = {}])
            /\ UNCHANGED applyFails
       ELSE /\ cuts + applyFails < MAX_MISSES /\ applyFails' = applyFails + 1
            /\ Goes(q, [recall[q] EXCEPT !.at = IF In(q, "first") THEN "answered" ELSE "raised", !.took = {},
                                         !.shared = IF In(q, "last") THEN @ ELSE {}])
    /\ Client /\ UNCHANGED <<cached, learned>>

(* admit_remote_results                                                     *)
Screened(found) == {c \in found : c.kind = "good"}

(* The cached events; whether one matches the query is left out.           *)
CachedHits == cached

(* The cached events, screened; a gate that fails leaves none of them.      *)
TakesCached(q, works) ==
    /\ In(q, "applied")
    /\ Goes(q, [recall[q] EXCEPT !.at = IF works THEN "snapshot" ELSE "answered",
                                 !.shared = IF works THEN Screened(CachedHits) ELSE {}])
    /\ Client /\ UNCHANGED <<cached, pending, localRow, learned, applyFails>>

(* A label withholds the query, or the fetch fails: the cached ones alone.  *)
NoFetch(q) ==
    /\ In(q, "snapshot") /\ Goes(q, [recall[q] EXCEPT !.at = "answered"])
    /\ Client /\ UNCHANGED <<cached, pending, localRow, learned, applyFails>>

(* The dedups drop what is `like` a local row of the recall: has its id, its *)
(* text, or a vector near to its own.                                       *)
Unlike(found, like) == {c \in found : c.item \notin like}

(* The platform's answer: the items that match, also retired ones, each with *)
(* its last text.                                                           *)
Found(items) ==
    {[item |-> i, version |-> LatestText(i), kind |-> log[LatestText(i)].kind] : i \in {j \in items : LatestText(j) # 0}}

(* Retired items, too, are deduplicated and screened before anything is made *)
(* of them.                                                                 *)
Fetch(q, items, like, likeCached) ==
    LET passed == Screened(Unlike(Found(items), like))
    IN
    /\ In(q, "snapshot")
    /\ Goes(q, [recall[q] EXCEPT !.at = "fetched",
                                 !.retired = {i \in Item : Retired(i) /\ \E c \in passed : c.item = i},
                                 !.fetched = {c \in passed : ~Retired(c.item)},
                                 !.shared = Unlike(@, likeCached)])
    /\ Client /\ UNCHANGED <<cached, pending, localRow, learned, applyFails>>

(* mark_fetch_retirements                                                   *)
Told(q) ==
    /\ In(q, "fetched")
    /\ LET gone == recall[q].retired
       IN  /\ learned' = learned \cup gone
           /\ IF gone = {} THEN Goes(q, [recall[q] EXCEPT !.at = "answered"]) /\ UNCHANGED pending
              ELSE Goes(q, [recall[q] EXCEPT !.at = "last", !.took = pending \cup gone]) /\ pending' = {}
    /\ Client /\ UNCHANGED <<cached, localRow, applyFails>>

(* merge_shared_candidates: the first of each item, the fetched rows first. *)
Answer(q) ==
    recall[q].fetched \cup {c \in recall[q].shared : \A d \in recall[q].fetched : d.item # c.item}

-----------------------------------------------------------------------------
EventInit ==
    /\ log = <<>> /\ stream = [at |-> "top", next |-> 0, closed |-> FALSE]
    /\ pendingId = 0 /\ lastId = 0 /\ stopping = "no" /\ contact = TRUE /\ polled = FALSE
    /\ cached = {} /\ pending = {} /\ localRow = [i \in Item |-> "none"]
    /\ recall = [q \in Query |-> [at |-> "none", took |-> {}, retired |-> {}, known |-> {},
                               fetched |-> {}, shared |-> {}]]
    /\ learned = {} /\ cuts = 0 /\ switches = 0 /\ applyFails = 0

EventNext ==
    \/ \E item \in Item :
          \/ \E kind \in {"good", "bad", "odd"} : Happens("published", item, kind)
          \/ Happens("retired", item, "good")
          \/ GetsRemoteId(item)
    \/ Switch
    \/ Ask \/ Register \/ Enter \/ Handshake \/ Read \/ Cut \/ StopRead \/ IdLine \/ DataLine
    \/ StopSets \/ StopCloses \/ WatchSwitch
    \/ \E q \in Query :
          \/ RecallBegins(q) \/ NoFetch(q) \/ Told(q)
          \/ \E done \in SUBSET Item : Apply(q, done)
          \/ \E works \in BOOLEAN : TakesCached(q, works)
          \/ \E items, like, likeCached \in SUBSET Item : Fetch(q, items, like, likeCached)

EventSpec == EventInit /\ [][EventNext]_eventVars

-----------------------------------------------------------------------------
(* A stopped subscriber leaves no connection open, and one whose contact    *)
(* was switched off reads nothing once the watcher has looked.              *)
Disconnects ==
    /\ stopping = "done" => ~Active
    /\ ~contact /\ polled => ~(At("reading") /\ Active)

(* A retirement that an event told, or that passed the dedup and the gate of *)
(* a fetch, is pending, being applied, or marked on the row, whatever fails  *)
(* and whatever is learned meanwhile.                                       *)
RetirementsKept ==
    \A i \in learned : i \in pending \/ localRow[i] = "marked" \/ \E q \in Query : i \in recall[q].took

(* A recall shows no text the gate refused, no item the stream told the    *)
(* retirement of before it began, and no item twice.                        *)
AnswersSound ==
    \A q \in Query : In(q, "answered") =>
        \A c \in Answer(q) :
            /\ c.kind = "good" /\ c.item \notin recall[q].known
            /\ \A d \in Answer(q) : d.item = c.item => d = c

(* What the client does with what the stream and its fetches tell it: the   *)
(* connection ends when it is told to, no retirement it took in is          *)
(* forgotten, and a recall shows no text the gate refused and nothing that  *)
(* the stream had told to be retired.                                       *)
RemoteSound == Disconnects /\ RetirementsKept /\ AnswersSound

-----------------------------------------------------------------------------
(* Why: the inductive invariant.                                            *)

EventRow == [item : Item, version : Nat, kind : {"good", "bad", "odd"}]

EventTypeOK ==
    /\ log \in Seq([type : {"published", "retired"}, item : Item, kind : {"good", "bad", "odd"}])
    /\ stream \in [at : {"top", "allowed", "registered", "handshake", "opened", "reading", "ended", "dead"},
                   next : Nat, closed : BOOLEAN]
    /\ pendingId \in Nat /\ lastId \in 0..Len(log)
    /\ stopping \in {"no", "set", "done"} /\ contact \in BOOLEAN /\ polled \in BOOLEAN
    /\ cached \subseteq EventRow /\ pending \subseteq Item /\ learned \subseteq Item
    /\ localRow \in [Item -> {"none", "synced", "marked"}]
    /\ recall \in [Query ->
          [at : {"none", "first", "applied", "snapshot", "fetched", "last", "answered", "raised"},
           took : SUBSET Item, retired : SUBSET Item, known : SUBSET Item, fetched : SUBSET EventRow,
           shared : SUBSET EventRow]]

(* The platform tells nothing of an item after its retirement.              *)
RetiredLast ==
    \A m, n \in DOMAIN log : log[m].type = "retired" /\ log[n].item = log[m].item => n <= m

(* An open connection goes on after the last event that was handled.        *)
StreamInOrder == At("opened") \/ At("reading") => stream.next = lastId + 1

(* The cache has an item once, and none whose retirement was told.          *)
CacheHolds ==
    \A c \in cached : /\ c.item \notin ToldByStream
                      /\ \A d \in cached : d.item = c.item => d = c

(* What a recall has found it may show, and it has taken retirements only   *)
(* while it applies them.                                                   *)
MayShow(q, found) ==
    \A c \in found : /\ c.kind = "good" /\ c.item \notin recall[q].known
                     /\ \A d \in found : d.item = c.item => d = c

RecallHolds(q) ==
    /\ recall[q].known \subseteq ToldByStream
    /\ MayShow(q, recall[q].fetched) /\ MayShow(q, recall[q].shared)
    /\ In(q, "none") => recall[q].fetched = {} /\ recall[q].shared = {}
    /\ In(q, "first") \/ In(q, "last") \/ recall[q].took = {}

EventIInv ==
    /\ EventTypeOK /\ RetiredLast /\ StreamInOrder /\ CacheHolds
    /\ \A q \in Query : RecallHolds(q)
    /\ Disconnects /\ RetirementsKept
=============================================================================
