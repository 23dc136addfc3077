----------------------------- MODULE PagedReads -----------------------------
(***************************************************************************)
(* The reads that take a store's rows by pages: limited listings and the   *)
(* full-text search, which hide what the quarantine ledger blocks before   *)
(* their limit applies (storage/interface.py, _query_ops.py,               *)
(* _fts_query.py), and the sweeps of the re-embed and of the verification  *)
(* pass, which walk a namespace by key (_sweep.py, _client_reembed.py,     *)
(* lifecycle/verification_pass.py).                                        *)
(*                                                                         *)
(* A row is a place in the order of the read: the rank of a listing or     *)
(* search, the id of a sweep.  One caller reads at a time; between two of  *)
(* its SELECTs anybody may write.                                          *)
(***************************************************************************)
EXTENDS Integers, Sequences, FiniteSets, SequencesExt, FiniteSetsExt

CONSTANTS
    MAX_PLACE,      \* bound on the rows: places 1..MAX_PLACE
    LIMIT,          \* rows a listing or search asks for
    PAGE,           \* rows a sweep asks for
    OVERFETCH,      \* the first page of a search is LIMIT * OVERFETCH rows
    MAX_READ_WRITES \* bound on the writes of others; no read begins after the last

Place == 1..MAX_PLACE

(* "bad": a row whose bytes or shape cannot be decoded; "other": one that   *)
(* the caller's filter refuses, and to a sweep one with nothing to do.      *)
Gone == "gone"
RowKind == {Gone, "ok", "other", "bad"}

ReadOp == {"list", "fts", "grow", "reembed", "verify"}

VARIABLES
    rowAt,          \* Place -> RowKind
    blocked,        \* the places the ledger blocks
    body,           \* Place -> the text of the row, 0 or 1
    vector,         \* Place -> <<text, space>> or NoVector; space "new" is the embedder's
    read,           \* the read in progress
    touched,        \* places written since it began
    moved,          \* a row was inserted or removed since it began
    readWrites

readVars == <<rowAt, blocked, body, vector, read, touched, moved, readWrites>>

NoVector == <<>>

NoRead == [op |-> "none", step |-> "idle", filter |-> FALSE, view |-> {}, got |-> <<>>,
           raw |-> <<>>, size |-> 0, offset |-> 0, cursor |-> 0, ceiling |-> 0, page |-> <<>>,
           text |-> [p \in Place |-> 0], records |-> <<>>, seen |-> {}, bad |-> FALSE]

ReadsAssumption ==
    /\ MAX_PLACE \in Nat \ {0} /\ LIMIT \in Nat \ {0} /\ PAGE \in Nat \ {0} /\ OVERFETCH \in Nat \ {0}
    /\ MAX_READ_WRITES \in Nat

-----------------------------------------------------------------------------
(* SELECTs *)

Held(from) == {p \in Place : p > from /\ rowAt[p] # Gone}

InOrder(ps) == SetToSortSeq(ps, <)

FirstOf(ps, n) == SubSeq(InOrder(ps), 1, Min({n, Cardinality(ps)}))

(* A row that cannot be decoded is dropped after the SQL LIMIT counted it.  *)
Decoded(s) == SelectSeq(s, LAMBDA p : rowAt[p] # "bad")

Select(from, through, n) == Decoded(FirstOf({p \in Held(from) : p <= through}, n))

Filtered(s) == SelectSeq(s, LAMBDA p : p \notin blocked)

Accepts(filter, view, p) == rowAt[p] # "bad" /\ p \notin view /\ (filter => rowAt[p] = "ok")

(* The predicate path streams all rows and applies the limit last. *)
SelectAccepted(filter, view, n) == FirstOf({p \in Held(0) : Accepts(filter, view, p)}, n)

-----------------------------------------------------------------------------
Idle == read.op = "none"

Begin(op, step, filter) ==
    /\ Idle /\ readWrites < MAX_READ_WRITES
    /\ read' = [NoRead EXCEPT !.op = op, !.step = step, !.filter = filter, !.size = LIMIT,
                              !.ceiling = Max(Held(0) \cup {0}), !.bad = \E p \in Place : rowAt[p] = "bad"]
    /\ touched' = {} /\ moved' = FALSE
    /\ UNCHANGED <<rowAt, blocked, body, vector, readWrites>>

ReadStep == UNCHANGED <<rowAt, blocked, body, vector, touched, moved, readWrites>>

Done(s) == read' = [read EXCEPT !.step = "done", !.got = s]

(* _quarantine_limited: the ledger's view is taken once.  A plain read is   *)
(* repeated on the predicate path if the view dropped a row of a full page. *)
TakeView ==
    /\ read.step = "view"
    /\ LET plain == ~read.filter IN
       read' = [read EXCEPT !.view = blocked, !.step = IF plain THEN "plain" ELSE "accepted",
                            !.page = IF read.op = "fts" THEN <<LIMIT * OVERFETCH>> ELSE <<>>]
    /\ ReadStep

KeepPlain(raw) ==
    LET kept == SelectSeq(raw, LAMBDA p : p \notin read.view) IN
    IF Len(kept) = Len(raw) \/ Len(raw) < LIMIT THEN Done(kept)
    ELSE read' = [read EXCEPT !.step = "accepted", !.offset = 0, !.got = <<>>,
                              !.page = IF read.op = "fts" THEN <<LIMIT * OVERFETCH>> ELSE <<>>]

ListPlain ==
    /\ read.op = "list" /\ read.step = "plain"
    /\ KeepPlain(Select(0, MAX_PLACE, LIMIT))
    /\ ReadStep

ListAccepted ==
    /\ read.op = "list" /\ read.step = "accepted"
    /\ Done(SelectAccepted(read.filter, read.view, LIMIT))
    /\ ReadStep

(* search_fts: a page of keys in rank order by OFFSET, then their rows; the *)
(* next page is twice as long.                                              *)
FtsPage ==
    /\ read.op = "fts" /\ read.step \in {"plain", "accepted"}
    /\ LET size == read.page[1]
           all == InOrder(Held(0))
           keys == SubSeq(all, read.offset + 1, Min({read.offset + size, Len(all)}))
           plain == read.step = "plain"
           fresh == SelectSeq(keys, LAMBDA p : p \notin read.seen)
           rows == SelectSeq(fresh, LAMBDA p : IF plain THEN rowAt[p] # "bad"
                                               ELSE Accepts(read.filter, read.view, p))
           got == read.got \o rows IN
       IF Len(got) >= LIMIT \/ Len(keys) < size
       THEN LET answer == SubSeq(got, 1, Min({LIMIT, Len(got)})) IN
            IF ~plain THEN Done(answer)
            ELSE LET kept == SelectSeq(answer, LAMBDA p : p \notin read.view) IN
                 IF Len(kept) = Len(answer) \/ Len(answer) < LIMIT THEN Done(kept)
                 ELSE read' = [read EXCEPT !.step = "accepted", !.offset = 0, !.got = <<>>, !.seen = {},
                                           !.page = <<LIMIT * OVERFETCH>>]
       ELSE read' = [read EXCEPT !.got = got, !.offset = @ + size, !.page = <<size * 2>>,
                                 !.seen = @ \cup ToSet(keys)]
    /\ ReadStep

(* _quarantine_regrown: read again, larger by what the filter dropped. *)
Grow ==
    /\ read.op = "grow" /\ read.step = "read"
    /\ LET raw == Select(0, MAX_PLACE, read.size)
           kept == Filtered(raw) IN
       IF Len(kept) >= LIMIT \/ Len(raw) < read.size
       THEN Done(SubSeq(kept, 1, Min({LIMIT, Len(kept)})))
       ELSE read' = [read EXCEPT !.size = @ + Len(raw) - Len(kept)]
    /\ ReadStep

-----------------------------------------------------------------------------
(* Sweeps *)

(* What one page of the source is: the re-embed reads rows up to the id     *)
(* that was last when it began; the verification pass refills a page with   *)
(* rows that can be decoded (_refill_verification_entries).                 *)
Fetch(from, n) ==
    IF read.op = "verify" THEN FirstOf({p \in Held(from) : rowAt[p] # "bad"}, n)
    ELSE Select(from, read.ceiling, n)

TextOf(raw) == [p \in Place |-> IF p \in ToSet(raw) THEN body[p] ELSE read.text[p]]

(* _quarantine_keyset: a page thinned by the filter is refilled from past   *)
(* its last raw row; `raw` and `page` are kept between its fetches.         *)
KeysetPage(n) ==
    LET raw == Fetch(IF read.raw = <<>> THEN read.cursor ELSE Last(read.raw), n)
        page == read.page \o Filtered(raw) IN
    IF Len(raw) = n /\ Len(page) < n
    THEN read' = [read EXCEPT !.raw = raw, !.page = page, !.size = n, !.text = TextOf(raw)]
    ELSE read' = [read EXCEPT !.raw = <<>>, !.page = SubSeq(page, 1, Min({n, Len(page)})),
                              !.size = n, !.text = TextOf(raw), !.step = "records"]

(* The page of a sweep, or less when the row budget of the call is near its *)
(* end: a call that spent its rows or seconds resumes by its cursor.        *)
SweepFetch ==
    /\ read.op \in {"reembed", "verify"} /\ read.step = "read"
    /\ \E n \in IF read.raw = <<>> THEN 1..PAGE ELSE {read.size} : KeysetPage(n)
    /\ ReadStep

(* _reembed_page reads the vectors of the page's rows and encodes, outside  *)
(* its transaction, those not of the embedder's space; the texts are the    *)
(* page's.                                                                  *)
SweepRecords ==
    /\ read.step = "records"
    /\ IF read.page = <<>> THEN Done(read.got)
       ELSE read' = [read EXCEPT !.step = "visit", !.records = vector]
    /\ ReadStep

(* Mutant: the text is not compared again. *)
StaleByVector(p) ==
    /\ rowAt[p] = "ok" /\ (read.records[p] = NoVector \/ read.records[p][2] # "new")
    /\ p \notin blocked /\ vector[p] = read.records[p]

(* A row is given a new vector if the row and its vector are as they were.  *)
Stale(p) ==
    /\ rowAt[p] = "ok" /\ (read.records[p] = NoVector \/ read.records[p][2] # "new")
    /\ p \notin blocked /\ body[p] = read.text[p] /\ vector[p] = read.records[p]

(* All rows of a page are consumed; a page shorter than asked is the last. *)
SweepVisit ==
    /\ read.step = "visit"
    /\ vector' = [p \in Place |-> IF read.op = "reembed" /\ p \in ToSet(read.page) /\ Stale(p)
                                  THEN <<read.text[p], "new">> ELSE vector[p]]
    /\ LET got == read.got \o read.page IN
       read' = IF Len(read.page) < read.size THEN [read EXCEPT !.step = "done", !.got = got]
               ELSE [read EXCEPT !.step = "read", !.got = got, !.cursor = Last(read.page),
                                          !.page = <<>>, !.records = <<>>]
    /\ UNCHANGED <<rowAt, blocked, body, touched, moved, readWrites>>

EndRead ==
    /\ read.step = "done"
    /\ read' = NoRead /\ touched' = {} /\ moved' = FALSE
    /\ UNCHANGED <<rowAt, blocked, body, vector, readWrites>>

-----------------------------------------------------------------------------
(* Others *)

OtherWrites(p) ==
    /\ ~Idle /\ read.step # "done" /\ readWrites < MAX_READ_WRITES
    /\ readWrites' = readWrites + 1 /\ touched' = touched \cup {p}
    /\ UNCHANGED read

InsertRow(p) ==
    /\ OtherWrites(p) /\ rowAt[p] = Gone
    /\ rowAt' = [rowAt EXCEPT ![p] = "ok"] /\ moved' = TRUE
    /\ vector' = [vector EXCEPT ![p] = <<body[p], "new">>]
    /\ UNCHANGED <<blocked, body>>

DeleteRow(p) ==
    /\ OtherWrites(p) /\ rowAt[p] # Gone
    /\ rowAt' = [rowAt EXCEPT ![p] = Gone] /\ moved' = TRUE
    /\ vector' = [vector EXCEPT ![p] = NoVector]
    /\ UNCHANGED <<blocked, body>>

(* An update of the text, whose writer embeds in the same space, in another *)
(* one, or (a write that lost its vector) not at all.                       *)
Rewrite(p) ==
    /\ OtherWrites(p) /\ rowAt[p] \in {"ok", "other"}
    /\ body' = [body EXCEPT ![p] = 1 - @]
    /\ \E v \in {NoVector, <<1 - body[p], "new">>, <<1 - body[p], "old">>} : vector' = [vector EXCEPT ![p] = v]
    /\ UNCHANGED <<rowAt, blocked, moved>>

Rule(p) ==
    /\ OtherWrites(p)
    /\ blocked' = IF p \in blocked THEN blocked \ {p} ELSE blocked \cup {p}
    /\ UNCHANGED <<rowAt, body, vector, moved>>

-----------------------------------------------------------------------------
ReadsInit ==
    /\ rowAt \in [Place -> RowKind] /\ blocked \in SUBSET Place
    /\ Cardinality({p \in Place : rowAt[p] = "bad"}) <= 1 /\ Cardinality(blocked) <= 1
    /\ \A p \in blocked : rowAt[p] # Gone
    /\ body = [p \in Place |-> 0]
    /\ vector = [p \in Place |-> IF rowAt[p] = Gone \/ p % 2 = 0 THEN NoVector ELSE <<0, "old">>]
    /\ read = NoRead /\ touched = {} /\ moved = FALSE /\ readWrites = 0

ReadsNext ==
    \/ \E op \in {"list", "fts"}, filter \in BOOLEAN : Begin(op, "view", filter)
    \/ \E op \in {"grow", "reembed", "verify"} : Begin(op, "read", FALSE)
    \/ TakeView \/ ListPlain \/ ListAccepted \/ FtsPage \/ Grow
    \/ SweepFetch \/ SweepRecords \/ SweepVisit \/ EndRead
    \/ \E p \in Place : InsertRow(p) \/ DeleteRow(p) \/ Rewrite(p) \/ Rule(p)

-----------------------------------------------------------------------------
(* Rows that were there and not blocked during the whole read. *)
Steady == {p \in Place \ touched : rowAt[p] # Gone /\ p \notin blocked}

Owed ==
    {p \in Steady : /\ rowAt[p] # "bad"
                    /\ read.filter => rowAt[p] = "ok"
                    /\ read.op = "reembed" => p <= read.ceiling}

(* An undecodable row takes a place of a limit that SQL applies. *)
MayBeShort ==
    \/ read.bad /\ read.op \in {"list", "grow", "reembed"} /\ ~read.filter
    \/ read.op = "fts" /\ moved

(* A finished read answers each row once and in order, none that was        *)
(* blocked throughout, and every row it owes: all of them if the answer is  *)
(* shorter than its limit, all before its last row if not.  A search may    *)
(* miss rows when others insert or remove rows between its pages.           *)
AnswerExact ==
    read.step = "done" =>
        LET got == ToSet(read.got)
            full == read.op \in {"list", "fts", "grow"} /\ Len(read.got) >= LIMIT IN
        /\ \A i, j \in DOMAIN read.got : i < j => read.got[i] < read.got[j]
        /\ got \cap (blocked \ touched) = {}
        /\ ~MayBeShort => \A p \in Owed : p \in got \/ (full /\ p > Last(read.got))

(* No vector is of another text than its row's, and a re-embed that ends    *)
(* leaves every row it owes in the embedder's space.                        *)
ReembedExact ==
    /\ \A p \in Place : vector[p] # NoVector => vector[p][1] = body[p]
    /\ read.step = "done" /\ read.op = "reembed" /\ ~MayBeShort =>
           \A p \in Owed : rowAt[p] = "ok" => vector[p] # NoVector /\ vector[p][2] = "new"

ReadsExact == AnswerExact /\ ReembedExact
=============================================================================
