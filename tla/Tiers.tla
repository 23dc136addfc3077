------------------------------- MODULE Tiers -------------------------------
(***************************************************************************)
(* The tiers of one namespace (lifecycle/tiers): the hot copies each       *)
(* process keeps, the warm sidecar file all processes append to or rewrite *)
(* with its parse cached per process, and the cold archive, beside the     *)
(* canonical rows they mirror.  Stores, recalls, forgets and archivals of  *)
(* several processes interleave at every file they write; a write may      *)
(* fail, and a process may be killed, also within an append.               *)
(*                                                                         *)
(* A text is the store that wrote it.  Two snapshots with the same text    *)
(* differ in access bookkeeping alone.  Every query matches every copy.    *)
(***************************************************************************)
EXTENDS Naturals, Sequences, SequencesExt, FiniteSets, FiniteSetsExt

CONSTANTS
    Entry,        \* ids of the entries
    TierCall,     \* calls of the library
    KindOf,       \* TierCall -> "store", "recall", "forget" or "archive"
    EntryOf,      \* TierCall -> the id a store, forget or archive is about
    Runs,         \* TierCall -> the process that makes it
    HOT_MAX,      \* hot_max_entries
    COMPACT_MIN_DEAD,
    MAX_TIER_CALLS,  \* calls and faults together
    MAX_TIER_FAULTS  \* failed writes and kills

VARIABLES
    row,          \* Entry -> the text of its canonical row, or None
    hot,          \* process -> its hot copies, least recently used first
    file,         \* the sidecar: its lines, whether the last one lacks its newline, its inode
    cache,        \* process -> the key and parse it has of the sidecar, or NoParse
    cold,         \* Entry -> the text of its archive file, or None
    tierLock,     \* process -> the call that has its tier manager lock, or None
    tcall,        \* TierCall -> [at, took]
    tierFaults,
    forgotten,    \* ids a forget has finished with and no store or restoration since
    entrusted,    \* ids stored and not forgotten since
    contended,    \* ids that two calls were moving between row and archive at once
    mirrored      \* Entry -> where the mirror of it must still be: "warm", at least "hot", or "nowhere"

tierVars == <<row, hot, file, cache, cold, tierLock, tcall, tierFaults, forgotten, entrusted, contended, mirrored>>

TierProcess == {Runs[c] : c \in TierCall}

None == "none"

Copy(e, t) == [id |-> e, text |-> t]

Torn == Copy(None, None)     \* a line no reader can parse

NoParse == [key |-> <<>>]

-----------------------------------------------------------------------------
Without(copies, ids) == SelectSeq(copies, LAMBDA k : k.id \notin ids)

(* _warm_sidecar_cache.py: the parse of the file, and its cache.           *)

LastOf(lines) ==
    LET read(live, line) == IF line = Torn THEN live ELSE Append(Without(live, {line.id}), line)
    IN  FoldLeft(read, <<>>, lines)

parse_sidecar(f) ==
    LET live == LastOf(f.lines)
    IN [live |-> live, torn |-> f.torn, dead |-> Len(f.lines) - Len(live)]

sidecar_key(f) == <<f.inode, Len(f.lines), f.torn>>

HasLine(live, e) == \E n \in DOMAIN live : live[n].id = e

LineOf(live, e) == (CHOOSE n \in DOMAIN live : live[n].id = e)

current_parse(p) ==
    IF cache[p].key = sidecar_key(file) THEN cache[p].parsed ELSE parse_sidecar(file)

Ids(copies) == {copies[n].id : n \in DOMAIN copies}

(* ParsedSidecar.extend: the parse after an append, without reading it.     *)
extend(parsed, recs) ==
    [live |-> Without(parsed.live, Ids(recs)) \o recs,
     torn |-> FALSE,
     dead |-> parsed.dead + Cardinality(Ids(recs) \cap Ids(parsed.live))]

compaction_due_after(parsed, recs) ==
    LET superseded == Cardinality(Ids(recs) \cap Ids(parsed.live))
        live == Len(parsed.live) + Len(recs) - superseded
    IN parsed.dead + superseded > Max({live, COMPACT_MIN_DEAD})

content_changed(parsed, recs) ==
    \E n \in DOMAIN recs : /\ HasLine(parsed.live, recs[n].id)
                           /\ parsed.live[LineOf(parsed.live, recs[n].id)].text # recs[n].text

-----------------------------------------------------------------------------
(* _warm.py: the writes of the sidecar, each under lock_for_rmw.           *)

NoFile == [lines |-> <<>>, torn |-> FALSE, inode |-> 0]

_replace_sidecar(p, recs) ==
    /\ file' = [lines |-> recs, torn |-> FALSE, inode |-> file.inode + 1]
    /\ cache' = [cache EXCEPT ![p] = [key |-> sidecar_key(file'), parsed |-> [live |-> recs, torn |-> FALSE, dead |-> 0]]]

Rewrites(p, recs) ==
    \/ file = NoFile
    \/ content_changed(current_parse(p), recs)
    \/ compaction_due_after(current_parse(p), recs)

(* Mutant: the first new line is fused with a torn one.                     *)
append_fused(p, recs) ==
    /\ file' = [file EXCEPT !.lines = IF file.torn THEN Front(@) \o <<Torn>> \o Tail(recs) ELSE @ \o recs,
                            !.torn = FALSE]
    /\ cache' = [cache EXCEPT ![p] = [key |-> sidecar_key(file'), parsed |-> extend(current_parse(p), recs)]]

append_rows(p, recs) ==
    /\ file' = [file EXCEPT !.lines = @ \o recs, !.torn = FALSE]
    /\ cache' = [cache EXCEPT ![p] = [key |-> sidecar_key(file'), parsed |-> extend(current_parse(p), recs)]]

_warm_sidecar_upsert_many(p, recs) ==
    IF Rewrites(p, recs)
    THEN _replace_sidecar(p, Without(current_parse(p).live, Ids(recs)) \o recs)
    ELSE append_rows(p, recs)

purge_sidecar_entry(p, e) ==
    IF file # NoFile /\ HasLine(current_parse(p).live, e)
    THEN _replace_sidecar(p, Without(current_parse(p).live, {e}))
    ELSE UNCHANGED <<file, cache>>

(* A write of the warm tier that is done, or fails and leaves the file.     *)
Mirrors(ids, where) == mirrored' = [e \in Entry |-> IF e \in ids THEN where ELSE mirrored[e]]

Mirrored(where) == {e \in Entry : mirrored[e] = where}

At(c, at) == tcall[c].at = at

Room == Cardinality({c \in TierCall : ~At(c, "idle")}) + tierFaults < MAX_TIER_CALLS

Done == UNCHANGED tierFaults

Fails ==
    /\ Room /\ tierFaults < MAX_TIER_FAULTS
    /\ tierFaults' = tierFaults + 1
    /\ UNCHANGED <<file, cache>>

-----------------------------------------------------------------------------
(* The calls.  A call has its process's tier lock while `tierLock` names it.*)

Goto(c, at) == tcall' = [tcall EXCEPT ![c].at = at]

Begins(c, kind) ==
    /\ KindOf[c] = kind /\ At(c, "idle")
    /\ Room

Locks(c) == tierLock[Runs[c]] = None /\ tierLock' = [tierLock EXCEPT ![Runs[c]] = c]

Unlocks(c) == tierLock' = [tierLock EXCEPT ![Runs[c]] = None]

LockFree(c) == tierLock[Runs[c]] = None

(* Calls in the middle of moving an entry between its row and the archive,  *)
(* or of removing it from both.                                             *)
Moving(c, e) ==
    \/ KindOf[c] = "forget" /\ EntryOf[c] = e /\ tcall[c].at \in {"copies", "archived"}
    \/ KindOf[c] = "archive" /\ EntryOf[c] = e /\ tcall[c].at \in {"warm", "source"}
    \/ KindOf[c] = "recall" /\ tcall[c].at \in {"promoteWarm", "promoteUnlink"} /\ tcall[c].moves.id = e

Moves(c, e) ==
    contended' = IF \E d \in TierCall \ {c} : Moving(d, e) THEN contended \cup {e} ELSE contended

(* Storing a row through the SDK or the tool, then its mirror:              *)
(* remember_entry_in_tiers, hot_put with the demotion it may cause, and the *)
(* entry's own warm write.                                                  *)
StoreRow(c) ==
    /\ Begins(c, "store")
    /\ row' = [row EXCEPT ![EntryOf[c]] = c]
    /\ forgotten' = forgotten \ {EntryOf[c]} /\ entrusted' = entrusted \cup {EntryOf[c]}
    /\ Goto(c, "hot")
    /\ UNCHANGED <<hot, file, cache, cold, tierLock, tierFaults, contended, mirrored>>

hot_put(c) ==
    LET p == Runs[c]
        e == EntryOf[c]
        put == Append(Without(hot[p], {e}), Copy(e, c))
        full == e \notin Ids(hot[p]) /\ Len(put) > HOT_MAX
    IN
    /\ At(c, "hot") /\ Locks(c)
    /\ \/ ~full /\ hot' = [hot EXCEPT ![p] = put] /\ UNCHANGED <<file, cache, tierFaults, mirrored>>
       \/ /\ full /\ hot' = [hot EXCEPT ![p] = Tail(put)]
          /\ _warm_sidecar_upsert_many(p, <<Head(put)>>) /\ Done
          /\ Mirrors({Head(put).id} \ Mirrored("nowhere"), "warm")
       \/ /\ full /\ hot' = [hot EXCEPT ![p] = Tail(put)] /\ Fails
          /\ Mirrors({Head(put).id} \cap Mirrored("hot"), "nowhere")
    /\ Goto(c, "own")
    /\ UNCHANGED <<row, cold, forgotten, entrusted, contended>>

remember_entry_in_tiers(c) ==
    /\ At(c, "own")
    /\ \/ /\ _warm_sidecar_upsert_many(Runs[c], <<Copy(EntryOf[c], c)>>) /\ Done
          /\ Mirrors({EntryOf[c]}, "warm")
       \/ Fails /\ Mirrors({EntryOf[c]} \cap Mirrored("nowhere"), "hot")
    /\ Unlocks(c) /\ Goto(c, "done")
    /\ UNCHANGED <<row, hot, cold, forgotten, entrusted, contended>>

-----------------------------------------------------------------------------
(* memory_recall: the rows, the tier phase with its warm-up and the         *)
(* restoration of archived entries, and the mirror of what was answered.    *)

RowsOf(ids) == {Copy(e, row[e]) : e \in {x \in ids : row[x] # None}}

RecallRows(c) ==
    /\ Begins(c, "recall")
    /\ tcall' = [tcall EXCEPT ![c] = [at |-> "tiers", took |-> RowsOf(Entry), moves |-> Torn, tried |-> {}]]
    /\ UNCHANGED <<row, hot, file, cache, cold, tierLock, tierFaults, forgotten, entrusted, contended, mirrored>>

(* warmup_tier_manager: an empty hot tier is filled from warm, or, when     *)
(* there is nothing warm, from the rows, which are then mirrored.           *)
Fillings(copies) ==
    UNION {SetToSeqs(kept) : kept \in kSubset(Min({HOT_MAX, Cardinality(copies)}), copies)}

warmup_tier_manager(c) ==
    LET p == Runs[c]
        warm == ToSet(current_parse(p).live)
    IN
    /\ At(c, "tiers") /\ LockFree(c) /\ hot[p] = <<>>
    /\ \/ /\ warm # {}
          /\ \E order \in Fillings(warm) : hot' = [hot EXCEPT ![p] = order]
          /\ UNCHANGED <<file, cache>>
       \/ /\ warm = {} /\ RowsOf(Entry) # {}
          /\ \E order \in Fillings(RowsOf(Entry)) :
                hot' = [hot EXCEPT ![p] = order] /\ _warm_sidecar_upsert_many(p, order)
    /\ UNCHANGED <<row, cold, tierLock, tcall, tierFaults, forgotten, entrusted, contended, mirrored>>

Unanswered(took, copies) == {k \in copies : \A t \in took : t.id # k.id}

(* TierManager.search: the copies no row answered, a hot one before a warm  *)
(* one; then the archive, whose entries are restored before being answered. *)
search(c) ==
    LET p == Runs[c]
        took == tcall[c].took
        hits == took \cup Unanswered(took, ToSet(hot[p]))
        warm == ToSet(current_parse(p).live)
    IN
    /\ At(c, "tiers") /\ Locks(c)
    /\ hot[p] = <<>> => warm = {} /\ RowsOf(Entry) = {}
    /\ tcall' = [tcall EXCEPT ![c].took = hits \cup Unanswered(hits, warm), ![c].at = "cold"]
    /\ UNCHANGED <<row, hot, file, cache, cold, tierFaults, forgotten, entrusted, contended, mirrored>>

(* cold_promote of one archive file: store the row, add the warm copy, then *)
(* unlink the file.                                                         *)
PromoteStore(c) ==
    /\ At(c, "cold")
    /\ \E e \in Entry :
          /\ cold[e] # None /\ e \notin tcall[c].tried
          /\ row' = [row EXCEPT ![e] = cold[e]]
          /\ forgotten' = forgotten \ {e}
          /\ tcall' = [tcall EXCEPT ![c].at = "promoteWarm", ![c].moves = Copy(e, cold[e]),
                                    ![c].tried = @ \cup {e}]
          /\ Moves(c, e)
    /\ UNCHANGED <<hot, file, cache, cold, tierLock, tierFaults, entrusted, mirrored>>

PromoteWarm(c) ==
    /\ At(c, "promoteWarm")
    /\ \/ /\ _warm_sidecar_upsert_many(Runs[c], <<tcall[c].moves>>) /\ Done
          /\ Mirrors({tcall[c].moves.id}, "warm")
          /\ Goto(c, "promoteUnlink") /\ UNCHANGED row
       \/ /\ Fails
          /\ row' = [row EXCEPT ![tcall[c].moves.id] = None]
          /\ Goto(c, "cold") /\ UNCHANGED mirrored
    /\ UNCHANGED <<hot, cold, tierLock, forgotten, entrusted, contended>>

PromoteUnlink(c) ==
    LET e == tcall[c].moves.id IN
    /\ At(c, "promoteUnlink")
    /\ \/ /\ cold' = [cold EXCEPT ![e] = None] /\ Done
          /\ tcall' = [tcall EXCEPT ![c].at = "cold",
                                    ![c].took = @ \cup Unanswered(@, {tcall[c].moves})]
          /\ UNCHANGED <<row, file, cache, mirrored>>
       \/ /\ Room /\ tierFaults < MAX_TIER_FAULTS /\ tierFaults' = tierFaults + 1
          /\ purge_sidecar_entry(Runs[c], e)
          /\ row' = [row EXCEPT ![e] = None]
          /\ Mirrors({e}, "nowhere")
          /\ Goto(c, "cold") /\ UNCHANGED cold
    /\ UNCHANGED <<hot, tierLock, forgotten, entrusted, contended>>

TiersSearched(c) ==
    /\ At(c, "cold") /\ \A e \in Entry : cold[e] = None \/ e \in tcall[c].tried
    /\ Unlocks(c) /\ Goto(c, "mirror")
    /\ UNCHANGED <<row, hot, file, cache, cold, tierFaults, forgotten, entrusted, contended, mirrored>>

(* remember_entries_data_in_tiers: the answered copies go into hot, the     *)
(* copies they push out and they themselves into warm in one write, and     *)
(* only then the pushed out leave hot.                                      *)
remember_entries_data_in_tiers(c) ==
    LET p == Runs[c] IN
    /\ At(c, "mirror") /\ LockFree(c) /\ tcall[c].took # {}
    /\ \E recalled \in SetToSeqs(tcall[c].took) :
          LET put == Without(hot[p], Ids(recalled)) \o recalled
              surplus == Max({Len(put) - HOT_MAX, 0})
              evicted == SubSeq(put, 1, surplus)
          IN \/ /\ _warm_sidecar_upsert_many(p, Without(evicted, Ids(recalled)) \o recalled) /\ Done
                /\ hot' = [hot EXCEPT ![p] = SubSeq(put, surplus + 1, Len(put))]
                /\ Mirrors(Ids(recalled) \cup (Ids(evicted) \ Mirrored("nowhere")), "warm")
             \/ /\ Fails /\ hot' = [hot EXCEPT ![p] = put]
                /\ Mirrors(Ids(recalled) \cap Mirrored("nowhere"), "hot")
    /\ Goto(c, "done")
    /\ UNCHANGED <<row, cold, tierLock, forgotten, entrusted, contended>>

RecallNothing(c) ==
    /\ At(c, "mirror") /\ tcall[c].took = {}
    /\ Goto(c, "done")
    /\ UNCHANGED <<row, hot, file, cache, cold, tierLock, tierFaults, forgotten, entrusted, contended, mirrored>>

-----------------------------------------------------------------------------
(* forget: the row, and only when there was one the tiers of this process   *)
(* and the files (remove_entry_from_tiers).                                 *)
ForgetRow(c) ==
    LET e == EntryOf[c] IN
    /\ Begins(c, "forget")
    /\ \/ row[e] = None /\ Goto(c, "done") /\ UNCHANGED <<row, entrusted>>
       \/ /\ row[e] # None
          /\ row' = [row EXCEPT ![e] = None] /\ entrusted' = entrusted \ {e}
          /\ Goto(c, "copies")
    /\ Moves(c, e)
    /\ UNCHANGED <<hot, file, cache, cold, tierLock, tierFaults, forgotten, mirrored>>

ForgetCopies(c) ==
    LET e == EntryOf[c]
        p == Runs[c]
    IN
    /\ At(c, "copies") /\ Locks(c)
    /\ hot' = [hot EXCEPT ![p] = Without(@, {e})]
    /\ purge_sidecar_entry(p, e)
    /\ Mirrors({e}, "nowhere")
    /\ Goto(c, "archived")
    /\ UNCHANGED <<row, cold, tierFaults, forgotten, entrusted, contended>>

StoringNow(e) == \E d \in TierCall : EntryOf[d] = e /\ tcall[d].at \in {"hot", "own"}

cold_remove(c) ==
    LET e == EntryOf[c] IN
    /\ At(c, "archived")
    /\ cold' = [cold EXCEPT ![e] = None]
    /\ forgotten' = IF row[e] = None /\ ~StoringNow(e) THEN forgotten \cup {e} ELSE forgotten
    /\ Unlocks(c) /\ Goto(c, "done")
    /\ UNCHANGED <<row, hot, file, cache, tierFaults, entrusted, contended, mirrored>>

-----------------------------------------------------------------------------
(* cold_archive_entry: the archive file, then the warm copy, then the row;  *)
(* a cleanup that is not confirmed takes the file back.                     *)
ArchiveWrite(c) ==
    LET e == EntryOf[c] IN
    /\ Begins(c, "archive") /\ row[e] # None
    /\ cold' = [cold EXCEPT ![e] = row[e]]
    /\ tcall' = [tcall EXCEPT ![c].at = "warm", ![c].took = {Copy(e, row[e])}]
    /\ Moves(c, e)
    /\ UNCHANGED <<row, hot, file, cache, tierLock, tierFaults, forgotten, entrusted, mirrored>>

ArchiveWarm(c) ==
    LET e == EntryOf[c] IN
    /\ At(c, "warm")
    /\ purge_sidecar_entry(Runs[c], e)
    /\ \/ Goto(c, "source") /\ UNCHANGED <<cold, tierFaults>>
       \/ /\ Room /\ tierFaults < MAX_TIER_FAULTS /\ tierFaults' = tierFaults + 1
          /\ cold' = [cold EXCEPT ![e] = None]
          /\ Goto(c, "done")
    /\ Mirrors({e}, "nowhere")
    /\ UNCHANGED <<row, hot, tierLock, forgotten, entrusted, contended>>

ArchiveSource(c) ==
    LET e == EntryOf[c] IN
    /\ At(c, "source")
    /\ \/ row' = [row EXCEPT ![e] = None] /\ UNCHANGED <<file, cache, cold, tierFaults, mirrored>>
       \/ /\ Room /\ tierFaults < MAX_TIER_FAULTS /\ tierFaults' = tierFaults + 1
          /\ cold' = [cold EXCEPT ![e] = None]
          /\ _warm_sidecar_upsert_many(Runs[c], SetToSeq(tcall[c].took))
          /\ Mirrors({e}, "warm") /\ UNCHANGED row
    /\ Goto(c, "done")
    /\ UNCHANGED <<hot, tierLock, forgotten, entrusted, contended>>

-----------------------------------------------------------------------------
(* A kill of a process: its calls end, what it kept in memory is gone.  One *)
(* that was appending to the sidecar may leave a part of a line, or a line  *)
(* without its newline.                                                     *)
KillCall(p) ==
    /\ Room /\ tierFaults < MAX_TIER_FAULTS /\ tierFaults' = tierFaults + 1
    /\ \E c \in TierCall : Runs[c] = p /\ ~At(c, "idle") /\ ~At(c, "done")
    /\ hot' = [hot EXCEPT ![p] = <<>>]
    /\ cache' = [cache EXCEPT ![p] = NoParse]
    /\ tierLock' = [tierLock EXCEPT ![p] = None]
    /\ tcall' = [c \in TierCall |-> IF Runs[c] = p /\ ~At(c, "idle")
                                    THEN [tcall[c] EXCEPT !.at = "done"] ELSE tcall[c]]
    /\ Mirrors(Ids(hot[p]) \cap Mirrored("hot"), "nowhere")
    /\ UNCHANGED <<row, cold, forgotten, entrusted, contended>>

Kill(p) == UNCHANGED file /\ KillCall(p)

KillAppending(p) ==
    /\ \E c \in TierCall :
          /\ Runs[c] = p /\ At(c, "own") /\ ~Rewrites(p, <<Copy(EntryOf[c], c)>>)
          /\ \E line \in {Torn, Copy(EntryOf[c], c)} :
                file' = [file EXCEPT !.lines = Append(@, line), !.torn = TRUE]
    /\ KillCall(p)

-----------------------------------------------------------------------------
TierInit ==
    /\ row = [e \in Entry |-> None]
    /\ hot = [p \in TierProcess |-> <<>>]
    /\ file = NoFile
    /\ cache = [p \in TierProcess |-> NoParse]
    /\ cold = [e \in Entry |-> None]
    /\ tierLock = [p \in TierProcess |-> None]
    /\ tcall = [c \in TierCall |-> [at |-> "idle", took |-> {}, moves |-> Torn, tried |-> {}]]
    /\ tierFaults = 0
    /\ forgotten = {} /\ entrusted = {} /\ contended = {} /\ mirrored = [e \in Entry |-> "nowhere"]

TierStep(c) ==
    \/ StoreRow(c) \/ hot_put(c) \/ remember_entry_in_tiers(c)
    \/ RecallRows(c) \/ warmup_tier_manager(c) \/ search(c)
    \/ PromoteStore(c) \/ PromoteWarm(c) \/ PromoteUnlink(c) \/ TiersSearched(c)
    \/ remember_entries_data_in_tiers(c) \/ RecallNothing(c)
    \/ ForgetRow(c) \/ ForgetCopies(c) \/ cold_remove(c)
    \/ ArchiveWrite(c) \/ ArchiveWarm(c) \/ ArchiveSource(c)

TierNext ==
    \/ \E c \in TierCall : TierStep(c)
    \/ \E p \in TierProcess : Kill(p) \/ KillAppending(p)

TierSpec == TierInit /\ [][TierNext]_tierVars

-----------------------------------------------------------------------------
(* A parse a process kept is the parse of the file it is keyed to, though   *)
(* appends extend it without reading the file; and no line a reader can     *)
(* parse has a text its entry's last line does not have: a change of a text *)
(* rewrites the file, whatever fragments a kill left in it.                 *)
CacheIsFile ==
    \A p \in TierProcess :
        cache[p].key = sidecar_key(file) => cache[p].parsed = parse_sidecar(file)

NoStaleLine ==
    \A n, m \in DOMAIN file.lines :
        file.lines[n].id = file.lines[m].id => file.lines[n] = file.lines[m]

SidecarExact == CacheIsFile /\ NoStaleLine

(* An entry that was stored and not forgotten has its row or its archive    *)
(* file at every moment of an archival or a restoration and of their        *)
(* rollbacks, unless two calls moved it at once; and an id that a write put *)
(* in warm is there until it is removed, whatever write, eviction or kill   *)
(* came between, and one whose warm write failed is in hot at least, until  *)
(* its process dies or hot_put drops it because its demotion failed too.    *)
EntryKept == \A e \in entrusted \ contended : row[e] # None \/ cold[e] # None

MirrorKept ==
    /\ \A e \in Mirrored("warm") : HasLine(parse_sidecar(file).live, e)
    /\ \A e \in Mirrored("hot") : \E p \in TierProcess : e \in Ids(hot[p])

CopiesKept == EntryKept /\ MirrorKept

(* A forget that has finished leaves no copy of its entry in any tier.      *)
ErasedEverywhere ==
    \A e \in forgotten :
        /\ cold[e] = None /\ ~HasLine(parse_sidecar(file).live, e)
        /\ \A p \in TierProcess : e \notin Ids(hot[p])
=============================================================================
