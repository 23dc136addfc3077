------------------------------- MODULE Dedup --------------------------------
(***************************************************************************)
(* Duplicates (lifecycle/dedup.py): check_duplicate, which says what to do *)
(* with one incoming entry, merge_entries, and batch_dedup, which goes     *)
(* over a list once, pair by pair, with the same thresholds.               *)
(*                                                                         *)
(* Cosines are in thousandths, on the scale of the encoder.  An entry's    *)
(* tags stand for everything a merge unites, its count for what it adds    *)
(* up; trust is its confidence, earned whether its evidence supports a     *)
(* verified one, label its sensitivity stamp.  A merge appends the text it *)
(* absorbs to the survivor's detail unless it is there already: `grown`.   *)
(* `sim` is of the texts as they were listed, which is what one pass reads.*)
(***************************************************************************)
EXTENDS Integers, FiniteSets, FiniteSetsExt

CONSTANTS
    LAST,              \* entries are 1..LAST, in the order of the list
    Sims,              \* cosines of two entries
    Configs,           \* [skip, merge]: thresholds a configuration may hold, on the reference scale
    Marks              \* [status, trust, earned, label] of an entry

VARIABLES
    sim, usable, cfg, encoder,  \* {d, e} -> cosine; the entries that have a vector; thresholds; the model
    original, updated,          \* original_map, updated_map: entry -> [status, tags, count, grown, ...]
    skipped,                    \* skipped_ids: entry -> the survivor, 0 when it is none
    place,                      \* [i, j]: the pair to compare
    dedup, changed              \* "ready", "running", "completed" or "skipped"; updated_entries

dedupVars == <<sim, usable, cfg, encoder, original, updated, skipped, place, dedup, changed>>

Listed == 1..LAST

SAME == 1000           \* the cosine of a text with itself
VERIFIED == 2

-----------------------------------------------------------------------------
(* Thresholds.                                                             *)

(* calibrated_threshold: the anchors of bge are those of the source; the    *)
(* reference encoder keeps a value.                                        *)
Calibrated(threshold) ==
    IF encoder = "reference" THEN threshold
    ELSE CASE threshold <= 750 -> 745 + ((threshold - 500) * 145) \div 250
           [] threshold <= 850 -> 890
           [] threshold <= 900 -> 890 + ((threshold - 850) * 55) \div 50
           [] threshold <= 950 -> 945 + ((threshold - 900) * 35) \div 50
           [] OTHER -> 980 + ((threshold - 950) * 20) \div 50

Valid == IF cfg.merge >= cfg.skip THEN [skip |-> 950, merge |-> 850] ELSE cfg

Skip == Calibrated(Valid.skip)

MergeAt == Calibrated(Valid.merge)

Sim(d, e) == sim[{d, e}]

-----------------------------------------------------------------------------
(* check_duplicate                                                         *)

Active(entries) == {e \in Listed : entries[e].status = "active"}

(* Without a vector: an entry whose text is the same.                       *)
LexicalDuplicate(new, among) == \E e \in among \ {new} : Sim(new, e) = SAME

(* The first of the active entries that is nearest.                        *)
Best(new, among) ==
    LET nearest == Max({Sim(new, e) : e \in among})
    IN  Min({e \in among : Sim(new, e) = nearest})

CheckDuplicate(new, entries) ==
    LET among == (Active(entries) \cap usable) \ {new}
        best == Best(new, among)
    IN  IF new \notin usable THEN IF LexicalDuplicate(new, Active(entries)) THEN "merge" ELSE "store"
        ELSE IF among = {} THEN "store"
        ELSE IF Sim(new, best) >= Skip THEN "skip"
        ELSE IF Sim(new, best) >= MergeAt THEN "merge" ELSE "store"

-----------------------------------------------------------------------------
(* merge_entries                                                           *)

Trust(kept, new) ==
    LET strongest == IF new.trust > kept.trust THEN new.trust ELSE kept.trust
    IN  IF strongest = VERIFIED /\ ~kept.earned THEN kept.trust ELSE strongest

Merged(kept, new, appended) ==
    [kept EXCEPT !.tags = @ \cup new.tags, !.count = @ + new.count, !.trust = Trust(kept, new),
                 !.label = IF new.label > @ THEN new.label ELSE @, !.grown = @ \/ appended]

-----------------------------------------------------------------------------
(* batch_dedup                                                             *)

Begin ==
    /\ dedup = "ready" /\ dedup' = "running"
    /\ place' = [i |-> 1, j |-> 2]
    /\ UNCHANGED <<sim, usable, cfg, encoder, original, updated, skipped, changed>>

(* No embedder: nothing is done.                                           *)
Unavailable ==
    /\ dedup = "ready" /\ dedup' = "skipped"
    /\ UNCHANGED <<sim, usable, cfg, encoder, original, updated, skipped, place, changed>>

Usable(e) == e \in usable /\ original[e].status = "active"

(* Mutant: an entry that another has absorbed is compared again.           *)
StillListed(e) == Usable(e)

Open(e) == Usable(e) /\ skipped[e] = 0

Running == dedup = "running" /\ UNCHANGED <<sim, usable, cfg, encoder, original, dedup, changed>>

Pair == place.i < LAST /\ place.j <= LAST /\ Open(place.i) /\ Open(place.j)

NextPair == place' = [place EXCEPT !.j = @ + 1]

Retire(entries, e) == [entries EXCEPT ![e].status = "obsolete"]

Obsolete ==
    /\ Running /\ Pair /\ Sim(place.i, place.j) >= Skip
    /\ updated' = Retire(updated, place.j)
    /\ skipped' = [skipped EXCEPT ![place.j] = place.i]
    /\ NextPair

Merge ==
    /\ Running /\ Pair /\ Sim(place.i, place.j) < Skip /\ Sim(place.i, place.j) >= MergeAt
    /\ \E appended \in BOOLEAN :
          updated' = Retire([updated EXCEPT ![place.i] = Merged(@, original[place.j], appended)], place.j)
    /\ skipped' = [skipped EXCEPT ![place.j] = place.i]
    /\ NextPair

PassPair ==
    /\ Running /\ place.i < LAST /\ place.j <= LAST /\ Open(place.i)
    /\ Open(place.j) => Sim(place.i, place.j) < MergeAt /\ Sim(place.i, place.j) < Skip
    /\ NextPair /\ UNCHANGED <<updated, skipped>>

NextEntry ==
    /\ Running /\ place.i < LAST /\ (place.j > LAST \/ ~Open(place.i))
    /\ place' = [i |-> place.i + 1, j |-> place.i + 2]
    /\ UNCHANGED <<updated, skipped>>

Changes == {e \in Active(original) : updated[e] # original[e]}

Collect ==
    /\ dedup = "running" /\ place.i = LAST
    /\ dedup' = "completed" /\ changed' = Changes
    /\ UNCHANGED <<sim, usable, cfg, encoder, original, updated, skipped, place>>

-----------------------------------------------------------------------------
DedupInit ==
    /\ sim \in [{p \in SUBSET Listed : Cardinality(p) = 2} -> Sims]
    /\ usable \in {u \in SUBSET Listed : Cardinality(u) + 1 >= LAST}
    /\ cfg \in Configs /\ encoder \in {"reference", "bge"}
    /\ \E marks \in [Listed -> Marks] :
          original = [e \in Listed |-> [status |-> marks[e].status, tags |-> {e}, count |-> 1, trust |-> marks[e].trust,
                                        earned |-> marks[e].earned, label |-> marks[e].label, grown |-> FALSE]]
    /\ updated = original /\ skipped = [e \in Listed |-> 0]
    /\ place = [i |-> 1, j |-> 2] /\ dedup = "ready" /\ changed = {}

DedupNext == Begin \/ Unavailable \/ Obsolete \/ Merge \/ PassPair \/ NextEntry \/ Collect

DedupSpec == DedupInit /\ [][DedupNext]_dedupVars

-----------------------------------------------------------------------------
(* What the caller has when it writes updated_entries over its list.        *)
Written == [e \in Listed |-> IF e \in changed THEN updated[e] ELSE original[e]]

(* The entries left that no merge has given another text, and thereby       *)
(* another vector.                                                          *)
AsListed == [e \in Listed |-> IF Written[e].grown THEN Retire(Written, e)[e] ELSE Written[e]]

(* One pass is enough for the texts it was given, and its two entry points  *)
(* agree: no two entries left were duplicates of each other as they were    *)
(* listed, and check_duplicate would now store each of those whose text is  *)
(* still the same among the others, with an embedder and without.           *)
PassIsWhole ==
    dedup = "completed" =>
        /\ \A d, e \in Active(Written) \cap usable : d # e => Sim(d, e) < MergeAt /\ Sim(d, e) < Skip
        /\ \A e \in Active(AsListed) \cap usable :
              CheckDuplicate(e, AsListed) = "store" /\ ~LexicalDuplicate(e, Active(AsListed) \cap usable)

(* Every entry a pass retired has an active entry that stands for it, and   *)
(* what was merged is in it, once.                                          *)
RetiredAreCovered ==
    dedup = "completed" => \A e \in Active(original) :
        /\ skipped[e] # 0 => Written[skipped[e]].status = "active" /\ Written[e].status = "obsolete"
        /\ skipped[e] # 0 /\ Sim(e, skipped[e]) < Skip =>
              e \in Written[skipped[e]].tags /\ Written[skipped[e]].label >= original[e].label
        /\ skipped[e] = 0 => Written[e].status = "active" /\ Written[e].count = Cardinality(Written[e].tags)

(* A merge gives no entry a verified confidence its evidence does not earn. *)
TrustIsEarned == \A e \in Listed : updated[e].trust = VERIFIED => updated[e].earned

DedupSound == PassIsWhole /\ RetiredAreCovered /\ TrustIsEarned
=============================================================================
