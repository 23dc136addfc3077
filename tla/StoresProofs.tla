---------------------------- MODULE StoresProofs ----------------------------
(***************************************************************************)
(* Proofs about what is stored and shared: the store of one file per row   *)
(* (YamlStore), the import of a checkout (CheckoutImport), the life of a   *)
(* team's namespace (TeamSpaces) and the models that threads load and      *)
(* share (EmbedCache).                                                     *)
(*                                                                         *)
(* Each part proves its module's inductive invariant, one lemma per action,*)
(* and derives the property from it: FilesAreKept, ImportIsSound,          *)
(* TeamIsSound and ProvidersAreSound.                                      *)
(***************************************************************************)
EXTENDS YamlStore, CheckoutImport, TeamSpaces, EmbedCache, FiniteSetTheorems, TLAPS

-----------------------------------------------------------------------------
(* The store of one file per id: its calls, and the rows they write         *)

LEMMA CallIs ==
    ASSUME NEW c \in FileCall
    PROVE  /\ c # Nothing /\ Does[c].id \in FileId /\ Does[c].ns \in FileValue \ {Nothing}
           /\ Does[c].text \in FileValue /\ Does[c].claim \in FileValue /\ Does[c].note \in FileValue
           /\ Does[c].kind \in {"store", "touch", "update", "delete", "list", "purge"}
  BY YamlStoreAssumption

LEMMA RowIs ==
    ASSUME NEW r \in StoredRow
    PROVE  /\ r # NoFile /\ r.ns \in FileValue \ {Nothing} /\ r.count \in Nat
           /\ DOMAIN r = {"ns", "text", "claim", "note", "count", "whole"}
  <1>1. r.ns # Nothing /\ NoFile.ns = Nothing
    BY DEF StoredRow, NoFile
  <1> QED
    BY <1>1 DEF StoredRow

LEMMA FileIs ==
    ASSUME FileTypeOK, NEW id \in FileId
    PROVE  /\ Exists(id) <=> files[id] \in StoredRow
           /\ ~Exists(id) => files[id] = NoFile
  BY RowIs DEF FileTypeOK, Exists

LEMMA EnteredIs ==
    ASSUME NEW c \in FileCall
    PROVE  /\ Entered(c) \in StoredRow /\ Entered(c).claim = Does[c].claim /\ Entered(c).text = Does[c].text
           /\ Entered(c).ns = Does[c].ns
  BY CallIs DEF Entered, StoredRow

(* A change of what a call has done so far. *)
Steps == {"idle", "write", "found", "lock", "rewrite", "unlink", "read", "purge", "done", "killed"}

Progress == [at : Steps, seen : StoredRow \cup {NoFile}, todo : SUBSET FileId,
             found : SUBSET (StoredRow \cup [id : FileId, row : StoredRow])]

LEMMA Doing ==
    ASSUME FileTypeOK
    PROVE  /\ doing \in [FileCall -> Progress]
           /\ \A c \in FileCall :
                 /\ doing[c] \in Progress /\ doing[c].at \in Steps /\ doing[c].seen \in StoredRow \cup {NoFile}
                 /\ doing[c].todo \subseteq FileId
                 /\ doing[c].found \subseteq StoredRow \cup [id : FileId, row : StoredRow]
  BY DEF FileTypeOK, Progress, Steps

LEMMA Moving ==
    ASSUME FileTypeOK, NEW c \in FileCall, NEW step \in Steps, Moves(c, step)
    PROVE  /\ doing' \in [FileCall -> Progress] /\ \A d \in FileCall : d # c => doing'[d] = doing[d]
           /\ doing'[c].at = step /\ doing'[c].seen = doing[c].seen
           /\ doing'[c].todo = doing[c].todo /\ doing'[c].found = doing[c].found
  <1>1. doing' = [doing EXCEPT ![c] = [doing[c] EXCEPT !.at = step]] /\ doing \in [FileCall -> Progress]
        /\ doing[c] \in Progress
    BY Doing DEF Moves
  <1>2. [doing[c] EXCEPT !.at = step] \in Progress
    BY <1>1 DEF Progress
  <1> QED
    BY <1>1, <1>2 DEF Progress

(* What an update sets. *)
LEMMA WantedIs ==
    ASSUME FileTypeOK, NEW c \in FileCall, Does[c].kind = "touch" => doing[c].seen \in StoredRow
    PROVE  /\ DOMAIN Wanted(c) \subseteq {"ns", "text", "claim", "note", "count"}
           /\ "ns" \in DOMAIN Wanted(c) => Wanted(c)["ns"] \in FileValue \ {Nothing}
           /\ "text" \in DOMAIN Wanted(c) => Wanted(c)["text"] \in FileValue
           /\ "claim" \in DOMAIN Wanted(c) => Wanted(c)["claim"] \in FileValue
           /\ "note" \in DOMAIN Wanted(c) => Wanted(c)["note"] \in FileValue
           /\ "count" \in DOMAIN Wanted(c) => Wanted(c)["count"] \in Nat
  <1>1. CASE Does[c].kind = "touch"
    <2>1. Wanted(c) = [ns |-> Does[c].ns, count |-> doing[c].seen.count + 1]
      BY <1>1 DEF Wanted
    <2>2. doing[c].seen.count + 1 \in Nat /\ Does[c].ns \in FileValue \ {Nothing}
      BY <1>1, RowIs, CallIs
    <2>3. DOMAIN Wanted(c) = {"ns", "count"} /\ Wanted(c)["ns"] = Does[c].ns
          /\ Wanted(c)["count"] = doing[c].seen.count + 1
      BY <2>1
    <2> QED
      BY <2>2, <2>3
  <1>2. CASE Does[c].kind # "touch"
    <2>1. Wanted(c) = [f \in {g \in {"ns", "text", "claim", "note"} : Does[c][g] # Nothing} |-> Does[c][f]]
      BY <1>2 DEF Wanted
    <2> QED
      BY <2>1, CallIs
  <1> QED
    BY <1>1, <1>2

(* The row an update makes of another. *)
LEMMA AppliedIs ==
    ASSUME FileTypeOK, NEW c \in FileCall, Does[c].kind = "touch" => doing[c].seen \in StoredRow,
           NEW r \in StoredRow
    PROVE  /\ Applied(r, Wanted(c)) \in StoredRow
           /\ \A f \in DOMAIN Wanted(c) : Applied(r, Wanted(c))[f] = Wanted(c)[f]
           /\ \A f \in {"ns", "text", "claim", "note", "count"} \ DOMAIN Wanted(c) : Applied(r, Wanted(c))[f] = r[f]
  <1> DEFINE change == Wanted(c)
             new == Applied(r, change)
             old == Parsed(r)
  <1>1. /\ DOMAIN change \subseteq {"ns", "text", "claim", "note", "count"}
        /\ "ns" \in DOMAIN change => change["ns"] \in FileValue \ {Nothing}
        /\ "text" \in DOMAIN change => change["text"] \in FileValue
        /\ "claim" \in DOMAIN change => change["claim"] \in FileValue
        /\ "note" \in DOMAIN change => change["note"] \in FileValue
        /\ "count" \in DOMAIN change => change["count"] \in Nat
    BY WantedIs
  <1>2. old \in StoredRow /\ old.ns = r.ns /\ old.text = r.text /\ old.claim = r.claim /\ old.note = r.note
        /\ old.count = r.count /\ old.whole = TRUE
    BY DEF Parsed, StoredRow
  <1>3. new = [f \in DOMAIN r |-> IF f \in DOMAIN change THEN change[f] ELSE old[f]]
    BY DEF Applied
  <1>4. DOMAIN r = {"ns", "text", "claim", "note", "count", "whole"}
    BY RowIs
  <1> HIDE DEF change, new, old
  <1>5. \A f \in DOMAIN change : new[f] = change[f]
    BY <1>1, <1>3, <1>4
  <1>6. \A f \in {"ns", "text", "claim", "note", "count"} \ DOMAIN change : new[f] = r[f]
    BY <1>2, <1>3, <1>4
  <1>7. new \in StoredRow
    <2>1. new = [f \in {"ns", "text", "claim", "note", "count", "whole"} |->
                    IF f \in DOMAIN change THEN change[f] ELSE old[f]]
      BY <1>3, <1>4
    <2>2. old.ns \in FileValue \ {Nothing} /\ old.text \in FileValue /\ old.claim \in FileValue
          /\ old.note \in FileValue /\ old.count \in Nat /\ old.whole \in BOOLEAN
      BY <1>2 DEF StoredRow
    <2> QED
      BY <1>1, <2>1, <2>2 DEF StoredRow
  <1> QED
    BY <1>5, <1>6, <1>7 DEF change, new

-----------------------------------------------------------------------------
(* What a step of one call leaves the others *)

LEMMA WantedSame ==
    ASSUME NEW c \in FileCall, doing'[c] = doing[c]
    PROVE  Wanted(c)' = Wanted(c)
  BY DEF Wanted

(* A call that does nothing keeps its row, unless its lock goes. *)
LEMMA OthersKept ==
    ASSUME FileIInv, NEW d \in FileCall, doing'[d] = doing[d], oldClaims' = oldClaims,
           undecoded' \subseteq undecoded, DOMAIN steadyRows \subseteq DOMAIN steadyRows',
           CallAt(d, "rewrite") =>
              /\ locker'[Does[d].id] = d
              /\ owed'[Does[d].id] = owed[Does[d].id] \/ DOMAIN owed'[Does[d].id] = {}
    PROVE  StepKind(d)' /\ WriteHolds(d)'
  <1>1. StepKind(d) /\ WriteHolds(d) /\ Wanted(d)' = Wanted(d)
    BY WantedSame DEF FileIInv
  <1>2. StepKind(d)'
    BY <1>1 DEF StepKind, CallAt
  <1>3. ASSUME NEW row \in doing[d].found, Rewrites(d, row), CallAt(d, "rewrite")
        PROVE  Rewrites(d, row)'
    BY <1>1, <1>3 DEF Rewrites
  <1>4. WriteHolds(d)'
    BY <1>1, <1>3 DEF WriteHolds, CallAt
  <1> QED
    BY <1>2, <1>4

(* Listings, over steps that leave the steady rows where they are. *)
LEMMA ListingsKept ==
    ASSUME FileIInv, DOMAIN steadyRows' = DOMAIN steadyRows,
           NEW c \in FileCall, \A d \in FileCall : d # c => doing'[d] = doing[d],
           \A l \in DOMAIN steadyRows :
              /\ steadyRows'[l] \subseteq steadyRows[l]
              /\ \A id \in steadyRows'[l] : files'[id] = files[id] \/ (files'[id] # NoFile /\ files'[id].ns = Does[l].ns),
           c \in DOMAIN steadyRows => SteadyIsThere(c)',
           c \in DOMAIN steadyRows /\ Does[c].kind = "list" /\ CallAt(c, "done")' =>
              steadyRows'[c] \subseteq Ids(doing'[c].found)
    PROVE  (\A l \in DOMAIN steadyRows' : SteadyIsThere(l)') /\ ListsWhole'
  <1>1. ASSUME NEW l \in DOMAIN steadyRows, l # c
        PROVE  /\ SteadyIsThere(l)'
               /\ Does[l].kind = "list" /\ CallAt(l, "done")' => steadyRows'[l] \subseteq Ids(doing'[l].found)
    <2>1. l \in FileCall /\ doing'[l] = doing[l]
      BY <1>1 DEF FileIInv, FileTypeOK
    <2>2. /\ SteadyIsThere(l)
          /\ Does[l].kind = "list" /\ CallAt(l, "done") => steadyRows[l] \subseteq Ids(doing[l].found)
      BY DEF FileIInv, FilesKept, ListsWhole
    <2>3. SteadyIsThere(l)'
      BY <1>1, <2>1, <2>2 DEF SteadyIsThere, CallAt, LocateScoped, Exists, Admits, Ids
    <2>4. CallAt(l, "done")' = CallAt(l, "done") /\ Ids(doing'[l].found) = Ids(doing[l].found)
      BY <2>1 DEF CallAt
    <2> QED
      BY <2>2, <2>3, <2>4
  <1>2. \A l \in DOMAIN steadyRows' : SteadyIsThere(l)'
    BY <1>1
  <1>3. ListsWhole'
    <2> SUFFICES ASSUME NEW l \in DOMAIN steadyRows', Does[l].kind = "list", CallAt(l, "done")'
                 PROVE  steadyRows'[l] \subseteq Ids(doing'[l].found)
      BY DEF ListsWhole, Ids
    <2> QED
      BY <1>1
  <1> QED
    BY <1>2, <1>3

(* What is owed, and the evidence, where no file changes. *)
LEMMA FilesSame ==
    ASSUME FileIInv, UNCHANGED <<files, owed, undecoded, oldClaims>>
    PROVE  UpdatesCompose' /\ EvidenceGuarded'
  BY DEF FileIInv, FilesKept, UpdatesCompose, EvidenceGuarded, Exists

(* A step of one call that writes no file. *)
LEMMA QuietKept ==
    ASSUME FileIInv, NEW c \in FileCall, UNCHANGED <<files, owed, undecoded, oldClaims, steadyRows>>,
           doing' \in [FileCall -> Progress], \A d \in FileCall : d # c => doing'[d] = doing[d],
           locker' \in [FileId -> FileCall \cup {Nothing}],
           \A d \in FileCall : d # c /\ CallAt(d, "rewrite") => locker'[Does[d].id] = locker[Does[d].id],
           StepKind(c)', WriteHolds(c)', c \in DOMAIN steadyRows => SteadyIsThere(c)',
           c \in DOMAIN steadyRows /\ Does[c].kind = "list" /\ CallAt(c, "done")' =>
              steadyRows'[c] \subseteq Ids(doing'[c].found)
    PROVE  FileIInv'
  <1>1. FileTypeOK'
    BY DEF FileIInv, FileTypeOK, Progress, Steps
  <1>2. ASSUME NEW d \in FileCall, d # c PROVE StepKind(d)' /\ WriteHolds(d)'
    <2>1. doing'[d] = doing[d] /\ (CallAt(d, "rewrite") => locker[Does[d].id] = d)
      BY <1>2 DEF FileIInv, WriteHolds
    <2> QED
      BY <1>2, <2>1, OthersKept
  <1>3. (\A l \in DOMAIN steadyRows' : SteadyIsThere(l)') /\ ListsWhole'
    BY ListingsKept
  <1> QED
    BY <1>1, <1>2, <1>3, FilesSame DEF FileIInv, FilesKept

-----------------------------------------------------------------------------
(* Steps that write no file *)

LEMMA NotListing ==
    ASSUME FileIInv, NEW c \in FileCall, Does[c].kind \notin {"list", "purge"} \/ CallAt(c, "idle")
    PROVE  c \notin DOMAIN steadyRows
  BY DEF FileIInv, SteadyIsThere

LEMMA AtRest ==
    ASSUME NEW c \in FileCall, doing'[c].at \in {"done", "killed", "unlink"}
    PROVE  StepKind(c)' /\ WriteHolds(c)'
  BY DEF StepKind, WriteHolds, CallAt

LEMMA LockSame ==
    ASSUME FileIInv, locker' = locker
    PROVE  /\ locker' \in [FileId -> FileCall \cup {Nothing}]
           /\ \A d \in FileCall : CallAt(d, "rewrite") => locker'[Does[d].id] = locker[Does[d].id]
  BY DEF FileIInv, FileTypeOK

(* A claim that the evidence rule lets through was there. *)
LEMMA ClaimWasThere ==
    ASSUME FileIInv, NEW id \in FileId, Exists(id), NEW row, row.claim = "unsupported", ~NewViolation(files[id], row)
    PROVE  <<id, row.text>> \in oldClaims
  BY DEF FileIInv, FilesKept, EvidenceGuarded, NewViolation

LEMMA EndKept ==
    ASSUME FileIInv, NEW c \in FileCall, Does[c].kind \notin {"list", "purge"},
           UNCHANGED <<files, locker, owed, undecoded, oldClaims, steadyRows>>, Ends(c) \/ Moves(c, "unlink")
    PROVE  FileIInv'
  <1>1. PICK step \in {"done", "unlink"} : Moves(c, step)
    BY DEF Ends
  <1>2. /\ doing' \in [FileCall -> Progress] /\ \A d \in FileCall : d # c => doing'[d] = doing[d]
        /\ doing'[c].at = step
    BY <1>1, Moving DEF FileIInv, Steps
  <1> QED
    BY <1>2, AtRest, LockSame, NotListing, QuietKept

LEMMA StoreCheckKept == ASSUME FileIInv, NEW c \in FileCall, StoreCheck(c) PROVE FileIInv'
  <1> DEFINE id == Does[c].id
             existing == IF Exists(id) /\ files[id].ns = Does[c].ns THEN files[id] ELSE NoFile
  <1>1. /\ Does[c].kind = "store" /\ CallAt(c, "idle")
        /\ UNCHANGED <<files, locker, owed, undecoded, oldClaims, steadyRows>>
        /\ IF NewViolation(existing, Entered(c)) THEN Ends(c) ELSE Moves(c, "write")
    BY DEF StoreCheck, BeginCall
  <1>2. CASE Ends(c)
    BY <1>1, <1>2, EndKept
  <1>3. CASE Moves(c, "write") /\ ~NewViolation(existing, Entered(c))
    <2>1. /\ doing' \in [FileCall -> Progress] /\ \A d \in FileCall : d # c => doing'[d] = doing[d]
          /\ doing'[c].at = "write"
      BY <1>3, Moving DEF FileIInv, Steps
    <2>2. StepKind(c)'
      BY <2>1 DEF StepKind, CallAt
    <2>3. ASSUME Does[c].claim = "unsupported" PROVE <<id, Does[c].text>> \in oldClaims
      <3>1. Entered(c).claim = "unsupported" /\ Entered(c).text = Does[c].text /\ id \in FileId
        BY <2>3, EnteredIs, CallIs
      <3>2. existing # NoFile
        BY <1>3, <3>1 DEF NewViolation
      <3>3. Exists(id) /\ existing = files[id]
        BY <3>2
      <3> QED
        BY <1>3, <3>1, <3>3, ClaimWasThere
    <2>4. WriteHolds(c)'
      BY <1>1, <2>1, <2>3 DEF WriteHolds, CallAt
    <2> QED
      BY <1>1, <2>1, <2>2, <2>4, LockSame, NotListing, QuietKept
  <1> QED
    BY <1>1, <1>2, <1>3

LEMMA TouchReadKept == ASSUME FileIInv, NEW c \in FileCall, TouchRead(c) PROVE FileIInv'
  <1> DEFINE id == Does[c].id
  <1>1. /\ Does[c].kind = "touch" /\ UNCHANGED <<files, locker, owed, undecoded, oldClaims, steadyRows>>
        /\ \/ Ends(c)
           \/ Exists(id) /\ doing' = [doing EXCEPT ![c] = [@ EXCEPT !.at = "found", !.seen = files[id]]]
    BY DEF TouchRead, LocateScoped
  <1>2. CASE Ends(c)
    BY <1>1, <1>2, EndKept
  <1>3. CASE Exists(id) /\ doing' = [doing EXCEPT ![c] = [@ EXCEPT !.at = "found", !.seen = files[id]]]
    <2>1. files[id] \in StoredRow
      BY <1>3, FileIs, CallIs DEF FileIInv
    <2>2. /\ doing \in [FileCall -> Progress] /\ doing[c] \in Progress
          /\ doing' = [doing EXCEPT ![c] = [doing[c] EXCEPT !.at = "found", !.seen = files[id]]]
      BY <1>3, Doing DEF FileIInv
    <2>3. [doing[c] EXCEPT !.at = "found", !.seen = files[id]] \in Progress
      BY <2>1, <2>2 DEF Progress, Steps
    <2>4. /\ doing' \in [FileCall -> Progress] /\ \A d \in FileCall : d # c => doing'[d] = doing[d]
          /\ doing'[c].at = "found" /\ doing'[c].seen = files[id]
      BY <2>2, <2>3 DEF Progress
    <2>5. StepKind(c)' /\ WriteHolds(c)'
      BY <1>1, <2>1, <2>4 DEF StepKind, WriteHolds, CallAt
    <2> QED
      BY <1>1, <2>4, <2>5, LockSame, NotListing, QuietKept
  <1> QED
    BY <1>1, <1>2, <1>3

LEMMA UpdateStartKept == ASSUME FileIInv, NEW c \in FileCall, UpdateStart(c) PROVE FileIInv'
  <1>1. /\ Does[c].kind \in {"update", "touch"} /\ UNCHANGED <<files, locker, owed, undecoded, oldClaims, steadyRows>>
        /\ Ends(c) \/ Moves(c, "lock")
        /\ Does[c].kind = "touch" => CallAt(c, "found")
    BY DEF UpdateStart
  <1>2. CASE Ends(c)
    BY <1>1, <1>2, EndKept
  <1>3. CASE Moves(c, "lock")
    <2>1. /\ doing' \in [FileCall -> Progress] /\ \A d \in FileCall : d # c => doing'[d] = doing[d]
          /\ doing'[c].at = "lock" /\ doing'[c].seen = doing[c].seen
      BY <1>3, Moving DEF FileIInv, Steps
    <2>2. Does[c].kind = "touch" => doing[c].seen \in StoredRow
      BY <1>1 DEF FileIInv, StepKind
    <2>3. StepKind(c)' /\ WriteHolds(c)'
      BY <1>1, <2>1, <2>2 DEF StepKind, WriteHolds, CallAt
    <2> QED
      BY <1>1, <2>1, <2>3, LockSame, NotListing, QuietKept
  <1> QED
    BY <1>1, <1>2, <1>3

LEMMA UpdateReadKept == ASSUME FileIInv, NEW c \in FileCall, UpdateRead(c) PROVE FileIInv'
  <1> DEFINE id == Does[c].id
  <1>1. /\ CallAt(c, "lock") /\ locker[id] = Nothing /\ UNCHANGED <<files, owed, undecoded, oldClaims, steadyRows>>
        /\ \/ Ends(c) /\ UNCHANGED locker
           \/ /\ Exists(id) /\ ~RefusesUpdate(files[id], c)
              /\ doing' = [doing EXCEPT ![c] = [doing[c] EXCEPT !.at = "rewrite",
                                                              !.found = {Applied(files[id], Wanted(c))}]]
              /\ locker' = [locker EXCEPT ![id] = c]
    BY DEF UpdateRead, LockForRmw
  <1>2. Does[c].kind \in {"touch", "update"} /\ (Does[c].kind = "touch" => doing[c].seen \in StoredRow) /\ FileTypeOK
        /\ id \in FileId
    BY <1>1, CallIs DEF FileIInv, StepKind
  <1>3. CASE Ends(c) /\ UNCHANGED locker
    BY <1>1, <1>2, <1>3, EndKept
  <1>4. CASE /\ Exists(id) /\ ~RefusesUpdate(files[id], c)
             /\ doing' = [doing EXCEPT ![c] = [doing[c] EXCEPT !.at = "rewrite",
                                                             !.found = {Applied(files[id], Wanted(c))}]]
             /\ locker' = [locker EXCEPT ![id] = c]
    <2>1. files[id] \in StoredRow
      BY <1>2, <1>4, FileIs
    <2>2. PICK row \in StoredRow :
          /\ row = Applied(files[id], Wanted(c))
          /\ \A f \in DOMAIN Wanted(c) : row[f] = Wanted(c)[f]
          /\ \A f \in {"ns", "text", "claim", "note", "count"} \ DOMAIN Wanted(c) : row[f] = files[id][f]
      BY <1>2, <2>1, AppliedIs
    <2>3. files[id].whole /\ ~NewViolation(files[id], row)
      BY <1>4, <2>2 DEF RefusesUpdate, Partial
    <2>4. doing \in [FileCall -> Progress] /\ doing[c] \in Progress
      BY <1>2, Doing
    <2>5. [doing[c] EXCEPT !.at = "rewrite", !.found = {row}] \in Progress
      BY <2>2, <2>4 DEF Progress, Steps
    <2>6. /\ doing' \in [FileCall -> Progress] /\ \A d \in FileCall : d # c => doing'[d] = doing[d]
          /\ doing'[c].at = "rewrite" /\ doing'[c].seen = doing[c].seen /\ doing'[c].found = {row}
      BY <1>4, <2>2, <2>4, <2>5 DEF Progress
    <2>7. StepKind(c)'
      BY <1>2, <2>6 DEF StepKind, CallAt
    <2>8. Wanted(c)' = Wanted(c)
      BY <2>6 DEF Wanted
    <2>9. /\ locker' \in [FileId -> FileCall \cup {Nothing}] /\ locker'[id] = c
          /\ \A i \in FileId : i # id => locker'[i] = locker[i]
      BY <1>2, <1>4 DEF FileTypeOK
    <2>10. id \notin undecoded
      BY <2>3 DEF FileIInv, FilesKept, EvidenceGuarded
    <2>11. \A f \in DOMAIN owed[id] \ DOMAIN Wanted(c) : row[f] = owed[id][f]
      <3>1. \A f \in DOMAIN owed[id] : f \in {"ns", "text", "claim", "note", "count"} /\ files[id][f] = owed[id][f]
        BY <1>2 DEF FileTypeOK, FileIInv, FilesKept, UpdatesCompose
      <3> QED
        BY <2>2, <3>1
    <2>12. row.claim = "unsupported" => <<id, row.text>> \in oldClaims
      BY <1>2, <1>4, <2>3, ClaimWasThere
    <2>13. Rewrites(c, row)'
      BY <1>1, <2>2, <2>6, <2>8, <2>11, <2>12 DEF Rewrites
    <2>14. WriteHolds(c)'
      BY <1>1, <2>6, <2>9, <2>10, <2>13 DEF WriteHolds, CallAt
    <2>15. ASSUME NEW d \in FileCall, d # c, CallAt(d, "rewrite") PROVE locker'[Does[d].id] = locker[Does[d].id]
      <3>1. locker[Does[d].id] = d /\ Does[d].id \in FileId /\ d # Nothing
        BY <2>15, CallIs DEF FileIInv, WriteHolds
      <3> QED
        BY <1>1, <2>9, <3>1
    <2> QED
      BY <1>1, <1>2, <2>6, <2>7, <2>9, <2>14, <2>15, NotListing, QuietKept
  <1> QED
    BY <1>1, <1>3, <1>4

LEMMA DeleteFindKept == ASSUME FileIInv, NEW c \in FileCall, DeleteFind(c) PROVE FileIInv'
  BY EndKept DEF DeleteFind

LEMMA KillCallKept == ASSUME FileIInv, NEW c \in FileCall, KillCall(c) PROVE FileIInv'
  <1>1. /\ Moves(c, "killed") /\ UNCHANGED <<files, owed, undecoded, oldClaims, steadyRows>>
        /\ locker' = [id \in FileId |-> IF locker[id] = c THEN Nothing ELSE locker[id]] /\ ~CallAt(c, "idle")
    BY DEF KillCall
  <1>2. /\ doing' \in [FileCall -> Progress] /\ \A d \in FileCall : d # c => doing'[d] = doing[d]
        /\ doing'[c].at = "killed"
    BY <1>1, Moving DEF FileIInv, Steps
  <1>3. locker' \in [FileId -> FileCall \cup {Nothing}]
    BY <1>1 DEF FileIInv, FileTypeOK
  <1>4. ASSUME NEW d \in FileCall, d # c, CallAt(d, "rewrite") PROVE locker'[Does[d].id] = locker[Does[d].id]
    <2>1. locker[Does[d].id] = d /\ Does[d].id \in FileId
      BY <1>4, CallIs DEF FileIInv, WriteHolds
    <2> QED
      BY <1>1, <1>4, <2>1
  <1>5. c \in DOMAIN steadyRows => SteadyIsThere(c)'
    BY <1>1, <1>2 DEF FileIInv, SteadyIsThere, CallAt, LocateScoped, Exists, Admits
  <1> QED
    BY <1>1, <1>2, <1>3, <1>4, <1>5, AtRest, QuietKept DEF CallAt

-----------------------------------------------------------------------------
(* Steps that write files *)

(* A file written by a row that has what is owed then. *)
LEMMA WrittenKept ==
    ASSUME FileIInv, NEW id \in FileId, NEW row \in StoredRow, Written(id, row),
           row.claim = "unsupported" => <<id, row.text>> \in oldClaims,
           NEW debt, owed' = [owed EXCEPT ![id] = debt],
           DOMAIN debt \subseteq {"ns", "text", "claim", "note", "count"}, \A f \in DOMAIN debt : row[f] = debt[f],
           undecoded' = undecoded \ {id}, oldClaims' = oldClaims
    PROVE  /\ files' \in [FileId -> StoredRow \cup {NoFile}] /\ undecoded' \subseteq FileId /\ DOMAIN owed' = FileId
           /\ \A i \in FileId : DOMAIN owed'[i] \subseteq {"ns", "text", "claim", "note", "count"}
           /\ \A i \in FileId : i # id => owed'[i] = owed[i]
           /\ UpdatesCompose' /\ EvidenceGuarded'
           /\ DOMAIN steadyRows' = DOMAIN steadyRows
           /\ \A l \in DOMAIN steadyRows :
                 /\ steadyRows'[l] \subseteq steadyRows[l]
                 /\ \A i \in steadyRows'[l] : files'[i] = files[i] \/ (files'[i] # NoFile /\ files'[i].ns = Does[l].ns)
  <1>1. /\ files' \in [FileId -> StoredRow \cup {NoFile}] /\ files'[id] = row /\ row # NoFile
        /\ \A i \in FileId : i # id => files'[i] = files[i]
    BY RowIs DEF Written, FileIInv, FileTypeOK
  <1>2. /\ undecoded' \subseteq FileId /\ DOMAIN owed' = FileId /\ owed'[id] = debt
        /\ \A i \in FileId : i # id => owed'[i] = owed[i]
        /\ \A i \in FileId : DOMAIN owed'[i] \subseteq {"ns", "text", "claim", "note", "count"}
    BY DEF FileIInv, FileTypeOK
  <1>3. UpdatesCompose'
    BY <1>1, <1>2 DEF FileIInv, FilesKept, UpdatesCompose, Exists
  <1>4. EvidenceGuarded'
    BY <1>1, <1>2 DEF FileIInv, FileTypeOK, FilesKept, EvidenceGuarded, Exists
  <1>5. /\ DOMAIN steadyRows' = DOMAIN steadyRows
        /\ \A l \in DOMAIN steadyRows :
              /\ steadyRows'[l] \subseteq steadyRows[l] /\ steadyRows[l] \subseteq FileId
              /\ id \in steadyRows'[l] => row.ns = Does[l].ns
    BY DEF Written, FileIInv, FileTypeOK
  <1>6. ASSUME NEW l \in DOMAIN steadyRows, NEW i \in steadyRows'[l]
        PROVE  files'[i] = files[i] \/ (files'[i] # NoFile /\ files'[i].ns = Does[l].ns)
    BY <1>1, <1>5
  <1> QED
    BY <1>1, <1>2, <1>3, <1>4, <1>5, <1>6

LEMMA RemovedKept ==
    ASSUME FileIInv, NEW id \in FileId, Removed(id), oldClaims' = oldClaims
    PROVE  /\ files' \in [FileId -> StoredRow \cup {NoFile}] /\ undecoded' \subseteq undecoded /\ DOMAIN owed' = FileId
           /\ \A i \in FileId : DOMAIN owed'[i] \subseteq {"ns", "text", "claim", "note", "count"}
           /\ \A i \in FileId : owed'[i] = owed[i] \/ DOMAIN owed'[i] = {}
           /\ UpdatesCompose' /\ EvidenceGuarded'
           /\ DOMAIN steadyRows' = DOMAIN steadyRows
           /\ \A l \in DOMAIN steadyRows :
                 /\ steadyRows'[l] \subseteq steadyRows[l]
                 /\ \A i \in steadyRows'[l] : files'[i] = files[i]
  <1>1. /\ files' \in [FileId -> StoredRow \cup {NoFile}] /\ files'[id] = NoFile
        /\ \A i \in FileId : i # id => files'[i] = files[i]
    BY DEF Removed, FileIInv, FileTypeOK
  <1>2. /\ undecoded' = undecoded \ {id} /\ DOMAIN owed' = FileId /\ DOMAIN owed'[id] = {}
        /\ \A i \in FileId : i # id => owed'[i] = owed[i]
    BY DEF Removed, FileIInv, FileTypeOK
  <1>3. \A i \in FileId : DOMAIN owed'[i] \subseteq {"ns", "text", "claim", "note", "count"}
    BY <1>2 DEF FileIInv, FileTypeOK
  <1>4. UpdatesCompose'
    BY <1>1, <1>2 DEF FileIInv, FilesKept, UpdatesCompose, Exists
  <1>5. EvidenceGuarded'
    BY <1>1, <1>2 DEF FileIInv, FileTypeOK, FilesKept, EvidenceGuarded, Exists
  <1>6. /\ DOMAIN steadyRows' = DOMAIN steadyRows
        /\ \A l \in DOMAIN steadyRows :
              steadyRows'[l] = steadyRows[l] \ {id} /\ steadyRows[l] \subseteq FileId
    BY DEF Removed, FileIInv, FileTypeOK
  <1> QED
    BY <1>1, <1>2, <1>3, <1>4, <1>5, <1>6

LEMMA StoreWriteKept == ASSUME FileIInv, NEW c \in FileCall, StoreWrite(c) PROVE FileIInv'
  <1> DEFINE id == Does[c].id
             debt == [f \in {} |-> Nothing]
  <1>1. /\ Does[c].kind = "store" /\ CallAt(c, "write") /\ Written(id, Entered(c)) /\ Moves(c, "done")
        /\ owed' = [owed EXCEPT ![id] = debt] /\ undecoded' = undecoded \ {id} /\ UNCHANGED <<locker, oldClaims>>
    BY DEF StoreWrite, Ends
  <1>2. /\ id \in FileId /\ Entered(c) \in StoredRow /\ DOMAIN debt = {}
        /\ Entered(c).claim = "unsupported" => <<id, Entered(c).text>> \in oldClaims
    BY <1>1, EnteredIs, CallIs DEF FileIInv, WriteHolds
  <1> HIDE DEF debt
  <1>3. /\ files' \in [FileId -> StoredRow \cup {NoFile}] /\ undecoded' \subseteq FileId /\ DOMAIN owed' = FileId
        /\ \A i \in FileId : DOMAIN owed'[i] \subseteq {"ns", "text", "claim", "note", "count"}
        /\ \A i \in FileId : i # id => owed'[i] = owed[i]
        /\ UpdatesCompose' /\ EvidenceGuarded'
        /\ DOMAIN steadyRows' = DOMAIN steadyRows
        /\ \A l \in DOMAIN steadyRows :
              /\ steadyRows'[l] \subseteq steadyRows[l]
              /\ \A i \in steadyRows'[l] : files'[i] = files[i] \/ (files'[i] # NoFile /\ files'[i].ns = Does[l].ns)
    BY <1>1, <1>2, WrittenKept
  <1>4. /\ doing' \in [FileCall -> Progress] /\ \A d \in FileCall : d # c => doing'[d] = doing[d]
        /\ doing'[c].at = "done"
    BY <1>1, Moving DEF FileIInv, Steps
  <1>5. DOMAIN owed'[id] = {}
    BY <1>1, <1>2 DEF FileIInv, FileTypeOK
  <1>6. FileTypeOK'
    BY <1>1, <1>3, <1>4 DEF FileIInv, FileTypeOK, Progress, Steps
  <1>7. ASSUME NEW d \in FileCall, d # c PROVE StepKind(d)' /\ WriteHolds(d)'
    <2>1. CallAt(d, "rewrite") => locker'[Does[d].id] = d
      BY <1>1 DEF FileIInv, WriteHolds
    <2>2. Does[d].id \in FileId
      BY CallIs
    <2> QED
      BY <1>1, <1>3, <1>4, <1>5, <1>7, <2>1, <2>2, OthersKept
  <1>8. (\A l \in DOMAIN steadyRows' : SteadyIsThere(l)') /\ ListsWhole'
    BY <1>1, <1>3, <1>4, NotListing, ListingsKept
  <1> QED
    BY <1>3, <1>4, <1>6, <1>7, <1>8, AtRest DEF FileIInv, FilesKept

LEMMA UpdateWriteKept == ASSUME FileIInv, NEW c \in FileCall, UpdateWrite(c) PROVE FileIInv'
  <1> DEFINE id == Does[c].id
             debt == [f \in DOMAIN owed[id] \cup DOMAIN Wanted(c) |->
                         IF f \in DOMAIN Wanted(c) THEN Wanted(c)[f] ELSE owed[id][f]]
  <1>1. /\ CallAt(c, "rewrite") /\ Written(id, CHOOSE r \in doing[c].found : TRUE) /\ Moves(c, "done")
        /\ locker' = [locker EXCEPT ![id] = Nothing] /\ owed' = [owed EXCEPT ![id] = debt]
        /\ UNCHANGED <<undecoded, oldClaims>>
    BY DEF UpdateWrite, Ends
  <1>2. /\ Does[c].kind \in {"touch", "update"} /\ (Does[c].kind = "touch" => doing[c].seen \in StoredRow)
        /\ id \in FileId /\ locker[id] = c /\ id \notin undecoded /\ FileTypeOK
    BY <1>1, CallIs DEF FileIInv, StepKind, WriteHolds
  <1>3. PICK row \in doing[c].found : Rewrites(c, row)
    BY <1>1 DEF FileIInv, WriteHolds
  <1>4. (CHOOSE r \in doing[c].found : TRUE) = row
    <2>1. doing[c].found = {row}
      BY <1>3 DEF Rewrites
    <2>2. (CHOOSE r \in {row} : TRUE) \in {row}
      OBVIOUS
    <2> QED
      BY <2>1, <2>2
  <1>5. /\ Written(id, row) /\ row \in StoredRow
        /\ row.claim = "unsupported" => <<id, row.text>> \in oldClaims
    BY <1>1, <1>3, <1>4 DEF Rewrites
  <1>6. /\ DOMAIN debt \subseteq {"ns", "text", "claim", "note", "count"}
        /\ \A f \in DOMAIN debt : row[f] = debt[f]
    <2>1. DOMAIN Wanted(c) \subseteq {"ns", "text", "claim", "note", "count"}
      BY <1>2, WantedIs
    <2>2. DOMAIN owed[id] \subseteq {"ns", "text", "claim", "note", "count"}
      BY <1>2 DEF FileTypeOK
    <2>3. \A f \in DOMAIN Wanted(c) : row[f] = Wanted(c)[f]
      BY <1>3 DEF Rewrites
    <2>4. \A f \in DOMAIN owed[id] \ DOMAIN Wanted(c) : row[f] = owed[id][f]
      BY <1>3 DEF Rewrites
    <2> QED
      BY <2>1, <2>2, <2>3, <2>4
  <1>7. undecoded' = undecoded \ {id}
    BY <1>1, <1>2
  <1> HIDE DEF debt
  <1>8. /\ files' \in [FileId -> StoredRow \cup {NoFile}] /\ undecoded' \subseteq FileId /\ DOMAIN owed' = FileId
        /\ \A i \in FileId : DOMAIN owed'[i] \subseteq {"ns", "text", "claim", "note", "count"}
        /\ \A i \in FileId : i # id => owed'[i] = owed[i]
        /\ UpdatesCompose' /\ EvidenceGuarded'
        /\ DOMAIN steadyRows' = DOMAIN steadyRows
        /\ \A l \in DOMAIN steadyRows :
              /\ steadyRows'[l] \subseteq steadyRows[l]
              /\ \A i \in steadyRows'[l] : files'[i] = files[i] \/ (files'[i] # NoFile /\ files'[i].ns = Does[l].ns)
    BY <1>1, <1>2, <1>5, <1>6, <1>7, WrittenKept
  <1>9. /\ doing' \in [FileCall -> Progress] /\ \A d \in FileCall : d # c => doing'[d] = doing[d]
        /\ doing'[c].at = "done"
    BY <1>1, Moving DEF FileIInv, Steps
  <1>10. locker' \in [FileId -> FileCall \cup {Nothing}] /\ \A i \in FileId : i # id => locker'[i] = locker[i]
    BY <1>1, <1>2 DEF FileTypeOK
  <1>11. FileTypeOK'
    BY <1>2, <1>8, <1>9, <1>10 DEF FileTypeOK, Progress, Steps
  <1>12. ASSUME NEW d \in FileCall, d # c PROVE StepKind(d)' /\ WriteHolds(d)'
    <2>1. CallAt(d, "rewrite") => locker[Does[d].id] = d
      BY DEF FileIInv, WriteHolds
    <2>2. Does[d].id \in FileId /\ (CallAt(d, "rewrite") => Does[d].id # id)
      BY <1>2, <1>12, <2>1, CallIs
    <2> QED
      BY <1>1, <1>8, <1>9, <1>10, <1>12, <2>1, <2>2, OthersKept
  <1>13. (\A l \in DOMAIN steadyRows' : SteadyIsThere(l)') /\ ListsWhole'
    BY <1>2, <1>8, <1>9, NotListing, ListingsKept
  <1> QED
    BY <1>8, <1>9, <1>11, <1>12, <1>13, AtRest DEF FileIInv, FilesKept

(* A file removed by a call that goes on as it may. *)
LEMMA RemovalKept ==
    ASSUME FileIInv, NEW c \in FileCall, NEW id \in FileId, Removed(id), UNCHANGED <<locker, oldClaims>>,
           doing' \in [FileCall -> Progress], \A d \in FileCall : d # c => doing'[d] = doing[d],
           StepKind(c)', WriteHolds(c)',
           c \in DOMAIN steadyRows => Does[c].kind = "purge" /\ doing'[c].at = "purge"
    PROVE  FileIInv'
  <1>1. /\ files' \in [FileId -> StoredRow \cup {NoFile}] /\ undecoded' \subseteq undecoded /\ DOMAIN owed' = FileId
        /\ \A i \in FileId : DOMAIN owed'[i] \subseteq {"ns", "text", "claim", "note", "count"}
        /\ \A i \in FileId : owed'[i] = owed[i] \/ DOMAIN owed'[i] = {}
        /\ UpdatesCompose' /\ EvidenceGuarded'
        /\ DOMAIN steadyRows' = DOMAIN steadyRows
        /\ \A l \in DOMAIN steadyRows :
              /\ steadyRows'[l] \subseteq steadyRows[l]
              /\ \A i \in steadyRows'[l] : files'[i] = files[i]
    BY RemovedKept
  <1>2. FileTypeOK'
    BY <1>1 DEF FileIInv, FileTypeOK, Progress, Steps
  <1>3. ASSUME NEW d \in FileCall, d # c PROVE StepKind(d)' /\ WriteHolds(d)'
    <2>1. Does[d].id \in FileId /\ (CallAt(d, "rewrite") => locker'[Does[d].id] = d)
      BY CallIs DEF FileIInv, WriteHolds
    <2> QED
      BY <1>1, <1>3, <2>1, OthersKept
  <1>4. c \in DOMAIN steadyRows => SteadyIsThere(c)'
    BY <1>1 DEF FileIInv, SteadyIsThere, CallAt, LocateScoped, Exists, Admits
  <1>5. (\A l \in DOMAIN steadyRows' : SteadyIsThere(l)') /\ ListsWhole'
    BY <1>1, <1>4, ListingsKept
  <1> QED
    BY <1>1, <1>2, <1>3, <1>5 DEF FileIInv, FilesKept

LEMMA DeleteUnlinkKept == ASSUME FileIInv, NEW c \in FileCall, DeleteUnlink(c) PROVE FileIInv'
  <1>1. /\ Does[c].kind = "delete" /\ Moves(c, "done") /\ Removed(Does[c].id) /\ UNCHANGED <<locker, oldClaims>>
    BY DEF DeleteUnlink, Ends
  <1>2. /\ doing' \in [FileCall -> Progress] /\ \A d \in FileCall : d # c => doing'[d] = doing[d]
        /\ doing'[c].at = "done"
    BY <1>1, Moving DEF FileIInv, Steps
  <1> QED
    BY <1>1, <1>2, CallIs, AtRest, NotListing, RemovalKept

(* What a listing or a purge has still to do. *)
LEMMA TodoShrinks ==
    ASSUME FileTypeOK, NEW c \in FileCall, NEW rest \in SUBSET FileId, doing' = [doing EXCEPT ![c].todo = rest]
    PROVE  /\ doing' \in [FileCall -> Progress] /\ \A d \in FileCall : d # c => doing'[d] = doing[d]
           /\ doing'[c].at = doing[c].at /\ doing'[c].todo = rest /\ doing'[c].found = doing[c].found
  <1>1. doing' = [doing EXCEPT ![c] = [doing[c] EXCEPT !.todo = rest]] /\ doing \in [FileCall -> Progress]
        /\ doing[c] \in Progress
    BY Doing
  <1>2. [doing[c] EXCEPT !.todo = rest] \in Progress
    BY <1>1 DEF Progress
  <1> QED
    BY <1>1, <1>2 DEF Progress

LEMMA PurgeUnlinkKept == ASSUME FileIInv, NEW c \in FileCall, PurgeUnlink(c) PROVE FileIInv'
  <1>1. CallAt(c, "purge") /\ Does[c].kind = "purge" /\ FileTypeOK /\ UNCHANGED <<locker, oldClaims>>
    BY DEF PurgeUnlink, FileIInv, StepKind
  <1>2. ASSUME NEW id \in doing[c].todo, Removed(id), doing' = [doing EXCEPT ![c].todo = @ \ {id}] PROVE FileIInv'
    <2>1. id \in FileId /\ doing[c].todo \ {id} \in SUBSET FileId
      BY <1>1, Doing
    <2>2. doing' = [doing EXCEPT ![c].todo = doing[c].todo \ {id}]
      BY <1>2
    <2>3. /\ doing' \in [FileCall -> Progress] /\ \A d \in FileCall : d # c => doing'[d] = doing[d]
          /\ doing'[c].at = "purge"
      BY <1>1, <2>1, <2>2, TodoShrinks DEF CallAt
    <2>4. StepKind(c)' /\ WriteHolds(c)'
      BY <1>1, <2>3 DEF StepKind, WriteHolds, CallAt
    <2> QED
      BY <1>1, <1>2, <2>1, <2>3, <2>4, RemovalKept
  <1>3. CASE Ends(c) /\ UNCHANGED <<files, owed, undecoded, steadyRows>>
    <2>1. /\ doing' \in [FileCall -> Progress] /\ \A d \in FileCall : d # c => doing'[d] = doing[d]
          /\ doing'[c].at = "done"
      BY <1>1, <1>3, Moving DEF Ends, Steps
    <2>2. c \in DOMAIN steadyRows => SteadyIsThere(c)'
      BY <1>3, <2>1 DEF FileIInv, SteadyIsThere, CallAt, LocateScoped, Exists, Admits
    <2> QED
      BY <1>1, <1>3, <2>1, <2>2, AtRest, LockSame, QuietKept
  <1> QED
    BY <1>2, <1>3 DEF PurgeUnlink

-----------------------------------------------------------------------------
(* Listings *)

LEMMA ListBeginKept == ASSUME FileIInv, NEW c \in FileCall, ListBegin(c) PROVE FileIInv'
  <1> DEFINE there == {id \in FileId : Exists(id)}
             scoped == {id \in FileId : LocateScoped(id, Does[c].ns) /\ Admits(Does[c].ns, id)}
  <1>1. /\ Does[c].kind \in {"list", "purge"} /\ CallAt(c, "idle") /\ FileTypeOK /\ StepKind(c)
        /\ doing' = [doing EXCEPT ![c] = [doing[c] EXCEPT !.at = "read", !.todo = there]]
        /\ steadyRows' = [l \in DOMAIN steadyRows \cup {c} |-> IF l = c THEN scoped ELSE steadyRows[l]]
        /\ UNCHANGED <<files, locker, owed, undecoded, oldClaims>>
    BY DEF ListBegin, BeginCall, FileIInv
  <1>2. there \in SUBSET FileId /\ scoped \subseteq there
    BY DEF LocateScoped
  <1>3. \A id \in scoped : LocateScoped(id, Does[c].ns) /\ Admits(Does[c].ns, id)
    OBVIOUS
  <1> HIDE DEF there, scoped
  <1>4. doing \in [FileCall -> Progress] /\ doing[c] \in Progress
    BY <1>1, Doing
  <1>5. [doing[c] EXCEPT !.at = "read", !.todo = there] \in Progress
    BY <1>2, <1>4 DEF Progress, Steps
  <1>6. /\ doing' \in [FileCall -> Progress] /\ \A d \in FileCall : d # c => doing'[d] = doing[d]
        /\ doing'[c].at = "read" /\ doing'[c].todo = there /\ doing'[c].found = doing[c].found
    BY <1>1, <1>4, <1>5 DEF Progress
  <1>7. c \notin DOMAIN steadyRows
    BY <1>1, NotListing
  <1>8. /\ DOMAIN steadyRows' = DOMAIN steadyRows \cup {c} /\ steadyRows'[c] = scoped
        /\ \A l \in DOMAIN steadyRows : steadyRows'[l] = steadyRows[l]
    BY <1>1, <1>7
  <1>9. FileTypeOK'
    BY <1>1, <1>2, <1>6, <1>8 DEF FileTypeOK, Progress, Steps
  <1>10. StepKind(c)' /\ WriteHolds(c)'
    BY <1>1, <1>6, <1>8 DEF StepKind, WriteHolds, CallAt
  <1>11. ASSUME NEW d \in FileCall, d # c PROVE StepKind(d)' /\ WriteHolds(d)'
    <2>1. CallAt(d, "rewrite") => locker'[Does[d].id] = d
      BY <1>1 DEF FileIInv, WriteHolds
    <2> QED
      BY <1>1, <1>6, <1>8, <1>11, <2>1, OthersKept
  <1>12. SteadyIsThere(c)'
    BY <1>1, <1>2, <1>3, <1>6, <1>8 DEF SteadyIsThere, CallAt, LocateScoped, Exists, Admits
  <1>13. ASSUME NEW l \in DOMAIN steadyRows
         PROVE  /\ SteadyIsThere(l)'
                /\ Does[l].kind = "list" /\ CallAt(l, "done")' => steadyRows'[l] \subseteq Ids(doing'[l].found)
    <2>1. doing'[l] = doing[l] /\ steadyRows'[l] = steadyRows[l]
      BY <1>1, <1>6, <1>7, <1>8 DEF FileTypeOK
    <2>2. /\ SteadyIsThere(l)
          /\ Does[l].kind = "list" /\ CallAt(l, "done") => steadyRows[l] \subseteq Ids(doing[l].found)
      BY DEF FileIInv, FilesKept, ListsWhole
    <2> QED
      BY <1>1, <2>1, <2>2 DEF SteadyIsThere, CallAt, LocateScoped, Exists, Admits, Ids
  <1>14. ListsWhole'
    <2> SUFFICES ASSUME NEW l \in DOMAIN steadyRows', Does[l].kind = "list", CallAt(l, "done")'
                 PROVE  steadyRows'[l] \subseteq Ids(doing'[l].found)
      BY DEF ListsWhole, Ids
    <2>1. l # c
      BY <1>6 DEF CallAt
    <2> QED
      BY <1>8, <1>13, <2>1
  <1> QED
    BY <1>1, <1>8, <1>9, <1>10, <1>11, <1>12, <1>13, <1>14, FilesSame DEF FileIInv, FilesKept

(* The row that a listing answers. *)
LEMMA ServedIs ==
    ASSUME NEW r \in StoredRow
    PROVE  Served(Parsed(r)) \in StoredRow
  <1>1. Parsed(r) \in StoredRow
    BY DEF Parsed, StoredRow
  <1>2. [Parsed(r) EXCEPT !.claim = "demoted"] \in StoredRow
    BY <1>1, YamlStoreAssumption DEF StoredRow
  <1> QED
    BY <1>1, <1>2 DEF Served

LEMMA ListReadKept == ASSUME FileIInv, NEW c \in FileCall, ListRead(c) PROVE FileIInv'
  <1>1. PICK id \in doing[c].todo :
           doing' = [doing EXCEPT ![c].todo = ReadOver(c, id),
                                  ![c].found = @ \cup (IF Matches(c, id) THEN {[id |-> id, row |-> Served(Parsed(files[id]))]}
                                                       ELSE {})]
    BY DEF ListRead
  <1>2. /\ CallAt(c, "read") /\ UNCHANGED <<files, locker, owed, undecoded, oldClaims, steadyRows>> /\ FileTypeOK
        /\ StepKind(c) /\ c \in DOMAIN steadyRows /\ SteadyIsThere(c) /\ id \in FileId
        /\ doing \in [FileCall -> Progress] /\ doing[c] \in Progress
        /\ doing[c].found \subseteq [id : FileId, row : StoredRow]
    BY Doing DEF ListRead, FileIInv, StepKind
  <1> DEFINE given == IF Matches(c, id) THEN {[id |-> id, row |-> Served(Parsed(files[id]))]} ELSE {}
             rest == doing[c].todo \ {id}
  <1>3. given \subseteq [id : FileId, row : StoredRow] /\ (Matches(c, id) => id \in Ids(given))
    <2>1. CASE Matches(c, id)
      <3>1. files[id] \in StoredRow
        BY <1>2, <2>1, FileIs DEF Matches, LocateScoped
      <3>2. [id |-> id, row |-> Served(Parsed(files[id]))] \in [id : FileId, row : StoredRow]
        BY <1>2, <3>1, ServedIs
      <3> QED
        BY <2>1, <3>2 DEF Ids
    <2>2. CASE ~Matches(c, id)
      BY <2>2
    <2> QED
      BY <2>1, <2>2
  <1>4. doing' = [doing EXCEPT ![c] = [doing[c] EXCEPT !.todo = rest, !.found = doing[c].found \cup given]]
    BY <1>1, <1>2 DEF ReadOver
  <1>5. rest \subseteq FileId
    BY <1>2 DEF Progress
  <1>6. Matches(c, id) => id \in Ids(doing[c].found \cup given)
    BY <1>3 DEF Ids
  <1>7. Ids(doing[c].found) \subseteq Ids(doing[c].found \cup given)
    BY DEF Ids
  <1>8. doing[c].todo \subseteq rest \cup {id}
    OBVIOUS
  <1> HIDE DEF given, rest
  <1>9. [doing[c] EXCEPT !.todo = rest, !.found = doing[c].found \cup given] \in Progress
    BY <1>2, <1>3, <1>5 DEF Progress, Steps
  <1>10. /\ doing' \in [FileCall -> Progress] /\ \A d \in FileCall : d # c => doing'[d] = doing[d]
         /\ doing'[c].at = "read" /\ doing'[c].todo = rest /\ doing'[c].found = doing[c].found \cup given
    BY <1>2, <1>4, <1>9 DEF Progress, CallAt
  <1>11. StepKind(c)' /\ WriteHolds(c)'
    BY <1>2, <1>3, <1>10 DEF StepKind, WriteHolds, CallAt
  <1>12. id \in steadyRows[c] => Matches(c, id)
    BY <1>2 DEF SteadyIsThere, Matches
  <1>13. steadyRows[c] \subseteq Ids(doing[c].found) \cup doing[c].todo
    BY <1>2 DEF SteadyIsThere
  <1>14. steadyRows[c] \subseteq Ids(doing[c].found \cup given) \cup rest
    BY <1>6, <1>7, <1>8, <1>12, <1>13
  <1>15. Ids(doing'[c].found) = Ids(doing[c].found \cup given)
    BY <1>10
  <1>16. SteadyIsThere(c)'
    BY <1>2, <1>10, <1>14, <1>15 DEF SteadyIsThere, CallAt, LocateScoped, Exists, Admits, Ids
  <1> QED
    BY <1>2, <1>10, <1>11, <1>16, LockSame, QuietKept DEF CallAt

LEMMA ListEndKept == ASSUME FileIInv, NEW c \in FileCall, ListEnd(c) PROVE FileIInv'
  <1>1. /\ CallAt(c, "read") /\ doing[c].todo = {} /\ UNCHANGED <<files, locker, owed, undecoded, oldClaims, steadyRows>>
        /\ FileTypeOK /\ StepKind(c) /\ c \in DOMAIN steadyRows /\ SteadyIsThere(c)
        /\ doing \in [FileCall -> Progress] /\ doing[c] \in Progress
        /\ doing[c].found \subseteq [id : FileId, row : StoredRow]
    BY Doing DEF ListEnd, FileIInv, StepKind
  <1>2. steadyRows[c] \subseteq Ids(doing[c].found) /\ Ids(doing[c].found) \in SUBSET FileId
    BY <1>1 DEF SteadyIsThere, Ids
  <1>3. CASE Does[c].kind = "list" /\ Moves(c, "done")
    <2>1. /\ doing' \in [FileCall -> Progress] /\ \A d \in FileCall : d # c => doing'[d] = doing[d]
          /\ doing'[c].at = "done" /\ doing'[c].found = doing[c].found
      BY <1>1, <1>3, Moving DEF Steps
    <2>2. SteadyIsThere(c)'
      BY <1>1, <2>1 DEF SteadyIsThere, CallAt, LocateScoped, Exists, Admits
    <2>3. steadyRows'[c] \subseteq Ids(doing'[c].found)
      BY <1>1, <1>2, <2>1
    <2> QED
      BY <1>1, <2>1, <2>2, <2>3, AtRest, LockSame, QuietKept
  <1>4. CASE /\ Does[c].kind # "list"
             /\ doing' = [doing EXCEPT ![c] = [@ EXCEPT !.at = "purge", !.todo = Ids(doing[c].found)]]
    <2>1. doing' = [doing EXCEPT ![c] = [doing[c] EXCEPT !.at = "purge", !.todo = Ids(doing[c].found)]]
      BY <1>4
    <2>2. [doing[c] EXCEPT !.at = "purge", !.todo = Ids(doing[c].found)] \in Progress
      BY <1>1, <1>2 DEF Progress, Steps
    <2>3. /\ doing' \in [FileCall -> Progress] /\ \A d \in FileCall : d # c => doing'[d] = doing[d]
          /\ doing'[c].at = "purge"
      BY <1>1, <2>1, <2>2 DEF Progress
    <2>4. Does[c].kind = "purge"
      BY <1>1, <1>4 DEF SteadyIsThere
    <2>5. StepKind(c)' /\ WriteHolds(c)'
      BY <2>3, <2>4 DEF StepKind, WriteHolds, CallAt
    <2>6. SteadyIsThere(c)'
      BY <1>1, <2>3 DEF SteadyIsThere, CallAt, LocateScoped, Exists, Admits
    <2> QED
      BY <1>1, <1>4, <2>3, <2>5, <2>6, LockSame, QuietKept
  <1> QED
    BY <1>3, <1>4 DEF ListEnd, Ends

-----------------------------------------------------------------------------
LEMMA FileInitKept == ASSUME FileInit PROVE FileIInv
  <1>1. files \in [FileId -> StoredRow \cup {NoFile}]
    BY YamlStoreAssumption DEF FileInit
  <1>2. IdleCall \in Progress /\ IdleCall.at = "idle" /\ IdleCall.found = {}
    BY DEF IdleCall, Progress, Steps
  <1>3. doing = [c \in FileCall |-> IdleCall]
    BY DEF FileInit
  <1> HIDE DEF IdleCall
  <1>4. doing \in [FileCall -> Progress] /\ \A c \in FileCall : doing[c].at = "idle" /\ doing[c].found = {}
    BY <1>2, <1>3
  <1>5. DOMAIN steadyRows = {} /\ locker \in [FileId -> FileCall \cup {Nothing}]
    BY DEF FileInit
  <1>6. DOMAIN owed = FileId /\ \A id \in FileId : DOMAIN owed[id] = {}
    BY DEF FileInit
  <1>7. FileTypeOK
    BY <1>1, <1>4, <1>5, <1>6 DEF FileInit, FileTypeOK, Progress, Steps
  <1>8. \A c \in FileCall : StepKind(c) /\ WriteHolds(c)
    BY <1>4 DEF StepKind, WriteHolds, CallAt
  <1>9. UpdatesCompose
    BY <1>6 DEF UpdatesCompose
  <1>10. EvidenceGuarded
    BY DEF FileInit, EvidenceGuarded
  <1>11. ListsWhole /\ \A l \in DOMAIN steadyRows : SteadyIsThere(l)
    BY <1>5 DEF ListsWhole
  <1> QED
    BY <1>7, <1>8, <1>9, <1>10, <1>11 DEF FileIInv, FilesKept

LEMMA FileNextKept == ASSUME FileIInv, [FileNext]_fileVars PROVE FileIInv'
  <1>1. CASE UNCHANGED fileVars
    <2>1. FileTypeOK'
      BY <1>1 DEF fileVars, FileIInv, FileTypeOK
    <2>2. \A c \in FileCall : StepKind(c)' /\ WriteHolds(c)'
      BY <1>1, LockSame, OthersKept DEF fileVars, FileIInv, WriteHolds
    <2>3. \A l \in DOMAIN steadyRows' : SteadyIsThere(l)'
      BY <1>1 DEF fileVars, FileIInv, SteadyIsThere, CallAt, LocateScoped, Exists, Admits, Ids
    <2>4. ListsWhole'
      BY <1>1 DEF fileVars, FileIInv, FilesKept, ListsWhole, CallAt, Ids
    <2> QED
      BY <1>1, <2>1, <2>2, <2>3, <2>4, FilesSame DEF fileVars, FileIInv, FilesKept
  <1>2. CASE FileNext
    BY <1>2, StoreCheckKept, StoreWriteKept, TouchReadKept, UpdateStartKept, UpdateReadKept, UpdateWriteKept,
       DeleteFindKept, DeleteUnlinkKept, ListBeginKept, ListReadKept, ListEndKept, PurgeUnlinkKept, KillCallKept
       DEF FileNext
  <1> QED
    BY <1>1, <1>2

(* storage/yaml_backend.py: of any ids, calls of any processes and kills, what  *)
(* an update set stays until a write replaces it, evidence that did not parse   *)
(* is only lost with its row, no claim is unsupported that was not, and a       *)
(* listing has every row that stayed.                                           *)
THEOREM FilesAreKept == FileSpec => []FilesKept
  <1>1. FileInit => FileIInv
    BY FileInitKept
  <1>2. FileIInv /\ [FileNext]_fileVars => FileIInv'
    BY FileNextKept
  <1>3. FileIInv => FilesKept
    BY DEF FileIInv
  <1> QED
    BY <1>1, <1>2, <1>3, PTL DEF FileSpec

-----------------------------------------------------------------------------
(* An import of a checkout: versions, halves, and the phases of an import   *)

USE CheckoutImportAssumption

LEMMA VersionsAreNumbers == Cardinality(DOMAIN Contents) \in Nat /\ Version \subseteq Nat \ {0}
  <1>1. Cardinality(DOMAIN Contents) \in Nat
    BY FS_CardinalityType
  <1> QED
    BY <1>1 DEF Version

LEMMA AbsentIsRow == Absent \in SomeRow
  OBVIOUS

(* What a copy that is in the making is made of. *)
LEMMA CopyParts ==
    ASSUME ImportTypeOK, ~ImportAt("idle")
    PROVE  /\ import \in Copies
           /\ import.parts = <<import.parts[1], import.parts[2]>>
           /\ import.parts[1] \in Version \cup {0} /\ import.parts[2] \in Version \cup {0}
  <1>1. import \in Copies
    BY DEF ImportTypeOK, ImportAt, NoImport
  <1>2. import.parts \in (Version \cup {0}) \X (Version \cup {0})
    BY <1>1 DEF Copies
  <1> QED
    BY <1>1, <1>2

(* A step of the checkout's own process. *)
LEMMA OwnerKept ==
    ASSUME ImportIInv, NEW new, OwnerSteps(new),
           new \in [main : [Half -> Version], side : {"none", "wal", "journal"}, next : Version,
                    exclusive : BOOLEAN, stat : Nat \ {0}],
           QuietIsWhole',
           \/ new.stat = source.stat /\ new.main = source.main
           \/ new.stat = source.stat + 1
    PROVE  ImportIInv'
  <1> USE DEF ImportIInv
  <1>1. ImportTypeOK'
    BY DEF ImportTypeOK, OwnerSteps
  <1>2. ReadIsCurrent'
    <2>1. ~ImportAt("idle") => import.before \in Nat /\ source.stat \in Nat
      BY CopyParts DEF Copies, ImportTypeOK
    <2>2. ImportAt("opened") \/ Locked => ~ImportAt("idle")
      BY DEF Locked, ImportAt
    <2>3. source' = new /\ import' = import
      BY DEF OwnerSteps
    <2>4. CASE new.stat = source.stat + 1
      BY <2>1, <2>2, <2>3, <2>4 DEF ReadIsCurrent, Locked, ImportAt
    <2>5. CASE new.stat = source.stat /\ new.main = source.main
      BY <2>1, <2>2, <2>3, <2>5 DEF ReadIsCurrent, Locked, ImportAt
    <2> QED
      BY <2>4, <2>5
  <1>3. UsedIsVersion' /\ MergedIsCommitted'
    BY DEF OwnerSteps, UsedIsVersion, MergedIsCommitted, AnswerTrue, Locked, ImportAt
  <1>4. PlanAgrees'
    BY DEF OwnerSteps, PlanAgrees, ImportAt, Carried, Copy, Pinned
  <1>5. RowsAreCopies'
    BY DEF OwnerSteps, RowsAreCopies, ImportAt
  <1> QED
    BY <1>1, <1>2, <1>3, <1>4, <1>5

LEMMA WalCommitKept == ASSUME ImportIInv, WalCommit PROVE ImportIInv'
  <1> DEFINE new == [source EXCEPT !.side = "wal", !.next = @ + 1]
  <1>1. OwnerSteps(new) /\ source.next + 1 \in Version
    BY DEF WalCommit
  <1>2. /\ new \in [main : [Half -> Version], side : {"none", "wal", "journal"}, next : Version,
                   exclusive : BOOLEAN, stat : Nat \ {0}]
        /\ new.stat = source.stat /\ new.main = source.main /\ new.side = "wal"
    BY <1>1 DEF ImportIInv, ImportTypeOK
  <1>3. QuietIsWhole'
    BY <1>1, <1>2 DEF OwnerSteps, QuietIsWhole
  <1> QED
    BY <1>1, <1>2, <1>3, OwnerKept

LEMMA JournalBeginKept == ASSUME ImportIInv, JournalBegin PROVE ImportIInv'
  <1> DEFINE new == [source EXCEPT !.side = "journal", !.next = @ + 1]
  <1>1. OwnerSteps(new) /\ source.next + 1 \in Version /\ source.next \in Version
    BY DEF JournalBegin, ImportIInv, ImportTypeOK
  <1>2. /\ new \in [main : [Half -> Version], side : {"none", "wal", "journal"}, next : Version,
                   exclusive : BOOLEAN, stat : Nat \ {0}]
        /\ new.stat = source.stat /\ new.main = source.main /\ new.side = "journal"
        /\ new.next = source.next + 1
    BY <1>1 DEF ImportIInv, ImportTypeOK
  <1>3. new.next - 1 = source.next
    BY <1>1, <1>2, VersionsAreNumbers
  <1>4. QuietIsWhole'
    BY <1>1, <1>2, <1>3 DEF OwnerSteps, QuietIsWhole
  <1> QED
    BY <1>1, <1>2, <1>4, OwnerKept

LEMMA WriteHalfKept == ASSUME ImportIInv, NEW h \in Half, WriteHalf(h) PROVE ImportIInv'
  <1> DEFINE new == [source EXCEPT !.main[h] = source.next, !.stat = @ + 1,
                                   !.exclusive = source.side = "journal"]
  <1>1. OwnerSteps(new) /\ source.side # "none"
    BY DEF WriteHalf
  <1>2. /\ new \in [main : [Half -> Version], side : {"none", "wal", "journal"}, next : Version,
                   exclusive : BOOLEAN, stat : Nat \ {0}]
        /\ new.stat = source.stat + 1 /\ new.side = source.side /\ new.next = source.next
    <2>1. /\ source \in [main : [Half -> Version], side : {"none", "wal", "journal"}, next : Version,
                         exclusive : BOOLEAN, stat : Nat \ {0}]
          /\ [source.main EXCEPT ![h] = source.next] \in [Half -> Version]
          /\ source.stat + 1 \in Nat \ {0} /\ (source.side = "journal") \in BOOLEAN
      BY DEF ImportIInv, ImportTypeOK
    <2>2. /\ new.main = [source.main EXCEPT ![h] = source.next] /\ new.side = source.side
          /\ new.next = source.next /\ new.exclusive = (source.side = "journal")
          /\ new.stat = source.stat + 1
      BY <2>1
    <2>3. new = [source EXCEPT !.main = [source.main EXCEPT ![h] = source.next], !.stat = source.stat + 1,
                               !.exclusive = (source.side = "journal")]
      OBVIOUS
    <2> HIDE DEF new
    <2> QED
      BY <2>1, <2>2, <2>3
  <1>3. QuietIsWhole'
    BY <1>1, <1>2 DEF OwnerSteps, QuietIsWhole, ImportIInv
  <1> QED
    BY <1>1, <1>2, <1>3, OwnerKept

LEMMA SideGoneKept == ASSUME ImportIInv, SideGone PROVE ImportIInv'
  <1> DEFINE new == [source EXCEPT !.side = "none", !.exclusive = FALSE]
  <1>1. OwnerSteps(new) /\ \A h \in Half : source.main[h] = source.next
    BY DEF SideGone
  <1>2. /\ new \in [main : [Half -> Version], side : {"none", "wal", "journal"}, next : Version,
                   exclusive : BOOLEAN, stat : Nat \ {0}]
        /\ new.stat = source.stat /\ new.main = source.main /\ new.side = "none"
        /\ new.next = source.next /\ source.main = [h \in Half |-> source.main[h]]
    BY <1>1 DEF ImportIInv, ImportTypeOK
  <1>3. QuietIsWhole'
    BY <1>1, <1>2 DEF OwnerSteps, QuietIsWhole
  <1> QED
    BY <1>1, <1>2, <1>3, OwnerKept

LEMMA OwnerDiesKept == ASSUME ImportIInv, OwnerDies PROVE ImportIInv'
  <1> DEFINE new == [source EXCEPT !.exclusive = FALSE]
  <1>1. OwnerSteps(new)
    BY DEF OwnerDies
  <1>2. /\ new \in [main : [Half -> Version], side : {"none", "wal", "journal"}, next : Version,
                   exclusive : BOOLEAN, stat : Nat \ {0}]
        /\ new.stat = source.stat /\ new.main = source.main /\ new.side = source.side
        /\ new.next = source.next
    BY <1>1 DEF ImportIInv, ImportTypeOK
  <1>3. QuietIsWhole'
    BY <1>1, <1>2 DEF OwnerSteps, QuietIsWhole, ImportIInv
  <1> QED
    BY <1>1, <1>2, <1>3, OwnerKept

LEMMA RollBackKept == ASSUME ImportIInv, RollBack PROVE ImportIInv'
  <1> DEFINE new == [source EXCEPT !.side = "none", !.next = @ - 1, !.main = [h \in Half |-> source.next - 1],
                                   !.stat = @ + 1]
  <1>1. OwnerSteps(new) /\ source.next - 1 \in Version
    BY DEF RollBack, ImportIInv, QuietIsWhole
  <1>2. /\ new \in [main : [Half -> Version], side : {"none", "wal", "journal"}, next : Version,
                   exclusive : BOOLEAN, stat : Nat \ {0}]
        /\ new.stat = source.stat + 1 /\ new.main = [h \in Half |-> source.next - 1]
        /\ new.side = "none" /\ new.next = source.next - 1
    <2>1. /\ source \in [main : [Half -> Version], side : {"none", "wal", "journal"}, next : Version,
                         exclusive : BOOLEAN, stat : Nat \ {0}]
          /\ [h \in Half |-> source.next - 1] \in [Half -> Version]
          /\ source.stat + 1 \in Nat \ {0}
      BY <1>1 DEF ImportIInv, ImportTypeOK
    <2>2. /\ new.main = [h \in Half |-> source.next - 1] /\ new.side = "none"
          /\ new.next = source.next - 1 /\ new.exclusive = source.exclusive
          /\ new.stat = source.stat + 1
      BY <2>1
    <2>3. \E m, x, y : new = [source EXCEPT !.side = "none", !.next = y, !.main = m, !.stat = x]
      OBVIOUS
    <2> HIDE DEF new
    <2> QED
      BY <1>1, <2>1, <2>2, <2>3
  <1>3. QuietIsWhole'
    BY <1>1, <1>2 DEF OwnerSteps, QuietIsWhole
  <1> QED
    BY <1>1, <1>2, <1>3, OwnerKept

(* A write of a tenant. *)
LEMMA TenantKept ==
    ASSUME ImportIInv, NEW i \in ImportId, NEW row \in TenantRows \cup {Absent}, TenantWrites(i, row)
    PROVE  ImportIInv'
  <1> USE DEF ImportIInv
  <1>1. row \in SomeRow
    BY AbsentIsRow
  <1>2. ImportTypeOK'
    BY <1>1 DEF TenantWrites, ImportTypeOK
  <1>3. QuietIsWhole' /\ ReadIsCurrent' /\ UsedIsVersion' /\ MergedIsCommitted' /\ PlanAgrees'
    BY DEF TenantWrites, QuietIsWhole, ReadIsCurrent, UsedIsVersion, MergedIsCommitted, AnswerTrue, PlanAgrees, Locked,
           ImportAt, Carried, Copy, Pinned
  <1>4. RowsAreCopies'
    <2>1. /\ \A j \in ImportId \ foreign' : j \in ImportId \ foreign /\ dest'[j] = dest[j]
          /\ taken' = taken /\ import' = import
      BY DEF TenantWrites, ImportTypeOK
    <2> QED
      BY <2>1 DEF RowsAreCopies, ImportAt
  <1> QED
    BY <1>2, <1>3, <1>4

(* A step of the import that only moves it on, or ends it. *)
LEMMA GoKept ==
    ASSUME ImportIInv, NEW next \in Copies, ~ImportAt("idle"), Go(next), ~ImportAt("committed"), next.at # "committed",
           import.before = next.before,
           ReadIsCurrent', UsedIsVersion', PlanAgrees', RowsAreCopies'
    PROVE  ImportIInv'
  <1> USE DEF ImportIInv
  <1>1. ImportTypeOK' /\ QuietIsWhole'
    BY DEF Go, Step, ImportTypeOK, QuietIsWhole
  <1>2. next.at # "idle"
    BY DEF Copies
  <1>3. MergedIsCommitted'
    BY <1>2 DEF MergedIsCommitted, AnswerTrue, Go, Step, ImportAt
  <1> QED
    BY <1>1, <1>3

LEMMA AnswerKept ==
    ASSUME ImportIInv, ~ImportAt("idle"), NEW status \in {"refused", "busy", "conflict", "ok", "uncertain", "lost"},
           Answer(status),
           status \in {"refused", "busy", "conflict"} => ~ImportAt("committed"),
           status \in {"ok", "uncertain"} => ImportAt("committed")
    PROVE  ImportIInv'
  <1> USE DEF ImportIInv
  <1>1. import' = NoImport /\ import'.at = "idle"
    BY DEF Answer, Step, NoImport
  <1>2. ImportTypeOK' /\ QuietIsWhole'
    BY <1>1 DEF Answer, Step, ImportTypeOK, QuietIsWhole
  <1>3. ReadIsCurrent' /\ UsedIsVersion' /\ MergedIsCommitted' /\ PlanAgrees'
    BY <1>1 DEF Answer, ReadIsCurrent, UsedIsVersion, MergedIsCommitted, AnswerTrue, PlanAgrees, Locked, ImportAt
  <1>4. RowsAreCopies'
    BY <1>1 DEF Answer, Step, RowsAreCopies, ImportAt
  <1> QED
    BY <1>2, <1>3, <1>4

LEMMA ImportBeginsKept == ASSUME ImportIInv, ImportBegins PROVE ImportIInv'
  <1> USE DEF ImportIInv
  <1>1. /\ source' = source /\ dest' = dest /\ foreign' = foreign /\ taken' = taken /\ merged' = FALSE
        /\ QuietIsWhole'
    BY DEF ImportBegins, QuietIsWhole
  <1>2. CASE QuietState = 0
    <2>1. import' = NoImport /\ import'.at = "idle" /\ reply' = "refused"
      BY <1>2 DEF ImportBegins, NoImport
    <2>2. ImportTypeOK'
      BY <1>1, <2>1 DEF ImportTypeOK
    <2>3. ReadIsCurrent' /\ UsedIsVersion' /\ MergedIsCommitted' /\ PlanAgrees' /\ RowsAreCopies'
      BY <1>1, <2>1 DEF ReadIsCurrent, UsedIsVersion, MergedIsCommitted, AnswerTrue, PlanAgrees, RowsAreCopies, Locked, ImportAt
    <2> QED
      BY <1>1, <2>2, <2>3
  <1>3. CASE QuietState # 0
    <2>1. /\ import' = [at |-> "opened", before |-> QuietState, parts |-> <<0, 0>>, held |-> dest, plan |-> {}]
          /\ reply' = "none" /\ source.side = "none" /\ QuietState = source.stat
      BY <1>3 DEF ImportBegins, QuietState
    <2>2. import' \in Copies
      BY <2>1 DEF Copies, ImportTypeOK
    <2>3. ImportTypeOK'
      BY <1>1, <2>1, <2>2 DEF ImportTypeOK
    <2>4. ReadIsCurrent'
      <3>1. source.main[1] = source.main[2] /\ source.stat \in Nat
        BY <2>1 DEF QuietIsWhole, ImportTypeOK, Half
      <3> QED
        BY <1>1, <2>1, <3>1 DEF ReadIsCurrent, Locked, ImportAt
    <2>5. UsedIsVersion' /\ MergedIsCommitted' /\ PlanAgrees' /\ RowsAreCopies'
      BY <1>1, <2>1 DEF UsedIsVersion, MergedIsCommitted, AnswerTrue, PlanAgrees, RowsAreCopies, Locked, ImportAt
    <2> QED
      BY <1>1, <2>3, <2>4, <2>5
  <1> QED
    BY <1>2, <1>3

LEMMA TakeReadLockKept == ASSUME ImportIInv, TakeReadLock PROVE ImportIInv'
  <1>1. CASE source.exclusive
    BY <1>1, AnswerKept DEF TakeReadLock, ImportAt
  <1>2. CASE ~source.exclusive
    <2> DEFINE next == [import EXCEPT !.at = "copy", !.parts = <<source.main[1], 0>>]
    <2>1. Go(next) /\ ImportAt("opened") /\ ~ImportAt("idle")
      BY <1>2 DEF TakeReadLock, ImportAt
    <2>2. /\ source.main[1] \in Version /\ (source.main[1] = source.main[2] \/ source.stat # import.before)
          /\ import.before <= source.stat
      BY <2>1 DEF ImportIInv, ImportTypeOK, ReadIsCurrent, Half
    <2>3. source.main[1] \in Version
      BY DEF ImportIInv, ImportTypeOK, Half
    <2>4. /\ next \in Copies /\ next.at = "copy" /\ next.parts[1] = source.main[1] /\ next.before = import.before
          /\ next.held = import.held /\ next.plan = import.plan
      BY <2>1, <2>3, CopyParts DEF Copies, ImportIInv
    <2>5. import' = next /\ source' = source /\ dest' = dest /\ foreign' = foreign /\ taken' = taken
      BY <2>1 DEF Go, Step
    <2> HIDE DEF next
    <2>6. ReadIsCurrent' /\ UsedIsVersion' /\ PlanAgrees'
      BY <2>2, <2>3, <2>4, <2>5 DEF ReadIsCurrent, UsedIsVersion, PlanAgrees, Locked, ImportAt
    <2>7. RowsAreCopies'
      BY <2>4, <2>5 DEF RowsAreCopies, ImportAt, ImportIInv
    <2> QED
      BY <2>1, <2>4, <2>6, <2>7, GoKept DEF ImportAt
  <1> QED
    BY <1>1, <1>2

LEMMA CopyRestKept == ASSUME ImportIInv, CopyRest PROVE ImportIInv'
  <1> DEFINE next == [import EXCEPT !.at = "copied", !.parts[2] = source.main[2]]
  <1>1. Go(next) /\ ImportAt("copy") /\ ~ImportAt("idle")
    BY DEF CopyRest, ImportAt
  <1>2. source.main[2] \in Version
    BY DEF ImportIInv, ImportTypeOK, Half
  <1>3. /\ import.parts[1] \in Version /\ import.before <= source.stat
        /\ source.stat = import.before => source.main[1] = source.main[2] /\ import.parts[1] = source.main[1]
    BY <1>1 DEF ImportIInv, ReadIsCurrent, Locked, ImportAt
  <1>4. [import.parts EXCEPT ![2] = source.main[2]] = <<import.parts[1], source.main[2]>>
    BY <1>1, CopyParts DEF ImportIInv
  <1>5. next = [import EXCEPT !.at = "copied", !.parts = [import.parts EXCEPT ![2] = source.main[2]]]
    OBVIOUS
  <1>6. /\ next \in Copies /\ next.at = "copied" /\ next.parts[1] = import.parts[1]
        /\ next.parts[2] = source.main[2] /\ next.before = import.before
        /\ next.held = import.held /\ next.plan = import.plan
    <2> DEFINE parts == <<import.parts[1], source.main[2]>>
    <2>1. parts \in (Version \cup {0}) \X (Version \cup {0}) /\ parts[1] = import.parts[1] /\ parts[2] = source.main[2]
      BY <1>2, <1>3
    <2>2. next = [import EXCEPT !.at = "copied", !.parts = parts] /\ import \in Copies
      BY <1>1, <1>4, <1>5, CopyParts DEF ImportIInv
    <2> HIDE DEF parts, next
    <2> QED
      BY <2>1, <2>2 DEF Copies
  <1>7. import' = next /\ source' = source /\ dest' = dest /\ foreign' = foreign /\ taken' = taken
    BY <1>1 DEF Go, Step
  <1> HIDE DEF next
  <1>8. ReadIsCurrent' /\ UsedIsVersion' /\ PlanAgrees'
    BY <1>2, <1>3, <1>6, <1>7 DEF ReadIsCurrent, UsedIsVersion, PlanAgrees, Locked, ImportAt
  <1>9. RowsAreCopies'
    BY <1>6, <1>7 DEF RowsAreCopies, ImportAt, ImportIInv
  <1> QED
    BY <1>1, <1>6, <1>8, <1>9, GoKept DEF ImportAt

LEMMA EndCopyKept == ASSUME ImportIInv, EndCopy PROVE ImportIInv'
  <1>1. CASE ~UnchangedSince
    BY <1>1, AnswerKept DEF EndCopy, ImportAt
  <1>2. CASE UnchangedSince
    <2> DEFINE next == [import EXCEPT !.at = "private"]
    <2>1. Go(next) /\ ImportAt("copied") /\ ~ImportAt("idle")
      BY <1>2 DEF EndCopy, ImportAt
    <2>2. import \in Copies /\ source.stat \in Nat
      BY <2>1, CopyParts DEF ImportIInv, ImportTypeOK
    <2>3. source.stat = import.before
      BY <1>2, <2>2 DEF UnchangedSince, QuietState, Copies
    <2>4. import.parts[1] = import.parts[2] /\ import.parts[1] \in Version /\ import.before <= source.stat
      BY <2>1, <2>3 DEF ImportIInv, ReadIsCurrent, Locked, ImportAt
    <2>5. /\ next \in Copies /\ next.at = "private" /\ next.parts = import.parts /\ next.before = import.before
      BY <2>2 DEF Copies
    <2>6. import' = next /\ source' = source /\ dest' = dest /\ foreign' = foreign /\ taken' = taken
      BY <2>1 DEF Go, Step
    <2> HIDE DEF next
    <2>7. ReadIsCurrent' /\ UsedIsVersion' /\ PlanAgrees'
      BY <2>4, <2>5, <2>6 DEF ReadIsCurrent, UsedIsVersion, PlanAgrees, Locked, ImportAt
    <2>8. RowsAreCopies'
      BY <2>5, <2>6 DEF RowsAreCopies, ImportAt, ImportIInv
    <2> QED
      BY <2>1, <2>5, <2>7, <2>8, GoKept DEF ImportAt
  <1> QED
    BY <1>1, <1>2

LEMMA ReadHeldKept == ASSUME ImportIInv, ReadHeld PROVE ImportIInv'
  <1> DEFINE next == [import EXCEPT !.at = "held", !.held = dest]
  <1>1. Go(next) /\ ImportAt("private") /\ ~ImportAt("idle")
    BY DEF ReadHeld, ImportAt
  <1>2. import \in Copies /\ dest \in [ImportId -> SomeRow]
    BY <1>1, CopyParts DEF ImportIInv, ImportTypeOK
  <1>3. /\ next \in Copies /\ next.at = "held" /\ next.parts = import.parts /\ next.before = import.before
        /\ next.held = dest
    BY <1>2 DEF Copies
  <1>4. import' = next /\ source' = source /\ dest' = dest /\ foreign' = foreign /\ taken' = taken
    BY <1>1 DEF Go, Step
  <1> HIDE DEF next
  <1>5. ReadIsCurrent' /\ UsedIsVersion' /\ PlanAgrees'
    BY <1>1, <1>3, <1>4 DEF ReadIsCurrent, UsedIsVersion, PlanAgrees, Locked, ImportAt, ImportIInv
  <1>6. RowsAreCopies'
    BY <1>3, <1>4 DEF RowsAreCopies, ImportAt, ImportIInv
  <1> QED
    BY <1>1, <1>3, <1>5, <1>6, GoKept DEF ImportAt

(* The rows of the namespace as the comparison reads them. *)
LEMMA SeenIs ==
    ASSUME ImportTypeOK, ~ImportAt("idle"), NEW i \in ImportId
    PROVE  Seen(i) \in SomeRow /\ Seen(i).text = import.held[i].text /\ Seen(i).vec = dest[i].vec
  <1>1. import.held[i] \in SomeRow /\ dest[i] \in SomeRow
    BY CopyParts DEF Copies, ImportTypeOK
  <1> QED
    BY <1>1 DEF Seen, SomeRow

LEMMA CompareKept == ASSUME ImportIInv, Compare PROVE ImportIInv'
  <1>1. CASE Tampered # {} \/ Conflicts # {}
    BY <1>1, AnswerKept DEF Compare, ImportAt
  <1>2. CASE Tampered = {} /\ Conflicts = {}
    <2> DEFINE shown == [i \in ImportId |-> Seen(i)]
               next == [import EXCEPT !.at = "compared", !.plan = HeldRows, !.held = shown]
    <2>1. Go(next) /\ ImportAt("held") /\ ~ImportAt("idle")
      BY <1>2 DEF Compare, ImportAt
    <2>2. import \in Copies /\ HeldRows \in SUBSET ImportId /\ shown \in [ImportId -> SomeRow]
      BY <2>1, CopyParts, SeenIs DEF ImportIInv, HeldRows, Carried
    <2>3. \A i \in ImportId : shown[i] = Seen(i)
      OBVIOUS
    <2> HIDE DEF shown
    <2>4. /\ next \in Copies /\ next.at = "compared" /\ next.parts = import.parts /\ next.before = import.before
          /\ next.held = shown /\ next.plan = HeldRows
      BY <2>2 DEF Copies
    <2>5. import' = next /\ source' = source /\ dest' = dest /\ foreign' = foreign /\ taken' = taken
      BY <2>1 DEF Go, Step
    <2> HIDE DEF next
    <2>6. ReadIsCurrent' /\ UsedIsVersion'
      BY <2>1, <2>4, <2>5 DEF ReadIsCurrent, UsedIsVersion, Locked, ImportAt, ImportIInv
    <2>7. PlanAgrees'
      <3>1. Copy' = Copy /\ Carried' = Carried
        BY <2>4, <2>5 DEF Copy, Carried, Pinned
      <3>2. ASSUME NEW i \in HeldRows
            PROVE  i \in Carried /\ Seen(i).text = Copy[i].text /\ (Copy[i].vec # "other" => Seen(i).vec = Copy[i].vec)
        <4>1. i \in Carried /\ i \notin Conflicts
          BY <1>2 DEF HeldRows
        <4> QED
          BY <4>1 DEF Conflicts, VectorDiffers
      <3>3. HeldRows \subseteq ImportId
        BY DEF HeldRows, Carried
      <3> QED
        BY <2>3, <2>4, <2>5, <3>1, <3>2, <3>3 DEF PlanAgrees
    <2>8. RowsAreCopies'
      BY <2>4, <2>5 DEF RowsAreCopies, ImportAt, ImportIInv
    <2> QED
      BY <2>1, <2>4, <2>6, <2>7, <2>8, GoKept DEF ImportAt
  <1> QED
    BY <1>1, <1>2

(* The import is handed to the lane, or begins there. *)
LEMMA MovesOnKept ==
    ASSUME ImportIInv, NEW at \in {"queued", "running"}, ImportAt("compared") \/ ImportAt("queued"),
           Go([import EXCEPT !.at = at])
    PROVE  ImportIInv'
  <1> DEFINE next == [import EXCEPT !.at = at]
  <1>1. ~ImportAt("idle")
    BY DEF ImportAt
  <1>2. import \in Copies
    BY <1>1, CopyParts DEF ImportIInv
  <1>3. /\ next \in Copies /\ next.at = at /\ next.parts = import.parts /\ next.before = import.before
        /\ next.held = import.held /\ next.plan = import.plan
    BY <1>2 DEF Copies
  <1>4. import' = next /\ source' = source /\ dest' = dest /\ foreign' = foreign /\ taken' = taken
    BY DEF Go, Step
  <1> HIDE DEF next
  <1>5. ReadIsCurrent' /\ UsedIsVersion'
    BY <1>3, <1>4 DEF ReadIsCurrent, UsedIsVersion, Locked, ImportAt, ImportIInv
  <1>6. PlanAgrees'
    BY <1>3, <1>4 DEF PlanAgrees, ImportAt, ImportIInv, Copy, Carried, Pinned
  <1>7. RowsAreCopies'
    BY <1>3, <1>4 DEF RowsAreCopies, ImportAt, ImportIInv
  <1> QED
    BY <1>1, <1>3, <1>5, <1>6, <1>7, GoKept DEF ImportAt, next

LEMMA SubmitKept == ASSUME ImportIInv, Submit PROVE ImportIInv'
  BY MovesOnKept DEF Submit

LEMMA LaneRunsKept == ASSUME ImportIInv, LaneRuns PROVE ImportIInv'
  BY MovesOnKept DEF LaneRuns

LEMMA QueueTimeoutKept == ASSUME ImportIInv, QueueTimeout PROVE ImportIInv'
  BY AnswerKept DEF QueueTimeout, ImportAt

LEMMA DeadlineKept == ASSUME ImportIInv, Deadline PROVE ImportIInv'
  BY AnswerKept DEF Deadline, UntilCommitted, ImportAt

LEMMA DaemonDiesKept == ASSUME ImportIInv, DaemonDies PROVE ImportIInv'
  BY AnswerKept DEF DaemonDies

LEMMA CopyCommitsKept == ASSUME ImportIInv, CopyCommits PROVE ImportIInv'
  BY AnswerKept DEF CopyCommits, ImportAt

(* What a merge puts in the place of a row that is not there. *)
LEMMA PlacedIs ==
    ASSUME ImportIInv, ImportAt("running"), NEW i \in ImportId
    PROVE  /\ Copy[i] \in SomeRow /\ Copy = Contents[import.parts[1]] /\ import.parts[1] \in Version
           /\ Placed(i) \in SomeRow /\ Placed(i).text = Copy[i].text
           /\ Copy[i].vec # "other" => Placed(i).vec = Copy[i].vec
  <1>1. import.parts[1] \in Version
    BY DEF ImportIInv, UsedIsVersion, ImportAt, Locked
  <1>2. Copy[i] \in SomeRow /\ "none" \in RowVec
    BY <1>1 DEF Copy, SomeRow, Absent
  <1>3. Placed(i) = Copy[i] \/ (Copy[i].vec = "other" /\ Placed(i) = [Copy[i] EXCEPT !.vec = "none"])
    BY DEF Placed
  <1> HIDE DEF Copy
  <1>4. Placed(i) \in SomeRow /\ Placed(i).text = Copy[i].text
    BY <1>2, <1>3 DEF SomeRow
  <1> QED
    BY <1>1, <1>2, <1>3, <1>4 DEF Copy

(* The step that is the merge. *)
Merges ==
    /\ ImportAt("running") /\ ~Changed /\ Cardinality(Present) = Cardinality(import.plan)
    /\ dest' = [i \in ImportId |-> IF i \in Carried \ Present THEN Placed(i) ELSE dest[i]]
    /\ import' = [import EXCEPT !.at = "committed"] /\ merged' = TRUE
    /\ taken' = taken \cup {import.parts[1]}
    /\ UNCHANGED <<source, reply, foreign>>

LEMMA MergesKept == ASSUME ImportIInv, Merges PROVE ImportIInv'
  <1> USE DEF ImportIInv
  <1>1. ~ImportAt("idle") /\ import \in Copies /\ import.parts[1] \in Version
    BY CopyParts DEF Merges, ImportAt, UsedIsVersion, Locked
  <1>2. import' \in Copies /\ import'.at = "committed" /\ import'.parts = import.parts /\ import'.before = import.before
    BY <1>1 DEF Merges, Copies
  <1>3. /\ source' = source /\ reply' = reply /\ foreign' = foreign /\ merged' = TRUE
        /\ taken' = taken \cup {import.parts[1]} /\ ImportAt("running")
    BY DEF Merges
  <1>4. \A i \in ImportId : dest'[i] = dest[i] \/ (dest'[i] = Placed(i) /\ Placed(i) \in SomeRow)
    BY <1>3, PlacedIs DEF Merges
  <1>5. ImportTypeOK'
    <2>1. dest' \in [ImportId -> SomeRow]
      BY <1>3, PlacedIs DEF Merges, ImportTypeOK
    <2> QED
      BY <1>1, <1>2, <1>3, <2>1 DEF ImportTypeOK
  <1>6. QuietIsWhole' /\ ReadIsCurrent' /\ UsedIsVersion' /\ PlanAgrees'
    BY <1>2, <1>3 DEF QuietIsWhole, ReadIsCurrent, UsedIsVersion, PlanAgrees, Locked, ImportAt
  <1>7. MergedIsCommitted'
    BY <1>1, <1>2, <1>3 DEF MergedIsCommitted, AnswerTrue, ImportAt
  <1>8. RowsAreCopies'
    <2>1. ~ImportAt("held")'
      BY <1>2 DEF ImportAt
    <2> SUFFICES ASSUME NEW i \in ImportId \ foreign, dest'[i] # Absent
                 PROVE  \E v \in taken' : /\ dest'[i].text = Contents[v][i].text
                                          /\ Contents[v][i].vec # "other" => dest'[i].vec = Contents[v][i].vec
      BY <1>3, <2>1 DEF RowsAreCopies
    <2>2. CASE dest'[i] = dest[i]
      BY <1>3, <2>2 DEF RowsAreCopies
    <2>3. CASE dest'[i] = Placed(i)
      <3>1. import.parts[1] \in taken'
        BY <1>3
      <3> QED
        BY <1>3, <2>3, <3>1, PlacedIs
    <2> QED
      BY <1>4, <2>2, <2>3
  <1> QED
    BY <1>5, <1>6, <1>7, <1>8

LEMMA MergeKept == ASSUME ImportIInv, Merge PROVE ImportIInv'
  <1>1. CASE Answer("busy") \/ Answer("conflict")
    BY <1>1, AnswerKept DEF Merge, ImportAt
  <1>2. CASE Merges
    BY <1>2, MergesKept
  <1> QED
    BY <1>1, <1>2 DEF Merge, Merges

LEMMA ImportInitKept == ImportInit => ImportIInv
  <1> SUFFICES ASSUME ImportInit
               PROVE  ImportIInv
    OBVIOUS
  <1>1. ImportTypeOK
    <2>1. 1 \in Version
      OBVIOUS
    <2>2. [i \in ImportId |-> Absent] \in [ImportId -> SomeRow]
      BY AbsentIsRow
    <2>3. [h \in Half |-> 1] \in [Half -> Version]
      BY <2>1
    <2>4. source \in [main : [Half -> Version], side : {"none", "wal", "journal"}, next : Version,
                     exclusive : BOOLEAN, stat : Nat \ {0}]
      BY <2>1, <2>3 DEF ImportInit
    <2> QED
      BY <2>2, <2>4 DEF ImportInit, ImportTypeOK
  <1>2. ImportAt("idle")
    BY DEF ImportInit, NoImport, ImportAt
  <1>3. \A step \in {"opened", "copy", "copied", "compared", "queued", "running", "held"} : ~ImportAt(step)
    BY <1>2 DEF ImportAt
  <1>4. QuietIsWhole
    BY DEF ImportInit, QuietIsWhole
  <1>5. RowsAreCopies
    BY <1>3 DEF ImportInit, RowsAreCopies
  <1>6. ReadIsCurrent /\ UsedIsVersion /\ MergedIsCommitted /\ PlanAgrees
    BY <1>2, <1>3 DEF ReadIsCurrent, UsedIsVersion, MergedIsCommitted, AnswerTrue, PlanAgrees, Locked, ImportInit
  <1> QED
    BY <1>1, <1>4, <1>5, <1>6 DEF ImportIInv

LEMMA ImportNextKept == ImportIInv /\ [ImportNext]_importVars => ImportIInv'
  <1> SUFFICES ASSUME ImportIInv, [ImportNext]_importVars
               PROVE  ImportIInv'
    OBVIOUS
  <1>1. CASE UNCHANGED importVars
    BY <1>1 DEF importVars, ImportIInv, ImportTypeOK, QuietIsWhole, ReadIsCurrent, UsedIsVersion, MergedIsCommitted, AnswerTrue,
                PlanAgrees, RowsAreCopies, ImportAt, Locked, Carried, Copy, Pinned
  <1>2. CASE ImportNext
    BY <1>2, WalCommitKept, JournalBeginKept, SideGoneKept, OwnerDiesKept, RollBackKept, WriteHalfKept, TenantKept,
       ImportBeginsKept, TakeReadLockKept, CopyRestKept, EndCopyKept, ReadHeldKept, CompareKept, SubmitKept,
       LaneRunsKept, QueueTimeoutKept, DeadlineKept, MergeKept, CopyCommitsKept, DaemonDiesKept
       DEF ImportNext
  <1> QED
    BY <1>1, <1>2

(***************************************************************************)
(* The inductive invariant of an import (checkout_import, _checkout_merge).*)
(***************************************************************************)
THEOREM ImportInvariance == ImportSpec => []ImportIInv
  <1> QED
    BY ImportInitKept, ImportNextKept, PTL DEF ImportSpec

LEMMA PlanIsPresent ==
    ASSUME ImportIInv, Merges
    PROVE  Present = import.plan
  <1>1. ImportAt("running") /\ ~ImportAt("idle") /\ import \in Copies
    BY CopyParts DEF Merges, ImportAt, ImportIInv
  <1>2. IsFiniteSet(Present)
    BY FS_Subset DEF Present, Carried
  <1>3. import.plan \subseteq Present
    <2> SUFFICES ASSUME NEW i \in import.plan
                 PROVE  i \in Carried /\ dest[i] # Absent
      BY DEF Present
    <2>1. i \in Carried /\ import.held[i].text = Copy[i].text
      BY <1>1 DEF ImportIInv, PlanAgrees
    <2>2. dest[i] = import.held[i]
      BY DEF Merges, Changed
    <2>3. Copy[i].text # "none"
      BY <1>1, <2>1 DEF Carried, Copy, ImportIInv, UsedIsVersion, ImportAt, Locked
    <2> QED
      BY <2>1, <2>2, <2>3 DEF Absent
  <1>4. Cardinality(import.plan) = Cardinality(Present)
    BY DEF Merges
  <1> QED
    BY <1>2, <1>3, <1>4, FS_Subset

LEMMA MergeIsExact == ASSUME ImportIInv, ImportNext PROVE MergesExactly
  <1> SUFFICES ASSUME merged', ~merged
               PROVE  /\ \A i \in ImportId : dest[i] # Absent => dest'[i] = dest[i]
                      /\ \A i \in Carried : /\ dest'[i].text = Copy[i].text
                                            /\ Copy[i].vec # "other" => dest'[i].vec = Copy[i].vec
    BY DEF MergesExactly
  <1>1. Merges
    <2>1. merged' # merged
      OBVIOUS
    <2> QED
      BY <2>1 DEF ImportNext, WalCommit, JournalBegin, WriteHalf, SideGone, OwnerDies, RollBack, OwnerSteps,
            TenantWrites, ImportBegins, TakeReadLock, CopyRest, EndCopy, ReadHeld, Compare, Submit, LaneRuns,
            QueueTimeout, Deadline, Merge, CopyCommits, DaemonDies, Go, Answer, Merges
  <1>2. Present \subseteq Carried /\ Carried \subseteq ImportId
    BY DEF Present, Carried
  <1>3. \A i \in ImportId : dest'[i] = IF i \in Carried \ Present THEN Placed(i) ELSE dest[i]
    BY <1>1 DEF Merges
  <1>4. \A i \in ImportId : dest[i] # Absent => dest'[i] = dest[i]
    BY <1>3 DEF Present
  <1>5. ASSUME NEW i \in Carried
        PROVE  dest'[i].text = Copy[i].text /\ (Copy[i].vec # "other" => dest'[i].vec = Copy[i].vec)
    <2>1. CASE i \in Present
      <3>1. i \in import.plan /\ dest[i] = import.held[i]
        BY <1>1, <2>1, PlanIsPresent DEF Merges, Changed
      <3>2. dest'[i] = dest[i]
        BY <1>2, <1>3, <2>1
      <3> QED
        BY <1>1, <3>1, <3>2 DEF ImportIInv, PlanAgrees, Merges
    <2>2. CASE i \notin Present
      BY <1>1, <1>2, <1>3, <2>2, PlacedIs DEF Merges
    <2> QED
      BY <2>1, <2>2
  <1> QED
    BY <1>4, <1>5

LEMMA ConflictIsReal == ASSUME ImportIInv, ImportNext PROVE Converges
  <1> SUFFICES ASSUME ImportAt("held"), reply' = "conflict", Tampered = {}, Conflicts \cap foreign = {},
                      taken \subseteq {import.parts[1]}
               PROVE  FALSE
    BY DEF Converges
  <1>1. reply = "none" /\ ~ImportAt("idle")
    BY DEF ImportIInv, MergedIsCommitted, AnswerTrue, ImportAt
  <1>2. Compare
    BY <1>1 DEF ImportNext, WalCommit, JournalBegin, WriteHalf, SideGone, OwnerDies, RollBack, OwnerSteps,
          TenantWrites, ImportBegins, TakeReadLock, CopyRest, EndCopy, ReadHeld, Submit, LaneRuns,
          QueueTimeout, Deadline, Merge, CopyCommits, DaemonDies, Go, Answer, ImportAt
  <1>3. PICK i \in Conflicts : TRUE
    BY <1>1, <1>2 DEF Compare, Go
  <1>4. i \in ImportId \ foreign /\ import.held[i] # Absent /\ dest[i] = import.held[i]
    BY <1>3 DEF Conflicts, HeldRows, Carried, ImportIInv, RowsAreCopies
  <1>5. PICK v \in taken : /\ dest[i].text = Contents[v][i].text
                           /\ Contents[v][i].vec # "other" => dest[i].vec = Contents[v][i].vec
    BY <1>4 DEF ImportIInv, RowsAreCopies
  <1>6. Copy = Contents[v]
    BY <1>5 DEF Copy
  <1>7. Seen(i).text = dest[i].text /\ Seen(i).vec = dest[i].vec
    BY <1>1, <1>4, SeenIs DEF ImportIInv
  <1>8. Copy[i].text = Seen(i).text
    BY <1>5, <1>6, <1>7
  <1>9. ~VectorDiffers(i)
    BY <1>5, <1>6, <1>7 DEF VectorDiffers
  <1> QED
    BY <1>3, <1>8, <1>9 DEF Conflicts

(***************************************************************************)
(* memory_import_checkout: an import copies one committed version of the   *)
(* checkout's store however its owner writes it meanwhile, answers what it *)
(* did, merges over nobody's row, and a rerun of what was merged converges.*)
(***************************************************************************)
THEOREM ImportIsSound == ImportSpec => ImportSound
  <1>1. ImportIInv /\ ImportIInv' /\ [ImportNext]_importVars
           => [MergesExactly /\ Converges /\ CopyWhole' /\ AnswerTrue']_importVars
    <2> SUFFICES ASSUME ImportIInv, ImportIInv', ImportNext
                 PROVE  MergesExactly /\ Converges /\ CopyWhole' /\ AnswerTrue'
      OBVIOUS
    <2>1. CopyWhole'
      BY DEF ImportIInv, UsedIsVersion, CopyWhole
    <2>2. AnswerTrue'
      BY DEF ImportIInv, MergedIsCommitted
    <2> QED
      BY <2>1, <2>2, MergeIsExact, ConflictIsReal
  <1> QED
    BY <1>1, ImportInvariance, PTL DEF ImportSpec, ImportSound

HIDE CheckoutImportAssumption

-----------------------------------------------------------------------------
(* A team: what stores, edits, recalls and the promotion do to it           *)

TeamKept == TeamIInv' /\ CopiesOnce /\ ExpiryHolds

(* Where a promotion is. *)
LEMMA OnTheLane ==
    ASSUME TeamTypeOK
    PROVE  /\ promotion.at \in {"none", "listed", "copying", "ensured"}
           /\ promotion.already \subseteq TeamRow /\ promotion.left \subseteq TeamRow
           /\ promotion.high \subseteq TeamRow
  BY DEF TeamTypeOK

(* A step that leaves the project and the promotion alone. *)
LEMMA TenantStepKept ==
    ASSUME TeamIInv, UNCHANGED <<layout, project, strays, copied, promotion, due>>,
           team' \in [TeamRow -> {"none", "high", "low"}],
           \A i \in promotion.left : team'[i] # "none",
           lifecycle' \in {"none", "active", "completed", "expired"},
           Completed' = Completed,
           answered = "expired" => answered' = "expired",
           answered' = "expired" => lifecycle' = "expired",
           lifecycle' = "expired" => Completed
    PROVE  TeamKept
  <1>1. TeamTypeOK' /\ ThereWasCopied' /\ CompletedIsPromoted'
    BY DEF TeamIInv, TeamTypeOK, ThereWasCopied, CompletedIsPromoted
  <1>2. PromotionPasses'
    BY DEF TeamIInv, PromotionPasses, LaneFree, Target
  <1>3. CopiesOnce
    BY DEF CopiesOnce
  <1> QED
    BY <1>1, <1>2, <1>3 DEF TeamKept, TeamIInv, ExpiryHolds

LEMMA StoreBeginsKept == ASSUME TeamIInv, NEW i \in TeamRow, StoreBegins(i) PROVE TeamKept
  <1>1. /\ UNCHANGED <<layout, project, strays, copied, promotion, due, team, answered>>
        /\ lifecycle' = IF lifecycle = "none" THEN "active" ELSE lifecycle
    BY DEF StoreBegins, targetVars
  <1>2. Completed' = Completed /\ (answered' = "expired" => lifecycle' = "expired")
        /\ (lifecycle' = "expired" => Completed)
    BY <1>1 DEF Completed, TeamIInv
  <1> QED
    BY <1>1, <1>2, TenantStepKept DEF TeamIInv, TeamTypeOK, PromotionPasses

LEMMA StoreCommitsKept ==
    ASSUME TeamIInv, NEW i \in TeamRow, NEW importance \in {"high", "low"}, StoreCommits(i, importance)
    PROVE  TeamKept
  <1>1. /\ UNCHANGED <<layout, project, strays, copied, promotion, due, answered, lifecycle>>
        /\ team' = [team EXCEPT ![i] = importance]
    BY DEF StoreCommits, targetVars, lifeVars
  <1>2. team' \in [TeamRow -> {"none", "high", "low"}] /\ \A j \in promotion.left : team'[j] # "none"
    BY <1>1, OnTheLane DEF TeamIInv, TeamTypeOK, PromotionPasses
  <1>3. Completed' = Completed /\ (lifecycle' = "expired" => Completed)
    BY <1>1 DEF Completed
  <1> QED
    BY <1>1, <1>2, <1>3, TenantStepKept DEF TeamIInv, TeamTypeOK

(* The lane is free: there is no promotion whose rows could be taken away.  *)
LEMMA FreeLane ==
    ASSUME TeamIInv, LaneFree, UNCHANGED <<layout, strays, copied, promotion, due, answered, lifecycle>>,
           team' \in [TeamRow -> {"none", "high", "low"}], \A i \in promotion.left : team'[i] # "none",
           project' \in [TeamRow -> {"none", "copied", "edited"}],
           \A i \in TeamRow : project'[i] # "none" => project[i] # "none" /\ project'[i] = project[i]
    PROVE  TeamKept
  <1>1. TeamTypeOK' /\ ThereWasCopied' /\ CompletedIsPromoted'
    BY DEF TeamIInv, TeamTypeOK, ThereWasCopied, CompletedIsPromoted, Completed
  <1>2. PromotionPasses'
    BY DEF TeamIInv, PromotionPasses, LaneFree
  <1>3. CopiesOnce
    BY DEF CopiesOnce
  <1> QED
    BY <1>1, <1>2, <1>3 DEF TeamKept, TeamIInv, ExpiryHolds, Completed

LEMMA ForgetKept == ASSUME TeamIInv, NEW i \in TeamRow, Forget(i) PROVE TeamKept
  <1>1. /\ LaneFree /\ UNCHANGED <<layout, project, strays, copied, promotion, due, answered, lifecycle>>
        /\ team' = [team EXCEPT ![i] = "none"]
    BY DEF Forget, OnLane, targetVars, lifeVars
  <1>2. team' \in [TeamRow -> {"none", "high", "low"}] /\ promotion.left = {}
    BY <1>1 DEF TeamIInv, TeamTypeOK, PromotionPasses
  <1> QED
    BY <1>1, <1>2, FreeLane DEF TeamIInv, TeamTypeOK

LEMMA ForgetPromotedKept == ASSUME TeamIInv, NEW i \in TeamRow, ForgetPromoted(i) PROVE TeamKept
  <1>1. /\ LaneFree /\ UNCHANGED <<layout, strays, copied, promotion, due, answered, lifecycle, team>>
        /\ project' = [project EXCEPT ![i] = "none"]
    BY DEF ForgetPromoted, lifeVars
  <1>2. /\ project' \in [TeamRow -> {"none", "copied", "edited"}]
        /\ \A j \in TeamRow : project'[j] # "none" => project[j] # "none" /\ project'[j] = project[j]
    BY <1>1 DEF TeamIInv, TeamTypeOK
  <1> QED
    BY <1>1, <1>2, FreeLane DEF TeamIInv, TeamTypeOK, PromotionPasses

LEMMA EditPromotedKept == ASSUME TeamIInv, NEW i \in TeamRow, EditPromoted(i) PROVE TeamKept
  <1>1. /\ UNCHANGED <<layout, strays, copied, promotion, due, answered, lifecycle, team>>
        /\ project' = [project EXCEPT ![i] = "edited"] /\ project[i] = "copied"
    BY DEF EditPromoted, lifeVars
  <1>2. /\ project' \in [TeamRow -> {"none", "copied", "edited"}]
        /\ \A j \in TeamRow : (project'[j] # "none" <=> project[j] # "none") /\ (j # i => project'[j] = project[j])
        /\ project'[i] = "edited"
    BY <1>1 DEF TeamIInv, TeamTypeOK
  <1>3. TeamTypeOK' /\ ThereWasCopied' /\ CompletedIsPromoted'
    BY <1>1, <1>2 DEF TeamIInv, TeamTypeOK, ThereWasCopied, CompletedIsPromoted, Completed
  <1>4. PromotionPasses'
    BY <1>1, <1>2, OnTheLane DEF TeamIInv, PromotionPasses, LaneFree, Target, Completed
  <1>5. CopiesOnce
    BY <1>1, <1>2 DEF CopiesOnce
  <1> QED
    BY <1>1, <1>3, <1>4, <1>5 DEF TeamKept, TeamIInv, ExpiryHolds, Completed

LEMMA TickKept == ASSUME TeamIInv, Tick PROVE TeamKept
  <1>1. UNCHANGED <<layout, project, strays, copied, promotion, due, answered, lifecycle, team>>
        /\ lifecycle = "completed"
    BY DEF Tick, targetVars, lifeVars
  <1>2. Completed' = Completed
    BY <1>1 DEF Completed
  <1> QED
    BY <1>1, <1>2, TenantStepKept DEF TeamIInv, TeamTypeOK, PromotionPasses

LEMMA RecallKept == ASSUME TeamIInv, Recall PROVE TeamKept
  <1>1. /\ UNCHANGED <<layout, project, strays, copied, promotion, due, team>>
        /\ answered' = IF Over THEN "expired" ELSE "rows"
        /\ lifecycle' = IF Over THEN "expired" ELSE lifecycle
    BY DEF Recall, targetVars
  <1>2. Over => Completed
    BY DEF Over, Completed
  <1>3. lifecycle = "expired" => Over
    BY DEF Over
  <1>4. Completed' = Completed
    BY <1>1, <1>2 DEF Completed
  <1>5. lifecycle' \in {"none", "active", "completed", "expired"}
    BY <1>1 DEF TeamIInv, TeamTypeOK
  <1>6. /\ answered = "expired" => answered' = "expired"
        /\ answered' = "expired" => lifecycle' = "expired"
        /\ lifecycle' = "expired" => Completed
    BY <1>1, <1>2, <1>3 DEF TeamIInv
  <1> QED
    BY <1>1, <1>4, <1>5, <1>6, TenantStepKept DEF TeamIInv, TeamTypeOK, PromotionPasses

(* A step of the promotion that copies nothing and completes nothing. *)
LEMMA LaneStepKept ==
    ASSUME TeamIInv, UNCHANGED <<layout, team, project, strays, copied, due, answered, lifecycle>>,
           promotion' \in [at : {"none", "listed", "copying", "ensured"}, by : {"none", "consolidate", "maintain"},
                           already : SUBSET TeamRow, left : SUBSET TeamRow, high : SUBSET TeamRow],
           PromotionPasses'
    PROVE  TeamKept
  <1>1. TeamTypeOK' /\ ThereWasCopied' /\ CompletedIsPromoted'
    BY DEF TeamIInv, TeamTypeOK, ThereWasCopied, CompletedIsPromoted, Completed
  <1>2. CopiesOnce
    BY DEF CopiesOnce
  <1> QED
    BY <1>1, <1>2 DEF TeamKept, TeamIInv, ExpiryHolds, Completed

LEMMA SkipPromotionKept == ASSUME TeamIInv, SkipPromotion PROVE TeamKept
  <1>1. UNCHANGED <<layout, team, project, strays, copied, due, answered, lifecycle, promotion>>
    BY DEF SkipPromotion, Tenants, targetVars, lifeVars
  <1>2. PromotionPasses'
    BY <1>1 DEF TeamIInv, PromotionPasses, LaneFree, Completed, Target
  <1> QED
    BY <1>1, <1>2, LaneStepKept DEF TeamIInv, TeamTypeOK

LEMMA BeginPromotionKept ==
    ASSUME TeamIInv, NEW by \in {"consolidate", "maintain"}, BeginPromotion(by)
    PROVE  TeamKept
  <1> DEFINE listed == {i \in TeamRow : team[i] # "none"}
             high == {i \in listed : team[i] = "high"}
  <1>1. /\ UNCHANGED <<layout, team, project, strays, copied, due, answered, lifecycle>> /\ ~Completed
        /\ promotion' = [at |-> "listed", by |-> by, already |-> {}, left |-> listed, high |-> high]
    BY DEF BeginPromotion, Tenants, targetVars, lifeVars
  <1>2. listed \subseteq TeamRow /\ high \subseteq listed /\ \A i \in listed : team[i] # "none"
    OBVIOUS
  <1> HIDE DEF listed, high
  <1>3. /\ promotion'.at = "listed" /\ promotion'.left = listed /\ promotion'.high = high
        /\ promotion' \in [at : {"none", "listed", "copying", "ensured"}, by : {"none", "consolidate", "maintain"},
                            already : SUBSET TeamRow, left : SUBSET TeamRow, high : SUBSET TeamRow]
    BY <1>1, <1>2
  <1>4. PromotionPasses'
    BY <1>1, <1>2, <1>3 DEF PromotionPasses, LaneFree, Completed
  <1> QED
    BY <1>1, <1>3, <1>4, LaneStepKept

LEMMA FindPromotedKept == ASSUME TeamIInv, FindPromoted PROVE TeamKept
  <1> DEFINE there == Already(promotion.by)
  <1>1. /\ UNCHANGED <<layout, team, project, strays, copied, due, answered, lifecycle>>
        /\ promotion.at = "listed" /\ promotion' = [promotion EXCEPT !.at = "copying", !.already = there]
    BY DEF FindPromoted, Tenants, targetVars, lifeVars
  <1>2. /\ there \subseteq TeamRow /\ there \subseteq copied
        /\ Target(promotion.by) = "project" => \A i \in TeamRow : project[i] # "none" => i \in there
    BY DEF Already, There, TeamIInv, TeamTypeOK, ThereWasCopied
  <1> HIDE DEF there
  <1>3. /\ promotion'.at = "copying" /\ promotion'.already = there /\ promotion'.by = promotion.by
        /\ promotion'.left = promotion.left /\ promotion'.high = promotion.high
        /\ promotion' \in [at : {"none", "listed", "copying", "ensured"}, by : {"none", "consolidate", "maintain"},
                            already : SUBSET TeamRow, left : SUBSET TeamRow, high : SUBSET TeamRow]
    BY <1>1, <1>2 DEF TeamIInv, TeamTypeOK
  <1>4. Target(promotion.by)' = Target(promotion.by)
    BY <1>1, <1>3 DEF Target
  <1>5. PromotionPasses'
    BY <1>1, <1>2, <1>3, <1>4, OnTheLane DEF TeamIInv, PromotionPasses, LaneFree, Completed
  <1> QED
    BY <1>1, <1>3, <1>5, LaneStepKept

(* A row of the listing is done with. *)
LEMMA RowIsDone ==
    ASSUME TeamIInv, NEW i \in TeamRow, Copying(i), Done(i)
    PROVE  /\ promotion'.at = "copying" /\ promotion'.already = promotion.already
           /\ promotion'.by = promotion.by /\ promotion'.high = promotion.high
           /\ promotion'.left = promotion.left \ {i}
           /\ promotion' \in [at : {"none", "listed", "copying", "ensured"}, by : {"none", "consolidate", "maintain"},
                               already : SUBSET TeamRow, left : SUBSET TeamRow, high : SUBSET TeamRow]
  BY DEF TeamIInv, TeamTypeOK, Copying, Done

LEMMA PassRowKept == ASSUME TeamIInv, NEW i \in TeamRow, PassRow(i) PROVE TeamKept
  <1>1. /\ UNCHANGED <<layout, team, project, strays, copied, due, answered, lifecycle>>
        /\ promotion.at = "copying" /\ (i \in promotion.already \/ i \notin promotion.high)
    BY DEF PassRow, Copying, Tenants, targetVars, lifeVars
  <1>2. Target(promotion.by)' = Target(promotion.by)
    BY <1>1, RowIsDone DEF PassRow, Target
  <1>3. PromotionPasses'
    BY <1>1, <1>2, RowIsDone DEF PassRow, TeamIInv, PromotionPasses, LaneFree, Completed
  <1> QED
    BY <1>1, <1>3, RowIsDone, LaneStepKept DEF PassRow

LEMMA CopyRowKept == ASSUME TeamIInv, NEW i \in TeamRow, CopyRow(i) PROVE TeamKept
  <1>1. /\ UNCHANGED <<layout, team, due, answered, lifecycle>> /\ promotion.at = "copying"
        /\ i \in promotion.left /\ i \notin promotion.already /\ copied' = copied \cup {i}
        /\ Copying(i) /\ Done(i)
    BY DEF CopyRow, Copying, Tenants, lifeVars
  <1>2. \/ /\ Target(promotion.by) = "project" /\ project' = [project EXCEPT ![i] = "copied"] /\ strays' = strays
        \/ /\ Target(promotion.by) # "project" /\ strays' = strays \cup {i} /\ project' = project
    BY DEF CopyRow
  <1>3. ~Completed /\ Completed' = Completed
    BY <1>1 DEF TeamIInv, PromotionPasses, LaneFree, Completed
  <1>4. /\ project' \in [TeamRow -> {"none", "copied", "edited"}] /\ strays' \subseteq TeamRow
        /\ \A j \in TeamRow : j # i => project'[j] = project[j]
        /\ project'[i] # "none" => project'[i] = project[i] \/ Target(promotion.by) = "project"
    BY <1>2 DEF TeamIInv, TeamTypeOK
  <1>5. TeamTypeOK' /\ ThereWasCopied' /\ CompletedIsPromoted'
    BY <1>1, <1>2, <1>3, <1>4, RowIsDone DEF TeamIInv, TeamTypeOK, ThereWasCopied, CompletedIsPromoted
  <1>6. Target(promotion.by)' = Target(promotion.by)
    BY <1>1, RowIsDone DEF Target
  <1>7. PromotionPasses'
    BY <1>1, <1>3, <1>4, <1>6, RowIsDone, OnTheLane DEF TeamIInv, PromotionPasses, LaneFree
  <1>8. CopiesOnce
    <2>1. Target(promotion.by) = "project" => project[i] = "none" /\ team[i] # "none"
      BY <1>1 DEF TeamIInv, PromotionPasses
    <2> QED
      BY <1>2, <1>3, <1>4, <2>1 DEF CopiesOnce
  <1> QED
    BY <1>1, <1>3, <1>5, <1>7, <1>8 DEF TeamKept, TeamIInv, ExpiryHolds, Completed

LEMMA EnsureKept == ASSUME TeamIInv, Ensure PROVE TeamKept
  <1>1. /\ UNCHANGED <<layout, team, project, strays, copied, due, answered>>
        /\ promotion.at = "copying" /\ promotion.left = {} /\ promotion' = [promotion EXCEPT !.at = "ensured"]
        /\ lifecycle' = IF lifecycle = "none" THEN "active" ELSE lifecycle
    BY DEF Ensure, AllCopied, Tenants, targetVars
  <1>2. ~Completed /\ ~Completed'
    BY <1>1 DEF TeamIInv, PromotionPasses, LaneFree, Completed
  <1>3. /\ promotion'.at = "ensured" /\ promotion'.left = {} /\ promotion'.high = promotion.high
        /\ promotion' \in [at : {"none", "listed", "copying", "ensured"}, by : {"none", "consolidate", "maintain"},
                            already : SUBSET TeamRow, left : SUBSET TeamRow, high : SUBSET TeamRow]
    BY <1>1 DEF TeamIInv, TeamTypeOK
  <1>4. TeamTypeOK' /\ ThereWasCopied' /\ CompletedIsPromoted'
    BY <1>1, <1>2, <1>3 DEF TeamIInv, TeamTypeOK, ThereWasCopied, CompletedIsPromoted
  <1>5. PromotionPasses'
    BY <1>1, <1>2, <1>3 DEF TeamIInv, PromotionPasses, LaneFree
  <1>6. CopiesOnce
    BY <1>1 DEF CopiesOnce
  <1> QED
    BY <1>1, <1>2, <1>4, <1>5, <1>6 DEF TeamKept, TeamIInv, ExpiryHolds, Completed

(* A promotion ends. *)
LEMMA EndOfPromotion ==
    /\ NoPromotion.at = "none" /\ NoPromotion.left = {}
    /\ NoPromotion \in [at : {"none", "listed", "copying", "ensured"}, by : {"none", "consolidate", "maintain"},
                        already : SUBSET TeamRow, left : SUBSET TeamRow, high : SUBSET TeamRow]
  BY DEF NoPromotion

LEMMA MarkKept == ASSUME TeamIInv, Mark PROVE TeamKept
  <1>1. /\ UNCHANGED <<layout, team, project, strays, copied, answered>>
        /\ promotion.at = "ensured" /\ promotion' = NoPromotion /\ lifecycle' = "completed"
        /\ due' = promotion.high
    BY DEF Mark, Tenants, targetVars
  <1>2. promotion.high \subseteq copied /\ ~Completed
    BY <1>1 DEF TeamIInv, PromotionPasses, LaneFree
  <1>3. TeamTypeOK' /\ ThereWasCopied' /\ CompletedIsPromoted'
    BY <1>1, <1>2, EndOfPromotion, OnTheLane DEF TeamIInv, TeamTypeOK, ThereWasCopied, CompletedIsPromoted
  <1>4. PromotionPasses'
    BY <1>1, EndOfPromotion DEF PromotionPasses, LaneFree
  <1>5. CopiesOnce
    BY <1>1 DEF CopiesOnce
  <1> QED
    BY <1>1, <1>2, <1>3, <1>4, <1>5 DEF TeamKept, TeamIInv, ExpiryHolds, Completed

LEMMA FaultKept == ASSUME TeamIInv, Fault PROVE TeamKept
  <1>1. /\ UNCHANGED <<layout, team, project, strays, copied, due, answered, lifecycle>>
        /\ promotion' = NoPromotion
    BY DEF Fault, Tenants, targetVars, lifeVars
  <1>2. PromotionPasses'
    BY <1>1, EndOfPromotion DEF PromotionPasses, LaneFree
  <1> QED
    BY <1>1, <1>2, EndOfPromotion, LaneStepKept

LEMMA TeamInitKept == TeamInit => TeamIInv
  <1> SUFFICES ASSUME TeamInit
               PROVE  TeamIInv
    OBVIOUS
  <1>1. TeamTypeOK /\ ThereWasCopied /\ CompletedIsPromoted
    BY EndOfPromotion DEF TeamInit, TeamTypeOK, ThereWasCopied, CompletedIsPromoted, Completed
  <1>2. PromotionPasses
    BY EndOfPromotion DEF TeamInit, PromotionPasses, LaneFree
  <1> QED
    BY <1>1, <1>2 DEF TeamInit, TeamIInv

LEMMA TeamNextKept == TeamIInv /\ [TeamNext]_teamVars => TeamIInv' /\ [CopiesOnce /\ ExpiryHolds]_teamVars
  <1> SUFFICES ASSUME TeamIInv, [TeamNext]_teamVars
               PROVE  TeamIInv' /\ [CopiesOnce /\ ExpiryHolds]_teamVars
    OBVIOUS
  <1>1. CASE UNCHANGED teamVars
    BY <1>1 DEF teamVars, TeamIInv, TeamTypeOK, ThereWasCopied, PromotionPasses, CompletedIsPromoted, Completed,
                LaneFree, Target
  <1>2. CASE TeamNext
    <2>1. TeamKept
      BY <1>2, StoreBeginsKept, StoreCommitsKept, ForgetKept, EditPromotedKept, ForgetPromotedKept, PassRowKept,
         CopyRowKept, TickKept, RecallKept, SkipPromotionKept, FindPromotedKept, EnsureKept, MarkKept, FaultKept,
         BeginPromotionKept
         DEF TeamNext, Consolidate, Maintain
    <2> QED
      BY <2>1 DEF TeamKept
  <1> QED
    BY <1>1, <1>2

(***************************************************************************)
(* The inductive invariant of a team namespace (tools/consolidate,         *)
(* namespaces/manager).                                                    *)
(***************************************************************************)
THEOREM TeamInvariance == TeamSpec => []TeamIInv
  <1> QED
    BY TeamInitKept, TeamNextKept, PTL DEF TeamSpec

(***************************************************************************)
(* The life of a team namespace: when it is completed every important row  *)
(* its promotion found has been copied, no promotion writes over a row a   *)
(* tenant revised or brings a forgotten one to the project, and what has   *)
(* been answered as expired stays so, whatever fails or is killed between. *)
(***************************************************************************)
THEOREM TeamIsSound == TeamSpec => TeamSound
  <1>1. TeamIInv /\ TeamIInv' /\ [TeamNext]_teamVars => [CopiesOnce /\ ExpiryHolds /\ CompletedIsPromoted']_teamVars
    BY TeamNextKept DEF TeamIInv
  <1> QED
    BY <1>1, TeamInvariance, PTL DEF TeamSpec, TeamSound

-----------------------------------------------------------------------------
(* The providers: the top frame of a thread is what its step replaces.      *)

(* What the replacement of a thread's top frame leaves alone. *)
LEMMA GoingOn ==
    ASSUME EmbedTypeOK, NEW t \in Thread, frames[t] # <<>>, NEW new \in SomeFrame, Goes(t, new)
    PROVE  /\ frames' \in [Thread -> Seq(SomeFrame)]
           /\ \A u \in Thread \ {t} : frames'[u] = frames[u]
           /\ Len(frames'[t]) = Len(frames[t]) /\ DOMAIN frames'[t] = DOMAIN frames[t]
           /\ DOMAIN frames[t] = 1 .. Len(frames[t])
           /\ Len(frames[t]) \in DOMAIN frames[t]
           /\ frames'[t][Len(frames[t])] = new
           /\ \A n \in DOMAIN frames[t] : n # Len(frames[t]) => frames'[t][n] = frames[t][n]
  <1> DEFINE s == frames[t]
  <1>1. s \in Seq(SomeFrame) /\ Len(s) \in 1 .. Len(s)
    BY DEF EmbedTypeOK
  <1> HIDE DEF s
  <1>2. frames' = [frames EXCEPT ![t] = [s EXCEPT ![Len(s)] = new]]
    BY DEF Goes, s
  <1>3. [s EXCEPT ![Len(s)] = new] \in Seq(SomeFrame)
    BY <1>1
  <1>4. frames' \in [Thread -> Seq(SomeFrame)] /\ frames'[t] = [s EXCEPT ![Len(s)] = new]
        /\ \A u \in Thread \ {t} : frames'[u] = frames[u]
    BY <1>2, <1>3 DEF EmbedTypeOK
  <1> QED
    BY <1>1, <1>4 DEF s

LEMMA TopIs ==
    ASSUME EmbedTypeOK, NEW t \in Thread, frames[t] # <<>>
    PROVE  /\ Top(t) \in SomeFrame /\ Len(frames[t]) \in DOMAIN frames[t] /\ Top(t) = frames[t][Len(frames[t])]
           /\ Len(frames[t]) \in Nat /\ DOMAIN frames[t] = 1 .. Len(frames[t])
  <1>1. frames[t] \in Seq(SomeFrame)
    BY DEF EmbedTypeOK
  <1> QED
    BY <1>1 DEF Top

(* The frames after a step, one at a time. *)
LEMMA FramesHoldNext ==
    ASSUME \A u \in Thread : \A n \in DOMAIN frames'[u] : \A f : f = frames'[u][n] => FrameHolds(f)'
    PROVE  (\A u \in Thread : \A n \in DOMAIN frames[u] : FrameHolds(frames[u][n]))'
  BY DEF FrameHolds, BuildHolds, Builds, Whole

(* The other frames, under a step that neither ends a load nor resets. *)
LEMMA FrameKept ==
    ASSUME NEW f \in SomeFrame, FrameHolds(f), EmbedTypeOK,
           UNCHANGED resets, generation' \in {generation, generation + 1},
           \A k \in Model : Whole(k) => disk'[k] = "complete",
           \A h \in DOMAIN holders : h \in DOMAIN holders' /\ holders'[h] = holders[h],
           \A k \in Model : builds[k] # 0 => builds'[k] = builds[k]
    PROVE  FrameHolds(f)'
  <1>1. /\ f.key \in Model /\ f.generation \in Nat /\ generation \in Nat /\ f.holder \in Nat
        /\ f.whole \in BOOLEAN
    BY DEF SomeFrame, EmbedTypeOK
  <1>2. BuildHolds(f)'
    BY <1>1 DEF FrameHolds, BuildHolds, Builds
  <1>3. (f.whole => Whole(f.key))'
    BY <1>1 DEF FrameHolds, Whole
  <1> QED
    BY <1>2, <1>3 DEF FrameHolds

(* A frame that shares a load only if its predecessor did, and waits for    *)
(* none, is as far apart from the others as that one was.                   *)
Quieter(new, old) ==
    /\ new.at # "wait"
    /\ Builds(new) => Builds(old) /\ new.holder = old.holder /\ new.began = old.began /\ new.generation = old.generation

LEMMA QuieterApart ==
    ASSUME NEW new, NEW old, NEW f, Quieter(new, old), Apart(old, f), Apart(f, old)
    PROVE  Apart(new, f) /\ Apart(f, new)
  BY DEF Quieter, Apart, Builds

(* What the step of a thread has to show of its flag. *)
FlagHolds(t, new) ==
    /\ Len(frames[t]) = 1 =>
          /\ new.at \in {"load", "loaded"} => new.holder # 0
          /\ new.at \notin {"load", "loaded"} => ~building'[t]
          /\ new.at = "load" /\ ~building'[t] => new.nested
    /\ Len(frames[t]) = 2 =>
          /\ new.at = "wait" => frames[t][1].nested
          /\ ~building'[t] => frames[t][1].nested \/ (new.at = "answered" /\ new.holder # 0)

(* The other frames beside a thread's top one. *)
Beside(t, f) ==
    \E u \in Thread : \E n \in DOMAIN frames[u] : <<u, n>> # <<t, Len(frames[t])>> /\ f = frames[u][n]

LEMMA BesideIs ==
    ASSUME EmbedIInv, NEW t \in Thread, frames[t] # <<>>, NEW f, Beside(t, f)
    PROVE  f \in SomeFrame /\ FrameHolds(f) /\ Apart(f, Top(t)) /\ Apart(Top(t), f)
  <1>1. PICK u \in Thread : \E n \in DOMAIN frames[u] : <<u, n>> # <<t, Len(frames[t])>> /\ f = frames[u][n]
    BY DEF Beside
  <1>2. PICK n \in DOMAIN frames[u] : <<u, n>> # <<t, Len(frames[t])>> /\ f = frames[u][n]
    BY <1>1
  <1>3. frames[u] \in Seq(SomeFrame)
    BY DEF EmbedIInv, EmbedTypeOK
  <1>4. Top(t) = frames[t][Len(frames[t])] /\ Len(frames[t]) \in DOMAIN frames[t]
    BY TopIs DEF EmbedIInv
  <1>5. Apart(f, Top(t)) /\ Apart(Top(t), f)
    BY <1>2, <1>4 DEF EmbedIInv, FramesApart
  <1> QED
    BY <1>2, <1>3, <1>5 DEF EmbedIInv

(* A thread that asks has one frame or two. *)
LEMMA TwoDeep == ASSUME EmbedIInv, NEW t \in Thread, frames[t] # <<>> PROVE Len(frames[t]) \in {1, 2}
  <1> DEFINE n == Len(frames[t])
  <1>1. frames[t] \in Seq(SomeFrame)
    BY DEF EmbedIInv, EmbedTypeOK
  <1>2. n \in Nat /\ n # 0
    BY <1>1
  <1>3. n <= 2
    BY DEF EmbedIInv, ThreadHolds
  <1> HIDE DEF n
  <1>4. n \in {1, 2}
    BY <1>2, <1>3
  <1> QED
    BY <1>4 DEF n

(* A thread's step: its top frame is replaced. *)
LEMMA GoesKept ==
    ASSUME EmbedIInv, NEW t \in Thread, frames[t] # <<>>, NEW new \in SomeFrame, Goes(t, new),
           UNCHANGED <<policy, disk, resets>>,
           providers' \in [Model -> SomeAnswer], stamp' \in Stamps, generation' \in Nat,
           builds' \in [Model -> Nat], holders' \in Seq(SomeHolder), building' \in [Thread -> BOOLEAN],
           CacheHolds',
           \A u \in Thread \ {t} : building'[u] = building[u],
           FlagHolds(t, new),
           FrameHolds(new)',
           \A f : Beside(t, f) => FrameHolds(f)' /\ Apart(new, f) /\ Apart(f, new)
    PROVE  EmbedIInv'
  <1>1. EmbedTypeOK
    BY DEF EmbedIInv
  <1>2. /\ frames' \in [Thread -> Seq(SomeFrame)]
        /\ \A u \in Thread \ {t} : frames'[u] = frames[u]
        /\ Len(frames'[t]) = Len(frames[t]) /\ DOMAIN frames'[t] = DOMAIN frames[t]
        /\ DOMAIN frames[t] = 1 .. Len(frames[t])
        /\ Len(frames[t]) \in DOMAIN frames[t]
        /\ frames'[t][Len(frames[t])] = new
        /\ \A n \in DOMAIN frames[t] : n # Len(frames[t]) => frames'[t][n] = frames[t][n]
    BY <1>1, GoingOn
  <1>3. EmbedTypeOK'
    BY <1>1, <1>2 DEF EmbedTypeOK
  <1>4. ASSUME NEW u \in Thread, NEW n \in DOMAIN frames'[u]
        PROVE  \/ u = t /\ n = Len(frames[t]) /\ frames'[u][n] = new
               \/ <<u, n>> # <<t, Len(frames[t])>> /\ n \in DOMAIN frames[u] /\ frames'[u][n] = frames[u][n]
                  /\ Beside(t, frames[u][n])
    BY <1>2 DEF Beside
  <1>5. ASSUME NEW u \in Thread, NEW n \in DOMAIN frames'[u], NEW f, f = frames'[u][n]
        PROVE  FrameHolds(f)'
    BY <1>4, <1>5
  <1>6. (\A u \in Thread : \A n \in DOMAIN frames[u] : FrameHolds(frames[u][n]))'
    BY <1>5, FramesHoldNext
  <1>7. ASSUME NEW u \in Thread, NEW v \in Thread, NEW n \in DOMAIN frames'[u], NEW m \in DOMAIN frames'[v],
               <<u, n>> # <<v, m>>
        PROVE  Apart(frames'[u][n], frames'[v][m])
    BY <1>4, <1>7 DEF EmbedIInv, FramesApart
  <1>8. FramesApart'
    BY <1>7 DEF FramesApart, Apart, Builds
  <1>9. ASSUME NEW u \in Thread PROVE ThreadHolds(u)'
    <2>1. CASE u # t
      BY <1>2, <2>1 DEF EmbedIInv, ThreadHolds
    <2>2. CASE u = t
      <3>1. frames'[t] # <<>> /\ frames'[t] \in Seq(SomeFrame) /\ frames[t] \in Seq(SomeFrame)
        BY <1>1, <1>2 DEF EmbedTypeOK
      <3>2. ThreadHolds(t)
        BY DEF EmbedIInv
      <3>3. Len(frames[t]) \in {1, 2}
        BY TwoDeep
      <3>4. CASE Len(frames[t]) = 1
        <4>1. Len(frames'[t]) = 1 /\ frames'[t][1] = new
          BY <1>2, <3>4
        <4>2. /\ new.at \notin {"load", "loaded"} => ~building'[t]
              /\ new.at \in {"load", "loaded"} => new.holder # 0
              /\ new.at = "load" /\ ~building'[t] => new.nested
          BY <3>4 DEF FlagHolds
        <4> QED
          BY <2>2, <3>1, <4>1, <4>2 DEF ThreadHolds
      <3>5. CASE Len(frames[t]) = 2
        <4>1. frames'[t][1] = frames[t][1] /\ frames'[t][2] = new
          BY <1>2, <3>5
        <4> QED
          BY <1>2, <2>2, <3>1, <3>2, <3>5, <4>1 DEF ThreadHolds, FlagHolds
      <3> QED
        BY <3>3, <3>4, <3>5
    <2> QED
      BY <2>1, <2>2
  <1> QED
    BY <1>3, <1>6, <1>8, <1>9 DEF EmbedIInv


(* The flag of a thread, as its step finds it. *)
LEMMA FlagIs ==
    ASSUME EmbedIInv, NEW t \in Thread, frames[t] # <<>>
    PROVE  /\ Len(frames[t]) \in {1, 2}
           /\ Len(frames[t]) = 1 =>
                 /\ Top(t).at \notin {"load", "loaded"} => ~building[t]
                 /\ Top(t).at \in {"load", "loaded"} => Top(t).holder # 0
           /\ Len(frames[t]) = 2 =>
                 /\ Top(t).at = "wait" => frames[t][1].nested
                 /\ ~building[t] => frames[t][1].nested \/ (Top(t).at = "answered" /\ Top(t).holder # 0)
           /\ building[t] \in BOOLEAN
  <1>1. ThreadHolds(t) /\ building[t] \in BOOLEAN /\ frames[t] \in Seq(SomeFrame)
    BY DEF EmbedIInv, EmbedTypeOK
  <1>2. Len(frames[t]) \in {1, 2}
    BY TwoDeep
  <1>3. CASE Len(frames[t]) = 1
    <2>1. Top(t) = frames[t][1]
      BY <1>3 DEF Top
    <2> QED
      BY <1>1, <1>2, <1>3, <2>1 DEF ThreadHolds
  <1>4. CASE Len(frames[t]) = 2
    <2>1. Top(t) = frames[t][2]
      BY <1>4 DEF Top
    <2> QED
      BY <1>1, <1>2, <1>4, <2>1 DEF ThreadHolds
  <1> QED
    BY <1>2, <1>3, <1>4

(* A step of a thread that changes nothing but its frame. *)
LEMMA StepKept ==
    ASSUME EmbedIInv, NEW t \in Thread, frames[t] # <<>>, NEW new \in SomeFrame, Goes(t, new),
           UNCHANGED <<policy, disk, resets, cacheVars, building>>,
           FlagHolds(t, new), FrameHolds(new), Quieter(new, Top(t))
    PROVE  EmbedIInv'
  <1>1. EmbedTypeOK /\ CacheHolds
    BY DEF EmbedIInv
  <1>2. CacheHolds'
    BY <1>1 DEF CacheHolds, cacheVars
  <1>3. FrameHolds(new)'
    BY DEF FrameHolds, BuildHolds, Builds, Whole, cacheVars
  <1>4. ASSUME NEW f, Beside(t, f) PROVE FrameHolds(f)' /\ Apart(new, f) /\ Apart(f, new)
    <2>1. FrameHolds(f) /\ Apart(f, Top(t)) /\ Apart(Top(t), f)
      BY <1>4, BesideIs
    <2>2. FrameHolds(f)'
      BY <2>1 DEF FrameHolds, BuildHolds, Builds, Whole, cacheVars
    <2> QED
      BY <2>1, <2>2, QuieterApart
  <1> QED
    BY <1>1, <1>2, <1>3, <1>4, GoesKept DEF EmbedTypeOK, cacheVars

LEMMA AskKept == ASSUME EmbedIInv, NEW t \in Thread, Ask(t) PROVE EmbedIInv'
  <1> DEFINE new == [Top(t) EXCEPT !.at = "decide", !.stamp = policy]
  <1>1. /\ frames[t] # <<>> /\ Top(t).at = "ask" /\ Goes(t, new)
        /\ UNCHANGED <<policy, disk, resets, cacheVars, building>>
    BY DEF Ask, FrameAt, Quiet, Outside
  <1>2. EmbedTypeOK /\ Top(t) \in SomeFrame /\ FrameHolds(Top(t))
    BY <1>1, TopIs DEF EmbedIInv
  <1>3. new \in SomeFrame
    BY <1>2 DEF SomeFrame, EmbedTypeOK
  <1>4. /\ new.at = "decide" /\ new.key = Top(t).key /\ new.asked = Top(t).asked /\ new.began = Top(t).began
        /\ new.whole = Top(t).whole
    BY <1>2 DEF SomeFrame
  <1> HIDE DEF new
  <1>5. FrameHolds(new) /\ Quieter(new, Top(t))
    BY <1>2, <1>4 DEF FrameHolds, BuildHolds, Builds, Quieter
  <1>6. FlagHolds(t, new)
    BY <1>1, <1>4, FlagIs DEF FlagHolds
  <1> QED
    BY <1>1, <1>3, <1>5, <1>6, StepKept

Answered(f, answer) == [f EXCEPT !.at = "answered", !.answer = answer, !.generation = 0]

(* An answer, from one place or another. *)
LEMMA AnswersIs ==
    ASSUME EmbedTypeOK, NEW t \in Thread, frames[t] # <<>>, NEW answer \in SomeAnswer,
           FrameHolds(Top(t)),
           answer.kind = "provider" => answer.stamp = Top(t).stamp /\ answer.began >= Top(t).asked,
           answer.kind = "missing" => ~Top(t).whole
    PROVE  LET new == Answered(Top(t), answer)
           IN
           /\ new \in SomeFrame /\ FrameHolds(new) /\ Quieter(new, Top(t)) /\ new.at = "answered"
           /\ new.holder = Top(t).holder /\ new.asked = Top(t).asked /\ new.began = Top(t).began
           /\ new.whole = Top(t).whole /\ new.key = Top(t).key /\ new.stamp = Top(t).stamp /\ new.answer = answer
  <1> DEFINE new == Answered(Top(t), answer)
  <1>1. Top(t) \in SomeFrame
    BY TopIs
  <1>2. new \in SomeFrame
    BY <1>1 DEF SomeFrame, Answered
  <1>3. /\ new.at = "answered" /\ new.holder = Top(t).holder /\ new.asked = Top(t).asked
        /\ new.began = Top(t).began /\ new.whole = Top(t).whole /\ new.key = Top(t).key
        /\ new.stamp = Top(t).stamp /\ new.answer = answer
    BY <1>1 DEF SomeFrame, Answered
  <1> HIDE DEF new
  <1>4. FrameHolds(new) /\ Quieter(new, Top(t))
    BY <1>3 DEF FrameHolds, BuildHolds, Builds, Quieter
  <1> QED
    BY <1>2, <1>3, <1>4 DEF new

LEMMA TopHolds ==
    ASSUME EmbedIInv, NEW t \in Thread, frames[t] # <<>>
    PROVE  EmbedTypeOK /\ CacheHolds /\ Top(t) \in SomeFrame /\ FrameHolds(Top(t))
  BY TopIs DEF EmbedIInv

LEMMA LoadsKept ==
    ASSUME EmbedIInv, NEW t \in Thread, NEW answer \in SomeAnswer, Loads(t, answer),
           UNCHANGED <<policy, disk, resets, cacheVars, building>>,
           answer.kind = "provider" => answer.stamp = Top(t).stamp /\ answer.began = Top(t).began,
           answer.kind = "missing" => ~Top(t).whole
    PROVE  EmbedIInv'
  <1> DEFINE new == [Top(t) EXCEPT !.at = "loaded", !.answer = answer]
  <1>1. frames[t] # <<>> /\ Top(t).at = "load" /\ Goes(t, new)
    BY DEF Loads, FrameAt
  <1>2. EmbedTypeOK /\ Top(t) \in SomeFrame /\ FrameHolds(Top(t))
    BY <1>1, TopHolds
  <1>3. new \in SomeFrame
    BY <1>2 DEF SomeFrame
  <1>4. /\ new.at = "loaded" /\ new.key = Top(t).key /\ new.asked = Top(t).asked /\ new.began = Top(t).began
        /\ new.whole = Top(t).whole /\ new.answer = answer /\ new.stamp = Top(t).stamp
        /\ new.holder = Top(t).holder /\ new.generation = Top(t).generation
        /\ new.asked \in Nat /\ new.began \in Nat
    BY <1>2 DEF SomeFrame
  <1> HIDE DEF new
  <1>5. FrameHolds(new) /\ Quieter(new, Top(t))
    BY <1>1, <1>2, <1>4 DEF FrameHolds, BuildHolds, Builds, Quieter
  <1>6. FlagHolds(t, new)
    BY <1>1, <1>4, FlagIs DEF FlagHolds
  <1> QED
    BY <1>1, <1>3, <1>5, <1>6, StepKept

LEMMA LoadKept == ASSUME EmbedIInv, NEW t \in Thread, Load(t) PROVE EmbedIInv'
  <1> DEFINE answer == IF RefusedCode(Top(t).key) THEN Raised("refused")
                       ELSE IF ~Whole(Top(t).key) THEN Raised("missing") ELSE Provider(Top(t))
  <1>1. frames[t] # <<>> /\ Loads(t, answer) /\ UNCHANGED <<policy, disk, resets, cacheVars, building>>
    BY DEF Load, FrameAt, Quiet, Outside
  <1>2. Top(t) \in SomeFrame /\ FrameHolds(Top(t))
    BY <1>1, TopHolds
  <1>3. answer \in SomeAnswer
    BY <1>2 DEF SomeAnswer, SomeFrame, Raised, NoAnswer, Provider, Stamps
  <1>4. /\ answer.kind = "provider" => answer.stamp = Top(t).stamp /\ answer.began = Top(t).began
        /\ answer.kind = "missing" => ~Top(t).whole
    BY <1>2 DEF Raised, NoAnswer, Provider, FrameHolds
  <1> HIDE DEF answer
  <1> QED
    BY <1>1, <1>3, <1>4, LoadsKept

LEMMA LoadFailsKept == ASSUME EmbedIInv, NEW t \in Thread, LoadFails(t) PROVE EmbedIInv'
  <1>1. Loads(t, NoAnswer) /\ UNCHANGED <<policy, disk, resets, cacheVars, building>>
    BY DEF LoadFails, Outside
  <1>2. NoAnswer \in SomeAnswer /\ NoAnswer.kind = "none"
    BY DEF SomeAnswer, NoAnswer, Stamps
  <1> QED
    BY <1>1, <1>2, LoadsKept

LEMMA UnsharedEndsKept == ASSUME EmbedIInv, NEW t \in Thread, UnsharedEnds(t) PROVE EmbedIInv'
  <1> DEFINE new == Answered(Top(t), Top(t).answer)
  <1>1. /\ frames[t] # <<>> /\ Top(t).at = "loaded" /\ Top(t).holder = 0 /\ Goes(t, new)
        /\ UNCHANGED <<policy, disk, resets, cacheVars, building>>
    BY DEF UnsharedEnds, FrameAt, Shared, Answers, Answered, Quiet, Outside
  <1>2. EmbedTypeOK /\ Top(t) \in SomeFrame /\ FrameHolds(Top(t))
    BY <1>1, TopHolds
  <1>3. new \in SomeFrame /\ FrameHolds(new) /\ Quieter(new, Top(t)) /\ new.at = "answered"
    BY <1>1, <1>2, AnswersIs DEF FrameHolds, SomeFrame
  <1> HIDE DEF new
  <1>4. FlagHolds(t, new)
    BY <1>1, <1>3, FlagIs DEF FlagHolds
  <1> QED
    BY <1>1, <1>3, <1>4, StepKept

LEMMA WaitedLongKept == ASSUME EmbedIInv, NEW t \in Thread, WaitedLong(t) PROVE EmbedIInv'
  <1> DEFINE new == Answered(Top(t), NoAnswer)
  <1>1. /\ frames[t] # <<>> /\ Top(t).at = "wait" /\ Goes(t, new)
        /\ UNCHANGED <<policy, disk, resets, cacheVars, building>>
    BY DEF WaitedLong, FrameAt, Answers, Answered, Outside
  <1>2. EmbedTypeOK /\ FrameHolds(Top(t)) /\ NoAnswer \in SomeAnswer /\ NoAnswer.kind = "none"
    BY <1>1, TopHolds DEF SomeAnswer, NoAnswer, Stamps
  <1>3. new \in SomeFrame /\ FrameHolds(new) /\ Quieter(new, Top(t)) /\ new.at = "answered"
    BY <1>1, <1>2, AnswersIs
  <1> HIDE DEF new
  <1>4. FlagHolds(t, new)
    BY <1>1, <1>3, FlagIs DEF FlagHolds
  <1> QED
    BY <1>1, <1>3, <1>4, StepKept

LEMMA WokenKept == ASSUME EmbedIInv, NEW t \in Thread, Woken(t) PROVE EmbedIInv'
  <1> DEFINE h     == holders[Top(t).holder]
             given == Answered(Top(t), h.answer)
             again == [Top(t) EXCEPT !.at = "ask", !.stamp = "", !.generation = 0, !.holder = 0]
  <1>1. /\ frames[t] # <<>> /\ Top(t).at = "wait" /\ h.done
        /\ IF Takes(t, h) THEN Goes(t, given) ELSE Goes(t, again)
        /\ UNCHANGED <<policy, disk, resets, cacheVars, building>>
    BY DEF Woken, FrameAt, Answers, Answered, Quiet, Outside
  <1>2. EmbedTypeOK /\ CacheHolds /\ Top(t) \in SomeFrame /\ FrameHolds(Top(t))
    BY <1>1, TopHolds
  <1>3. Top(t).holder \in DOMAIN holders /\ h \in SomeHolder
    BY <1>1, <1>2 DEF FrameHolds, EmbedTypeOK
  <1>4. CASE Takes(t, h)
    <2>1. h.answer \in SomeAnswer /\ h.answer.kind # "missing"
      BY <1>3, <1>4 DEF SomeHolder, Takes
    <2>2. h.answer.kind = "provider" => h.answer.stamp = Top(t).stamp /\ h.answer.began >= Top(t).asked
      BY <1>1, <1>2, <1>3, <1>4 DEF Takes, CacheHolds, FrameHolds, SomeHolder, SomeFrame, SomeAnswer
    <2>3. given \in SomeFrame /\ FrameHolds(given) /\ Quieter(given, Top(t)) /\ given.at = "answered"
      BY <1>1, <1>2, <2>1, <2>2, AnswersIs
    <2> HIDE DEF given
    <2>4. FlagHolds(t, given)
      BY <1>1, <2>3, FlagIs DEF FlagHolds
    <2> QED
      BY <1>1, <1>4, <2>3, <2>4, StepKept
  <1>5. CASE ~Takes(t, h)
    <2>1. again \in SomeFrame
      BY <1>2 DEF SomeFrame, Stamps
    <2>2. /\ again.at = "ask" /\ again.key = Top(t).key /\ again.asked = Top(t).asked
          /\ again.began = Top(t).began /\ again.whole = Top(t).whole
      BY <1>2 DEF SomeFrame
    <2> HIDE DEF again
    <2>3. FrameHolds(again) /\ Quieter(again, Top(t))
      BY <1>2, <2>2 DEF FrameHolds, BuildHolds, Builds, Quieter
    <2>4. FlagHolds(t, again)
      BY <1>1, <2>2, FlagIs DEF FlagHolds
    <2> QED
      BY <1>1, <1>5, <2>1, <2>3, <2>4, StepKept
  <1> QED
    BY <1>4, <1>5

(* What a thread decides under the lock leaves to the cache and to others. *)
LEMMA DecidesKept ==
    ASSUME EmbedIInv, NEW t \in Thread, Decides(t)
    PROVE  /\ frames[t] # <<>> /\ Top(t).at = "decide"
           /\ UNCHANGED <<policy, disk, resets>>
           /\ providers' \in [Model -> SomeAnswer] /\ stamp' \in Stamps
           /\ generation' = Now(t) /\ Now(t) \in {generation, generation + 1} /\ generation \in Nat /\ Now(t) \in Nat
           /\ \A k \in Model : Kept(t)[k].kind = "provider" =>
                 /\ Kept(t)[k] \in SomeAnswer
                 /\ Kept(t)[k].stamp = Top(t).stamp /\ Kept(t)[k].began = resets
           /\ providers' = Kept(t) /\ stamp' = Top(t).stamp
  <1>1. /\ frames[t] # <<>> /\ Top(t).at = "decide" /\ UNCHANGED <<policy, disk, resets>>
        /\ providers' = Kept(t) /\ stamp' = Top(t).stamp /\ generation' = Now(t)
    BY DEF Decides, FrameAt, Quiet, Outside
  <1>2. EmbedTypeOK /\ CacheHolds /\ Top(t) \in SomeFrame
    BY <1>1, TopHolds
  <1>3. Top(t).stamp \in Stamps /\ NoAnswer \in SomeAnswer /\ NoAnswer.kind = "none"
    BY <1>2 DEF SomeFrame, NoAnswer, SomeAnswer, Stamps
  <1>4. Kept(t) \in [Model -> SomeAnswer]
    BY <1>2, <1>3 DEF Kept, EmbedTypeOK
  <1>5. \A k \in Model : Kept(t)[k].kind = "provider" =>
            Kept(t)[k] \in SomeAnswer /\ Kept(t)[k].stamp = Top(t).stamp /\ Kept(t)[k].began = resets
    BY <1>2, <1>3, <1>4 DEF Kept, CacheHolds
  <1>6. generation \in Nat /\ Now(t) \in {generation, generation + 1} /\ Now(t) \in Nat
    BY <1>2 DEF Now, EmbedTypeOK
  <1> QED
    BY <1>1, <1>3, <1>4, <1>5, <1>6

(* A decision that starts no load: what is pending stays. *)
LEMMA DecidedKept ==
    ASSUME EmbedIInv, NEW t \in Thread, Decides(t), UNCHANGED <<builds, holders, building>>,
           NEW new \in SomeFrame, Goes(t, new), FlagHolds(t, new), FrameHolds(new)',
           \A f : Beside(t, f) => Apart(new, f) /\ Apart(f, new)
    PROVE  EmbedIInv'
  <1>1. /\ frames[t] # <<>>
        /\ UNCHANGED <<policy, disk, resets>>
        /\ providers' \in [Model -> SomeAnswer] /\ stamp' \in Stamps
        /\ generation' \in {generation, generation + 1} /\ generation' \in Nat
        /\ \A k \in Model : providers'[k].kind = "provider" =>
              providers'[k].stamp = stamp' /\ providers'[k].began = resets
    BY DecidesKept
  <1>2. EmbedTypeOK /\ CacheHolds
    BY DEF EmbedIInv
  <1>3. CacheHolds'
    BY <1>1, <1>2 DEF CacheHolds
  <1>4. ASSUME NEW f, Beside(t, f) PROVE FrameHolds(f)'
    <2>1. f \in SomeFrame /\ FrameHolds(f)
      BY <1>1, <1>4, BesideIs
    <2> QED
      BY <1>1, <1>2, <2>1, FrameKept DEF Whole
  <1> QED
    BY <1>1, <1>2, <1>3, <1>4, GoesKept DEF EmbedTypeOK

(* A frame that shares no load and waits for none. *)
LEMMA AloneHolds ==
    ASSUME NEW f \in SomeFrame, FrameHolds(f), ~Builds(f), f.at # "wait", UNCHANGED <<disk, resets>>
    PROVE  FrameHolds(f)'
  BY DEF FrameHolds, BuildHolds, Builds, Whole

LEMMA ServeKept == ASSUME EmbedIInv, NEW t \in Thread, Serve(t) PROVE EmbedIInv'
  <1>0. PICK new : new = Answered(Top(t), Kept(t)[Top(t).key])
    OBVIOUS
  <1>1. /\ Decides(t) /\ Kept(t)[Top(t).key].kind = "provider" /\ Goes(t, new)
        /\ UNCHANGED <<builds, holders, building>>
    BY <1>0 DEF Serve, Cached, Answers, Answered
  <1>2. frames[t] # <<>> /\ Top(t).at = "decide" /\ UNCHANGED <<disk, resets>>
    BY <1>1, DecidesKept
  <1>3. EmbedTypeOK /\ Top(t) \in SomeFrame /\ FrameHolds(Top(t)) /\ Top(t).key \in Model
        /\ resets \in Nat /\ Top(t).asked \in Nat
    BY <1>2, TopHolds DEF SomeFrame, EmbedTypeOK
  <1>4. /\ Kept(t)[Top(t).key] \in SomeAnswer
        /\ Kept(t)[Top(t).key].stamp = Top(t).stamp /\ Kept(t)[Top(t).key].began >= Top(t).asked
    BY <1>1, <1>3, DecidesKept DEF FrameHolds
  <1>5. new \in SomeFrame /\ FrameHolds(new) /\ Quieter(new, Top(t)) /\ new.at = "answered"
    BY <1>0, <1>1, <1>2, <1>3, <1>4, AnswersIs
  <1>6. FlagHolds(t, new)
    BY <1>1, <1>2, <1>5, FlagIs DEF FlagHolds
  <1>7. FrameHolds(new)'
    BY <1>2, <1>5, AloneHolds DEF Builds
  <1>8. \A f : Beside(t, f) => Apart(new, f) /\ Apart(f, new)
    BY <1>2, <1>5, BesideIs, QuieterApart
  <1> QED
    BY <1>1, <1>5, <1>6, <1>7, <1>8, DecidedKept

LEMMA ReenteredKept == ASSUME EmbedIInv, NEW t \in Thread, Reentered(t) PROVE EmbedIInv'
  <1>0. PICK new : new = Answered(Top(t), NoAnswer)
    OBVIOUS
  <1>1. Decides(t) /\ Goes(t, new) /\ UNCHANGED <<builds, holders, building>>
    BY <1>0 DEF Reentered, Answers, Answered
  <1>2. frames[t] # <<>> /\ Top(t).at = "decide" /\ UNCHANGED <<disk, resets>>
    BY <1>1, DecidesKept
  <1>3. EmbedTypeOK /\ FrameHolds(Top(t)) /\ NoAnswer \in SomeAnswer /\ NoAnswer.kind = "none"
    BY <1>2, TopHolds DEF NoAnswer, SomeAnswer, Stamps
  <1>4. new \in SomeFrame /\ FrameHolds(new) /\ Quieter(new, Top(t)) /\ new.at = "answered"
    BY <1>0, <1>2, <1>3, AnswersIs
  <1>5. FlagHolds(t, new)
    BY <1>1, <1>2, <1>4, FlagIs DEF FlagHolds
  <1>6. FrameHolds(new)'
    BY <1>2, <1>4, AloneHolds DEF Builds
  <1>7. \A f : Beside(t, f) => Apart(new, f) /\ Apart(f, new)
    BY <1>2, <1>4, BesideIs, QuieterApart
  <1> QED
    BY <1>1, <1>4, <1>5, <1>6, <1>7, DecidedKept

LEMMA BuildUnsharedKept == ASSUME EmbedIInv, NEW t \in Thread, BuildUnshared(t) PROVE EmbedIInv'
  <1>0. PICK new : new = [Top(t) EXCEPT !.at = "load", !.holder = 0, !.began = resets]
    OBVIOUS
  <1>1. Decides(t) /\ building[t] /\ Goes(t, new) /\ UNCHANGED <<builds, holders, building>>
    BY <1>0 DEF BuildUnshared, Building
  <1>2. frames[t] # <<>> /\ Top(t).at = "decide" /\ UNCHANGED <<disk, resets>>
    BY <1>1, DecidesKept
  <1>3. EmbedTypeOK /\ FrameHolds(Top(t)) /\ Top(t) \in SomeFrame
    BY <1>2, TopHolds
  <1>4. new \in SomeFrame /\ resets \in Nat
    BY <1>0, <1>3 DEF SomeFrame, EmbedTypeOK
  <1>5. /\ new.at = "load" /\ new.holder = 0 /\ new.began = resets /\ new.asked = Top(t).asked
        /\ new.whole = Top(t).whole /\ new.key = Top(t).key
    BY <1>0, <1>3 DEF SomeFrame
  <1>6. FrameHolds(new) /\ Quieter(new, Top(t)) /\ ~Builds(new)
    BY <1>3, <1>4, <1>5 DEF FrameHolds, BuildHolds, Builds, Quieter
  <1>7. FlagHolds(t, new)
    BY <1>1, <1>2, <1>5, FlagIs DEF FlagHolds
  <1>8. FrameHolds(new)'
    BY <1>2, <1>4, <1>5, <1>6, AloneHolds
  <1>9. \A f : Beside(t, f) => Apart(new, f) /\ Apart(f, new)
    BY <1>2, <1>6, BesideIs, QuieterApart
  <1> QED
    BY <1>1, <1>4, <1>7, <1>8, <1>9, DecidedKept

LEMMA WaitKept == ASSUME EmbedIInv, NEW t \in Thread, Wait(t) PROVE EmbedIInv'
  <1>0. PICK new : new = [Top(t) EXCEPT !.at = "wait", !.holder = Pending(t), !.generation = Now(t)]
    OBVIOUS
  <1>1. /\ Decides(t) /\ ForeignBuild(t) /\ ~building[t] /\ Goes(t, new)
        /\ UNCHANGED <<builds, holders, building>>
    BY <1>0 DEF Wait, Building
  <1>2. frames[t] # <<>> /\ Top(t).at = "decide" /\ UNCHANGED <<disk, resets>>
        /\ Now(t) \in {generation, generation + 1} /\ generation \in Nat /\ Now(t) \in Nat
    BY <1>1, DecidesKept
  <1>3. EmbedTypeOK /\ CacheHolds /\ FrameHolds(Top(t)) /\ Top(t) \in SomeFrame /\ Top(t).key \in Model
    BY <1>2, TopHolds DEF SomeFrame
  <1>4. /\ Pending(t) = builds[Top(t).key] /\ Pending(t) \in DOMAIN holders /\ ~holders[Pending(t)].done
        /\ Pending(t) \in Nat
    BY <1>1, <1>3 DEF ForeignBuild, Pending, CacheHolds, EmbedTypeOK
  <1>5. new \in SomeFrame
    BY <1>0, <1>2, <1>3, <1>4 DEF SomeFrame
  <1>6. /\ new.at = "wait" /\ new.holder = Pending(t) /\ new.generation = Now(t) /\ new.asked = Top(t).asked
        /\ new.began = Top(t).began /\ new.whole = Top(t).whole /\ new.key = Top(t).key
    BY <1>0, <1>3 DEF SomeFrame
  <1>7. FlagHolds(t, new)
    BY <1>1, <1>2, <1>6, FlagIs DEF FlagHolds
  <1>8. FrameHolds(new)
    BY <1>3, <1>4, <1>6 DEF FrameHolds, BuildHolds, Builds
  <1>9. FrameHolds(new)'
    BY <1>1, <1>2, <1>6, <1>8 DEF FrameHolds, BuildHolds, Builds, Whole
  <1>10. ASSUME NEW f, Beside(t, f) PROVE Apart(new, f) /\ Apart(f, new)
    <2>1. f \in SomeFrame /\ FrameHolds(f)
      BY <1>2, <1>10, BesideIs
    <2>2. ASSUME Builds(f), f.holder = new.holder, f.generation = new.generation PROVE new.asked <= f.began
      <3>1. f.generation <= generation /\ (f.generation = generation => f.began = resets)
        BY <2>1, <2>2 DEF FrameHolds, BuildHolds
      <3>2. f.generation \in Nat
        BY <2>1 DEF SomeFrame
      <3>3. f.began = resets
        BY <1>2, <1>6, <2>2, <3>1, <3>2
      <3> QED
        BY <1>8, <3>3 DEF FrameHolds
    <2> QED
      BY <1>6, <2>2 DEF Apart, Builds
  <1> QED
    BY <1>1, <1>5, <1>7, <1>9, <1>10, DecidedKept

LEMMA BuildKept == ASSUME EmbedIInv, NEW t \in Thread, Build(t) PROVE EmbedIInv'
  <1>0. PICK h : h = Len(holders')
    OBVIOUS
  <1>1. PICK new : new = [Top(t) EXCEPT !.at = "load", !.holder = h, !.generation = Now(t), !.began = resets]
    OBVIOUS
  <1>2. PICK made : made = [key |-> Top(t).key, owner |-> t, stamp |-> Top(t).stamp, generation |-> Now(t),
                            done |-> FALSE, answer |-> NoAnswer]
    OBVIOUS
  <1>3. /\ Decides(t) /\ builds[Top(t).key] = 0
        /\ holders' = Append(holders, made) /\ builds' = [builds EXCEPT ![Top(t).key] = h]
        /\ building' = [building EXCEPT ![t] = TRUE] /\ Goes(t, new)
    BY <1>0, <1>1, <1>2 DEF Build
  <1>4. /\ frames[t] # <<>> /\ Top(t).at = "decide" /\ UNCHANGED <<policy, disk, resets>>
        /\ providers' \in [Model -> SomeAnswer] /\ stamp' \in Stamps
        /\ generation' = Now(t) /\ Now(t) \in {generation, generation + 1} /\ generation \in Nat /\ Now(t) \in Nat
        /\ \A k \in Model : providers'[k].kind = "provider" =>
              providers'[k].stamp = stamp' /\ providers'[k].began = resets
    BY <1>3, DecidesKept
  <1>5. EmbedTypeOK /\ CacheHolds /\ FrameHolds(Top(t)) /\ Top(t) \in SomeFrame
    BY <1>4, TopHolds
  <1>6. /\ Top(t).key \in Model /\ Top(t).stamp \in Stamps /\ resets \in Nat
        /\ NoAnswer \in SomeAnswer /\ NoAnswer.kind = "none"
    BY <1>5 DEF SomeFrame, NoAnswer, SomeAnswer, Stamps, EmbedTypeOK
  <1>7. made \in SomeHolder
    BY <1>2, <1>4, <1>6 DEF SomeHolder
  <1>8. /\ made.key = Top(t).key /\ made.stamp = Top(t).stamp /\ made.generation = Now(t) /\ ~made.done
        /\ made.answer.kind = "none"
    BY <1>2, <1>6
  <1>9. /\ holders \in Seq(SomeHolder) /\ DOMAIN holders = 1 .. Len(holders) /\ Len(holders) \in Nat
        /\ h = Len(holders) + 1 /\ holders' \in Seq(SomeHolder) /\ DOMAIN holders' = 1 .. h
        /\ holders'[h] = made /\ \A i \in DOMAIN holders : holders'[i] = holders[i]
    BY <1>0, <1>3, <1>5, <1>7 DEF EmbedTypeOK
  <1>10. /\ builds' \in [Model -> Nat] /\ builds'[Top(t).key] = h
         /\ \A k \in Model : k # Top(t).key => builds'[k] = builds[k]
         /\ building' \in [Thread -> BOOLEAN] /\ building'[t] = TRUE
         /\ \A u \in Thread \ {t} : building'[u] = building[u]
    BY <1>3, <1>5, <1>6, <1>9 DEF EmbedTypeOK
  <1>11. h \in Nat /\ h # 0 /\ h \notin DOMAIN holders /\ h \in DOMAIN holders'
         /\ \A i \in DOMAIN holders : i \in DOMAIN holders'
    BY <1>9
  <1>12. new \in SomeFrame
    BY <1>1, <1>4, <1>5, <1>6, <1>11 DEF SomeFrame
  <1>13. /\ new.at = "load" /\ new.holder = h /\ new.generation = Now(t) /\ new.asked = Top(t).asked
         /\ new.began = resets /\ new.whole = Top(t).whole /\ new.key = Top(t).key /\ new.stamp = Top(t).stamp
    BY <1>1, <1>5 DEF SomeFrame
  <1>14. CacheHolds'
    <2>1. ASSUME NEW k \in Model, builds'[k] # 0
          PROVE  builds'[k] \in DOMAIN holders' /\ ~holders'[builds'[k]].done /\ holders'[builds'[k]].key = k
      BY <1>5, <1>8, <1>9, <1>10, <1>11, <2>1 DEF CacheHolds
    <2>2. ASSUME NEW i \in DOMAIN holders', holders'[i].answer.kind = "provider"
          PROVE  holders'[i].answer.stamp = holders'[i].stamp
      <3>1. i # h
        BY <1>8, <1>9, <2>2
      <3>2. i \in DOMAIN holders
        BY <1>9, <3>1
      <3> QED
        BY <1>5, <1>9, <2>2, <3>2 DEF CacheHolds
    <2> QED
      BY <1>4, <2>1, <2>2 DEF CacheHolds
  <1>15. FlagHolds(t, new)
    BY <1>4, <1>10, <1>11, <1>13 DEF FlagHolds
  <1>16. FrameHolds(new)'
    <2>1. BuildHolds(new)'
      BY <1>4, <1>8, <1>9, <1>10, <1>11, <1>13 DEF BuildHolds
    <2>2. new.asked <= resets' /\ new.began <= resets' /\ (new.whole => Whole(new.key)')
      BY <1>4, <1>5, <1>6, <1>13 DEF FrameHolds, Whole
    <2> QED
      BY <1>4, <1>13, <2>1, <2>2 DEF FrameHolds, Whole
  <1>17. ASSUME NEW f, Beside(t, f) PROVE FrameHolds(f)' /\ Apart(new, f) /\ Apart(f, new)
    <2>1. f \in SomeFrame /\ FrameHolds(f)
      BY <1>4, <1>17, BesideIs
    <2>2. \A k \in Model : builds[k] # 0 => builds'[k] = builds[k]
      BY <1>3, <1>10
    <2>3. \A i \in DOMAIN holders : i \in DOMAIN holders' /\ holders'[i] = holders[i]
      BY <1>9, <1>11
    <2>4. \A k \in Model : Whole(k) => disk'[k] = "complete"
      BY <1>4 DEF Whole
    <2>5. FrameHolds(f)'
      BY <1>4, <1>5, <2>1, <2>2, <2>3, <2>4, FrameKept
    <2>6. Builds(f) \/ f.at = "wait" => f.holder \in DOMAIN holders
      BY <2>1 DEF FrameHolds, BuildHolds
    <2> QED
      BY <1>11, <1>13, <2>5, <2>6 DEF Apart, Builds
  <1> QED
    BY <1>3, <1>4, <1>9, <1>10, <1>12, <1>14, <1>15, <1>16, <1>17, GoesKept

LEMMA PublishKept == ASSUME EmbedIInv, NEW t \in Thread, Publish(t) PROVE EmbedIInv'
  <1>0. PICK f : f = Top(t)
    OBVIOUS
  <1>1. PICK new : new = Answered(f, f.answer)
    OBVIOUS
  <1>2. PICK made : made = [holders[f.holder] EXCEPT !.done = TRUE, !.answer = f.answer]
    OBVIOUS
  <1>3. /\ frames[t] # <<>> /\ f.at = "loaded" /\ f.holder # 0 /\ Goes(t, new)
        /\ UNCHANGED <<policy, disk, resets, stamp, generation>>
        /\ building' = [building EXCEPT ![t] = FALSE]
        /\ builds' = [builds EXCEPT ![f.key] = IF @ = f.holder THEN 0 ELSE @]
        /\ holders' = [holders EXCEPT ![f.holder] = made]
        /\ providers' = IF f.answer.kind = "provider" /\ Current(f) THEN [providers EXCEPT ![f.key] = f.answer]
                        ELSE providers
    BY <1>0, <1>1, <1>2 DEF Publish, FrameAt, Shared, Answers, Answered, Quiet, Outside
  <1>4. EmbedTypeOK /\ CacheHolds /\ FrameHolds(f) /\ f \in SomeFrame
    BY <1>0, <1>3, TopHolds
  <1>5. f.key \in Model /\ f.answer \in SomeAnswer /\ f.began \in Nat /\ f.asked \in Nat
    BY <1>4 DEF SomeFrame
  <1>6. Builds(f) /\ f.holder \in DOMAIN holders
    BY <1>3, <1>4 DEF FrameHolds, BuildHolds, Builds
  <1>7. holders \in Seq(SomeHolder) /\ holders[f.holder] \in SomeHolder
    BY <1>4, <1>6 DEF EmbedTypeOK
  <1>8. made \in SomeHolder
    BY <1>2, <1>5, <1>7 DEF SomeHolder
  <1>9. /\ made.done /\ made.answer = f.answer /\ made.key = f.key /\ made.stamp = f.stamp
        /\ made.generation = f.generation
    BY <1>2, <1>4, <1>6, <1>7 DEF SomeHolder, FrameHolds, BuildHolds
  <1>10. /\ holders' \in Seq(SomeHolder) /\ DOMAIN holders' = DOMAIN holders /\ holders'[f.holder] = made
         /\ \A i \in DOMAIN holders : i # f.holder => holders'[i] = holders[i]
    BY <1>3, <1>6, <1>7, <1>8
  <1>11. /\ builds' \in [Model -> Nat] /\ \A k \in Model : k # f.key => builds'[k] = builds[k]
         /\ builds'[f.key] = IF builds[f.key] = f.holder THEN 0 ELSE builds[f.key]
         /\ building' \in [Thread -> BOOLEAN] /\ ~building'[t]
         /\ \A u \in Thread \ {t} : building'[u] = building[u]
    BY <1>3, <1>4, <1>5 DEF EmbedTypeOK
  <1>12. providers' \in [Model -> SomeAnswer]
    BY <1>3, <1>4, <1>5 DEF EmbedTypeOK
  <1>13. CacheHolds'
    <2>1. ASSUME NEW k \in Model, providers'[k].kind = "provider"
          PROVE  providers'[k].stamp = stamp /\ providers'[k].began = resets
      <3>1. CASE providers'[k] = providers[k]
        BY <1>4, <2>1, <3>1 DEF CacheHolds
      <3>2. CASE providers'[k] # providers[k]
        <4>1. k = f.key /\ providers'[k] = f.answer /\ f.answer.kind = "provider" /\ Current(f)
          BY <1>3, <1>4, <3>2 DEF EmbedTypeOK
        <4> QED
          BY <1>3, <1>4, <1>6, <4>1 DEF Current, FrameHolds, BuildHolds
      <3> QED
        BY <3>1, <3>2
    <2>2. ASSUME NEW k \in Model, builds'[k] # 0
          PROVE  builds'[k] \in DOMAIN holders' /\ ~holders'[builds'[k]].done /\ holders'[builds'[k]].key = k
      <3>1. builds'[k] = builds[k]
        BY <1>11, <2>2
      <3>2. builds[k] \in DOMAIN holders /\ ~holders[builds[k]].done /\ holders[builds[k]].key = k
        BY <1>4, <2>2, <3>1 DEF CacheHolds
      <3>3. holders[f.holder].key = f.key
        BY <1>4, <1>6 DEF FrameHolds, BuildHolds
      <3>4. builds[k] # f.holder
        BY <1>11, <2>2, <3>1, <3>2, <3>3
      <3> QED
        BY <1>10, <3>1, <3>2, <3>4
    <2>3. ASSUME NEW i \in DOMAIN holders', holders'[i].answer.kind = "provider"
          PROVE  holders'[i].answer.stamp = holders'[i].stamp
      BY <1>3, <1>4, <1>9, <1>10, <2>3 DEF CacheHolds, FrameHolds
    <2> QED
      BY <1>3, <2>1, <2>2, <2>3 DEF CacheHolds
  <1>14. /\ f.answer.kind = "provider" => f.answer.stamp = f.stamp /\ f.answer.began >= f.asked
         /\ f.answer.kind = "missing" => ~f.whole
         /\ f.answer.kind = "provider" => f.answer.began = f.began
    BY <1>3, <1>4 DEF FrameHolds
  <1>15. new \in SomeFrame /\ FrameHolds(new) /\ Quieter(new, f) /\ new.at = "answered" /\ new.holder = f.holder
    BY <1>0, <1>1, <1>3, <1>4, <1>5, <1>14, AnswersIs
  <1>16. FlagHolds(t, new)
    BY <1>3, <1>11, <1>15 DEF FlagHolds
  <1>17. FrameHolds(new)'
    BY <1>3, <1>15, AloneHolds DEF Builds
  <1>18. ASSUME NEW g, Beside(t, g) PROVE FrameHolds(g)' /\ Apart(new, g) /\ Apart(g, new)
    <2>1. g \in SomeFrame /\ FrameHolds(g) /\ Apart(g, f) /\ Apart(f, g)
      BY <1>0, <1>3, <1>18, BesideIs
    <2>2. g.key \in Model
      BY <2>1 DEF SomeFrame
    <2>3. Builds(g) => g.holder # f.holder
      BY <1>6, <2>1 DEF Apart
    <2>4. BuildHolds(g)'
      BY <1>3, <1>6, <1>10, <1>11, <2>1, <2>2, <2>3 DEF FrameHolds, BuildHolds, Builds
    <2>5. g.at = "wait" =>
              /\ g.holder \in DOMAIN holders'
              /\ LET h == holders'[g.holder]
                 IN  h.done /\ h.answer.kind = "provider" /\ h.generation = g.generation => g.asked <= h.answer.began
      <3>1. CASE g.holder = f.holder
        BY <1>6, <1>9, <1>10, <1>14, <2>1, <3>1 DEF Apart
      <3>2. CASE g.holder # f.holder
        BY <1>10, <2>1, <3>2 DEF FrameHolds
      <3> QED
        BY <3>1, <3>2
    <2>6. FrameHolds(g)'
      BY <1>3, <2>1, <2>4, <2>5 DEF FrameHolds, Whole
    <2> QED
      BY <1>15, <2>1, <2>6, QuieterApart
  <1> QED
    BY <1>3, <1>4, <1>10, <1>11, <1>12, <1>13, <1>15, <1>16, <1>17, <1>18, GoesKept DEF EmbedTypeOK

(* A step that replaces a thread's whole stack. *)
LEMMA StackKept ==
    ASSUME EmbedIInv, NEW t \in Thread, NEW s \in Seq(SomeFrame), frames' = [frames EXCEPT ![t] = s],
           UNCHANGED <<policy, disk, resets, cacheVars, building>>,
           ThreadHolds(t)',
           \A n \in DOMAIN s : FrameHolds(s[n]),
           \A n \in DOMAIN s : \/ ~Builds(s[n]) /\ s[n].at # "wait"
                               \/ /\ n \in DOMAIN frames[t] /\ s[n].at = frames[t][n].at
                                  /\ s[n].holder = frames[t][n].holder /\ s[n].generation = frames[t][n].generation
                                  /\ s[n].asked = frames[t][n].asked /\ s[n].began = frames[t][n].began
    PROVE  EmbedIInv'
  <1>1. EmbedTypeOK /\ CacheHolds
    BY DEF EmbedIInv
  <1>2. CacheHolds'
    BY <1>1 DEF CacheHolds, cacheVars
  <1>3. /\ frames' \in [Thread -> Seq(SomeFrame)] /\ frames'[t] = s
        /\ \A u \in Thread \ {t} : frames'[u] = frames[u]
    BY <1>1 DEF EmbedTypeOK
  <1>4. EmbedTypeOK'
    BY <1>1, <1>3 DEF EmbedTypeOK, cacheVars
  <1>5. ASSUME NEW u \in Thread, NEW n \in DOMAIN frames'[u], NEW f, f = frames'[u][n]
        PROVE  FrameHolds(f)'
    <2>1. FrameHolds(f)
      BY <1>3, <1>5 DEF EmbedIInv
    <2> QED
      BY <2>1 DEF FrameHolds, BuildHolds, Builds, Whole, cacheVars
  <1>6. (\A u \in Thread : \A n \in DOMAIN frames[u] : FrameHolds(frames[u][n]))'
    BY <1>5, FramesHoldNext
  <1>7. ASSUME NEW u \in Thread, NEW v \in Thread, NEW n \in DOMAIN frames'[u], NEW m \in DOMAIN frames'[v],
               <<u, n>> # <<v, m>>
        PROVE  Apart(frames'[u][n], frames'[v][m])
    <2>1. ASSUME NEW w \in Thread, NEW i \in DOMAIN frames'[w]
          PROVE  LET f == frames'[w][i]
                     g == frames[w][i]
                 IN  \/ ~Builds(f) /\ f.at # "wait"
                     \/ /\ i \in DOMAIN frames[w] /\ f.at = g.at /\ f.holder = g.holder
                        /\ f.generation = g.generation /\ f.asked = g.asked /\ f.began = g.began
      BY <1>3
    <2>2. n \in DOMAIN frames[u] /\ m \in DOMAIN frames[v] => Apart(frames[u][n], frames[v][m])
      BY <1>7 DEF EmbedIInv, FramesApart
    <2> QED
      BY <2>1, <2>2 DEF Apart, Builds
  <1>8. FramesApart'
    BY <1>7 DEF FramesApart, Apart, Builds
  <1>9. ASSUME NEW u \in Thread PROVE ThreadHolds(u)'
    <2>1. CASE u # t
      BY <1>3, <2>1 DEF EmbedIInv, ThreadHolds
    <2> QED
      BY <2>1
  <1> QED
    BY <1>2, <1>4, <1>6, <1>8, <1>9 DEF EmbedIInv

LEMMA BeginAskKept == ASSUME EmbedIInv, NEW t \in Thread, NEW key \in Model, BeginAsk(t, key) PROVE EmbedIInv'
  <1>0. PICK new : new = [key |-> key, at |-> "ask", stamp |-> "", generation |-> 0, holder |-> 0,
                          began |-> resets, asked |-> resets, whole |-> Whole(key), nested |-> FALSE,
                          answer |-> NoAnswer]
    OBVIOUS
  <1>1. PICK s : s = Append(frames[t], new)
    OBVIOUS
  <1>2. /\ frames' = [frames EXCEPT ![t] = s] /\ UNCHANGED <<policy, disk, resets, cacheVars, building>>
        /\ frames[t] = <<>> \/ (Len(frames[t]) = 1 /\ FrameAt(t, "load"))
    BY <1>0, <1>1 DEF BeginAsk, Outside
  <1>3. EmbedTypeOK /\ frames[t] \in Seq(SomeFrame) /\ resets \in Nat /\ ThreadHolds(t)
    BY DEF EmbedIInv, EmbedTypeOK
  <1>4. new \in SomeFrame
    <2>1. NoAnswer \in SomeAnswer /\ Whole(key) \in BOOLEAN /\ "" \in Stamps
      BY DEF NoAnswer, SomeAnswer, Stamps, Whole
    <2> QED
      BY <1>0, <1>3, <2>1 DEF SomeFrame
  <1>5. /\ new.at = "ask" /\ new.holder = 0 /\ new.asked = resets /\ new.began = resets
        /\ new.whole = Whole(key) /\ new.key = key
    BY <1>0
  <1>6. FrameHolds(new) /\ ~Builds(new)
    BY <1>3, <1>5 DEF FrameHolds, BuildHolds, Builds
  <1>7. s \in Seq(SomeFrame) /\ Len(s) = Len(frames[t]) + 1 /\ s[Len(frames[t]) + 1] = new
        /\ \A n \in DOMAIN s : \/ n \in DOMAIN frames[t] /\ s[n] = frames[t][n]
                               \/ s[n] = new
    BY <1>1, <1>3, <1>4
  <1>8. \A n \in DOMAIN s : FrameHolds(s[n])
    BY <1>6, <1>7 DEF EmbedIInv
  <1>9. frames'[t] = s /\ building'[t] = building[t]
    BY <1>2, <1>3 DEF EmbedTypeOK
  <1>10. ThreadHolds(t)'
    <2>1. CASE frames[t] = <<>>
      <3>1. Len(s) = 1 /\ s[1] = new /\ s # <<>>
        BY <1>7, <2>1
      <3>2. ~building[t]
        BY <1>3, <2>1 DEF ThreadHolds
      <3> QED
        BY <1>5, <1>9, <3>1, <3>2 DEF ThreadHolds
    <2>2. CASE Len(frames[t]) = 1 /\ FrameAt(t, "load")
      <3>1. Len(s) = 2 /\ s[2] = new /\ s # <<>> /\ s[1] = frames[t][1]
        BY <1>1, <1>3, <1>4, <1>7, <2>2
      <3>2. frames[t][1].at = "load" /\ frames[t] # <<>>
        BY <2>2 DEF FrameAt, Top
      <3>3. frames[t][1].holder # 0 /\ (~building[t] => frames[t][1].nested)
        BY <1>3, <2>2, <3>2 DEF ThreadHolds
      <3> QED
        BY <1>5, <1>9, <3>1, <3>2, <3>3 DEF ThreadHolds
    <2> QED
      BY <1>2, <2>1, <2>2
  <1> QED
    BY <1>2, <1>5, <1>6, <1>7, <1>8, <1>10, StackKept

LEMMA ReturnKept == ASSUME EmbedIInv, NEW t \in Thread, Return(t) PROVE EmbedIInv'
  <1>0. PICK low : low = [frames[t][1] EXCEPT !.nested = @ \/ Shared(t)]
    OBVIOUS
  <1>1. PICK s : s = Below(t)
    OBVIOUS
  <1>2. /\ frames[t] # <<>> /\ Top(t).at = "answered" /\ frames' = [frames EXCEPT ![t] = s]
        /\ UNCHANGED <<policy, disk, resets, cacheVars, building>>
    BY <1>1 DEF Return, FrameAt, Quiet, Outside
  <1>3. /\ EmbedTypeOK /\ frames[t] \in Seq(SomeFrame) /\ ThreadHolds(t) /\ Len(frames[t]) \in {1, 2}
        /\ frames[t][1] \in SomeFrame /\ FrameHolds(frames[t][1]) /\ 1 \in DOMAIN frames[t]
    BY <1>2, TwoDeep DEF EmbedIInv, EmbedTypeOK
  <1>4. low \in SomeFrame
    <2>1. Shared(t) \in BOOLEAN
      BY DEF Shared
    <2> QED
      BY <1>0, <1>3, <2>1 DEF SomeFrame
  <1>5. /\ low.at = frames[t][1].at /\ low.holder = frames[t][1].holder /\ low.key = frames[t][1].key
        /\ low.generation = frames[t][1].generation /\ low.asked = frames[t][1].asked
        /\ low.began = frames[t][1].began /\ low.whole = frames[t][1].whole /\ low.stamp = frames[t][1].stamp
        /\ low.answer = frames[t][1].answer /\ low.nested = (frames[t][1].nested \/ Shared(t))
    BY <1>0, <1>3 DEF SomeFrame
  <1>6. FrameHolds(low)
    BY <1>3, <1>5 DEF FrameHolds, BuildHolds, Builds
  <1>7. frames'[t] = s /\ building'[t] = building[t]
    BY <1>2, <1>3 DEF EmbedTypeOK
  <1>8. CASE Len(frames[t]) = 1
    <2>1. s = <<>> /\ s \in Seq(SomeFrame) /\ Len(s) = 0 /\ DOMAIN s = {}
      BY <1>1, <1>8 DEF Below
    <2>2. ~building[t]
      BY <1>2, <1>8, FlagIs
    <2>3. ThreadHolds(t)'
      BY <1>7, <2>1, <2>2 DEF ThreadHolds
    <2> QED
      BY <1>2, <2>1, <2>3, StackKept
  <1>9. CASE Len(frames[t]) = 2
    <2>1. s \in Seq(SomeFrame) /\ Len(s) = 1 /\ s[1] = low /\ DOMAIN s = {1} /\ s # <<>>
      <3>1. s = <<low>>
        BY <1>0, <1>1, <1>9 DEF Below
      <3> QED
        BY <1>4, <3>1
    <2>2. Top(t) = frames[t][2]
      BY <1>9 DEF Top
    <2>3. /\ frames[t][1].at = "load" /\ frames[t][1].holder # 0
          /\ ~building[t] => frames[t][1].nested \/ Shared(t)
      BY <1>2, <1>3, <1>9, <2>2 DEF ThreadHolds, Shared
    <2>4. ~building[t] => low.nested
      BY <1>5, <2>3, Zenon
    <2>5. low.at = "load" /\ low.holder # 0
      BY <1>5, <2>3
    <2>6. ThreadHolds(t)'
      BY <1>7, <2>1, <2>4, <2>5 DEF ThreadHolds
    <2>7. ASSUME NEW n \in DOMAIN s
          PROVE  /\ FrameHolds(s[n]) /\ n \in DOMAIN frames[t] /\ s[n].at = frames[t][n].at
                 /\ s[n].holder = frames[t][n].holder /\ s[n].generation = frames[t][n].generation
                 /\ s[n].asked = frames[t][n].asked /\ s[n].began = frames[t][n].began
      <3>1. n = 1 /\ s[n] = low
        BY <2>1
      <3> QED
        BY <1>3, <1>5, <1>6, <3>1
    <2> QED
      BY <1>2, <2>1, <2>6, <2>7, StackKept
  <1> QED
    BY <1>3, <1>8, <1>9

(* The steps that leave the frames alone. *)
LEMMA OutsideKept ==
    ASSUME EmbedIInv, UNCHANGED <<frames, building>>, EmbedTypeOK', CacheHolds',
           \A f \in SomeFrame : FrameHolds(f) => FrameHolds(f)'
    PROVE  EmbedIInv'
  <1>1. FramesApart' /\ \A t \in Thread : ThreadHolds(t)'
    BY DEF EmbedIInv, FramesApart, ThreadHolds, Apart, Builds
  <1>2. ASSUME NEW u \in Thread, NEW n \in DOMAIN frames'[u], NEW f, f = frames'[u][n]
        PROVE  FrameHolds(f)'
    <2>1. frames[u] \in Seq(SomeFrame) /\ n \in DOMAIN frames[u]
      BY DEF EmbedIInv, EmbedTypeOK
    <2> QED
      BY <1>2, <2>1 DEF EmbedIInv
  <1>3. (\A u \in Thread : \A n \in DOMAIN frames[u] : FrameHolds(frames[u][n]))'
    BY <1>2, FramesHoldNext
  <1> QED
    BY <1>1, <1>3 DEF EmbedIInv

LEMMA FlipKept == ASSUME EmbedIInv, Flip PROVE EmbedIInv'
  <1>1. policy' \in Stamps /\ UNCHANGED <<disk, cacheVars, frames, building, resets>>
    BY DEF Flip, Stamps
  <1>2. EmbedTypeOK' /\ CacheHolds'
    BY <1>1 DEF EmbedIInv, EmbedTypeOK, CacheHolds, cacheVars
  <1>3. \A f \in SomeFrame : FrameHolds(f) => FrameHolds(f)'
    BY <1>1 DEF FrameHolds, BuildHolds, Builds, Whole, cacheVars
  <1> QED
    BY <1>1, <1>2, <1>3, OutsideKept

LEMMA FetchKept == ASSUME EmbedIInv, NEW key \in Model, Fetch(key) PROVE EmbedIInv'
  <1>1. /\ UNCHANGED <<policy, cacheVars, frames, building, resets>> /\ disk[key] # "complete"
        /\ disk' = [disk EXCEPT ![key] = IF @ = "absent" THEN "incomplete" ELSE "complete"]
    BY DEF Fetch
  <1>2. EmbedTypeOK /\ CacheHolds
    BY DEF EmbedIInv
  <1>3. disk' \in [Model -> {"absent", "incomplete", "complete"}]
        /\ \A k \in Model : disk[k] = "complete" => disk'[k] = "complete"
    BY <1>1, <1>2 DEF EmbedTypeOK
  <1>4. EmbedTypeOK' /\ CacheHolds'
    BY <1>1, <1>2, <1>3 DEF EmbedTypeOK, CacheHolds, cacheVars
  <1>5. ASSUME NEW f \in SomeFrame, FrameHolds(f) PROVE FrameHolds(f)'
    <2>1. f.key \in Model
      BY DEF SomeFrame
    <2> QED
      BY <1>1, <1>3, <1>5, <2>1 DEF FrameHolds, BuildHolds, Builds, Whole, cacheVars
  <1> QED
    BY <1>1, <1>4, <1>5, OutsideKept

LEMMA ResetKept == ASSUME EmbedIInv, Reset PROVE EmbedIInv'
  <1>1. /\ UNCHANGED <<policy, disk, holders, frames, building>>
        /\ resets' = resets + 1 /\ generation' = generation + 1 /\ stamp' \in Stamps
        /\ providers' = [k \in Model |-> NoAnswer] /\ builds' = [k \in Model |-> 0]
    <2>1. "" \in Stamps
      BY DEF Stamps
    <2> QED
      BY <2>1, Zenon DEF Reset
  <1>2. EmbedTypeOK /\ CacheHolds
    BY DEF EmbedIInv
  <1>3. NoAnswer \in SomeAnswer /\ NoAnswer.kind = "none"
    BY DEF NoAnswer, SomeAnswer, Stamps
  <1>4. EmbedTypeOK'
    BY <1>1, <1>2, <1>3 DEF EmbedTypeOK
  <1>5. CacheHolds'
    BY <1>1, <1>2, <1>3 DEF CacheHolds
  <1>6. ASSUME NEW f \in SomeFrame, FrameHolds(f) PROVE FrameHolds(f)'
    <2>1. f.generation \in Nat /\ f.began \in Nat /\ f.asked \in Nat /\ resets \in Nat /\ generation \in Nat
      BY <1>2 DEF SomeFrame, EmbedTypeOK
    <2>2. BuildHolds(f)'
      BY <1>1, <1>6, <2>1 DEF FrameHolds, BuildHolds, Builds
    <2> QED
      BY <1>1, <1>6, <2>1, <2>2 DEF FrameHolds, Whole
  <1> QED
    BY <1>1, <1>4, <1>5, <1>6, OutsideKept

LEMMA EmbedNextKept == ASSUME EmbedIInv, EmbedNext PROVE EmbedIInv'
  <1>1. CASE Flip
    BY <1>1, FlipKept
  <1>2. CASE Reset
    BY <1>2, ResetKept
  <1>3. CASE \E key \in Model : Fetch(key) \/ \E t \in Thread : BeginAsk(t, key)
    BY <1>3, FetchKept, BeginAskKept
  <1>4. CASE \E t \in Thread :
                \/ Ask(t) \/ Serve(t) \/ Reentered(t) \/ BuildUnshared(t) \/ Wait(t) \/ Build(t)
                \/ Load(t) \/ LoadFails(t) \/ UnsharedEnds(t) \/ Publish(t)
                \/ Woken(t) \/ WaitedLong(t) \/ Return(t)
    BY <1>4, AskKept, ServeKept, ReenteredKept, BuildUnsharedKept, WaitKept, BuildKept, LoadKept, LoadFailsKept,
       UnsharedEndsKept, PublishKept, WokenKept, WaitedLongKept, ReturnKept
  <1> QED
    BY <1>1, <1>2, <1>3, <1>4 DEF EmbedNext

LEMMA EmbedInitHolds == ASSUME EmbedInit PROVE EmbedIInv
  <1>1. NoAnswer \in SomeAnswer /\ NoAnswer.kind = "none"
    BY DEF NoAnswer, SomeAnswer, Stamps
  <1>2. /\ policy \in Stamps /\ stamp \in Stamps
        /\ disk \in {[k \in Model |-> "absent"], [k \in Model |-> "complete"]}
        /\ providers = [k \in Model |-> NoAnswer] /\ generation = 0 /\ resets = 0
        /\ builds = [k \in Model |-> 0] /\ holders = <<>>
        /\ frames = [t \in Thread |-> <<>>] /\ building = [t \in Thread |-> FALSE]
    <2>1. "" \in Stamps /\ "tight" \in Stamps
      BY DEF Stamps
    <2> QED
      BY <2>1, Zenon DEF EmbedInit
  <1>3. EmbedTypeOK
    BY <1>1, <1>2 DEF EmbedTypeOK
  <1>4. CacheHolds
    BY <1>1, <1>2 DEF CacheHolds
  <1>5. ASSUME NEW t \in Thread
        PROVE  frames[t] = <<>> /\ DOMAIN frames[t] = {} /\ Len(frames[t]) = 0 /\ ~building[t]
    BY <1>2
  <1> QED
    BY <1>3, <1>4, <1>5 DEF EmbedIInv, FramesApart, ThreadHolds

(* The inductive invariant of the providers holds for every number of       *)
(* threads, models, policy changes and resets.                             *)
THEOREM EmbedInvariance == EmbedSpec => []EmbedIInv
  <1>1. EmbedIInv /\ UNCHANGED embedVars => EmbedIInv'
    <2> SUFFICES ASSUME EmbedIInv, UNCHANGED embedVars PROVE EmbedIInv'
      OBVIOUS
    <2>1. UNCHANGED <<policy, disk, resets, cacheVars, frames, building>>
      BY DEF embedVars
    <2>2. EmbedTypeOK' /\ CacheHolds'
      BY <2>1 DEF EmbedIInv, EmbedTypeOK, CacheHolds, cacheVars
    <2>3. \A f \in SomeFrame : FrameHolds(f) => FrameHolds(f)'
      BY <2>1 DEF FrameHolds, BuildHolds, Builds, Whole, cacheVars
    <2> QED
      BY <2>1, <2>2, <2>3, OutsideKept
  <1> QED
    BY <1>1, EmbedInitHolds, EmbedNextKept, PTL DEF EmbedSpec

LEMMA LoadsAreOne == ASSUME EmbedIInv PROVE OneLoad
  <1> SUFFICES ASSUME NEW k \in Model
               PROVE  Cardinality({h \in DOMAIN holders :
                          /\ holders[h].key = k /\ ~holders[h].done
                          /\ \E t \in Thread : \E n \in DOMAIN frames[t] :
                                /\ frames[t][n].holder = h /\ frames[t][n].at \in {"load", "loaded"}
                                /\ frames[t][n].began = resets}) <= 1
    BY DEF OneLoad
  <1> DEFINE S == {h \in DOMAIN holders :
                      /\ holders[h].key = k /\ ~holders[h].done
                      /\ \E t \in Thread : \E n \in DOMAIN frames[t] :
                            /\ frames[t][n].holder = h /\ frames[t][n].at \in {"load", "loaded"}
                            /\ frames[t][n].began = resets}
  <1>1. holders \in Seq(SomeHolder)
    BY DEF EmbedIInv, EmbedTypeOK
  <1>2. ASSUME NEW h \in S PROVE h = builds[k]
    <2>1. h \in DOMAIN holders /\ holders[h].key = k /\ h # 0
      BY <1>1
    <2>2. PICK t \in Thread : \E n \in DOMAIN frames[t] :
                frames[t][n].holder = h /\ frames[t][n].at \in {"load", "loaded"} /\ frames[t][n].began = resets
      OBVIOUS
    <2>3. PICK n \in DOMAIN frames[t] :
                frames[t][n].holder = h /\ frames[t][n].at \in {"load", "loaded"} /\ frames[t][n].began = resets
      BY <2>2
    <2>4. BuildHolds(frames[t][n])
      BY DEF EmbedIInv, FrameHolds
    <2> QED
      BY <2>1, <2>3, <2>4 DEF BuildHolds, Builds
  <1>3. S \subseteq {builds[k]}
    BY <1>2
  <1> HIDE DEF S
  <1>4. IsFiniteSet({builds[k]}) /\ Cardinality({builds[k]}) = 1
    BY FS_Singleton
  <1>5. Cardinality(S) <= Cardinality({builds[k]})
    BY <1>3, <1>4, FS_Subset
  <1> QED
    BY <1>4, <1>5 DEF S

(* Since the last reset one load of a model is shared at a time; what a call *)
(* is given is of the policy it read and no older than the call, and no      *)
(* model that was whole is missing; and a thread that loads waits for no     *)
(* other's load.                                                             *)
THEOREM ProvidersAreSound == EmbedSpec => []ProvidersSound
  <1>1. EmbedIInv => OneLoad
    BY LoadsAreOne
  <1>2. EmbedIInv => ServedCurrent
    <2> SUFFICES ASSUME EmbedIInv, NEW t \in Thread, FrameAt(t, "answered")
                 PROVE  /\ Top(t).answer.kind = "provider" =>
                              Top(t).answer.stamp = Top(t).stamp /\ Top(t).answer.began >= Top(t).asked
                        /\ Top(t).answer.kind = "missing" => ~Top(t).whole
      BY DEF ServedCurrent
    <2>1. frames[t] # <<>> /\ Top(t).at = "answered"
      BY DEF FrameAt
    <2>2. FrameHolds(Top(t))
      BY <2>1, TopHolds
    <2> QED
      BY <2>1, <2>2 DEF FrameHolds
  <1>3. EmbedIInv => BuilderWaits
    <2> SUFFICES ASSUME EmbedIInv, NEW t \in Thread, FrameAt(t, "wait"), Len(frames[t]) = 2
                 PROVE  frames[t][1].nested
      BY DEF BuilderWaits
    <2> QED
      BY FlagIs DEF FrameAt
  <1>4. EmbedIInv => ProvidersSound
    BY <1>1, <1>2, <1>3 DEF ProvidersSound
  <1> QED
    BY <1>4, EmbedInvariance, PTL

=============================================================================
