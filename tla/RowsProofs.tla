----------------------------- MODULE RowsProofs -----------------------------
(***************************************************************************)
(* Proofs about a row under everybody who writes it, for any ids, calls    *)
(* and models: by the tools of a daemon no vector is left beside a text it *)
(* was not computed from, a merge happens as a whole or not at all, and    *)
(* nothing that was forgotten or retired comes back by a late write        *)
(* (MemoryRows); by the quarantine no text that is held or rejected is     *)
(* answered, and an id is resolved once (Review).                          *)
(***************************************************************************)
EXTENDS MemoryRows, Review, FiniteSetTheorems, SequenceTheorems, TLAPS

USE MemoryRowsAssumption

-----------------------------------------------------------------------------
(* Rows, vectors and places *)

LEMMA RowIsReal ==
    ASSUME NEW r \in Row
    PROVE  r # NoRow /\ r.text # <<None, None>>
  BY DEF Row, NoRow, Text, None

LEMMA NoneOfNone ==
    /\ NoRow.text = <<None, None>> /\ NoRow.status = None /\ NoRow.into = None /\ NoRow.by = None
    /\ NoVec.of = <<None, None>> /\ NoVec.space = None
  BY DEF NoRow, NoVec

LEMMA VectorIsReal ==
    ASSUME NEW t \in Text
    PROVE  /\ Vector(t) \in [of : Text, space : {"active", "old"}]
           /\ Vector(t) # NoVec /\ Vector(t).of = t
  <1>1. Vector(t) \in [of : Text, space : {"active", "old"}] /\ Vector(t).of = t /\ Vector(t).space = "active"
    BY DEF Vector
  <1> QED
    BY <1>1, NoneOfNone DEF None

LEMMA Places ==
    ASSUME NEW j \in Job
    PROVE  /\ On[j] \in Entry /\ On[j] \in Id /\ On[j] \notin Merge
           /\ j # None
  BY DEF Entry, Merge

LEMMA Going ==
    ASSUME pc \in [Job -> Label], NEW j \in Job, NEW l \in Label, Goto(j, l)
    PROVE  /\ pc' \in [Job -> Label] /\ pc'[j] = l
           /\ \A k \in Job : k # j => pc'[k] = pc[k]
  BY DEF Goto

LEMMA Seeing ==
    ASSUME seen \in [Job -> Copies], NEW j \in Job, NEW known \in Copies, See(j, known)
    PROVE  /\ seen' \in [Job -> Copies] /\ seen'[j] = known
           /\ \A k \in Job : k # j => seen'[k] = seen[k]
  BY DEF See

LEMMA Empty == NoRows \in Copies /\ NoVecs \in Vectors
  BY DEF NoRows, NoVecs, Copies, Vectors

LEMMA Forgetting ==
    ASSUME TypeOK, NEW j \in Job, Forgotten(j)
    PROVE  seen' \in [Job -> Copies] /\ records' \in [Job -> Vectors]
  BY Empty, Seeing DEF Forgotten, TypeOK

-----------------------------------------------------------------------------
(* Steps that leave rows and vectors alone *)

Early == {"idle", "found", "checked", "failing", "failed"}

(* No merge goes back before its creation. *)
Onward == \A j \in Merge : /\ pc'[j] \in Early => pc[j] \in Early
                           /\ pc'[j] = "created" => pc[j] = "created"
                           /\ pc'[j] = "undoing" => pc[j] \in {"created", "undoing"}

(* An update is at its transaction with the lane, or was before. *)
UpdatesOnward ==
    \A j \in Job : Kind[j] \in Updates /\ pc'[j] = "read" =>
        \/ pc[j] = "read" /\ lane' = lane
        \/ lane' = j /\ rows[On[j]] # NoRow

LEMMA RowsStay ==
    ASSUME IInv, UNCHANGED <<rows, vec>>, TypeOK', Onward, UpdatesOnward
    PROVE  IInv'
  <1>1. MergesInOrder'
    BY DEF IInv, MergesInOrder, Onward, Early, Unnamed
  <1>2. UpdateHasRow'
    BY DEF IInv, UpdateHasRow, UpdatesOnward
  <1>3. MergedWhole'
    BY <1>1, UNCHANGED rows DEF IInv, RowsWhole, MergedWhole, MergesInOrder, Unnamed, Entry
  <1>4. VectorMatchesText'
    BY DEF IInv, RowsWhole, VectorMatchesText
  <1> QED
    BY <1>1, <1>2, <1>3, <1>4 DEF IInv, RowsWhole

(* A job that is neither a merge nor an update goes on. *)
LEMMA OthersStay ==
    ASSUME IInv, UNCHANGED <<rows, vec, lane>>, TypeOK',
           NEW j \in Job, Kind[j] \notin Updates, Kind[j] # "merge",
           \A k \in Job : k # j => pc'[k] = pc[k]
    PROVE  IInv'
  <1>1. Onward
    BY DEF Onward, Merge
  <1>2. UpdatesOnward
    BY DEF UpdatesOnward
  <1> QED
    BY <1>1, <1>2, RowsStay

-----------------------------------------------------------------------------
(* memory_store *)

LEMMA SeenOne ==
    ASSUME TypeOK, NEW i \in Entry
    PROVE  [NoRows EXCEPT ![i] = rows[i]] \in Copies
  BY Empty DEF TypeOK, Copies

LEMMA RevisionIs ==
    ASSUME NEW j \in Job, NEW existing \in Row \cup {NoRow}
    PROVE  /\ Revision(j, existing) \in Row /\ Revision(j, existing).text = <<j, j>>
           /\ Revision(j, existing).into = existing.into /\ Revision(j, existing).by = j
           /\ existing # NoRow => Revision(j, existing).status = existing.status
  BY DEF Revision, Row, NoRow, Text, Merge, None

LEMMA StoreReadKeeps ==
    ASSUME IInv, NEW j \in Job, StoreRead(j)
    PROVE  IInv'
  <1>1. TypeOK'
    BY Going, Seeing, SeenOne, Places DEF IInv, TypeOK, StoreRead, Label
  <1> QED
    BY <1>1, OthersStay, Going DEF IInv, TypeOK, StoreRead, Label, Updates

LEMMA StoreConflictKeeps ==
    ASSUME IInv, NEW j \in Job, StoreConflict(j)
    PROVE  IInv'
  <1>1. TypeOK'
    BY Going DEF IInv, TypeOK, StoreConflict, Label
  <1> QED
    BY <1>1, OthersStay, Going DEF IInv, TypeOK, StoreConflict, Label, Updates

LEMMA StoreMirrorKeeps ==
    ASSUME IInv, NEW j \in Job, StoreMirror(j)
    PROVE  IInv'
  <1>1. Revision(j, seen[j][On[j]]) \in Row
    BY RevisionIs, Places DEF IInv, TypeOK, Copies
  <1>2. tier' \in Copies
    BY <1>1, Places DEF IInv, TypeOK, StoreMirror, Copies
  <1>3. TypeOK'
    BY <1>2, Going, Forgetting DEF IInv, TypeOK, StoreMirror, Label
  <1> QED
    BY <1>3, OthersStay, Going DEF IInv, TypeOK, StoreMirror, Label, Updates

(* A row changes and keeps what it is merged into. *)
LEMMA RowChanges ==
    ASSUME IInv, NEW i \in Id, NEW r \in Row, NEW j \in Job, Kind[j] # "merge",
           rows' = [rows EXCEPT ![i] = r], r.into = rows[i].into,
           TypeOK', lane' = lane, Kind[j] \in Updates => pc'[j] # "read",
           \A k \in Job : k # j => pc'[k] = pc[k]
    PROVE  MergesInOrder' /\ UpdateHasRow' /\ MergedWhole'
  <1>1. /\ i \in Entry /\ i \notin Merge
        /\ rows'[i] = r /\ r # NoRow
        /\ \A k \in Entry : k # i => rows'[k] = rows[k]
    BY RowIsReal DEF IInv, TypeOK, Copies, Entry, Merge
  <1>2. \A k \in Entry : rows'[k].into = rows[k].into
    BY <1>1
  <1>3. \A k \in Merge : rows'[k] = rows[k] /\ pc'[k] = pc[k]
    BY <1>1 DEF Entry, Merge
  <1>4. MergesInOrder'
    BY <1>2, <1>3 DEF IInv, MergesInOrder, Unnamed
  <1>5. UpdateHasRow'
    BY <1>1, Places DEF IInv, UpdateHasRow
  <1>6. MergedWhole'
    <2>1. \A k \in Id : rows'[k].into # None => rows'[rows'[k].into] # NoRow
      <3> SUFFICES ASSUME NEW k \in Id, rows[k].into # None
                   PROVE  rows'[rows[k].into] # NoRow
        BY <1>2 DEF Entry
      <3>1. rows[k].into \in Merge
        BY NoneOfNone DEF IInv, TypeOK, Copies, Entry, Row
      <3> QED
        BY <3>1, <1>3 DEF IInv, RowsWhole, MergedWhole
    <2> QED
      BY <2>1, <1>2, <1>3 DEF IInv, RowsWhole, MergedWhole, Entry
  <1> QED
    BY <1>4, <1>5, <1>6

LEMMA StoreCommitKeeps ==
    ASSUME IInv, NEW j \in Job, StoreCommit(j)
    PROVE  IInv'
  <1> DEFINE i == On[j]
             r == Revision(j, seen[j][i])
  <1>1. /\ i \in Id /\ i \in Entry
        /\ r \in Row /\ r.text = <<j, j>> /\ r.into = rows[i].into
    BY RevisionIs, Places DEF IInv, TypeOK, Copies, StoreCommit
  <1>2. /\ rows' = [rows EXCEPT ![i] = r]
        /\ vec' = IF j \in Embeds THEN [vec EXCEPT ![i] = Vector(r.text)] ELSE vec
        /\ Kind[j] = "store" /\ Goto(j, "stored") /\ UNCHANGED <<tier, lane, seen, records>>
    BY DEF StoreCommit, WriteEntry
  <1> HIDE DEF i, r
  <1>3. r.text \in Text
    BY <1>1 DEF Row
  <1>4. TypeOK'
    <2>1. rows' \in Copies
      BY <1>1, <1>2 DEF IInv, TypeOK, Copies
    <2>2. vec' \in Vectors
      BY <1>1, <1>2, <1>3, VectorIsReal DEF IInv, TypeOK, Vectors
    <2> QED
      BY <2>1, <2>2, <1>2, Going DEF IInv, TypeOK, Label
  <1>5. MergesInOrder' /\ UpdateHasRow' /\ MergedWhole'
    BY <1>1, <1>2, <1>4, RowChanges, Going DEF IInv, TypeOK, Label, Updates
  <1>6. VectorMatchesText'
    <2>1. rows'[i] = r /\ rows'[i] # NoRow /\ \A k \in Entry : k # i => rows'[k] = rows[k]
      BY <1>1, <1>2, RowIsReal DEF IInv, TypeOK, Copies
    <2>2. \A k \in Entry : k # i => vec'[k] = vec[k]
      BY <1>1, <1>2 DEF IInv, TypeOK, Vectors
    <2>3. vec'[i].of = rows'[i].text \/ rows'[i].text \in Keyword
      <3>1. CASE j \in Embeds
        BY <3>1, <2>1, <1>1, <1>2, <1>3, VectorIsReal DEF IInv, TypeOK, Vectors
      <3>2. CASE j \notin Embeds
        BY <3>2, <2>1, <1>1 DEF Keyword
      <3> QED
        BY <3>1, <3>2
    <2> QED
      BY <2>1, <2>2, <2>3 DEF IInv, RowsWhole, VectorMatchesText
  <1> QED
    BY <1>4, <1>5, <1>6 DEF IInv, RowsWhole

-----------------------------------------------------------------------------
(* memory_update *)

LEMMA UpdateReadKeeps ==
    ASSUME IInv, NEW j \in Job, UpdateRead(j)
    PROVE  IInv'
  <1> DEFINE l == IF rows[On[j]] = NoRow THEN "ending" ELSE "read"
  <1>1. pc' \in [Job -> Label] /\ pc'[j] = l /\ \A k \in Job : k # j => pc'[k] = pc[k]
    <2>1. l \in Label /\ Goto(j, l)
      BY DEF UpdateRead, Label
    <2> QED
      BY <2>1, Going DEF IInv, TypeOK
  <1>2. records' \in [Job -> Vectors]
    BY Places DEF IInv, TypeOK, UpdateRead, Vectors
  <1>3. TypeOK'
    BY <1>1, <1>2, Seeing, SeenOne, Places DEF IInv, TypeOK, UpdateRead
  <1>4. Onward
    BY <1>1 DEF Onward, UpdateRead, Updates, Merge
  <1>5. UpdatesOnward
    <2>1. lane = None /\ lane' = j
      BY DEF UpdateRead, TakeLane
    <2>2. \A k \in Job : Kind[k] \in Updates => pc[k] # "read"
      BY <2>1, Places DEF IInv, UpdateHasRow
    <2> QED
      BY <1>1, <2>1, <2>2 DEF UpdatesOnward
  <1> QED
    BY <1>3, <1>4, <1>5, RowsStay DEF UpdateRead

LEMMA PatchedIs ==
    ASSUME NEW j \in Job, Kind[j] \in Updates, NEW current \in Row
    PROVE  /\ Patched(j, current) \in Row
           /\ Patched(j, current).into = current.into /\ Patched(j, current).by = j
           /\ Kind[j] # "edit" => Patched(j, current).text = current.text
           /\ Patched(j, current).status = "active" => current.status = "active" \/ Kind[j] = "revive"
  <1>1. CASE Kind[j] = "edit"
    <2>1. Patched(j, current) = [current EXCEPT !.text = <<j, current.text[2]>>, !.by = j]
      BY <1>1 DEF Patched
    <2>2. <<j, current.text[2]>> \in Text
      BY DEF Row, Text
    <2> QED
      BY <1>1, <2>1, <2>2 DEF Row
  <1>2. CASE Kind[j] = "retire"
    BY <1>2 DEF Patched, Row
  <1>3. CASE Kind[j] = "revive"
    BY <1>3 DEF Patched, Row
  <1> QED
    BY <1>1, <1>2, <1>3 DEF Updates

LEMMA UpdateCommitKeeps ==
    ASSUME IInv, NEW j \in Job, UpdateCommit(j)
    PROVE  IInv'
  <1> DEFINE i == On[j]
             r == Patched(j, rows[i])
             v == PatchedVector(j, i)
  <1>1. /\ i \in Id /\ i \in Entry
        /\ Kind[j] \in Updates /\ Kind[j] # "merge"
        /\ rows[i] # NoRow /\ rows[i] \in Row
    BY Places DEF IInv, TypeOK, Copies, UpdateHasRow, UpdateCommit, Updates
  <1>2. /\ r \in Row /\ r.into = rows[i].into
        /\ Kind[j] # "edit" => r.text = rows[i].text
    BY <1>1, PatchedIs
  <1>3. /\ rows' = [rows EXCEPT ![i] = r] /\ vec' = [vec EXCEPT ![i] = v]
        /\ Goto(j, "committed") /\ UNCHANGED <<tier, lane, seen, records>>
    BY DEF UpdateCommit
  <1>4. v = NoVec \/ v = Vector(r.text) \/ (v = vec[i] /\ Kind[j] # "edit")
    <2>1. CASE Kind[j] = "edit"
      <3> DEFINE encoded == Patched(j, seen[j][i]).text
      <3>1. v = IF vec[i] # NoVec
                THEN IF j \in Embeds /\ records[j][i] # NoVec /\ r.text = encoded
                     THEN Vector(encoded) ELSE NoVec
                ELSE vec[i]
        BY <2>1 DEF PatchedVector
      <3> HIDE DEF encoded, v, r
      <3> QED
        BY <3>1
    <2>2. CASE Kind[j] # "edit"
      BY <2>2 DEF PatchedVector
    <2> QED
      BY <2>1, <2>2
  <1> HIDE DEF i, r, v
  <1>5. r.text \in Text
    BY <1>2 DEF Row
  <1>6. TypeOK'
    <2>1. rows' \in Copies
      BY <1>1, <1>2, <1>3 DEF IInv, TypeOK, Copies
    <2>2. v \in [of : Text, space : {"active", "old"}] \cup {NoVec}
      BY <1>1, <1>4, <1>5, VectorIsReal DEF IInv, TypeOK, Vectors
    <2>3. vec' \in Vectors
      BY <1>1, <1>3, <2>2 DEF IInv, TypeOK, Vectors
    <2> QED
      BY <2>1, <2>3, <1>3, Going DEF IInv, TypeOK, Label
  <1>7. MergesInOrder' /\ UpdateHasRow' /\ MergedWhole'
    BY <1>1, <1>2, <1>3, <1>6, RowChanges, Going DEF IInv, TypeOK, Label
  <1>8. VectorMatchesText'
    <2>1. rows'[i] = r /\ rows'[i] # NoRow /\ \A k \in Entry : k # i => rows'[k] = rows[k]
      BY <1>1, <1>2, <1>3, RowIsReal DEF IInv, TypeOK, Copies
    <2>2. vec'[i] = v /\ \A k \in Entry : k # i => vec'[k] = vec[k]
      BY <1>1, <1>3 DEF IInv, TypeOK, Vectors
    <2>3. v # NoVec => v.of = r.text \/ r.text \in Keyword
      BY <1>1, <1>2, <1>4, <1>5, VectorIsReal DEF IInv, RowsWhole, VectorMatchesText
    <2> QED
      BY <2>1, <2>2, <2>3 DEF IInv, RowsWhole, VectorMatchesText
  <1> QED
    BY <1>6, <1>7, <1>8 DEF IInv, RowsWhole

LEMMA UpdateQuietKeeps ==
    ASSUME IInv, NEW j \in Job, RefreshRead(j) \/ RefreshTiers(j) \/ UpdateFails(j)
    PROVE  IInv'
  <1>1. PICK l \in {"refreshing", "ending", "failing"} : Goto(j, l)
    BY DEF RefreshRead, RefreshTiers, UpdateFails
  <1>2. pc' \in [Job -> Label] /\ pc'[j] = l /\ \A k \in Job : k # j => pc'[k] = pc[k]
    BY <1>1, Going DEF IInv, TypeOK, Label
  <1>3. tier' \in Copies /\ seen' \in [Job -> Copies]
    <2>1. CASE RefreshRead(j)
      BY <2>1, Seeing, SeenOne, Places DEF RefreshRead, IInv, TypeOK
    <2>2. CASE RefreshTiers(j)
      BY <2>2, Places DEF RefreshTiers, IInv, TypeOK, Copies
    <2>3. CASE UpdateFails(j)
      BY <2>3 DEF UpdateFails, IInv, TypeOK
    <2> QED
      BY <2>1, <2>2, <2>3
  <1>4. /\ UNCHANGED <<rows, vec, lane, records>>
        /\ Kind[j] \in Updates
    BY DEF RefreshRead, RefreshTiers, UpdateFails
  <1>5. TypeOK'
    BY <1>2, <1>3, <1>4 DEF IInv, TypeOK
  <1>6. Onward /\ UpdatesOnward
    BY <1>1, <1>2, <1>4 DEF Onward, UpdatesOnward, Updates, Merge
  <1> QED
    BY <1>4, <1>5, <1>6, RowsStay

-----------------------------------------------------------------------------
(* memory_forget *)

LEMMA ForgetDeleteKeeps ==
    ASSUME IInv, NEW j \in Job, ForgetDelete(j)
    PROVE  IInv'
  <1> DEFINE i == On[j]
             l == IF rows[i] = NoRow THEN "ending" ELSE "deleted"
  <1>1. /\ i \in Id /\ i \in Entry /\ i \notin Merge
        /\ Kind[j] = "forget" /\ lane = None /\ lane' = j
        /\ rows' = [rows EXCEPT ![i] = NoRow] /\ vec' = [vec EXCEPT ![i] = NoVec]
        /\ UNCHANGED <<tier, seen, records>>
    BY Places DEF ForgetDelete, TakeLane
  <1>2. pc' \in [Job -> Label] /\ pc'[j] = l /\ \A k \in Job : k # j => pc'[k] = pc[k]
    <2>1. l \in Label /\ Goto(j, l)
      BY DEF ForgetDelete, Label
    <2> QED
      BY <2>1, Going DEF IInv, TypeOK
  <1> HIDE DEF i
  <1>3. TypeOK'
    BY <1>1, <1>2 DEF IInv, TypeOK, Copies, Vectors
  <1>4. /\ rows'[i] = NoRow /\ vec'[i] = NoVec
        /\ \A k \in Entry : k # i => rows'[k] = rows[k] /\ vec'[k] = vec[k]
    BY <1>1 DEF IInv, TypeOK, Copies, Vectors
  <1>5. \A k \in Job : Kind[k] \in Updates => pc'[k] # "read"
    BY <1>1, <1>2, Places DEF IInv, UpdateHasRow, Updates
  <1>6. \A k \in Merge : k \in Job /\ rows'[k] = rows[k] /\ pc'[k] = pc[k]
    BY <1>1, <1>2, <1>4 DEF Entry, Merge
  <1>7. \A k \in Entry : rows'[k].into = rows[k].into \/ rows'[k].into = None
    BY <1>4, NoneOfNone
  <1>8. MergesInOrder'
    <2>1. \A k \in Merge : Unnamed(k) => Unnamed(k)'
      BY <1>6, <1>7, Places DEF Unnamed
    <2> QED
      BY <1>6, <2>1 DEF IInv, MergesInOrder
  <1>9. MergedWhole'
    <2>1. \A k \in Id : rows'[k].into # None => rows'[rows'[k].into] # NoRow
      <3> SUFFICES ASSUME NEW k \in Id, rows'[k].into # None
                   PROVE  rows'[rows'[k].into] # NoRow
        OBVIOUS
      <3>1. rows'[k].into = rows[k].into
        BY <1>7 DEF Entry
      <3>2. rows[k].into \in Merge
        BY <3>1, NoneOfNone DEF IInv, TypeOK, Copies, Entry, Row
      <3> QED
        BY <3>1, <3>2, <1>6 DEF IInv, RowsWhole, MergedWhole
    <2>2. \A k \in Merge : pc'[k] = "failed" => rows'[k] = NoRow /\ \A m \in Id : rows'[m].into # k
      BY <1>6, <1>7, Places DEF IInv, RowsWhole, MergedWhole, Entry
    <2> QED
      BY <2>1, <2>2 DEF MergedWhole
  <1>10. VectorMatchesText'
    BY <1>4 DEF IInv, RowsWhole, VectorMatchesText
  <1> QED
    BY <1>3, <1>5, <1>8, <1>9, <1>10 DEF IInv, RowsWhole, UpdateHasRow

LEMMA ForgetTiersKeeps ==
    ASSUME IInv, NEW j \in Job, ForgetTiers(j)
    PROVE  IInv'
  <1>1. TypeOK'
    BY Going, Places DEF IInv, TypeOK, ForgetTiers, Label, Copies
  <1> QED
    BY <1>1, OthersStay, Going DEF IInv, TypeOK, ForgetTiers, Label, Updates

-----------------------------------------------------------------------------
(* memory_recall and memory_reembed *)

LEMMA WarmedIs ==
    ASSUME TypeOK
    PROVE  Warmed \in Copies
  BY DEF Warmed, TypeOK, Copies

LEMMA RecallKeeps ==
    ASSUME IInv, NEW j \in Job, Recall(j)
    PROVE  IInv'
  <1>1. PICK l \in {"read", "served", "done"} : Goto(j, l)
    BY DEF Recall, RecallRead, RecallTiers, RecallRemember
  <1>2. pc' \in [Job -> Label] /\ \A k \in Job : k # j => pc'[k] = pc[k]
    BY <1>1, Going DEF IInv, TypeOK, Label
  <1>3. tier' \in Copies /\ seen' \in [Job -> Copies] /\ records' \in [Job -> Vectors]
    <2>1. CASE RecallRead(j)
      BY <2>1, Seeing DEF RecallRead, IInv, TypeOK
    <2>2. CASE RecallTiers(j)
      <3> DEFINE known == [i \in Entry |-> IF i \in Active(seen[j]) THEN seen[j][i]
                               ELSE IF i \in Active(Warmed) THEN Warmed[i] ELSE NoRow]
      <3>1. known \in Copies
        BY WarmedIs DEF IInv, TypeOK, Copies
      <3>2. tier' = Warmed /\ See(j, known) /\ records' = records
        BY <2>2 DEF RecallTiers
      <3> QED
        BY <3>1, <3>2, WarmedIs, Seeing DEF IInv, TypeOK
    <2>3. CASE RecallRemember(j)
      BY <2>3, Forgetting DEF RecallRemember, IInv, TypeOK, Copies
    <2> QED
      BY <2>1, <2>2, <2>3 DEF Recall
  <1>4. UNCHANGED <<rows, vec, lane>> /\ Kind[j] = "recall"
    BY DEF Recall, RecallRead, RecallTiers, RecallRemember
  <1>5. TypeOK'
    BY <1>2, <1>3, <1>4 DEF IInv, TypeOK
  <1> QED
    BY <1>2, <1>4, <1>5, OthersStay DEF Updates

LEMMA ReembedReadKeeps ==
    ASSUME IInv, NEW j \in Job, ReembedRead(j)
    PROVE  IInv'
  <1>1. [i \in Entry |-> IF vec[i].space # "active" THEN rows[i] ELSE NoRow] \in Copies
    BY DEF IInv, TypeOK, Copies
  <1>2. seen' \in [Job -> Copies] /\ records' \in [Job -> Vectors]
    BY <1>1, Seeing DEF ReembedRead, IInv, TypeOK
  <1>3. TypeOK'
    BY <1>2, Going DEF ReembedRead, IInv, TypeOK, Label
  <1> QED
    BY <1>3, OthersStay, Going DEF IInv, TypeOK, ReembedRead, Label, Updates

LEMMA ReembedCommitKeeps ==
    ASSUME IInv, NEW j \in Job, ReembedCommit(j)
    PROVE  IInv'
  <1> DEFINE Fresh(i) == /\ seen[j][i] # NoRow /\ rows[i].text = seen[j][i].text
                         /\ vec[i] = records[j][i]
  <1>1. /\ vec' = [i \in Entry |-> IF Fresh(i) THEN Vector(seen[j][i].text) ELSE vec[i]]
        /\ UNCHANGED <<rows, tier, lane>> /\ Kind[j] = "reembed" /\ Goto(j, "done") /\ Forgotten(j)
    BY DEF ReembedCommit
  <1>2. ASSUME NEW i \in Entry, Fresh(i)
        PROVE  seen[j][i].text \in Text /\ rows[i].text = seen[j][i].text /\ rows[i] # NoRow
    <2>1. seen[j][i] \in Row
      BY <1>2 DEF IInv, TypeOK, Copies
    <2> QED
      BY <1>2, <2>1, RowIsReal, NoneOfNone DEF Row
  <1>3. vec' \in Vectors
    BY <1>1, <1>2, VectorIsReal DEF IInv, TypeOK, Vectors
  <1>4. TypeOK'
    BY <1>1, <1>3, Going, Forgetting DEF IInv, TypeOK, Label
  <1>5. VectorMatchesText'
    <2> SUFFICES ASSUME NEW i \in Entry, vec'[i] # NoVec
                 PROVE  rows[i] # NoRow /\ (vec'[i].of = rows[i].text \/ rows[i].text \in Keyword)
      BY <1>1 DEF VectorMatchesText
    <2>1. CASE Fresh(i)
      BY <2>1, <1>1, <1>2, VectorIsReal
    <2>2. CASE ~Fresh(i)
      BY <2>2, <1>1 DEF IInv, RowsWhole, VectorMatchesText
    <2> QED
      BY <2>1, <2>2
  <1>6. \A k \in Job : k # j => pc'[k] = pc[k]
    BY <1>1, Going DEF IInv, TypeOK, Label
  <1>7. \A k \in Merge : pc'[k] = pc[k] /\ rows' = rows
    BY <1>1, <1>6 DEF Merge
  <1>8. MergesInOrder' /\ MergedWhole'
    BY <1>7, <1>1 DEF IInv, RowsWhole, MergesInOrder, MergedWhole, Unnamed
  <1>9. UpdateHasRow'
    BY <1>1, <1>6 DEF IInv, UpdateHasRow, Updates
  <1> QED
    BY <1>4, <1>5, <1>8, <1>9 DEF IInv, RowsWhole

-----------------------------------------------------------------------------
(* A consolidation *)

LEMMA MergeQuietKeeps ==
    ASSUME IInv, NEW j \in Job, MergeFind(j) \/ MergeCheck(j) \/ MergeFails(j)
    PROVE  IInv'
  <1>1. PICK l \in {"found", "checked", "ending", "undoing", "failing"} :
            /\ Goto(j, l)
            /\ l \in {"found", "checked", "failing"} => pc[j] \in Early
            /\ l = "undoing" => pc[j] = "created"
    BY DEF MergeFind, MergeCheck, MergeFails, Starts, Early
  <1>2. pc' \in [Job -> Label] /\ pc'[j] = l /\ \A k \in Job : k # j => pc'[k] = pc[k]
    BY <1>1, Going DEF IInv, TypeOK, Label
  <1>3. UNCHANGED <<rows, vec, tier, records>> /\ Kind[j] = "merge"
    BY DEF MergeFind, MergeCheck, MergeFails
  <1>4. seen' \in [Job -> Copies]
    <2>1. CASE MergeFind(j)
      <3>1. PICK cluster \in SUBSET Mergeable : See(j, [i \in Entry |-> IF i \in cluster THEN rows[i] ELSE NoRow])
        BY <2>1 DEF MergeFind
      <3>2. [i \in Entry |-> IF i \in cluster THEN rows[i] ELSE NoRow] \in Copies
        BY DEF IInv, TypeOK, Copies
      <3> QED
        BY <3>1, <3>2, Seeing DEF IInv, TypeOK
    <2>2. CASE MergeCheck(j) \/ MergeFails(j)
      BY <2>2 DEF MergeCheck, MergeFails, IInv, TypeOK
    <2> QED
      BY <2>1, <2>2
  <1>5. TypeOK'
    BY <1>2, <1>3, <1>4 DEF IInv, TypeOK
  <1>6. Onward
    BY <1>1, <1>2 DEF Onward, Early, Merge
  <1>7. UpdatesOnward
    <2>1. ASSUME NEW k \in Job, Kind[k] \in Updates, pc'[k] = "read"
          PROVE  pc[k] = "read" /\ lane' = lane
      <3>1. pc[k] = "read" /\ lane = k
        BY <2>1, <1>2, <1>3 DEF IInv, UpdateHasRow, Updates
      <3> QED
        BY <3>1, Places DEF MergeFind, MergeCheck, MergeFails, TakeLane
    <2> QED
      BY <2>1 DEF UpdatesOnward
  <1> QED
    BY <1>3, <1>5, <1>6, <1>7, RowsStay

(* Only the merge j goes on; rows stay rows. *)
LEMMA MergeGoes ==
    ASSUME IInv, NEW j \in Job, Kind[j] = "merge", UNCHANGED lane,
           \A k \in Job : k # j => pc'[k] = pc[k],
           \A i \in Id : rows[i] # NoRow => rows'[i] # NoRow
    PROVE  UpdateHasRow'
  BY Places DEF IInv, UpdateHasRow, Updates

LEMMA MergeCreateKeeps ==
    ASSUME IInv, NEW j \in Job, MergeCreate(j)
    PROVE  IInv'
  <1>1. PICK m \in Cluster(j) :
            WriteEntry(j, j, [text |-> seen[j][m].text, status |-> "active", into |-> None, by |-> j])
    BY DEF MergeCreate
  <1> DEFINE r == [text |-> seen[j][m].text, status |-> "active", into |-> None, by |-> j]
  <1>2. /\ Kind[j] = "merge" /\ j \in Merge /\ j \in Entry /\ j \notin Id
        /\ pc[j] = "checked" /\ Goto(j, "created") /\ UNCHANGED <<tier, lane, seen, records>>
    BY DEF MergeCreate, Merge, Entry
  <1>3. r \in Row /\ r.text \in Text /\ r.into = None
    <2>1. seen[j][m] \in Row
      BY DEF Cluster, Entry, IInv, TypeOK, Copies
    <2> QED
      BY <2>1 DEF Row
  <1>4. rows' = [rows EXCEPT ![j] = r] /\ vec' = IF j \in Embeds THEN [vec EXCEPT ![j] = Vector(r.text)] ELSE vec
    BY <1>1 DEF WriteEntry
  <1> HIDE DEF r
  <1>5. /\ rows' \in Copies /\ rows'[j] = r /\ r # NoRow
        /\ \A i \in Entry : i # j => rows'[i] = rows[i]
    BY <1>2, <1>3, <1>4, RowIsReal DEF IInv, TypeOK, Copies
  <1>6. /\ vec' \in Vectors /\ \A i \in Entry : i # j => vec'[i] = vec[i]
        /\ vec'[j] # NoVec => vec'[j].of = r.text
    <2>1. rows[j] = NoRow /\ vec[j] = NoVec
      BY <1>2 DEF IInv, MergesInOrder, RowsWhole, VectorMatchesText
    <2> QED
      BY <2>1, <1>2, <1>3, <1>4, VectorIsReal DEF IInv, TypeOK, Vectors
  <1>7. pc' \in [Job -> Label] /\ pc'[j] = "created" /\ \A k \in Job : k # j => pc'[k] = pc[k]
    BY <1>2, Going DEF IInv, TypeOK, Label
  <1>8. TypeOK'
    BY <1>2, <1>5, <1>6, <1>7 DEF IInv, TypeOK
  <1>9. \A i \in Entry : rows'[i].into = rows[i].into
    <2>1. rows[j].into = None
      BY <1>2, NoneOfNone DEF IInv, MergesInOrder
    <2> QED
      BY <2>1, <1>3, <1>5
  <1>10. MergesInOrder'
    <2>1. \A k \in Merge : Unnamed(k)' <=> Unnamed(k)
      BY <1>9 DEF Unnamed
    <2>2. \A k \in Merge : k # j => rows'[k] = rows[k] /\ pc'[k] = pc[k]
      BY <1>5, <1>7 DEF Merge, Entry
    <2> QED
      BY <1>2, <1>5, <1>7, <2>1, <2>2 DEF IInv, MergesInOrder
  <1>11. UpdateHasRow'
    BY <1>2, <1>5, <1>7, MergeGoes DEF Entry
  <1>12. MergedWhole'
    <2>1. \A i \in Entry : rows[i] # NoRow => rows'[i] # NoRow
      BY <1>5
    <2>2. \A i \in Id : rows[i].into # None => rows[i].into \in Entry
      BY NoneOfNone DEF IInv, TypeOK, Copies, Entry, Row
    <2>3. \A k \in Merge : pc'[k] = "failed" => k # j /\ pc[k] = "failed" /\ rows'[k] = rows[k]
      BY <1>5, <1>7 DEF Merge, Entry
    <2> QED
      BY <1>9, <2>1, <2>2, <2>3 DEF IInv, RowsWhole, MergedWhole, Entry
  <1>13. VectorMatchesText'
    BY <1>5, <1>6 DEF IInv, RowsWhole, VectorMatchesText
  <1> QED
    BY <1>8, <1>10, <1>11, <1>12, <1>13 DEF IInv, RowsWhole

LEMMA ArchivedIs ==
    ASSUME NEW j \in Merge, NEW row \in Row
    PROVE  /\ Archived(j, row) \in Row /\ Archived(j, row).into = j
           /\ Archived(j, row).status = "archived"
  BY DEF Archived, Row, Merge

LEMMA MergeArchiveKeeps ==
    ASSUME IInv, NEW j \in Job, MergeArchive(j)
    PROVE  IInv'
  <1>1. /\ Kind[j] = "merge" /\ j \in Merge /\ j \in Entry /\ j \notin Id
        /\ pc[j] = "created" /\ Goto(j, "ending") /\ UNCHANGED <<tier, lane, seen, records>>
        /\ rows' = [i \in Entry |-> IF i \in Cluster(j) THEN Archived(j, rows[i]) ELSE rows[i]]
        /\ vec' = [i \in Entry |-> IF i \in Cluster(j) THEN NoVec ELSE vec[i]]
    BY DEF MergeArchive, Merge, Entry
  <1>2. \A i \in Cluster(j) : i \in Id /\ rows[i] \in Row
    BY DEF MergeArchive, Cluster, IInv, TypeOK, Copies, Entry
  <1>3. /\ rows' \in Copies
        /\ \A i \in Cluster(j) : rows'[i] # NoRow /\ rows'[i].into = j
        /\ \A i \in Entry \ Cluster(j) : rows'[i] = rows[i]
    <2>1. \A i \in Cluster(j) :
              Archived(j, rows[i]) \in Row /\ Archived(j, rows[i]).into = j /\ Archived(j, rows[i]) # NoRow
      BY <1>1, <1>2, ArchivedIs, RowIsReal
    <2> QED
      BY <1>1, <1>2, <2>1 DEF IInv, TypeOK, Copies, Entry
  <1>4. /\ vec' \in Vectors
        /\ \A i \in Entry : vec'[i] # NoVec => i \notin Cluster(j) /\ vec'[i] = vec[i]
    BY <1>1 DEF IInv, TypeOK, Vectors
  <1>5. pc' \in [Job -> Label] /\ pc'[j] = "ending" /\ \A k \in Job : k # j => pc'[k] = pc[k]
    BY <1>1, Going DEF IInv, TypeOK, Label
  <1>6. TypeOK'
    BY <1>1, <1>3, <1>4, <1>5 DEF IInv, TypeOK
  <1>7. \A k \in Merge : k # j =>
            /\ k \in Job /\ rows'[k] = rows[k] /\ pc'[k] = pc[k]
            /\ Unnamed(k) => Unnamed(k)'
    <2>1. \A k \in Merge : k \in Job /\ k \in Entry /\ k \notin Cluster(j)
      BY <1>2 DEF Merge, Entry
    <2>2. \A k \in Merge : k # j /\ Unnamed(k) => Unnamed(k)'
      BY <1>3 DEF Unnamed
    <2> QED
      BY <1>3, <1>5, <2>1, <2>2
  <1>8. MergesInOrder'
    BY <1>5, <1>7 DEF IInv, MergesInOrder
  <1>9. UpdateHasRow'
    BY <1>1, <1>3, <1>5, MergeGoes DEF Entry
  <1>10. MergedWhole'
    <2>1. rows[j] # NoRow /\ rows'[j] = rows[j]
      BY <1>1, <1>2, <1>3 DEF IInv, MergesInOrder
    <2>2. \A k \in Merge : rows[k] # NoRow => rows'[k] # NoRow
      BY <1>7, <2>1
    <2>3. \A i \in Id : rows'[i].into # None => rows'[rows'[i].into] # NoRow
      <3> SUFFICES ASSUME NEW i \in Id, rows'[i].into # None
                   PROVE  rows'[rows'[i].into] # NoRow
        OBVIOUS
      <3>1. CASE i \in Cluster(j)
        BY <3>1, <1>3, <2>1
      <3>2. CASE i \notin Cluster(j)
        <4>1. rows'[i] = rows[i] /\ rows[i].into \in Merge
          BY <3>2, <1>3, NoneOfNone DEF IInv, TypeOK, Copies, Entry, Row
        <4> QED
          BY <4>1, <2>2 DEF IInv, RowsWhole, MergedWhole
      <3> QED
        BY <3>1, <3>2
    <2>4. \A k \in Merge : pc'[k] = "failed" => rows'[k] = NoRow /\ \A i \in Id : rows'[i].into # k
      BY <1>5, <1>7, <1>8, <1>3 DEF MergesInOrder, Unnamed, Entry
    <2> QED
      BY <2>3, <2>4 DEF MergedWhole
  <1>11. VectorMatchesText'
    BY <1>3, <1>4 DEF IInv, RowsWhole, VectorMatchesText
  <1> QED
    BY <1>6, <1>8, <1>9, <1>10, <1>11 DEF IInv, RowsWhole

LEMMA MergeRollbackKeeps ==
    ASSUME IInv, NEW j \in Job, MergeRollback(j)
    PROVE  IInv'
  <1>1. /\ Kind[j] = "merge" /\ j \in Merge /\ j \in Entry /\ j \notin Id
        /\ pc[j] = "undoing" /\ Goto(j, "failing") /\ UNCHANGED <<tier, lane, seen, records>>
        /\ rows' = [i \in Entry |-> IF i = j THEN NoRow ELSE Restored(j, i)]
        /\ vec' = [vec EXCEPT ![j] = NoVec]
    BY DEF MergeRollback, Merge, Entry
  <1>2. Unnamed(j)
    BY <1>1 DEF IInv, MergesInOrder
  <1>3. /\ rows' \in Copies /\ rows'[j] = NoRow
        /\ \A i \in Entry : i # j => rows'[i] = rows[i]
    BY <1>1, <1>2 DEF Restored, Unnamed, IInv, TypeOK, Copies
  <1>4. /\ vec' \in Vectors /\ vec'[j] = NoVec
        /\ \A i \in Entry : i # j => vec'[i] = vec[i]
    BY <1>1 DEF IInv, TypeOK, Vectors
  <1>5. pc' \in [Job -> Label] /\ pc'[j] = "failing" /\ \A k \in Job : k # j => pc'[k] = pc[k]
    BY <1>1, Going DEF IInv, TypeOK, Label
  <1>6. TypeOK'
    BY <1>1, <1>3, <1>4, <1>5 DEF IInv, TypeOK
  <1>7. \A k \in Merge :
            /\ Unnamed(k) => Unnamed(k)'
            /\ k # j => rows'[k] = rows[k] /\ pc'[k] = pc[k]
    <2>1. \A k \in Merge : k # None
      BY Places DEF Merge
    <2>2. \A k \in Merge : Unnamed(k) => Unnamed(k)'
      BY <1>3, <2>1, NoneOfNone DEF Unnamed
    <2> QED
      BY <1>3, <1>5, <2>2 DEF Merge, Entry
  <1>8. MergesInOrder'
    BY <1>2, <1>3, <1>5, <1>7 DEF IInv, MergesInOrder
  <1>9. UpdateHasRow'
    BY <1>1, <1>3, <1>5, MergeGoes DEF Entry
  <1>10. MergedWhole'
    <2>1. \A i \in Id : rows'[i].into # None => rows'[rows'[i].into] # NoRow
      <3> SUFFICES ASSUME NEW i \in Id, rows'[i].into # None
                   PROVE  rows'[rows'[i].into] # NoRow
        OBVIOUS
      <3>1. rows'[i] = rows[i] /\ rows[i].into \in Merge /\ rows[i].into # j
        BY <1>1, <1>2, <1>3, NoneOfNone DEF Unnamed, IInv, TypeOK, Copies, Entry, Row
      <3> QED
        BY <3>1, <1>7 DEF IInv, RowsWhole, MergedWhole
    <2>2. \A k \in Merge : pc'[k] = "failed" => rows'[k] = NoRow /\ \A i \in Id : rows'[i].into # k
      BY <1>8 DEF MergesInOrder, Unnamed, Entry
    <2> QED
      BY <2>1, <2>2 DEF MergedWhole
  <1>11. VectorMatchesText'
    BY <1>3, <1>4 DEF IInv, RowsWhole, VectorMatchesText
  <1> QED
    BY <1>6, <1>8, <1>9, <1>10, <1>11 DEF IInv, RowsWhole

-----------------------------------------------------------------------------
(* Ends *)

LEMMA EndJobKeeps ==
    ASSUME IInv, NEW j \in Job, EndJob(j)
    PROVE  IInv'
  <1>1. PICK l \in {"done", "failed"} :
            Goto(j, l) /\ pc[j] \in {"ending", "failing"} /\ (l = "failed" => pc[j] = "failing")
    BY DEF EndJob
  <1>2. pc' \in [Job -> Label] /\ pc'[j] = l /\ \A k \in Job : k # j => pc'[k] = pc[k]
    BY <1>1, Going DEF IInv, TypeOK, Label
  <1>3. TypeOK'
    BY <1>2, Forgetting DEF EndJob, IInv, TypeOK
  <1>4. Onward
    BY <1>1, <1>2 DEF Onward, Early, Merge
  <1>5. UpdatesOnward
    BY <1>1, <1>2 DEF UpdatesOnward, EndJob, IInv, UpdateHasRow
  <1> QED
    BY <1>3, <1>4, <1>5, RowsStay DEF EndJob

LEMMA CrashKeeps ==
    ASSUME IInv, Crash
    PROVE  IInv'
  <1>1. pc' \in [Job -> Label] /\ \A j \in Job : pc'[j] = "dead" \/ (pc'[j] = pc[j] /\ pc[j] # "read")
    BY DEF Crash, IInv, TypeOK, Label
  <1>2. TypeOK'
    BY <1>1, Empty DEF Crash, IInv, TypeOK
  <1>3. Onward /\ UpdatesOnward
    BY <1>1 DEF Onward, UpdatesOnward, Early, Merge
  <1> QED
    BY <1>2, <1>3, RowsStay DEF Crash

-----------------------------------------------------------------------------
LEMMA InitKeeps == Init => IInv
  <1> SUFFICES ASSUME Init PROVE IInv
    OBVIOUS
  <1> DEFINE row(present, i) == IF i \in present
                                THEN [text |-> <<"init", "init">>, status |-> "active", into |-> None, by |-> "init"]
                                ELSE NoRow
  <1>1. PICK present \in SUBSET Id, space \in {"active", "old", None}, mirrored \in BOOLEAN :
            /\ rows = [i \in Entry |-> row(present, i)]
            /\ vec = [i \in Entry |-> IF i \in present /\ space # None
                                      THEN [of |-> row(present, i).text, space |-> space] ELSE NoVec]
            /\ tier = [i \in Entry |-> IF mirrored THEN row(present, i) ELSE NoRow]
    BY DEF Init
  <1>2. \A i :
            /\ i \in present => row(present, i) \in Row /\ row(present, i).text \in Text
            /\ row(present, i) \in Row \cup {NoRow} /\ row(present, i).into = None
            /\ i \notin present => row(present, i) = NoRow
    BY NoneOfNone DEF Row, Text
  <1> HIDE DEF row
  <1>3. TypeOK
    <2>1. rows \in Copies /\ tier \in Copies
      BY <1>1, <1>2 DEF Copies
    <2>2. vec \in Vectors
      BY <1>1, <1>2 DEF Vectors, None
    <2> QED
      BY <2>1, <2>2, Empty DEF Init, TypeOK, Label
  <1>4. UpdateHasRow
    BY DEF Init, UpdateHasRow
  <1>5. \A i \in Entry : rows[i].into = None
    BY <1>1, <1>2
  <1>6. \A j \in Merge : rows[j] = NoRow /\ Unnamed(j) /\ pc[j] = "idle"
    <2>1. \A j \in Merge : j \in Job /\ j \in Entry /\ j \notin present /\ j # None
      BY Places DEF Merge, Entry
    <2> QED
      BY <2>1, <1>1, <1>2, <1>5 DEF Unnamed, Init
  <1>7. MergesInOrder
    BY <1>6 DEF MergesInOrder
  <1>8. MergedWhole
    BY <1>5, <1>6 DEF MergedWhole, Entry
  <1>9. VectorMatchesText
    <2>1. \A i \in Entry : vec[i] # NoVec => i \in present /\ vec[i].of = row(present, i).text
      BY <1>1
    <2>2. \A i \in present : row(present, i) # NoRow
      BY <1>2, RowIsReal
    <2> QED
      BY <1>1, <2>1, <2>2 DEF VectorMatchesText
  <1> QED
    BY <1>3, <1>4, <1>7, <1>8, <1>9 DEF IInv, RowsWhole

LEMMA NextKeeps == IInv /\ [Next]_vars => IInv'
  <1> SUFFICES ASSUME IInv, [Next]_vars PROVE IInv'
    OBVIOUS
  <1>1. ASSUME NEW j \in Job, Store(j) PROVE IInv'
    BY <1>1, StoreReadKeeps, StoreConflictKeeps, StoreCommitKeeps, StoreMirrorKeeps DEF Store
  <1>2. ASSUME NEW j \in Job, Update(j) PROVE IInv'
    BY <1>2, UpdateReadKeeps, UpdateCommitKeeps, UpdateQuietKeeps DEF Update
  <1>3. ASSUME NEW j \in Job, Forget(j) PROVE IInv'
    BY <1>3, ForgetDeleteKeeps, ForgetTiersKeeps DEF Forget
  <1>4. ASSUME NEW j \in Job, Consolidate(j) PROVE IInv'
    BY <1>4, MergeQuietKeeps, MergeCreateKeeps, MergeArchiveKeeps, MergeRollbackKeeps DEF Consolidate
  <1>5. ASSUME NEW j \in Job, Reembed(j) PROVE IInv'
    BY <1>5, ReembedReadKeeps, ReembedCommitKeeps DEF Reembed
  <1>6. CASE UNCHANGED vars
    BY <1>6 DEF vars, IInv, TypeOK, UpdateHasRow, MergesInOrder, Unnamed, RowsWhole, VectorMatchesText, MergedWhole
  <1> QED
    BY <1>1, <1>2, <1>3, <1>4, <1>5, <1>6, RecallKeeps, EndJobKeeps, CrashKeeps DEF Next

(***************************************************************************)
(* The rows under every tool call: what an update commits to is there, a   *)
(* merged row is named only once it exists and gone only while it is not   *)
(* named, and every vector belongs to its text.                            *)
(***************************************************************************)
THEOREM Invariance == Spec => []IInv
  BY InitKeeps, NextKeeps, PTL DEF Spec

(***************************************************************************)
(* correction.py, reembed.py and consolidation.py: whatever lands between  *)
(* an encoding and its transaction, and wherever a merge fails, a vector   *)
(* is of the text beside it, no original is archived into a row that is    *)
(* not there, and a merge that was rolled back leaves nothing.             *)
(***************************************************************************)
THEOREM RowsAreWhole == Spec => []RowsWhole
  <1>1. IInv => RowsWhole
    BY DEF IInv
  <1> QED
    BY <1>1, Invariance, PTL

(* One step brings back no forgotten row and makes no retired one active.   *)
LEMMA StepBringsNothingBack ==
    ASSUME IInv, Next, NEW i \in Id
    PROVE  /\ rows[i] = NoRow /\ rows'[i] # NoRow => seen[rows'[i].by][i] = NoRow
           /\ rows[i] # NoRow /\ rows[i].status # "active" /\ rows'[i].status = "active"
                 => Kind[rows'[i].by] = "revive"
  <1> DEFINE Fine == /\ rows[i] = NoRow /\ rows'[i] # NoRow => seen[rows'[i].by][i] = NoRow
                     /\ rows[i] # NoRow /\ rows[i].status # "active" /\ rows'[i].status = "active"
                           => Kind[rows'[i].by] = "revive"
  <1>1. i \in Entry /\ i \notin Merge
    BY Places DEF Entry, Merge
  <1>2. rows'[i] = rows[i] => Fine
    OBVIOUS
  <1>3. rows'[i] = NoRow => Fine
    BY NoneOfNone DEF None
  <1>4. ASSUME NEW j \in Job, StoreCommit(j) PROVE Fine
    <2> DEFINE r == Revision(j, seen[j][On[j]])
    <2>1. rows' = [rows EXCEPT ![On[j]] = r] /\ rows[On[j]] = seen[j][On[j]]
      BY <1>4 DEF StoreCommit, WriteEntry
    <2>2. CASE i # On[j]
      BY <2>1, <2>2, <1>1, <1>2 DEF IInv, TypeOK, Copies
    <2>3. CASE i = On[j]
      <3>1. rows'[i] = r
        BY <2>1, <2>3, <1>1 DEF IInv, TypeOK, Copies
      <3>2. r.by = j /\ (rows[i] # NoRow => r.status = rows[i].status)
        BY <2>1, <2>3, <1>1, RevisionIs DEF IInv, TypeOK, Copies
      <3> QED
        BY <2>1, <2>3, <3>1, <3>2
    <2> QED
      BY <2>2, <2>3
  <1>5. ASSUME NEW j \in Job, UpdateCommit(j) PROVE Fine
    <2> DEFINE r == Patched(j, rows[On[j]])
    <2>1. /\ rows' = [rows EXCEPT ![On[j]] = r]
          /\ Kind[j] \in Updates /\ rows[On[j]] # NoRow
      BY <1>5 DEF UpdateCommit, IInv, UpdateHasRow
    <2>2. CASE i # On[j]
      BY <2>1, <2>2, <1>1, <1>2 DEF IInv, TypeOK, Copies
    <2>3. CASE i = On[j]
      <3>1. rows'[i] = r /\ rows[i] \in Row
        BY <2>1, <2>3, <1>1 DEF IInv, TypeOK, Copies
      <3>2. r.by = j /\ (r.status = "active" => rows[i].status = "active" \/ Kind[j] = "revive")
        BY <2>1, <2>3, <3>1, PatchedIs
      <3> QED
        BY <2>1, <2>3, <3>1, <3>2
    <2> QED
      BY <2>2, <2>3
  <1>6. ASSUME NEW j \in Job, ForgetDelete(j) PROVE Fine
    <2>1. rows' = [rows EXCEPT ![On[j]] = NoRow]
      BY <1>6 DEF ForgetDelete
    <2>2. rows'[i] = rows[i] \/ rows'[i] = NoRow
      BY <2>1, <1>1 DEF IInv, TypeOK, Copies
    <2> QED
      BY <2>2, <1>2, <1>3
  <1>7. ASSUME NEW j \in Job, MergeCreate(j) PROVE Fine
    <2>1. j # i
      BY <1>7, <1>1 DEF MergeCreate, Merge
    <2>2. rows'[i] = rows[i]
      BY <1>7, <2>1, <1>1 DEF MergeCreate, WriteEntry, IInv, TypeOK, Copies
    <2> QED
      BY <2>2, <1>2
  <1>8. ASSUME NEW j \in Job, MergeArchive(j) PROVE Fine
    <2>1. CASE i \in Cluster(j)
      <3>1. j \in Merge /\ rows[i] \in Row
        BY <1>8, <2>1, <1>1 DEF MergeArchive, Merge, IInv, TypeOK, Copies
      <3>2. rows'[i] = Archived(j, rows[i])
        BY <1>8, <2>1, <1>1 DEF MergeArchive
      <3>3. rows'[i].status = "archived" /\ rows[i] # NoRow
        BY <3>1, <3>2, ArchivedIs, RowIsReal
      <3> QED
        BY <3>3
    <2>2. CASE i \notin Cluster(j)
      BY <1>8, <2>2, <1>1, <1>2 DEF MergeArchive
    <2> QED
      BY <2>1, <2>2
  <1>9. ASSUME NEW j \in Job, MergeRollback(j) PROVE Fine
    <2>1. j # i /\ rows[i].into # j
      BY <1>9, <1>1 DEF MergeRollback, Merge, IInv, MergesInOrder, Unnamed
    <2> QED
      BY <1>9, <2>1, <1>1, <1>2 DEF MergeRollback, Restored
  <1>10. ASSUME UNCHANGED rows PROVE Fine
    BY <1>10, <1>2
  <1> HIDE DEF Fine
  <1>11. ASSUME NEW j \in Job, Store(j) PROVE Fine
    BY <1>11, <1>4, <1>10 DEF Store, StoreRead, StoreConflict, StoreMirror
  <1>12. ASSUME NEW j \in Job, Update(j) PROVE Fine
    BY <1>12, <1>5, <1>10 DEF Update, UpdateRead, RefreshRead, RefreshTiers, UpdateFails
  <1>13. ASSUME NEW j \in Job, Forget(j) PROVE Fine
    BY <1>13, <1>6, <1>10 DEF Forget, ForgetTiers
  <1>14. ASSUME NEW j \in Job, Consolidate(j) PROVE Fine
    BY <1>14, <1>7, <1>8, <1>9, <1>10 DEF Consolidate, MergeFind, MergeCheck, MergeFails
  <1>15. ASSUME NEW j \in Job, Recall(j) \/ Reembed(j) \/ EndJob(j) PROVE Fine
    BY <1>15, <1>10 DEF Recall, RecallRead, RecallTiers, RecallRemember, Reembed, ReembedRead, ReembedCommit, EndJob
  <1>16. ASSUME Crash PROVE Fine
    BY <1>16, <1>10 DEF Crash
  <1>17. Fine
    BY <1>11, <1>12, <1>13, <1>14, <1>15, <1>16 DEF Next
  <1> QED
    BY <1>17 DEF Fine

(***************************************************************************)
(* tools/store.py, correction.py and consolidation.py: a row that was      *)
(* forgotten is written only by a store that found none, and a retired row *)
(* is active again only by a correction that asks for it, whatever job     *)
(* read the row before and writes late.                                    *)
(***************************************************************************)
THEOREM NothingReturns == Spec => NothingComesBack
  <1>1. IInv /\ [Next]_vars =>
            [\A i \in Id :
               /\ rows[i] = NoRow /\ rows'[i] # NoRow => seen[rows'[i].by][i] = NoRow
               /\ rows[i] # NoRow /\ rows[i].status # "active" /\ rows'[i].status = "active"
                     => Kind[rows'[i].by] = "revive"]_vars
    BY StepBringsNothingBack
  <1> QED
    BY <1>1, Invariance, PTL DEF Spec, NothingComesBack

-----------------------------------------------------------------------------
(* The quarantine of an id: the ledger, the log, and who has the lock       *)

HIDE MemoryRowsAssumption
USE ReviewAssumption

LEMMA NoEntryIs == NoEntry \in QuarantineRow /\ NoEntry.text = "none" /\ NoEntry.by = "none"
  BY DEF QuarantineRow, NoEntry

LEMMA EntryIs ==
    ASSUME NEW e \in QuarantineRow, e # NoEntry
    PROVE  e \in [text : Texts, by : {"hold", "reject", "review", "write"}] /\ e.text \in Texts
  BY DEF QuarantineRow

LEMMA HeldRow ==
    ASSUME NEW t \in Texts, NEW by \in {"hold", "reject", "review", "write"}
    PROVE  /\ [text |-> t, by |-> by] \in QuarantineRow /\ [text |-> t, by |-> by].text = t
           /\ [text |-> t, by |-> by].by = by /\ [text |-> t, by |-> by] # NoEntry
  BY DEF QuarantineRow, NoEntry

(* A sequence that grows by one. *)
LEMMA OneMore ==
    ASSUME NEW S, NEW s \in Seq(S), NEW x \in S
    PROVE  /\ Append(s, x) \in Seq(S) /\ Len(s) \in Nat
           /\ DOMAIN s = 1..Len(s) /\ DOMAIN Append(s, x) = 1..(Len(s) + 1)
           /\ Append(s, x)[Len(s) + 1] = x
           /\ \A i \in 1..Len(s) : Append(s, x)[i] = s[i]
  OBVIOUS

(* An entry that does not take a text back: a row of another text, or one   *)
(* that blocks it.                                                          *)
LEMMA LedgerGrows ==
    ASSUME ReviewIInv, NEW t \in Texts, NEW decision \in {"quarantined", "approved", "rejected"},
           Enter(t, decision), NEW u \in Texts,
           \/ u = t /\ decision \in Blocking
           \/ u # t /\ verdict[u] \in {"held", "rejected"}
    PROVE  \E i \in DOMAIN ledger' :
              ledger'[i].decision \in Blocking /\ Latest(i, {k \in DOMAIN ledger' : ledger'[k].text = u})
  <1> DEFINE row == [text |-> t, decision |-> decision]
             n == Len(ledger) + 1
  <1>1. /\ row \in [text : Texts, decision : {"quarantined", "approved", "rejected"}]
        /\ row.text = t /\ row.decision = decision
    OBVIOUS
  <1> HIDE DEF row
  <1>2. /\ ledger' = Append(ledger, row)
        /\ ledger \in Seq([text : Texts, decision : {"quarantined", "approved", "rejected"}])
    BY DEF Enter, ReviewIInv, ReviewTypeOK, row
  <1>3. /\ Len(ledger) \in Nat /\ DOMAIN ledger = 1..Len(ledger) /\ DOMAIN ledger' = 1..n /\ ledger'[n] = row
        /\ \A i \in 1..Len(ledger) : ledger'[i] = ledger[i]
    BY <1>1, <1>2, OneMore
  <1> HIDE DEF n
  <1>4. n = Len(ledger) + 1
    BY DEF n
  <1>5. CASE u = t /\ decision \in Blocking
    <2>1. \A k \in {l \in DOMAIN ledger' : ledger'[l].text = u} : k <= n
      BY <1>3
    <2>2. n \in {l \in DOMAIN ledger' : ledger'[l].text = u} /\ ledger'[n].decision \in Blocking
      BY <1>1, <1>3, <1>4, <1>5
    <2> QED
      BY <2>1, <2>2 DEF Latest
  <1>6. CASE u # t /\ verdict[u] \in {"held", "rejected"}
    <2>1. PICK i \in DOMAIN ledger :
             ledger[i].decision \in Blocking /\ Latest(i, {k \in DOMAIN ledger : ledger[k].text = u})
      BY <1>6 DEF ReviewIInv, LedgerBlocks
    <2>2. {k \in DOMAIN ledger' : ledger'[k].text = u} = {k \in DOMAIN ledger : ledger[k].text = u}
      BY <1>1, <1>3, <1>4, <1>6
    <2>3. i \in DOMAIN ledger' /\ ledger'[i] = ledger[i]
      BY <1>3, <1>4
    <2> QED
      BY <2>1, <2>2, <2>3
  <1> QED
    BY <1>5, <1>6

(* A decision that is logged. *)
LEMMA LogGrows ==
    ASSUME ReviewIInv, NEW decision \in Terminal \cup {"quarantined", "approve_blocked", "approve_conflict"},
           Log(decision)
    PROVE  /\ reviews' \in Seq(Terminal \cup {"quarantined", "approve_blocked", "approve_conflict"})
           /\ decision \notin Terminal => Resolved' = Resolved
           /\ (decision \notin Terminal \/ ~Resolved)
              => (\A i, j \in DOMAIN reviews' : reviews'[i] \in Terminal /\ reviews'[j] \in Terminal => i = j)
  <1>1. reviews' = Append(reviews, decision)
        /\ reviews \in Seq(Terminal \cup {"quarantined", "approve_blocked", "approve_conflict"})
    BY DEF Log, ReviewIInv, ReviewTypeOK
  <1>2. /\ reviews' \in Seq(Terminal \cup {"quarantined", "approve_blocked", "approve_conflict"})
        /\ Len(reviews) \in Nat /\ DOMAIN reviews = 1..Len(reviews) /\ DOMAIN reviews' = 1..(Len(reviews) + 1)
        /\ reviews'[Len(reviews) + 1] = decision
        /\ \A i \in 1..Len(reviews) : reviews'[i] = reviews[i]
    BY <1>1, OneMore
  <1>3. decision \notin Terminal => Resolved' = Resolved
    BY <1>2 DEF Resolved
  <1>4. \A i, j \in DOMAIN reviews : reviews[i] \in Terminal /\ reviews[j] \in Terminal => i = j
    BY DEF ReviewIInv, ResolvedOnce
  <1>5. ASSUME decision \notin Terminal \/ ~Resolved, NEW i \in DOMAIN reviews', NEW j \in DOMAIN reviews',
               reviews'[i] \in Terminal, reviews'[j] \in Terminal
        PROVE  i = j
    BY <1>2, <1>4, <1>5 DEF Resolved
  <1> QED
    BY <1>2, <1>3, <1>5

(* The step of a call. *)
LEMMA CallMoves ==
    ASSUME ReviewIInv, NEW c \in Call, NEW step \in {"start", "done"} \cup Inside, To(c, step)
    PROVE  /\ at' \in [Call -> {"start", "done"} \cup Inside] /\ at'[c] = step
           /\ \A d \in Call : d # c => at'[d] = at[d]
  BY DEF To, ReviewIInv, ReviewTypeOK

(* Only the call that has the lock is inside. *)
LEMMA AloneInside ==
    ASSUME ReviewIInv, NEW c \in Call, at[c] \in Inside \/ locked = "free"
    PROVE  \A d \in Call : d # c => at[d] \notin Inside
  BY DEF ReviewIInv, InsideIsLocked

(* A lock taken, kept or given back. *)
LEMMA LockKept ==
    ASSUME ReviewIInv, NEW c \in Call, at[c] \in Inside \/ locked = "free",
           NEW step \in {"start", "done"} \cup Inside, To(c, step),
           locked' \in Call \cup {"free"}, step \in Inside => locked' = c
    PROVE  InsideIsLocked' /\ \A d \in Call : d # c => at'[d] \notin Inside
  <1>1. \A d \in Call : d # c => at'[d] \notin Inside
    BY CallMoves, AloneInside
  <1> QED
    BY <1>1, CallMoves DEF InsideIsLocked

LEMMA InsideSteps ==
    /\ {"recheck", "mark", "delete", "activate", "poison", "close", "log", "ledger"} = Inside
    /\ "done" \notin Inside /\ "start" \notin Inside
  BY DEF Inside

LEMMA StringsOfRoles ==
    \A c \in Call : Role[c] \in {"hold", "approve", "reject", "forget", "write", "remove"} /\ TextOf[c] \in Texts
  BY DEF Texts

ReviewKept == ReviewIInv' /\ HeldRowsKept

(* What is left to show of a step of one call: the other calls are outside. *)
LEMMA OneCallKept ==
    ASSUME ReviewIInv, NEW c \in Call, ReviewTypeOK', InsideIsLocked',
           \A d \in Call : d # c => at'[d] \notin Inside,
           at'[c] \in {"recheck", "mark", "delete"} => held' = found'[c],
           at'[c] \in {"recheck", "mark", "delete", "activate", "poison", "close"} =>
              found'[c] # NoEntry /\ Role[c] \in {"approve", "reject"},
           at'[c] \in {"recheck", "delete", "activate"} => Role[c] = "approve",
           at'[c] \in {"mark", "poison"} => Role[c] = "reject",
           at'[c] \in {"delete", "activate"} \/ (at'[c] = "close" /\ Role[c] = "approve") =>
              verdict'[found'[c].text] = "approved",
           at'[c] \in {"log", "ledger"} => Role[c] = "hold",
           at'[c] \in {"recheck", "mark", "delete", "activate", "poison"} => ~Resolved',
           \A i, j \in DOMAIN reviews' : reviews'[i] \in Terminal /\ reviews'[j] \in Terminal => i = j,
           LedgerBlocks'
    PROVE  ReviewIInv'
  <1>1. ReviewHasHeld'
    BY InsideSteps DEF ReviewHasHeld
  <1>2. ResolvedOnce'
    BY InsideSteps DEF ResolvedOnce
  <1> QED
    BY <1>1, <1>2 DEF ReviewIInv

LEMMA LogSame ==
    ASSUME ReviewIInv, reviews' = reviews
    PROVE  /\ Resolved' = Resolved
           /\ \A i, j \in DOMAIN reviews' : reviews'[i] \in Terminal /\ reviews'[j] \in Terminal => i = j
  BY DEF ReviewIInv, ResolvedOnce, Resolved

LEMMA LedgerSame ==
    ASSUME ReviewIInv, ledger' = ledger,
           \A t \in Texts : verdict'[t] \in {"held", "rejected"} => verdict[t] \in {"held", "rejected"}
    PROVE  LedgerBlocks'
  BY DEF ReviewIInv, LedgerBlocks

LEMMA HoldStoreKept == ASSUME ReviewIInv, NEW c \in Call, HoldStore(c) PROVE ReviewKept
  <1>1. /\ Role[c] = "hold" /\ locked = "free" /\ locked' = c /\ To(c, "log")
        /\ held' = [text |-> TextOf[c], by |-> "hold"] /\ held' \in QuarantineRow /\ held' # NoEntry
        /\ UNCHANGED <<reviews, ledger, active, found, verdict>>
    BY HeldRow, StringsOfRoles DEF HoldStore, StartsAs
  <1>2. InsideIsLocked' /\ \A d \in Call : d # c => at'[d] \notin Inside
    BY <1>1, LockKept, InsideSteps
  <1>3. at' \in [Call -> {"start", "done"} \cup Inside] /\ at'[c] = "log"
    BY <1>1, CallMoves, InsideSteps
  <1>4. ReviewTypeOK'
    BY <1>1, <1>3 DEF ReviewIInv, ReviewTypeOK
  <1>5. LedgerBlocks'
    BY <1>1, LedgerSame
  <1>6. ReviewIInv'
    BY <1>1, <1>2, <1>3, <1>4, <1>5, LogSame, OneCallKept
  <1> QED
    BY <1>1, <1>6 DEF ReviewKept, HeldRowsKept

LEMMA HoldLogKept == ASSUME ReviewIInv, NEW c \in Call, HoldLog(c) PROVE ReviewKept
  <1>1. /\ Role[c] = "hold" /\ at[c] = "log" /\ locked' = locked /\ To(c, "ledger") /\ Log("quarantined")
        /\ UNCHANGED <<held, ledger, active, found, verdict>>
    BY DEF HoldLog
  <1>2. locked = c /\ locked' \in Call
    BY <1>1, InsideSteps DEF ReviewIInv, InsideIsLocked
  <1>3. InsideIsLocked' /\ \A d \in Call : d # c => at'[d] \notin Inside
    BY <1>1, <1>2, LockKept, InsideSteps
  <1>4. at' \in [Call -> {"start", "done"} \cup Inside] /\ at'[c] = "ledger"
    BY <1>1, CallMoves, InsideSteps
  <1>5. "quarantined" \notin Terminal
    BY DEF Terminal
  <1>6. /\ reviews' \in Seq(Terminal \cup {"quarantined", "approve_blocked", "approve_conflict"})
        /\ \A i, j \in DOMAIN reviews' : reviews'[i] \in Terminal /\ reviews'[j] \in Terminal => i = j
    BY <1>1, <1>5, LogGrows
  <1>7. ReviewTypeOK'
    BY <1>1, <1>2, <1>4, <1>6 DEF ReviewIInv, ReviewTypeOK
  <1>8. LedgerBlocks'
    BY <1>1, LedgerSame
  <1>9. ReviewIInv'
    BY <1>1, <1>3, <1>4, <1>6, <1>7, <1>8, OneCallKept
  <1> QED
    BY <1>1, <1>9 DEF ReviewKept, HeldRowsKept

(* The ledger has grown by a row of a text. *)
LEMMA LedgerType ==
    ASSUME ReviewIInv, NEW t \in Texts, NEW decision \in {"quarantined", "approved", "rejected"}, Enter(t, decision)
    PROVE  ledger' \in Seq([text : Texts, decision : {"quarantined", "approved", "rejected"}])
  <1>1. [text |-> t, decision |-> decision] \in [text : Texts, decision : {"quarantined", "approved", "rejected"}]
    OBVIOUS
  <1> QED
    BY <1>1, OneMore DEF Enter, ReviewIInv, ReviewTypeOK

LEMMA HoldLedgerKept == ASSUME ReviewIInv, NEW c \in Call, HoldLedger(c) PROVE ReviewKept
  <1>1. /\ at[c] = "ledger" /\ locked' = "free" /\ To(c, "done") /\ Enter(TextOf[c], "quarantined")
        /\ TextOf[c] \in Texts /\ verdict' = [verdict EXCEPT ![TextOf[c]] = "held"]
        /\ UNCHANGED <<held, reviews, active, found>>
    BY StringsOfRoles DEF HoldLedger, Ends
  <1>2. InsideIsLocked' /\ \A d \in Call : d # c => at'[d] \notin Inside
    BY <1>1, LockKept, InsideSteps
  <1>3. at' \in [Call -> {"start", "done"} \cup Inside] /\ at'[c] = "done"
    BY <1>1, CallMoves, InsideSteps
  <1>4. /\ verdict' \in [Texts -> {"none", "held", "approved", "rejected"}] /\ verdict'[TextOf[c]] = "held"
        /\ \A t \in Texts : t # TextOf[c] => verdict'[t] = verdict[t]
    BY <1>1 DEF ReviewIInv, ReviewTypeOK
  <1>5. ReviewTypeOK'
    BY <1>1, <1>3, <1>4, LedgerType DEF ReviewIInv, ReviewTypeOK
  <1>6. LedgerBlocks'
    BY <1>1, <1>4, LedgerGrows DEF LedgerBlocks, Blocking
  <1>7. ReviewIInv'
    BY <1>1, <1>2, <1>3, <1>5, <1>6, LogSame, OneCallKept
  <1> QED
    BY <1>1, <1>7 DEF ReviewKept, HeldRowsKept

LEMMA ReviewReadKept == ASSUME ReviewIInv, NEW c \in Call, ReviewRead(c) PROVE ReviewKept
  <1>1. /\ Role[c] \in {"approve", "reject"} /\ locked = "free" /\ found' = [found EXCEPT ![c] = held]
        /\ UNCHANGED <<held, reviews, ledger, active, verdict>>
    BY DEF ReviewRead
  <1>2. found' \in [Call -> QuarantineRow] /\ found'[c] = held
    BY <1>1 DEF ReviewIInv, ReviewTypeOK
  <1>3. LedgerBlocks'
    BY <1>1, LedgerSame
  <1>4. ReviewIInv'
    <2>1. CASE Resolved \/ held = NoEntry
      <3>1. To(c, "done") /\ locked' = "free"
        BY <2>1 DEF ReviewRead, Ends
      <3>2. InsideIsLocked' /\ \A d \in Call : d # c => at'[d] \notin Inside
        BY <1>1, <3>1, LockKept, InsideSteps
      <3>3. at' \in [Call -> {"start", "done"} \cup Inside] /\ at'[c] = "done"
        BY <3>1, CallMoves, InsideSteps
      <3>4. ReviewTypeOK'
        BY <1>1, <1>2, <3>1, <3>3 DEF ReviewIInv, ReviewTypeOK
      <3> QED
        BY <1>1, <1>3, <3>2, <3>3, <3>4, LogSame, OneCallKept
    <2>2. CASE ~(Resolved \/ held = NoEntry)
      <3>1. PICK step \in {"recheck", "mark"} :
               To(c, step) /\ locked' = c /\ (Role[c] = "approve" <=> step = "recheck")
        BY <2>2 DEF ReviewRead
      <3>2. InsideIsLocked' /\ \A d \in Call : d # c => at'[d] \notin Inside
        BY <1>1, <3>1, LockKept, InsideSteps
      <3>3. at' \in [Call -> {"start", "done"} \cup Inside] /\ at'[c] = step
        BY <3>1, CallMoves, InsideSteps
      <3>4. ReviewTypeOK'
        BY <1>1, <1>2, <3>1, <3>3 DEF ReviewIInv, ReviewTypeOK
      <3> QED
        BY <1>1, <1>2, <1>3, <2>2, <3>1, <3>2, <3>3, <3>4, LogSame, OneCallKept
    <2> QED
      BY <2>1, <2>2
  <1> QED
    BY <1>1, <1>4 DEF ReviewKept, HeldRowsKept

(* A review ends with a line in the log. *)
LEMMA ReviewRefused ==
    ASSUME ReviewIInv, NEW c \in Call, at[c] \in Inside,
           NEW decision \in {"approve_blocked", "approve_conflict"}, Log(decision), Ends(c),
           UNCHANGED <<held, ledger, active, found, verdict>>
    PROVE  ReviewKept
  <1>1. To(c, "done") /\ locked' = "free"
    BY DEF Ends
  <1>2. InsideIsLocked' /\ \A d \in Call : d # c => at'[d] \notin Inside
    BY <1>1, LockKept, InsideSteps
  <1>3. at' \in [Call -> {"start", "done"} \cup Inside] /\ at'[c] = "done"
    BY <1>1, CallMoves, InsideSteps
  <1>4. decision \notin Terminal
    BY DEF Terminal
  <1>5. /\ reviews' \in Seq(Terminal \cup {"quarantined", "approve_blocked", "approve_conflict"})
        /\ \A i, j \in DOMAIN reviews' : reviews'[i] \in Terminal /\ reviews'[j] \in Terminal => i = j
    BY <1>4, LogGrows
  <1>6. ReviewTypeOK'
    BY <1>1, <1>3, <1>5 DEF ReviewIInv, ReviewTypeOK
  <1>7. LedgerBlocks'
    BY LedgerSame
  <1>8. ReviewIInv'
    BY <1>2, <1>3, <1>5, <1>6, <1>7, OneCallKept
  <1> QED
    BY <1>8 DEF ReviewKept, HeldRowsKept

LEMMA ApproveBlockedKept == ASSUME ReviewIInv, NEW c \in Call, ApproveBlocked(c) PROVE ReviewKept
  BY ReviewRefused, InsideSteps DEF ApproveBlocked

LEMMA ApproveConflictKept == ASSUME ReviewIInv, NEW c \in Call, ApproveConflict(c) PROVE ReviewKept
  BY ReviewRefused, InsideSteps DEF ApproveConflict

(* The row that a review is about. *)
LEMMA FoundIs ==
    ASSUME ReviewIInv, NEW c \in Call, at[c] \in {"recheck", "mark", "delete", "activate", "poison", "close"}
    PROVE  /\ found[c].text \in Texts /\ found[c] # NoEntry /\ Role[c] \in {"approve", "reject"} /\ locked = c
           /\ at[c] \in Inside
           /\ at[c] \in {"recheck", "mark", "delete"} => held = found[c]
           /\ at[c] # "close" => ~Resolved
           /\ at[c] \in {"recheck", "delete", "activate"} => Role[c] = "approve"
           /\ at[c] \in {"mark", "poison"} => Role[c] = "reject"
  BY EntryIs, InsideSteps DEF ReviewIInv, ReviewHasHeld, ReviewTypeOK, InsideIsLocked, ResolvedOnce

LEMMA ApproveStoreKept == ASSUME ReviewIInv, NEW c \in Call, ApproveStore(c) PROVE ReviewKept
  <1>1. /\ at[c] = "recheck" /\ active = NoEntry /\ active' = [text |-> found[c].text, by |-> "review"]
        /\ To(c, "delete") /\ verdict' = [verdict EXCEPT ![found[c].text] = "approved"]
        /\ UNCHANGED <<held, reviews, ledger, found, locked>>
    BY DEF ApproveStore, HoldsId
  <1>2. /\ found[c].text \in Texts /\ found[c] # NoEntry /\ Role[c] = "approve" /\ locked = c
        /\ at[c] \in Inside /\ held = found[c] /\ ~Resolved
    BY <1>1, FoundIs
  <1>3. InsideIsLocked' /\ \A d \in Call : d # c => at'[d] \notin Inside
    BY <1>1, <1>2, LockKept, InsideSteps
  <1>4. at' \in [Call -> {"start", "done"} \cup Inside] /\ at'[c] = "delete"
    BY <1>1, CallMoves, InsideSteps
  <1>5. /\ verdict' \in [Texts -> {"none", "held", "approved", "rejected"}] /\ verdict'[found[c].text] = "approved"
        /\ \A t \in Texts : t # found[c].text => verdict'[t] = verdict[t]
    BY <1>1, <1>2 DEF ReviewIInv, ReviewTypeOK
  <1>6. ReviewTypeOK'
    BY <1>1, <1>2, <1>4, <1>5, HeldRow DEF ReviewIInv, ReviewTypeOK
  <1>7. LedgerBlocks'
    BY <1>1, <1>5, LedgerSame
  <1>8. ReviewIInv'
    BY <1>1, <1>2, <1>3, <1>4, <1>5, <1>6, <1>7, LogSame, OneCallKept
  <1> QED
    BY <1>1, <1>8, NoEntryIs DEF ReviewKept, HeldRowsKept

LEMMA ApproveDeleteKept == ASSUME ReviewIInv, NEW c \in Call, ApproveDelete(c) PROVE ReviewKept
  <1>1. /\ at[c] = "delete" /\ held' = NoEntry /\ To(c, "activate")
        /\ UNCHANGED <<reviews, ledger, active, found, locked, verdict>>
    BY DEF ApproveDelete
  <1>2. /\ found[c].text \in Texts /\ found[c] # NoEntry /\ Role[c] = "approve" /\ locked = c
        /\ at[c] \in Inside /\ held = found[c] /\ ~Resolved
    BY <1>1, FoundIs
  <1>3. verdict[found[c].text] = "approved"
    BY <1>1 DEF ReviewIInv, ReviewHasHeld
  <1>4. InsideIsLocked' /\ \A d \in Call : d # c => at'[d] \notin Inside
    BY <1>1, <1>2, LockKept, InsideSteps
  <1>5. at' \in [Call -> {"start", "done"} \cup Inside] /\ at'[c] = "activate"
    BY <1>1, CallMoves, InsideSteps
  <1>6. ReviewTypeOK'
    BY <1>1, <1>5, NoEntryIs DEF ReviewIInv, ReviewTypeOK
  <1>7. LedgerBlocks'
    BY <1>1, LedgerSame
  <1>8. ReviewIInv'
    BY <1>1, <1>2, <1>3, <1>4, <1>5, <1>6, <1>7, LogSame, OneCallKept
  <1> QED
    BY <1>1, <1>2, <1>3, <1>8 DEF ReviewKept, HeldRowsKept

LEMMA RejectStoreKept == ASSUME ReviewIInv, NEW c \in Call, RejectStore(c) PROVE ReviewKept
  <1>1. /\ at[c] = "mark" /\ held' = [text |-> found[c].text, by |-> "reject"] /\ To(c, "poison")
        /\ UNCHANGED <<reviews, ledger, active, found, locked, verdict>>
    BY DEF RejectStore
  <1>2. /\ found[c].text \in Texts /\ found[c] # NoEntry /\ Role[c] = "reject" /\ locked = c
        /\ at[c] \in Inside /\ ~Resolved
    BY <1>1, FoundIs
  <1>3. held' \in QuarantineRow /\ held' # NoEntry
    BY <1>1, <1>2, HeldRow
  <1>4. InsideIsLocked' /\ \A d \in Call : d # c => at'[d] \notin Inside
    BY <1>1, <1>2, LockKept, InsideSteps
  <1>5. at' \in [Call -> {"start", "done"} \cup Inside] /\ at'[c] = "poison"
    BY <1>1, CallMoves, InsideSteps
  <1>6. ReviewTypeOK'
    BY <1>1, <1>3, <1>5 DEF ReviewIInv, ReviewTypeOK
  <1>7. LedgerBlocks'
    BY <1>1, LedgerSame
  <1>8. ReviewIInv'
    BY <1>1, <1>2, <1>4, <1>5, <1>6, <1>7, LogSame, OneCallKept
  <1> QED
    BY <1>1, <1>3, <1>8 DEF ReviewKept, HeldRowsKept

LEMMA ReviewLogKept == ASSUME ReviewIInv, NEW c \in Call, ReviewLog(c) PROVE ReviewKept
  <1>1. /\ at[c] \in {"activate", "poison"} /\ To(c, "close")
        /\ UNCHANGED <<held, ledger, active, found, locked, verdict>>
        /\ \E decision \in Terminal : Log(decision)
    BY DEF ReviewLog, Terminal
  <1>2. /\ found[c].text \in Texts /\ found[c] # NoEntry /\ Role[c] \in {"approve", "reject"} /\ locked = c
        /\ at[c] \in Inside /\ ~Resolved
    BY <1>1, FoundIs
  <1>3. InsideIsLocked' /\ \A d \in Call : d # c => at'[d] \notin Inside
    BY <1>1, <1>2, LockKept, InsideSteps
  <1>4. at' \in [Call -> {"start", "done"} \cup Inside] /\ at'[c] = "close"
    BY <1>1, CallMoves, InsideSteps
  <1>5. /\ reviews' \in Seq(Terminal \cup {"quarantined", "approve_blocked", "approve_conflict"})
        /\ \A i, j \in DOMAIN reviews' : reviews'[i] \in Terminal /\ reviews'[j] \in Terminal => i = j
    BY <1>1, <1>2, LogGrows
  <1>6. ReviewTypeOK'
    BY <1>1, <1>4, <1>5 DEF ReviewIInv, ReviewTypeOK
  <1>7. LedgerBlocks'
    BY <1>1, LedgerSame
  <1>8. Role[c] = "approve" => verdict[found[c].text] = "approved"
    BY <1>1, FoundIs DEF ReviewIInv, ReviewHasHeld
  <1>9. ReviewIInv'
    BY <1>1, <1>2, <1>3, <1>4, <1>5, <1>6, <1>7, <1>8, OneCallKept
  <1> QED
    BY <1>1, <1>9 DEF ReviewKept, HeldRowsKept

LEMMA ReviewLedgerKept == ASSUME ReviewIInv, NEW c \in Call, ReviewLedger(c) PROVE ReviewKept
  <1> DEFINE text == found[c].text
             decision == IF Role[c] = "approve" THEN "approved" ELSE "rejected"
  <1>1. /\ at[c] = "close" /\ Enter(text, decision) /\ To(c, "done") /\ locked' = "free"
        /\ verdict' = IF Role[c] = "reject" THEN [verdict EXCEPT ![text] = "rejected"] ELSE verdict
        /\ UNCHANGED <<held, reviews, active, found>>
    BY DEF ReviewLedger, Ends
  <1>2. /\ text \in Texts /\ Role[c] \in {"approve", "reject"} /\ locked = c /\ at[c] \in Inside
        /\ decision \in {"quarantined", "approved", "rejected"}
        /\ Role[c] = "reject" => decision \in Blocking
    BY <1>1, FoundIs DEF Blocking
  <1>3. Role[c] = "approve" => verdict[text] = "approved"
    BY <1>1 DEF ReviewIInv, ReviewHasHeld
  <1> HIDE DEF text, decision
  <1>4. InsideIsLocked' /\ \A d \in Call : d # c => at'[d] \notin Inside
    BY <1>1, <1>2, LockKept, InsideSteps
  <1>5. at' \in [Call -> {"start", "done"} \cup Inside] /\ at'[c] = "done"
    BY <1>1, CallMoves, InsideSteps
  <1>6. /\ verdict' \in [Texts -> {"none", "held", "approved", "rejected"}]
        /\ \A u \in Texts : u # text => verdict'[u] = verdict[u]
        /\ Role[c] = "approve" => verdict' = verdict
    BY <1>1, <1>2 DEF ReviewIInv, ReviewTypeOK
  <1>7. ReviewTypeOK'
    BY <1>1, <1>2, <1>5, <1>6, LedgerType DEF ReviewIInv, ReviewTypeOK
  <1>8. ASSUME NEW u \in Texts, verdict'[u] \in {"held", "rejected"}
        PROVE  \/ u = text /\ decision \in Blocking
               \/ u # text /\ verdict[u] \in {"held", "rejected"}
    BY <1>2, <1>3, <1>6, <1>8
  <1>9. LedgerBlocks'
    BY <1>1, <1>2, <1>8, LedgerGrows DEF LedgerBlocks
  <1>10. ReviewIInv'
    BY <1>1, <1>4, <1>5, <1>7, <1>9, LogSame, OneCallKept
  <1> QED
    BY <1>1, <1>10 DEF ReviewKept, HeldRowsKept

(* A step of a call outside the lock. *)
LEMMA OutsideKept ==
    ASSUME ReviewIInv, NEW c \in Call, at[c] \notin Inside, To(c, "done"),
           held' \in QuarantineRow, active' \in QuarantineRow, held' = held \/ locked = "free",
           UNCHANGED <<reviews, ledger, found, locked, verdict>>
    PROVE  ReviewIInv'
  <1>1. /\ at' \in [Call -> {"start", "done"} \cup Inside] /\ at'[c] = "done"
        /\ \A d \in Call : d # c => at'[d] = at[d]
    BY CallMoves, InsideSteps
  <1>2. \A d \in Call : at'[d] \in Inside => d # c /\ at'[d] = at[d] /\ held' = held
    BY <1>1, InsideSteps, ReviewAssumption DEF ReviewIInv, InsideIsLocked
  <1>3. ReviewTypeOK'
    BY <1>1 DEF ReviewIInv, ReviewTypeOK
  <1>4. InsideIsLocked'
    BY <1>2 DEF ReviewIInv, InsideIsLocked
  <1>5. ReviewHasHeld'
    BY <1>2, InsideSteps DEF ReviewIInv, ReviewHasHeld
  <1>6. ResolvedOnce'
    BY <1>2, LogSame, InsideSteps DEF ReviewIInv, ResolvedOnce
  <1>7. LedgerBlocks'
    BY LedgerSame
  <1> QED
    BY <1>3, <1>4, <1>5, <1>6, <1>7 DEF ReviewIInv

LEMMA ForgetHeldKept == ASSUME ReviewIInv, NEW c \in Call, ForgetHeld(c) PROVE ReviewKept
  <1>1. /\ Role[c] = "forget" /\ at[c] = "start" /\ locked = "free" /\ held' = NoEntry /\ To(c, "done")
        /\ UNCHANGED <<reviews, ledger, active, found, locked, verdict>>
    BY DEF ForgetHeld, StartsAs
  <1>2. at'[c] = "done" /\ active \in QuarantineRow
    BY <1>1, CallMoves DEF ReviewIInv, ReviewTypeOK
  <1>3. ReviewIInv'
    BY <1>1, <1>2, OutsideKept, InsideSteps, NoEntryIs
  <1> QED
    BY <1>1, <1>2, <1>3 DEF ReviewKept, HeldRowsKept

LEMMA WriteActiveKept == ASSUME ReviewIInv, NEW c \in Call, WriteActive(c) PROVE ReviewKept
  <1>1. /\ at[c] = "start" /\ active' = [text |-> TextOf[c], by |-> "write"] /\ To(c, "done")
        /\ UNCHANGED <<held, reviews, ledger, found, locked, verdict>>
    BY DEF WriteActive, StartsAs
  <1>2. active' \in QuarantineRow /\ active'.by = "write" /\ held \in QuarantineRow
    BY <1>1, HeldRow, StringsOfRoles DEF ReviewIInv, ReviewTypeOK
  <1>3. ReviewIInv'
    BY <1>1, <1>2, OutsideKept, InsideSteps
  <1> QED
    BY <1>1, <1>2, <1>3 DEF ReviewKept, HeldRowsKept

LEMMA RemoveActiveKept == ASSUME ReviewIInv, NEW c \in Call, RemoveActive(c) PROVE ReviewKept
  <1>1. /\ at[c] = "start" /\ active' = NoEntry /\ To(c, "done")
        /\ UNCHANGED <<held, reviews, ledger, found, locked, verdict>>
    BY DEF RemoveActive, StartsAs
  <1>2. active' \in QuarantineRow /\ active'.by = "none" /\ held \in QuarantineRow
    BY <1>1, NoEntryIs DEF ReviewIInv, ReviewTypeOK
  <1>3. ReviewIInv'
    BY <1>1, <1>2, OutsideKept, InsideSteps
  <1> QED
    BY <1>1, <1>2, <1>3 DEF ReviewKept, HeldRowsKept

(* A call that dies: its lock is free, and nothing else has changed. *)
LEMMA KilledKept == ASSUME ReviewIInv, NEW c \in Call, Killed(c) PROVE ReviewKept
  <1>1. /\ at[c] \notin {"start", "done"} /\ To(c, "done")
        /\ locked' = IF locked = c THEN "free" ELSE locked
        /\ UNCHANGED <<held, reviews, ledger, active, found, verdict>>
    BY DEF Killed
  <1>2. at[c] \in Inside
    BY <1>1 DEF ReviewIInv, ReviewTypeOK
  <1>3. locked = c /\ locked' = "free"
    BY <1>1, <1>2 DEF ReviewIInv, InsideIsLocked
  <1>4. InsideIsLocked' /\ \A d \in Call : d # c => at'[d] \notin Inside
    BY <1>1, <1>2, <1>3, LockKept, InsideSteps
  <1>5. at' \in [Call -> {"start", "done"} \cup Inside] /\ at'[c] = "done"
    BY <1>1, CallMoves, InsideSteps
  <1>6. ReviewTypeOK'
    BY <1>1, <1>3, <1>5 DEF ReviewIInv, ReviewTypeOK
  <1>7. LedgerBlocks'
    BY <1>1, LedgerSame
  <1>8. ReviewIInv'
    BY <1>1, <1>4, <1>5, <1>6, <1>7, LogSame, OneCallKept
  <1> QED
    BY <1>1, <1>8 DEF ReviewKept, HeldRowsKept

LEMMA ReviewInitKept == ASSUME ReviewInit PROVE ReviewIInv
  <1>1. ReviewTypeOK
    BY NoEntryIs DEF ReviewInit, ReviewTypeOK
  <1>2. \A c \in Call : at[c] \notin Inside
    BY InsideSteps DEF ReviewInit
  <1>3. InsideIsLocked /\ ReviewHasHeld
    BY <1>2, InsideSteps DEF InsideIsLocked, ReviewHasHeld
  <1>4. ResolvedOnce
    BY <1>2, InsideSteps DEF ReviewInit, ResolvedOnce
  <1>5. LedgerBlocks
    BY DEF ReviewInit, LedgerBlocks
  <1> QED
    BY <1>1, <1>3, <1>4, <1>5 DEF ReviewIInv

LEMMA ReviewNextKept == ASSUME ReviewIInv, [ReviewNext]_reviewVars PROVE ReviewIInv'
  <1>1. CASE UNCHANGED reviewVars
    <2>1. ReviewTypeOK'
      BY <1>1 DEF reviewVars, ReviewIInv, ReviewTypeOK
    <2>2. InsideIsLocked'
      BY <1>1 DEF reviewVars, ReviewIInv, InsideIsLocked
    <2>3. ReviewHasHeld'
      BY <1>1 DEF reviewVars, ReviewIInv, ReviewHasHeld
    <2>4. ResolvedOnce'
      BY <1>1 DEF reviewVars, ReviewIInv, ResolvedOnce, Resolved
    <2>5. LedgerBlocks'
      BY <1>1 DEF reviewVars, ReviewIInv, LedgerBlocks
    <2> QED
      BY <2>1, <2>2, <2>3, <2>4, <2>5 DEF ReviewIInv
  <1>2. ReviewNext => ReviewKept
    BY HoldStoreKept, HoldLogKept, HoldLedgerKept, ReviewReadKept, ApproveBlockedKept, ApproveStoreKept,
       ApproveConflictKept, ApproveDeleteKept, RejectStoreKept, ReviewLogKept, ReviewLedgerKept,
       ForgetHeldKept, WriteActiveKept, RemoveActiveKept, KilledKept DEF ReviewNext
  <1> QED
    BY <1>1, <1>2 DEF ReviewKept

LEMMA ReviewStepKept == ASSUME ReviewIInv, ReviewNext PROVE HeldRowsKept
  BY HoldStoreKept, HoldLogKept, HoldLedgerKept, ReviewReadKept, ApproveBlockedKept, ApproveStoreKept,
     ApproveConflictKept, ApproveDeleteKept, RejectStoreKept, ReviewLogKept, ReviewLedgerKept,
     ForgetHeldKept, WriteActiveKept, RemoveActiveKept, KilledKept DEF ReviewNext, ReviewKept

(* What the invariant says of the reads and of the log. *)
LEMMA HeldIsNotServed == ASSUME ReviewIInv PROVE HeldNotServed
  <1>1. ASSUME Get # NoEntry PROVE verdict[Get.text] \notin {"held", "rejected"}
    <2>1. Get = active /\ active # NoEntry /\ ~Blocks(active.text) /\ active.text \in Texts
      BY <1>1, EntryIs DEF Get, ReviewIInv, ReviewTypeOK
    <2>2. SUFFICES ASSUME verdict[active.text] \in {"held", "rejected"} PROVE FALSE
      BY <2>1
    <2>3. \E i \in DOMAIN ledger :
             /\ ledger[i].decision \in Blocking
             /\ Latest(i, {k \in DOMAIN ledger : ledger[k].text = active.text})
      BY <2>1, <2>2 DEF ReviewIInv, LedgerBlocks
    <2> QED
      BY <2>1, <2>3 DEF Blocks
  <1>2. Cardinality({i \in DOMAIN reviews : reviews[i] \in Terminal}) <= 1
    <2> DEFINE resolved == {i \in DOMAIN reviews : reviews[i] \in Terminal}
    <2>1. CASE resolved = {}
      BY <2>1, FS_EmptySet
    <2>2. CASE resolved # {}
      <3>1. PICK i : i \in resolved
        BY <2>2
      <3>2. resolved = {i}
        BY <3>1 DEF ReviewIInv, ResolvedOnce
      <3>3. Cardinality({i}) = 1
        BY FS_Singleton
      <3> QED
        BY <3>2, <3>3
    <2> QED
      BY <2>1, <2>2
  <1> QED
    BY <1>1, <1>2 DEF HeldNotServed

(* The inductive invariant of the quarantine of an id: calls between two of *)
(* their commits have the lock, a review has the held row it read, one      *)
(* resolution is logged, and the ledger blocks what is held or rejected.    *)
THEOREM ReviewInvariance == ReviewSpec => []ReviewIInv
  <1>1. ReviewInit => ReviewIInv
    BY ReviewInitKept
  <1>2. ReviewIInv /\ [ReviewNext]_reviewVars => ReviewIInv'
    BY ReviewNextKept
  <1> QED
    BY <1>1, <1>2, PTL DEF ReviewSpec

(* Of any calls, with any number of kills: no read of the active store      *)
(* answers a text that was held or rejected last, an id is resolved once,   *)
(* and no review loses a held row or writes over a stored one               *)
(* (store_quarantined_entry, review_quarantined_entry, LedgerView.blocks).  *)
THEOREM ReviewIsSound == ReviewSpec => ReviewSound
  <1>1. ReviewIInv /\ [ReviewNext]_reviewVars => [HeldRowsKept]_reviewVars
    BY ReviewStepKept
  <1>2. ReviewIInv => HeldNotServed
    BY HeldIsNotServed
  <1> QED
    BY <1>1, <1>2, ReviewInvariance, PTL DEF ReviewSpec, ReviewSound
=============================================================================
