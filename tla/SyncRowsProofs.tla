--------------------------- MODULE SyncRowsProofs ---------------------------
(***************************************************************************)
(* Proofs about what a client and the platform tell each other.  SyncRows, *)
(* for any texts, writers, publishes and bounds: a row is clean only for a *)
(* text that the platform accepted, and in the end for the text that it    *)
(* has.  RemoteEvents, for any items, recalls, cache and bounds: no        *)
(* retirement is forgotten and a recall shows what it may.                 *)
(***************************************************************************)
EXTENDS SyncRows, RemoteEvents, WellFoundedInduction, TLAPS

-----------------------------------------------------------------------------
(* The elements of the sequences *)

LEMMA ElemsIn ==
    ASSUME NEW S, NEW s \in Seq(S)
    PROVE  Elems(s) \subseteq S /\ (Elems(s) = {} <=> s = << >>)
  BY DEF Elems

LEMMA ElemsAppend ==
    ASSUME NEW S, NEW s \in Seq(S), NEW x \in S
    PROVE  Append(s, x) \in Seq(S) /\ Elems(Append(s, x)) = Elems(s) \cup {x}
  <1>1. /\ Append(s, x) \in Seq(S) /\ Len(Append(s, x)) = Len(s) + 1
        /\ \A i \in 1..Len(s) : Append(s, x)[i] = s[i]
        /\ Append(s, x)[Len(s) + 1] = x
    OBVIOUS
  <1>2. /\ DOMAIN s = 1..Len(s) /\ DOMAIN Append(s, x) = 1..(Len(s) + 1) /\ Len(s) \in Nat
    BY <1>1
  <1> QED
    BY <1>1, <1>2 DEF Elems

LEMMA ElemsTail ==
    ASSUME NEW S, NEW s \in Seq(S), s # << >>
    PROVE  Head(s) \in S /\ Tail(s) \in Seq(S) /\ Elems(s) = {Head(s)} \cup Elems(Tail(s))
  <1>1. /\ Len(s) \in Nat \ {0} /\ DOMAIN s = 1..Len(s) /\ Head(s) = s[1] /\ Head(s) \in S
        /\ Tail(s) \in Seq(S) /\ DOMAIN Tail(s) = 1..(Len(s) - 1)
        /\ \A i \in 1..(Len(s) - 1) : Tail(s)[i] = s[i + 1]
    OBVIOUS
  <1>2. \A i \in 1..Len(s) : i = 1 \/ (i - 1 \in 1..(Len(s) - 1) /\ s[i] = Tail(s)[i - 1])
    BY <1>1
  <1>3. \A i \in 1..(Len(s) - 1) : i + 1 \in 1..Len(s)
    BY <1>1
  <1>4. Elems(s) \subseteq {Head(s)} \cup Elems(Tail(s))
    <2> SUFFICES ASSUME NEW i \in 1..Len(s)
                 PROVE  s[i] \in {Head(s)} \cup Elems(Tail(s))
      BY <1>1 DEF Elems
    <2>1. i = 1 \/ (i - 1 \in DOMAIN Tail(s) /\ s[i] = Tail(s)[i - 1])
      BY <1>1, <1>2
    <2> QED
      BY <1>1, <2>1 DEF Elems
  <1>5. {Head(s)} \cup Elems(Tail(s)) \subseteq Elems(s)
    BY <1>1, <1>3 DEF Elems
  <1> QED
    BY <1>1, <1>4, <1>5

LEMMA ElemsConcat ==
    ASSUME NEW S, NEW s \in Seq(S), NEW t \in Seq(S)
    PROVE  s \o t \in Seq(S) /\ Elems(s \o t) = Elems(s) \cup Elems(t)
  <1>1. /\ Len(s) \in Nat /\ Len(t) \in Nat /\ DOMAIN s = 1..Len(s) /\ DOMAIN t = 1..Len(t)
        /\ s \o t \in Seq(S) /\ DOMAIN (s \o t) = 1..(Len(s) + Len(t))
        /\ \A i \in 1..(Len(s) + Len(t)) : (s \o t)[i] = IF i <= Len(s) THEN s[i] ELSE t[i - Len(s)]
    OBVIOUS
  <1>2. \A i \in 1..(Len(s) + Len(t)) : i \in 1..Len(s) \/ i - Len(s) \in 1..Len(t)
    BY <1>1
  <1>3. Elems(s \o t) \subseteq Elems(s) \cup Elems(t)
    BY <1>1, <1>2 DEF Elems
  <1>4. \A i \in 1..Len(s) : i \in 1..(Len(s) + Len(t)) /\ (s \o t)[i] = s[i]
    BY <1>1
  <1>5. \A i \in 1..Len(t) : Len(s) + i \in 1..(Len(s) + Len(t)) /\ (s \o t)[Len(s) + i] = t[i]
    BY <1>1
  <1>6. Elems(s) \subseteq Elems(s \o t)
    BY <1>1, <1>4 DEF Elems
  <1>7. Elems(t) \subseteq Elems(s \o t)
    <2> SUFFICES ASSUME NEW i \in 1..Len(t)
                 PROVE  t[i] \in Elems(s \o t)
      BY <1>1 DEF Elems
    <2>1. Len(s) + i \in DOMAIN (s \o t) /\ t[i] = (s \o t)[Len(s) + i]
      BY <1>1, <1>5
    <2> QED
      BY <2>1 DEF Elems
  <1> QED
    BY <1>1, <1>3, <1>6, <1>7

LEMMA ElemsNone == Elems(<< >>) = {}
  BY DEF Elems

(* The newest acknowledgement of a drain. *)
LEMMA NewestIs ==
    ASSUME TypeOK
    PROVE  /\ acks = << >> => Newest = {}
           /\ acks # << >> => Newest = {Latest} /\ Latest \in Elems(acks) /\ Latest \in Snapshot
           /\ Newest \subseteq Elems(acks)
  <1>1. acks # << >> => Len(acks) \in DOMAIN acks /\ Latest \in Snapshot
    BY DEF TypeOK, Latest
  <1> QED
    BY <1>1 DEF Newest, Elems, Latest

LEMMA NewestAppend ==
    ASSUME TypeOK, NEW x \in Snapshot, acks' = Append(acks, x)
    PROVE  Newest' = {x}
  <1>1. Append(acks, x) # << >> /\ Append(acks, x)[Len(Append(acks, x))] = x
    <2>1. acks \in Seq(Snapshot)
      BY DEF TypeOK
    <2>2. /\ Len(acks) \in Nat /\ Len(Append(acks, x)) = Len(acks) + 1
          /\ Append(acks, x)[Len(acks) + 1] = x
      BY <2>1
    <2>3. Len(<< >>) = 0
      OBVIOUS
    <2> QED
      BY <2>2, <2>3
  <1> QED
    BY <1>1 DEF Newest, Latest

(* The snapshots of publishes, when one of them moves on. *)
LEMMA JobMoves ==
    ASSUME TypeOK, NEW j \in Job, NEW x \in JobState, job' = [job EXCEPT ![j].st = x]
    PROVE  /\ job' \in [Job -> [st : JobState, snap : Snapshot]] /\ job[j].snap \in Snapshot
           /\ \A st \in SUBSET JobState :
                 /\ InJob(st)' \subseteq InJob(st) \cup (IF x \in st THEN {job[j].snap} ELSE {})
                 /\ InJob(st) \subseteq InJob(st)' \cup {job[j].snap}
                 /\ x \in st => job[j].snap \in InJob(st)'
                 /\ job[j].st \in st => job[j].snap \in InJob(st)
  <1>1. /\ job' \in [Job -> [st : JobState, snap : Snapshot]] /\ job[j].snap \in Snapshot
        /\ job'[j].st = x /\ job'[j].snap = job[j].snap
        /\ \A k \in Job \ {j} : job'[k] = job[k]
    BY DEF TypeOK
  <1> QED
    BY <1>1 DEF InJob

LEMMA OnTheWayIs ==
    ASSUME TypeOK
    PROVE  OnTheWay \subseteq Snapshot
  <1>1. \A st \in SUBSET JobState : InJob(st) \subseteq Snapshot
    BY DEF TypeOK, InJob
  <1>2. /\ Elems(queue) \subseteq Snapshot /\ Elems(todo) \subseteq Snapshot
        /\ Elems(seen) \subseteq Snapshot /\ Elems(kept) \subseteq Snapshot
        /\ Elems(acks) \subseteq Snapshot
    BY ElemsIn DEF TypeOK
  <1> QED
    BY <1>1, <1>2 DEF OnTheWay, JobState

-----------------------------------------------------------------------------
(* Three ways for a step to keep the invariant *)

Alike(s, x) == s.text = x.text /\ s.seq = x.seq

(* The row becomes a new revision, of which nothing was sent yet. *)
LEMMA NewRevision ==
    ASSUME IInv, TypeOK', DrainRemembers', ~row'.clean, accepted' = accepted,
           ~reused' => ~reused /\ row'.seq = row.seq + 1,
           \A s \in OnTheWay' : s \in OnTheWay \/ Alike(s, row'),
           InJob({"sent"})' \subseteq InJob({"sent"}), Elems(acks') \subseteq Elems(acks),
           Newest' \subseteq Newest
    PROVE  IInv'
  <1>1. row.seq \in Nat /\ row'.seq \in Nat /\ \A s \in OnTheWay : s.seq \in Nat
    BY OnTheWayIs DEF IInv, TypeOK, Snapshot
  <1>2. \A s \in InJob({"sent"}) \cup Newest : s \in OnTheWay
    BY NewestIs DEF IInv, OnTheWay, InJob
  <1>3. Revisions'
    BY <1>1 DEF IInv, Revisions, Alike
  <1>4. SentIsAccepted'
    BY DEF IInv, SentIsAccepted, SyncedWasSent
  <1>5. ~reused' => ~Acknowledged'
    BY <1>1, <1>2 DEF IInv, Revisions, Acknowledged
  <1> QED
    BY <1>3, <1>4, <1>5 DEF IInv, OvertakenIsOutstanding

(* The row stays the revision that it is. *)
Stays ==
    /\ row'.text = row.text /\ row'.seq = row.seq /\ reused' = reused
    /\ \A s \in OnTheWay' : \E x \in OnTheWay : Alike(s, x)

LEMMA SameRevision ==
    ASSUME IInv, TypeOK', DrainRemembers', Stays, OvertakenIsOutstanding',
           accepted \subseteq accepted',
           \A s \in InJob({"sent"})' \cup Elems(acks') : s.text \in accepted',
           row'.clean => row.clean \/ row.text \in accepted
    PROVE  IInv'
  <1>1. Revisions'
    BY DEF IInv, Revisions, Stays, Alike
  <1>2. SyncedWasSent'
    <2>1. row.clean => row # NoRow
      BY DEF NoRow
    <2> QED
      BY <2>1 DEF IInv, SentIsAccepted, SyncedWasSent, Stays
  <1>3. SentIsAccepted'
    BY <1>2 DEF SentIsAccepted
  <1> QED
    BY <1>1, <1>3 DEF IInv

(* The platform takes nothing, and what it may have is not forgotten. *)
LEMMA Untaken ==
    ASSUME IInv, Stays, platform' = platform, lost => lost',
           ~lost' => /\ Acknowledged' => Acknowledged
                     /\ \A x \in Outstanding :
                            x.text = row.text \/ \E y \in Outstanding' : y.text = x.text
    PROVE  OvertakenIsOutstanding'
  BY DEF IInv, OvertakenIsOutstanding, Stays

LEMMA Taken ==
    ASSUME NEW s, s \in Outstanding', platform' = s.text
    PROVE  OvertakenIsOutstanding'
  BY DEF OvertakenIsOutstanding

(* Where no snapshot moves. *)
LEMMA SnapshotsStay ==
    ASSUME UNCHANGED <<job, queue, drain>>
    PROVE  /\ OnTheWay' = OnTheWay /\ Newest' = Newest /\ Outstanding' = Outstanding
           /\ \A st : InJob(st)' = InJob(st)
           /\ DrainRemembers => DrainRemembers'
  BY DEF drain, OnTheWay, Newest, Outstanding, InJob, Latest, DrainRemembers, SeenHolds

LEMMA NothingMoves ==
    ASSUME IInv, TypeOK', UNCHANGED <<row, job, queue, drain, platform, accepted, lost, reused>>
    PROVE  IInv'
  <1>1. DrainRemembers' /\ Revisions' /\ OvertakenIsOutstanding'
    BY SnapshotsStay DEF IInv, Revisions, OvertakenIsOutstanding, Acknowledged
  <1>2. SentIsAccepted'
    BY SnapshotsStay DEF IInv, SentIsAccepted, SyncedWasSent, drain
  <1> QED
    BY <1>1, <1>2 DEF IInv

-----------------------------------------------------------------------------
(* Local writes *)

LEMMA StoreReadKept ==
    ASSUME IInv, NEW w \in Writer, StoreRead(w)
    PROVE  IInv'
  <1>1. TypeOK'
    BY DEF IInv, TypeOK, StoreRead, drain
  <1> QED
    BY <1>1, NothingMoves DEF StoreRead

LEMMA EditKept ==
    ASSUME IInv, NEW t \in Content, Edit(t)
    PROVE  IInv'
  <1>1. TypeOK' /\ ~row'.clean /\ row'.seq = row.seq + 1
    BY DEF IInv, TypeOK, Edit, drain
  <1> QED
    BY <1>1, SnapshotsStay, NewRevision DEF Edit, IInv, drain

LEMMA ForgetKept ==
    ASSUME IInv, Forget
    PROVE  IInv'
  <1>1. TypeOK' /\ ~row'.clean
    BY DEF IInv, TypeOK, Forget, drain, NoRow
  <1> QED
    BY <1>1, SnapshotsStay, NewRevision DEF Forget, IInv, drain

LEMMA StoreNewKept ==
    ASSUME IInv, NEW t \in Content, StoreNew(t)
    PROVE  IInv'
  <1>1. TypeOK' /\ ~row'.clean
    BY DEF IInv, TypeOK, StoreNew, drain
  <1>2. reused'
    BY DEF IInv, Revisions, StoreNew, NoRow, TypeOK
  <1> QED
    BY <1>1, <1>2, SnapshotsStay, NewRevision DEF StoreNew, IInv, drain

(* The publish of a store is of the revision it made. *)
LEMMA StoreWriteKept ==
    ASSUME IInv, NEW w \in Writer, NEW t \in Content, StoreWrite(w, t)
    PROVE  IInv'
  <1>1. PICK j \in Job :
            job[j].st = "free" /\ job' = [job EXCEPT ![j] = [st |-> "sending", snap |-> Snap]]
    BY DEF StoreWrite
  <1>2. /\ copy[w] \in Nat /\ row' = [text |-> t, seq |-> copy[w] + 1, clean |-> FALSE]
        /\ reused' = (reused \/ copy[w] # row.seq)
        /\ UNCHANGED <<queue, drain, platform, accepted, lost>>
    BY DEF StoreWrite, IInv, TypeOK
  <1>3. Snap \in Snapshot /\ Snap.text = row'.text /\ Snap.seq = row'.seq
    BY <1>2 DEF Snap, Snapshot
  <1> DEFINE n == [st |-> "sending", snap |-> Snap]
  <1>4. n.st = "sending" /\ n.snap = Snap /\ n \in [st : JobState, snap : Snapshot]
    BY <1>3 DEF JobState
  <1>5. job' = [job EXCEPT ![j] = n] /\ job \in [Job -> [st : JobState, snap : Snapshot]]
    BY <1>1 DEF IInv, TypeOK
  <1> HIDE DEF n
  <1>6. /\ job' \in [Job -> [st : JobState, snap : Snapshot]] /\ job'[j] = n
        /\ \A k \in Job \ {j} : job'[k] = job[k]
    BY <1>4, <1>5
  <1>7. copy' \in [Writer -> Nat \cup {NoSeq}] /\ reused' \in BOOLEAN
    BY <1>2 DEF StoreWrite, IInv, TypeOK
  <1>8. TypeOK'
    BY <1>2, <1>6, <1>7 DEF IInv, TypeOK, drain
  <1>9. \A st : InJob(st)' \subseteq InJob(st) \cup (IF "sending" \in st THEN {Snap} ELSE {})
    BY <1>4, <1>6 DEF InJob
  <1>10. InJob({"sent"})' \subseteq InJob({"sent"})
    BY <1>9
  <1>11. Newest' = Newest /\ (DrainRemembers => DrainRemembers')
    BY <1>2 DEF drain, Newest, Latest, DrainRemembers, SeenHolds
  <1>12. \A s \in OnTheWay' : s \in OnTheWay \/ Alike(s, row')
    BY <1>2, <1>3, <1>9 DEF OnTheWay, Alike, drain
  <1>13. ~row'.clean /\ (~reused' => ~reused /\ row'.seq = row.seq + 1)
    BY <1>2
  <1>14. accepted' = accepted /\ Elems(acks') \subseteq Elems(acks)
    BY <1>2 DEF drain
  <1> QED
    BY <1>8, <1>10, <1>11, <1>12, <1>13, <1>14, NewRevision DEF IInv

-----------------------------------------------------------------------------
(* Publishes *)

(* An acknowledgement stamps the revision it is of, or makes a new one. *)
LEMMA AckIs ==
    ASSUME IInv, NEW t, NEW n, AckRevision(t, n), reused' = reused
    PROVE  /\ row' \in [text : Content \cup {Gone}, seq : Nat, clean : BOOLEAN]
           /\ \/ /\ row'.text = row.text /\ row'.seq = row.seq
                 /\ row.text = t /\ row.seq = n
              \/ /\ row'.text = row.text /\ row'.seq = row.seq
                 /\ row'.clean = row.clean /\ reused
              \/ /\ ~row'.clean /\ row'.seq = row.seq + 1
  <1>1. row \in [text : Content \cup {Gone}, seq : Nat, clean : BOOLEAN]
    BY DEF IInv, TypeOK
  <1>2. CASE row = NoRow
    BY <1>1, <1>2 DEF AckRevision, IInv, Revisions, NoRow
  <1>3. CASE row # NoRow /\ row.seq = n /\ row.text = t
    <2>1. row' = [row EXCEPT !.clean = TRUE]
      BY <1>3 DEF AckRevision
    <2> QED
      BY <1>1, <1>3, <2>1
  <1>4. CASE row # NoRow /\ ~(row.seq = n /\ row.text = t)
    <2> DEFINE m == row.seq + 1
    <2>1. row' = [row EXCEPT !.seq = m, !.clean = FALSE]
      BY <1>4 DEF AckRevision
    <2>2. m \in Nat /\ m = row.seq + 1
      BY <1>1
    <2> HIDE DEF m
    <2>3. /\ row' \in [text : Content \cup {Gone}, seq : Nat, clean : BOOLEAN]
          /\ row'.seq = m /\ row'.clean = FALSE
      BY <1>1, <2>1, <2>2
    <2> QED
      BY <2>2, <2>3
  <1> QED
    BY <1>2, <1>3, <1>4

(* A publish comes to an end. *)
LEMMA JobEnds ==
    ASSUME TypeOK, NEW j \in Job, job' = [job EXCEPT ![j].st = "done"], UNCHANGED <<queue, drain>>
    PROVE  /\ InJob({"sent"})' \subseteq InJob({"sent"}) /\ OnTheWay' \subseteq OnTheWay
           /\ Outstanding \subseteq Outstanding' \cup {job[j].snap}
           /\ Newest' = Newest /\ acks' = acks
           /\ DrainRemembers => DrainRemembers'
  <1>1. /\ \A st \in SUBSET {"sending", "sent", "failed"} :
              InJob(st)' \subseteq InJob(st) /\ InJob(st) \subseteq InJob(st)' \cup {job[j].snap}
    BY JobMoves DEF JobState
  <1>2. /\ InJob({"sent"})' \subseteq InJob({"sent"})
        /\ InJob({"sent", "failed"}) \subseteq InJob({"sent", "failed"})' \cup {job[j].snap}
        /\ InJob({"sending", "sent", "failed"})' \subseteq InJob({"sending", "sent", "failed"})
    BY <1>1
  <1>3. Newest' = Newest /\ (DrainRemembers => DrainRemembers')
    BY DEF drain, Newest, Latest, DrainRemembers, SeenHolds
  <1>4. OnTheWay' \subseteq OnTheWay
    BY <1>2 DEF OnTheWay, drain
  <1>5. Outstanding \subseteq Outstanding' \cup {job[j].snap}
    BY <1>2, <1>3 DEF Outstanding, drain
  <1> QED
    BY <1>2, <1>3, <1>4, <1>5 DEF drain

LEMMA AckPublishKept ==
    ASSUME IInv, NEW j \in Job, AckPublish(j)
    PROVE  IInv'
  <1> DEFINE s == job[j].snap
  <1>1. /\ job[j].st = "sent" /\ job' = [job EXCEPT ![j].st = "done"] /\ AckRevision(s.text, s.seq)
        /\ UNCHANGED <<copy, queue, drain, platform, accepted, lost, reused>>
    BY DEF AckPublish, local
  <1>2. s \in InJob({"sent"}) /\ job' \in [Job -> [st : JobState, snap : Snapshot]]
    BY <1>1, JobMoves DEF IInv, JobState, InJob
  <1>3. /\ InJob({"sent"})' \subseteq InJob({"sent"}) /\ OnTheWay' \subseteq OnTheWay
        /\ Outstanding \subseteq Outstanding' \cup {s}
        /\ Newest' = Newest /\ acks' = acks /\ DrainRemembers'
    BY <1>1, JobEnds DEF IInv
  <1> HIDE DEF s
  <1>4. TypeOK'
    BY <1>1, <1>2, AckIs DEF IInv, TypeOK, drain
  <1>5. \A x \in InJob({"sent"})' \cup Elems(acks') : x.text \in accepted'
    BY <1>1, <1>3 DEF IInv, SentIsAccepted
  <1>6. \A x \in OnTheWay' : \E y \in OnTheWay : Alike(x, y)
    BY <1>3 DEF Alike
  <1>7. CASE row'.text = row.text /\ row'.seq = row.seq /\ row.text = s.text /\ row.seq = s.seq
    <2>1. Stays
      BY <1>1, <1>6, <1>7 DEF Stays
    <2>2. row.text \in accepted /\ Acknowledged
      BY <1>2, <1>7 DEF IInv, SentIsAccepted, Acknowledged
    <2>3. \A x \in Outstanding : x.text = row.text \/ \E y \in Outstanding' : y.text = x.text
      BY <1>3, <1>7
    <2>4. OvertakenIsOutstanding'
      BY <1>1, <2>1, <2>2, <2>3, Untaken
    <2> QED
      BY <1>1, <1>3, <1>4, <1>5, <2>1, <2>2, <2>4, SameRevision
  <1>8. CASE row'.text = row.text /\ row'.seq = row.seq /\ row'.clean = row.clean /\ reused
    <2>1. Stays /\ OvertakenIsOutstanding'
      BY <1>1, <1>6, <1>8 DEF Stays, OvertakenIsOutstanding
    <2> QED
      BY <1>1, <1>3, <1>4, <1>5, <1>8, <2>1, SameRevision
  <1>9. CASE ~row'.clean /\ row'.seq = row.seq + 1
    BY <1>1, <1>3, <1>4, <1>9, NewRevision
  <1> QED
    BY <1>1, <1>7, <1>8, <1>9, AckIs

(* The process dies with a publish, or it is refused. *)
LEMMA GivenUp ==
    ASSUME IInv, NEW j \in Job, job' = [job EXCEPT ![j].st = "done"], lost' = TRUE,
           UNCHANGED <<row, copy, queue, drain, platform, accepted, local>>
    PROVE  IInv'
  <1>1. /\ InJob({"sent"})' \subseteq InJob({"sent"}) /\ OnTheWay' \subseteq OnTheWay
        /\ acks' = acks /\ DrainRemembers'
    BY JobEnds DEF IInv
  <1>2. TypeOK'
    BY JobMoves DEF IInv, TypeOK, drain, local, JobState
  <1>3. Stays /\ OvertakenIsOutstanding'
    BY <1>1 DEF Stays, Alike, OvertakenIsOutstanding, local
  <1>4. \A x \in InJob({"sent"})' \cup Elems(acks') : x.text \in accepted'
    BY <1>1 DEF IInv, SentIsAccepted
  <1> QED
    BY <1>1, <1>2, <1>3, <1>4, SameRevision

LEMMA DieKept ==
    ASSUME IInv, NEW j \in Job, Die(j)
    PROVE  IInv'
  BY GivenUp DEF Die

LEMMA SendKept ==
    ASSUME IInv, NEW j \in Job, Send(j)
    PROVE  IInv'
  <1> DEFINE s == job[j].snap
  <1>1. job[j].st = "sending" /\ UNCHANGED <<row, copy, queue, drain, local>>
    BY DEF Send
  <1>2. \/ Accept(s.text) /\ job' = [job EXCEPT ![j].st = "sent"] /\ lost' = lost
        \/ /\ job' = [job EXCEPT ![j].st = "done"] /\ lost' = TRUE
           /\ UNCHANGED <<platform, accepted>>
        \/ /\ job' = [job EXCEPT ![j].st = "failed"] /\ lost' = lost
           /\ Accept(s.text) \/ UNCHANGED <<platform, accepted>>
    BY DEF Send
  <1>3. CASE job' = [job EXCEPT ![j].st = "done"] /\ lost' = TRUE /\ UNCHANGED <<platform, accepted>>
    BY <1>1, <1>3, GivenUp
  <1>4. ASSUME NEW x \in {"sent", "failed"}, job' = [job EXCEPT ![j].st = x], lost' = lost,
               Accept(s.text) \/ (x = "failed" /\ UNCHANGED <<platform, accepted>>)
        PROVE  IInv'
    <2>11. x \in JobState /\ TypeOK
      BY DEF JobState, IInv
    <2>1. /\ job' \in [Job -> [st : JobState, snap : Snapshot]] /\ s \in Snapshot
          /\ \A st \in SUBSET JobState :
                 /\ InJob(st)' \subseteq InJob(st) \cup (IF x \in st THEN {s} ELSE {})
                 /\ InJob(st) \subseteq InJob(st)' \cup {s}
                 /\ x \in st => s \in InJob(st)'
                 /\ job[j].st \in st => s \in InJob(st)
      BY <1>4, <2>11, JobMoves
    <2> HIDE DEF s
    <2>2. /\ InJob({"sent"})' \subseteq InJob({"sent"}) \cup (IF x = "sent" THEN {s} ELSE {})
          /\ InJob({"sent", "failed"}) \subseteq InJob({"sent", "failed"})'
          /\ s \in InJob({"sent", "failed"})'
          /\ InJob({"sending", "sent", "failed"})' \subseteq InJob({"sending", "sent", "failed"})
      <3>1. /\ {"sent"} \in SUBSET JobState /\ {"sent", "failed"} \in SUBSET JobState
            /\ {"sending", "sent", "failed"} \in SUBSET JobState
        BY DEF JobState
      <3>2. InJob({"sent"})' \subseteq InJob({"sent"}) \cup (IF x = "sent" THEN {s} ELSE {})
        BY <2>1, <3>1
      <3>3. s \in InJob({"sent", "failed"})' /\ s \in InJob({"sending", "sent", "failed"})
        BY <1>1, <2>1, <3>1
      <3> QED
        BY <2>1, <3>1, <3>2, <3>3
    <2>3. Newest' = Newest /\ DrainRemembers'
      BY <1>1 DEF IInv, drain, Newest, Latest, DrainRemembers, SeenHolds
    <2>4. OnTheWay' \subseteq OnTheWay
      BY <1>1, <2>2 DEF OnTheWay, drain
    <2>5. Outstanding \subseteq Outstanding' /\ s \in Outstanding'
      BY <1>1, <2>2, <2>3 DEF Outstanding, drain
    <2>6. /\ platform' \in Content \cup {Gone} /\ accepted' \subseteq Content \cup {Gone}
          /\ accepted \subseteq accepted' /\ (x = "sent" => s.text \in accepted')
      BY <1>4, <2>1 DEF Accept, IInv, TypeOK, Snapshot
    <2>7. TypeOK'
      BY <1>1, <1>4, <2>1, <2>6 DEF IInv, TypeOK, drain, local
    <2>8. Stays
      BY <1>1, <2>4 DEF Stays, Alike, local
    <2>9. OvertakenIsOutstanding'
      <3>1. CASE Accept(s.text)
        BY <2>5, <3>1, Taken DEF Accept
      <3>2. CASE x = "failed" /\ UNCHANGED <<platform, accepted>>
        <4>1. Acknowledged' => Acknowledged
          BY <1>1, <2>2, <2>3, <3>2 DEF Acknowledged
        <4> QED
          BY <1>4, <2>5, <2>8, <3>2, <4>1, Untaken
      <3> QED
        BY <1>4, <3>1, <3>2
    <2>10. \A y \in InJob({"sent"})' \cup Elems(acks') : y.text \in accepted'
      BY <1>1, <2>2, <2>6 DEF IInv, SentIsAccepted, drain
    <2> QED
      BY <1>1, <2>3, <2>6, <2>7, <2>8, <2>9, <2>10, SameRevision
  <1> QED
    BY <1>2, <1>3, <1>4

LEMMA EnqueueKept ==
    ASSUME IInv, NEW j \in Job, Enqueue(j)
    PROVE  IInv'
  <1> DEFINE s == job[j].snap
  <1>1. /\ job[j].st = "failed" /\ job' = [job EXCEPT ![j].st = "done"]
        /\ UNCHANGED <<row, copy, drain, platform, accepted, local>>
        /\ (queue' = Append(queue, s) /\ lost' = lost) \/ (queue' = queue /\ lost' = TRUE)
    BY DEF Enqueue
  <1>2. CASE queue' = queue /\ lost' = TRUE
    BY <1>1, <1>2, GivenUp
  <1>3. CASE queue' = Append(queue, s) /\ lost' = lost
    <2>1. /\ job' \in [Job -> [st : JobState, snap : Snapshot]] /\ s \in Snapshot
          /\ \A st \in SUBSET JobState :
                 /\ InJob(st)' \subseteq InJob(st) \cup (IF "done" \in st THEN {s} ELSE {})
                 /\ InJob(st) \subseteq InJob(st)' \cup {s}
                 /\ job[j].st \in st => s \in InJob(st)
      BY <1>1, JobMoves DEF IInv, JobState
    <2> HIDE DEF s
    <2>2. queue' \in Seq(Snapshot) /\ Elems(queue') = Elems(queue) \cup {s}
      BY <1>3, <2>1, ElemsAppend DEF IInv, TypeOK
    <2>3. /\ InJob({"sent"})' \subseteq InJob({"sent"})
          /\ InJob({"sent", "failed"}) \subseteq InJob({"sent", "failed"})' \cup {s}
          /\ InJob({"sending", "sent", "failed"})' \subseteq InJob({"sending", "sent", "failed"})
          /\ s \in InJob({"sending", "sent", "failed"})
      <3>1. /\ {"sent"} \in SUBSET JobState /\ {"sent", "failed"} \in SUBSET JobState
            /\ {"sending", "sent", "failed"} \in SUBSET JobState
        BY DEF JobState
      <3> QED
        BY <1>1, <2>1, <3>1
    <2>4. Newest' = Newest /\ DrainRemembers'
      BY <1>1 DEF IInv, drain, Newest, Latest, DrainRemembers, SeenHolds
    <2>5. OnTheWay' \subseteq OnTheWay
      BY <1>1, <2>2, <2>3 DEF OnTheWay, drain
    <2>6. Outstanding \subseteq Outstanding'
      BY <1>1, <2>2, <2>3, <2>4 DEF Outstanding, drain
    <2>7. TypeOK'
      BY <1>1, <1>3, <2>1, <2>2 DEF IInv, TypeOK, drain, local
    <2>8. Stays
      BY <1>1, <2>5 DEF Stays, Alike, local
    <2>9. Acknowledged' => Acknowledged
      BY <1>1, <2>3, <2>4 DEF Acknowledged
    <2>10. OvertakenIsOutstanding'
      BY <1>1, <1>3, <2>6, <2>8, <2>9, Untaken
    <2>11. \A y \in InJob({"sent"})' \cup Elems(acks') : y.text \in accepted'
      BY <1>1, <2>3 DEF IInv, SentIsAccepted, drain
    <2> QED
      BY <1>1, <2>4, <2>7, <2>8, <2>10, <2>11, SameRevision
  <1> QED
    BY <1>1, <1>2, <1>3

-----------------------------------------------------------------------------
(* The retry drain *)

LEMMA JobsStay ==
    ASSUME UNCHANGED job
    PROVE  \A st : InJob(st)' = InJob(st)
  BY DEF InJob

(* What a drain's step must keep, when it takes nothing to the platform. *)
LEMMA DrainSteps ==
    ASSUME IInv, UNCHANGED <<row, copy, job, local>>, TypeOK', DrainRemembers',
           \A s \in OnTheWay' : \E x \in OnTheWay : Alike(s, x),
           accepted \subseteq accepted', \A s \in Elems(acks') : s.text \in accepted',
           OvertakenIsOutstanding'
    PROVE  IInv'
  <1>1. Stays
    BY DEF Stays, local
  <1>2. \A s \in InJob({"sent"})' \cup Elems(acks') : s.text \in accepted'
    BY JobsStay DEF IInv, SentIsAccepted
  <1> QED
    BY <1>1, <1>2, SameRevision

LEMMA DrainBeginKept ==
    ASSUME IInv, DrainBegin
    PROVE  IInv'
  <1>1. /\ todo = << >> /\ acks = << >> /\ todo' = queue /\ queue' = << >>
        /\ UNCHANGED <<row, copy, job, seen, kept, acks, platform, accepted, lost, local>>
    BY DEF DrainBegin
  <1>2. TypeOK'
    BY <1>1 DEF IInv, TypeOK, local
  <1>3. Newest' = Newest /\ DrainRemembers'
    BY <1>1, ElemsNone DEF IInv, Newest, Latest, DrainRemembers, SeenHolds
  <1>4. OnTheWay' = OnTheWay /\ Outstanding' = Outstanding
    BY <1>1, <1>3, JobsStay, ElemsNone DEF OnTheWay, Outstanding
  <1>5. OvertakenIsOutstanding'
    BY <1>1, <1>3, <1>4, JobsStay DEF IInv, OvertakenIsOutstanding, Acknowledged, local
  <1> QED
    BY <1>1, <1>2, <1>3, <1>4, <1>5, DrainSteps DEF Alike, IInv, SentIsAccepted

LEMMA DrainRecordKept ==
    ASSUME IInv, DrainRecord
    PROVE  IInv'
  <1> DEFINE s == Head(todo)
             k == [s EXCEPT !.retries = @ + 1]
  <1>1. /\ todo # << >> /\ todo' = Tail(todo) /\ seen' = Append(seen, s)
        /\ UNCHANGED <<row, copy, job, queue, local>>
    BY DEF DrainRecord
  <1>2. \/ lost' = TRUE /\ UNCHANGED <<kept, acks, platform, accepted>>
        \/ Accept(s.text) /\ acks' = Append(acks, s) /\ UNCHANGED <<kept, lost>>
        \/ /\ kept' = Append(kept, k) /\ UNCHANGED <<acks, lost>>
           /\ Accept(s.text) \/ UNCHANGED <<platform, accepted>>
    BY DEF DrainRecord
  <1>3. s \in Snapshot /\ todo' \in Seq(Snapshot) /\ Elems(todo) = {s} \cup Elems(todo')
    BY <1>1, ElemsTail DEF IInv, TypeOK
  <1> HIDE DEF s
  <1>4. k \in Snapshot /\ k.text = s.text /\ k.seq = s.seq
    <2> DEFINE m == s.retries + 1
    <2>1. m \in Nat /\ k = [s EXCEPT !.retries = m]
      BY <1>3 DEF Snapshot
    <2> HIDE DEF m, k
    <2> QED
      BY <1>3, <2>1 DEF Snapshot
  <1> HIDE DEF k
  <1>5. seen' \in Seq(Snapshot) /\ Elems(seen') = Elems(seen) \cup {s}
    BY <1>1, <1>3, ElemsAppend DEF IInv, TypeOK
  <1>6. ASSUME kept' = kept \/ kept' = Append(kept, k), acks' = acks \/ acks' = Append(acks, s),
               (platform' = platform /\ accepted' = accepted) \/ Accept(s.text), lost' \in BOOLEAN,
               acks' = acks \/ Accept(s.text), OvertakenIsOutstanding'
        PROVE  IInv'
    <2>1. kept' \in Seq(Snapshot) /\ Elems(kept') \subseteq Elems(kept) \cup {k}
      <3>1. kept \in Seq(Snapshot)
        BY DEF IInv, TypeOK
      <3>2. Append(kept, k) \in Seq(Snapshot) /\ Elems(Append(kept, k)) = Elems(kept) \cup {k}
        BY <1>4, <3>1, ElemsAppend
      <3> QED
        BY <1>6, <3>1, <3>2
    <2>2. acks' \in Seq(Snapshot) /\ Elems(acks') \subseteq Elems(acks) \cup {s}
      <3>1. acks \in Seq(Snapshot)
        BY DEF IInv, TypeOK
      <3>2. Append(acks, s) \in Seq(Snapshot) /\ Elems(Append(acks, s)) = Elems(acks) \cup {s}
        BY <1>3, <3>1, ElemsAppend
      <3> QED
        BY <1>6, <3>1, <3>2
    <2>3. /\ platform' \in Content \cup {Gone} /\ accepted' \subseteq Content \cup {Gone}
          /\ accepted \subseteq accepted' /\ (acks' # acks => s.text \in accepted')
      BY <1>3, <1>6 DEF Accept, IInv, TypeOK, Snapshot
    <2>4. TypeOK'
      BY <1>1, <1>3, <1>5, <1>6, <2>1, <2>2, <2>3 DEF IInv, TypeOK, local
    <2>5. \A x : SeenHolds(x) => SeenHolds(x)'
      BY <1>5 DEF SeenHolds
    <2>6. \A x : x = s \/ x = k => SeenHolds(x)'
      BY <1>4, <1>5 DEF SeenHolds
    <2>7. /\ \A x \in Elems(kept) : SeenHolds(x)
          /\ \A x \in Elems(acks) : SeenHolds(x)
      BY <1>1 DEF IInv, DrainRemembers
    <2>8. DrainRemembers'
      <3>1. \A x \in Elems(kept') : SeenHolds(x)'
        BY <2>1, <2>5, <2>6, <2>7
      <3>2. \A x \in Elems(acks') : SeenHolds(x)'
        BY <2>2, <2>5, <2>6, <2>7
      <3> QED
        BY <3>1, <3>2 DEF DrainRemembers
    <2>9. \A x \in OnTheWay' : x \in OnTheWay \/ x = k
      BY <1>1, <1>3, <1>5, <2>1, <2>2, JobsStay DEF OnTheWay
    <2>10. s \in OnTheWay
      BY <1>3 DEF OnTheWay
    <2>11. \A x \in OnTheWay' : \E y \in OnTheWay : Alike(x, y)
      BY <1>4, <2>9, <2>10 DEF Alike
    <2>12. \A x \in Elems(acks') : x.text \in accepted'
      BY <1>6, <2>2, <2>3 DEF IInv, SentIsAccepted
    <2> QED
      BY <1>1, <1>6, <2>3, <2>4, <2>8, <2>11, <2>12, DrainSteps
  <1>7. CASE lost' = TRUE /\ UNCHANGED <<kept, acks, platform, accepted>>
    BY <1>6, <1>7 DEF OvertakenIsOutstanding
  <1>8. CASE Accept(s.text) /\ acks' = Append(acks, s) /\ UNCHANGED <<kept, lost>>
    <2>1. s \in Newest'
      BY <1>3, <1>8, NewestAppend DEF IInv
    <2>2. OvertakenIsOutstanding'
      BY <1>8, <2>1, Taken DEF Outstanding, Accept
    <2> QED
      BY <1>6, <1>8, <2>2 DEF IInv, TypeOK
  <1>9. CASE kept' = Append(kept, k) /\ UNCHANGED <<acks, lost>> /\ Accept(s.text)
    <2>1. Elems(kept') = Elems(kept) \cup {k}
      BY <1>4, <1>9, ElemsAppend DEF IInv, TypeOK
    <2>2. OvertakenIsOutstanding'
      BY <1>4, <1>9, <2>1, Taken DEF Outstanding, Accept
    <2> QED
      BY <1>6, <1>9, <2>2 DEF IInv, TypeOK
  <1>10. CASE kept' = Append(kept, k) /\ UNCHANGED <<acks, lost, platform, accepted>>
    <2>1. Elems(kept') = Elems(kept) \cup {k}
      BY <1>4, <1>10, ElemsAppend DEF IInv, TypeOK
    <2>2. Newest' = Newest
      BY <1>10 DEF Newest, Latest
    <2>3. \A x \in Outstanding : x \in Outstanding' \/ x = s
      BY <1>1, <1>3, <2>1, <2>2, JobsStay DEF Outstanding
    <2>4. k \in Outstanding'
      BY <2>1 DEF Outstanding
    <2>5. Acknowledged' => Acknowledged
      BY <1>1, <2>2, JobsStay DEF Acknowledged
    <2>6. ~reused' => ~reused /\ row'.text = row.text
      BY <1>1 DEF local
    <2>7. \A x \in Outstanding : \E y \in Outstanding' : y.text = x.text
      BY <1>4, <2>3, <2>4
    <2>8. OvertakenIsOutstanding'
      BY <1>10, <2>5, <2>6, <2>7 DEF IInv, OvertakenIsOutstanding
    <2> QED
      BY <1>6, <1>10, <2>8 DEF IInv, TypeOK
  <1> QED
    BY <1>2, <1>7, <1>8, <1>9, <1>10

LEMMA DrainWriteKept ==
    ASSUME IInv, DrainWrite
    PROVE  IInv'
  <1>1. /\ todo = << >> /\ queue' = kept \o queue /\ kept' = << >> /\ seen' = << >>
        /\ UNCHANGED <<row, copy, job, todo, acks, platform, accepted, lost, local>>
    BY DEF DrainWrite
  <1>2. queue' \in Seq(Snapshot) /\ Elems(queue') = Elems(kept) \cup Elems(queue)
    BY <1>1, ElemsConcat DEF IInv, TypeOK
  <1>3. TypeOK'
    BY <1>1, <1>2 DEF IInv, TypeOK, local
  <1>4. Newest' = Newest
    BY <1>1 DEF Newest, Latest
  <1>5. DrainRemembers'
    BY <1>1, ElemsNone DEF DrainRemembers
  <1>6. OnTheWay' \subseteq OnTheWay /\ Outstanding' = Outstanding
    BY <1>1, <1>2, <1>4, JobsStay, ElemsNone DEF OnTheWay, Outstanding
  <1>7. OvertakenIsOutstanding'
    BY <1>1, <1>4, <1>6, JobsStay DEF IInv, OvertakenIsOutstanding, Acknowledged, local
  <1>8. \A x \in OnTheWay' : \E y \in OnTheWay : Alike(x, y)
    BY <1>6 DEF Alike
  <1> QED
    BY <1>1, <1>3, <1>5, <1>7, <1>8, DrainSteps DEF IInv, SentIsAccepted

LEMMA DrainDiesKept ==
    ASSUME IInv, DrainDies
    PROVE  IInv'
  <1>1. /\ queue' = seen \o todo \o queue /\ lost' = (lost \/ seen = << >>)
        /\ todo' = << >> /\ seen' = << >> /\ kept' = << >> /\ acks' = << >>
        /\ UNCHANGED <<row, copy, job, platform, accepted, local>>
    BY DEF DrainDies
  <1>2. queue' \in Seq(Snapshot) /\ Elems(queue') = Elems(seen) \cup Elems(todo) \cup Elems(queue)
    <2>1. seen \in Seq(Snapshot) /\ todo \in Seq(Snapshot) /\ queue \in Seq(Snapshot)
      BY DEF IInv, TypeOK
    <2>2. seen \o todo \in Seq(Snapshot) /\ Elems(seen \o todo) = Elems(seen) \cup Elems(todo)
      BY <2>1, ElemsConcat
    <2> DEFINE h == seen \o todo
    <2>3. queue' = h \o queue /\ h \in Seq(Snapshot) /\ Elems(h) = Elems(seen) \cup Elems(todo)
      BY <1>1, <2>2
    <2> HIDE DEF h
    <2>4. h \o queue \in Seq(Snapshot) /\ Elems(h \o queue) = Elems(h) \cup Elems(queue)
      BY <2>1, <2>3, ElemsConcat
    <2> QED
      BY <2>3, <2>4
  <1>3. TypeOK'
    BY <1>1, <1>2 DEF IInv, TypeOK, local
  <1>4. Newest' = {} /\ DrainRemembers'
    BY <1>1, ElemsNone DEF Newest, DrainRemembers
  <1>5. OnTheWay' \subseteq OnTheWay
    BY <1>1, <1>2, JobsStay, ElemsNone DEF OnTheWay
  <1>6. OvertakenIsOutstanding'
    <2>1. CASE seen = << >>
      BY <1>1, <2>1 DEF OvertakenIsOutstanding
    <2>2. CASE seen # << >>
      <3>1. \A x \in Elems(kept) \cup Newest : \E y \in Elems(seen) : y.text = x.text
        BY <2>2, NewestIs DEF IInv, DrainRemembers, SeenHolds
      <3>2. \A x \in Outstanding : \E y \in Outstanding' : y.text = x.text
        BY <1>1, <1>2, <3>1, JobsStay DEF Outstanding
      <3>3. Acknowledged' => Acknowledged
        BY <1>1, <1>4, JobsStay DEF Acknowledged
      <3> QED
        BY <1>1, <3>2, <3>3 DEF IInv, OvertakenIsOutstanding, local
    <2> QED
      BY <2>1, <2>2
  <1>7. \A x \in OnTheWay' : \E y \in OnTheWay : Alike(x, y)
    BY <1>5 DEF Alike
  <1> QED
    BY <1>1, <1>3, <1>4, <1>6, <1>7, ElemsNone, DrainSteps

LEMMA DrainAckKept ==
    ASSUME IInv, DrainAck
    PROVE  IInv'
  <1> DEFINE s == Latest
  <1>1. /\ acks # << >> /\ acks' = << >> /\ AckRevision(s.text, s.seq)
        /\ UNCHANGED <<copy, job, queue, todo, seen, kept, platform, accepted, lost, reused>>
    BY DEF DrainAck, local
  <1>2. Newest = {s} /\ s \in Elems(acks)
    BY <1>1, NewestIs DEF IInv
  <1> HIDE DEF s
  <1>3. TypeOK'
    BY <1>1, AckIs DEF IInv, TypeOK
  <1>4. Newest' = {} /\ Elems(acks') = {} /\ DrainRemembers'
    BY <1>1, ElemsNone DEF IInv, Newest, DrainRemembers, SeenHolds
  <1>5. OnTheWay' \subseteq OnTheWay /\ Outstanding \subseteq Outstanding' \cup {s}
    BY <1>1, <1>2, <1>4, JobsStay DEF OnTheWay, Outstanding
  <1>6. \A x \in InJob({"sent"})' \cup Elems(acks') : x.text \in accepted'
    BY <1>1, <1>4, JobsStay DEF IInv, SentIsAccepted
  <1>7. \A x \in OnTheWay' : \E y \in OnTheWay : Alike(x, y)
    BY <1>5 DEF Alike
  <1>8. CASE row'.text = row.text /\ row'.seq = row.seq /\ row.text = s.text /\ row.seq = s.seq
    <2>1. Stays
      BY <1>1, <1>7, <1>8 DEF Stays
    <2>2. row.text \in accepted /\ Acknowledged
      BY <1>2, <1>8 DEF IInv, SentIsAccepted, Acknowledged
    <2>3. \A x \in Outstanding : x.text = row.text \/ \E y \in Outstanding' : y.text = x.text
      BY <1>5, <1>8
    <2>4. OvertakenIsOutstanding'
      BY <1>1, <2>1, <2>2, <2>3, Untaken
    <2> QED
      BY <1>1, <1>3, <1>4, <1>6, <2>1, <2>2, <2>4, SameRevision
  <1>9. CASE row'.text = row.text /\ row'.seq = row.seq /\ row'.clean = row.clean /\ reused
    <2>1. Stays /\ OvertakenIsOutstanding'
      BY <1>1, <1>7, <1>9 DEF Stays, OvertakenIsOutstanding
    <2> QED
      BY <1>1, <1>3, <1>4, <1>6, <1>9, <2>1, SameRevision
  <1>10. CASE ~row'.clean /\ row'.seq = row.seq + 1
    BY <1>1, <1>3, <1>4, <1>5, <1>10, JobsStay, NewRevision
  <1> QED
    BY <1>1, <1>8, <1>9, <1>10, AckIs

-----------------------------------------------------------------------------
(* The theorems *)

LEMMA InitKept == Init => IInv
  <1> SUFFICES ASSUME Init
               PROVE  IInv
    OBVIOUS
  <1>1. /\ row = [text |-> First, seq |-> 1, clean |-> FALSE]
        /\ job = [j \in Job |-> [st |-> "free", snap |-> NoSnap]]
        /\ queue = << >> /\ todo = << >> /\ seen = << >> /\ kept = << >> /\ acks = << >>
    BY DEF Init
  <1>2. TypeOK
    <2>1. NoSnap \in Snapshot
      BY DEF NoSnap, Snapshot
    <2>2. job \in [Job -> [st : JobState, snap : Snapshot]]
      BY <1>1, <2>1 DEF JobState
    <2>3. /\ queue \in Seq(Snapshot) /\ todo \in Seq(Snapshot) /\ seen \in Seq(Snapshot)
          /\ kept \in Seq(Snapshot) /\ acks \in Seq(Snapshot)
      BY <1>1
    <2>4. /\ row \in [text : Content \cup {Gone}, seq : Nat, clean : BOOLEAN]
          /\ copy \in [Writer -> Nat \cup {NoSeq}]
      BY <1>1, SyncRowsAssumption DEF Init
    <2> QED
      BY <2>2, <2>3, <2>4 DEF Init, TypeOK
  <1>3. OnTheWay = {} /\ InJob({"sent"}) = {} /\ Newest = {}
    BY <1>1, ElemsNone DEF OnTheWay, InJob, Newest
  <1> QED
    BY <1>1, <1>2, <1>3, ElemsNone
       DEF IInv, Revisions, SentIsAccepted, SyncedWasSent, DrainRemembers, OvertakenIsOutstanding,
           Acknowledged

LEMMA NextKept == IInv /\ [Next]_vars => IInv'
  <1> SUFFICES ASSUME IInv, [Next]_vars
               PROVE  IInv'
    OBVIOUS
  <1>1. CASE UNCHANGED vars
    <2>1. TypeOK'
      BY <1>1 DEF IInv, TypeOK, vars
    <2> QED
      BY <1>1, <2>1, NothingMoves DEF vars, drain
  <1>2. CASE Next
    BY <1>2, StoreReadKept, StoreWriteKept, EditKept, StoreNewKept, ForgetKept, SendKept,
       AckPublishKept, EnqueueKept, DieKept, DrainBeginKept, DrainRecordKept, DrainWriteKept,
       DrainAckKept, DrainDiesKept
       DEF Next
  <1> QED
    BY <1>1, <1>2

(***************************************************************************)
(* The inductive invariant of the revision numbers (crud_ops, publish,     *)
(* ack_revision and the retry drain): every snapshot on its way is of a    *)
(* revision the row had, what counts as sent was accepted, and a text the  *)
(* platform has instead of a clean row's has an acknowledgement to come.   *)
(***************************************************************************)
THEOREM Invariance == Spec => []IInv
  <1> QED
    BY InitKept, NextKept, PTL DEF Spec

(***************************************************************************)
(* ack_revision: no edit is marked synced unpushed, however the writes,    *)
(* sends, drains and acknowledgements of a revision overtake each other;   *)
(* and once nothing is unacknowledged a clean row is what the platform     *)
(* has, unless a publish was given up or a revision number used twice.     *)
(***************************************************************************)
THEOREM CleanIsPushed == Spec => []SyncedIsPushed
  <1>1. IInv => SyncedIsPushed
    <2> SUFFICES ASSUME IInv
                 PROVE  SyncedWasSent /\ SyncedIsCurrent
      BY DEF SyncedIsPushed
    <2>1. ~Unacknowledged => Outstanding = {}
      <3> SUFFICES ASSUME ~Unacknowledged
                   PROVE  Outstanding = {}
        OBVIOUS
      <3>1. InJob({"sent", "failed"}) = {}
        BY DEF Unacknowledged, InJob
      <3>2. queue = << >> /\ acks = << >> /\ todo = << >> /\ seen = << >>
        BY DEF Unacknowledged
      <3>3. Elems(kept) = {}
        BY <3>2, ElemsNone DEF IInv, DrainRemembers, SeenHolds
      <3> QED
        BY <3>1, <3>2, <3>3, ElemsNone DEF Outstanding, Newest
    <2>2. SyncedIsCurrent
      BY <2>1 DEF IInv, OvertakenIsOutstanding, Acknowledged, SyncedIsCurrent
    <2> QED
      BY <2>2 DEF IInv, SentIsAccepted
  <1> QED
    BY <1>1, Invariance, PTL

-----------------------------------------------------------------------------
(* The platform's stream and what a client makes of it                     *)

EventRecord == [type : {"published", "retired"}, item : Item, kind : {"good", "bad", "odd"}]

(* What the stream told so far, as a property of its events.                *)
LEMMA ToldMeans ==
    ASSUME EventTypeOK
    PROVE  \A i : i \in ToldByStream <=> \E m \in 1..lastId : log[m].type = "retired" /\ log[m].item = i
  BY DEF ToldByStream

LEMMA EventInitKept == EventInit => EventIInv
  <1> SUFFICES ASSUME EventInit
               PROVE  EventIInv
    OBVIOUS
  <1> USE DEF EventInit
  <1>1. EventTypeOK
    <2>1. log \in Seq(EventRecord) /\ Len(log) = 0
      OBVIOUS
    <2>2. recall \in [Query ->
             [at : {"none", "first", "applied", "snapshot", "fetched", "last", "answered", "raised"},
              took : SUBSET Item, retired : SUBSET Item, known : SUBSET Item, fetched : SUBSET EventRow,
              shared : SUBSET EventRow]]
      OBVIOUS
    <2>3. lastId \in 0..Len(log)
      BY <2>1
    <2> QED
      BY <2>1, <2>2, <2>3 DEF EventTypeOK, EventRecord
  <1>2. RetiredLast /\ StreamInOrder /\ CacheHolds /\ Disconnects /\ RetirementsKept
    BY DEF RetiredLast, StreamInOrder, At, CacheHolds, Disconnects, Active, RetirementsKept
  <1>3. \A q \in Query : RecallHolds(q)
    BY DEF RecallHolds, MayShow, In
  <1> QED
    BY <1>1, <1>2, <1>3 DEF EventIInv

(***************************************************************************)
(* The platform and the switch                                             *)
(***************************************************************************)

LEMMA HappensKeeps ==
    ASSUME EventIInv, NEW type \in {"published", "retired"}, NEW item \in Item,
           NEW kind \in {"good", "bad", "odd"}, Happens(type, item, kind)
    PROVE  EventIInv'
  <1> DEFINE new == [type |-> type, item |-> item, kind |-> kind]
  <1> USE DEF EventIInv
  <1>1. /\ log \in Seq(EventRecord) /\ new \in EventRecord /\ lastId \in 0..Len(log)
        /\ log' = Append(log, new) /\ ~Retired(item)
        /\ UNCHANGED <<stream, pendingId, lastId, stopping, contact, polled, cached, pending, localRow, recall,
                       learned, applyFails, cuts, switches>>
    BY DEF Happens, streamVars, clientVars, EventTypeOK, EventRecord
  <1>2. /\ log' \in Seq(EventRecord) /\ Len(log') = Len(log) + 1 /\ Len(log) \in Nat
        /\ DOMAIN log = 1..Len(log) /\ DOMAIN log' = 1..(Len(log) + 1)
        /\ \A n \in 1..Len(log) : log'[n] = log[n]
        /\ log'[Len(log) + 1] = new
    BY <1>1
  <1>3. EventTypeOK'
    BY <1>1, <1>2 DEF EventTypeOK, EventRecord
  <1>4. RetiredLast'
    <2> SUFFICES ASSUME NEW m \in DOMAIN log', NEW n \in DOMAIN log',
                        log'[m].type = "retired", log'[n].item = log'[m].item
                 PROVE  n <= m
      BY DEF RetiredLast
    <2>1. CASE m \in 1..Len(log) /\ n \in 1..Len(log)
      BY <2>1, <1>2 DEF RetiredLast
    <2>2. CASE m \in 1..Len(log) /\ n = Len(log) + 1
      BY <2>2, <1>1, <1>2 DEF Retired
    <2>3. CASE m = Len(log) + 1
      BY <2>3, <1>2
    <2> QED
      BY <1>2, <2>1, <2>2, <2>3
  <1>5. ToldByStream' = ToldByStream
    BY <1>1, <1>2 DEF ToldByStream
  <1>6. StreamInOrder' /\ CacheHolds' /\ Disconnects' /\ RetirementsKept'
    BY <1>1, <1>5 DEF StreamInOrder, At, CacheHolds, Disconnects, Active, RetirementsKept
  <1>7. \A q \in Query : RecallHolds(q)'
    BY <1>1, <1>5 DEF RecallHolds, MayShow, In
  <1> QED
    BY <1>3, <1>4, <1>6, <1>7

(* A step that leaves the platform's log, the cache and the recalls alone.  *)
LEMMA StreamOnly ==
    ASSUME EventIInv, EventTypeOK', UNCHANGED <<log, lastId, clientVars>>, StreamInOrder', Disconnects'
    PROVE  EventIInv'
  <1>1. UNCHANGED <<log, lastId, cached, pending, localRow, recall, learned>> /\ ToldByStream' = ToldByStream
    BY DEF clientVars, ToldByStream
  <1>2. RetiredLast' /\ CacheHolds' /\ RetirementsKept'
    BY <1>1 DEF EventIInv, RetiredLast, CacheHolds, RetirementsKept
  <1>3. \A q \in Query : RecallHolds(q)'
    BY <1>1 DEF EventIInv, RecallHolds, MayShow, In
  <1> QED
    BY <1>2, <1>3 DEF EventIInv

LEMMA SwitchKeeps ==
    ASSUME EventIInv, Switch
    PROVE  EventIInv'
  <1>1. EventTypeOK'
    BY DEF EventIInv, EventTypeOK, Switch, streamVars, clientVars
  <1>2. StreamInOrder' /\ Disconnects'
    BY DEF EventIInv, StreamInOrder, At, Disconnects, Active, Switch, streamVars
  <1> QED
    BY <1>1, <1>2, StreamOnly DEF Switch, streamVars

(***************************************************************************)
(* The listening thread, stop() and the watcher                            *)
(***************************************************************************)

(* One step of the loop, up to the lines it reads.                          *)
Loops == Ask \/ Register \/ Enter \/ Handshake \/ Read \/ Cut \/ StopRead \/ IdLine

LEMMA LoopKeeps ==
    ASSUME EventIInv, Loops
    PROVE  EventIInv'
  <1> DEFINE Opens(s) == s.at \in {"opened", "reading"}
             Reads(s) == s.at \in {"registered", "handshake", "opened", "reading"} /\ ~s.closed
             Place(step) == [at |-> step, next |-> stream.next, closed |-> stream.closed]
             Nowhere(step) == [at |-> step, next |-> 0, closed |-> FALSE]
             Steps == {"top", "allowed", "registered", "handshake", "opened", "reading", "ended", "dead"}
  <1>1. /\ stream \in [at : Steps, next : Nat, closed : BOOLEAN]
        /\ pendingId \in Nat /\ lastId \in Nat /\ stopping \in {"no", "set", "done"}
        /\ Opens(stream) => stream.next = lastId + 1
        /\ stopping = "done" => ~Reads(stream)
        /\ ~contact /\ polled => ~(stream.at = "reading" /\ Reads(stream))
    BY DEF EventIInv, EventTypeOK, StreamInOrder, Disconnects, Active, At
  <1>2. UNCHANGED <<log, contact, switches, stopping, polled, lastId, clientVars>>
    BY DEF Loops, Ask, Register, Enter, Handshake, Read, Cut, StopRead, IdLine, Moves, Reconnects, Dies,
           Thread, More, outside
  <1>3. \A step : Moves(step) => stream' = Place(step)
    BY <1>1 DEF Moves, Thread
  <1>4. (Reconnects => stream' = Nowhere("top")) /\ (Dies => stream' = Nowhere("dead"))
    BY DEF Reconnects, Dies, Thread
  <1>5. /\ \/ stream' = stream
           \/ stream' \in {Nowhere("top"), Nowhere("dead"), Place("ended")}
           \/ stream' = Place("allowed") /\ stream.at = "top" /\ stopping = "no"
           \/ stream' = Place("registered") /\ stream.at = "allowed" /\ stopping = "no"
           \/ stream' = Place("handshake") /\ stream.at = "registered" /\ ~stream.closed
           \/ stream' = [at |-> "opened", next |-> lastId + 1, closed |-> stream.closed] /\ stream.at = "handshake"
           \/ stream' = Place("reading") /\ stream.at = "opened" /\ contact
        /\ pendingId' \in {pendingId, stream.next}
    <2>1. CASE Ask
      BY <2>1, <1>3, <1>4 DEF Ask, At
    <2>2. CASE Register
      BY <2>2, <1>3 DEF Register, At, StopSeen
    <2>3. CASE Enter
      BY <2>3, <1>3, <1>4 DEF Enter, At
    <2>4. CASE Handshake
      BY <2>4, <1>1, <1>4 DEF Handshake, At, Thread
    <2>5. CASE Read
      BY <2>5, <1>3, <1>4 DEF Read, At, ContactOn
    <2>6. CASE Cut \/ StopRead
      BY <2>6, <1>3, <1>4 DEF Cut, StopRead
    <2>7. CASE IdLine
      BY <2>7 DEF IdLine
    <2> QED
      BY <2>1, <2>2, <2>3, <2>4, <2>5, <2>6, <2>7 DEF Loops
  <1>6. EventTypeOK'
    <2>1. stream' \in [at : Steps, next : Nat, closed : BOOLEAN] /\ pendingId' \in Nat
      <3>1. \A step \in Steps : /\ Place(step) \in [at : Steps, next : Nat, closed : BOOLEAN]
                                /\ Nowhere(step) \in [at : Steps, next : Nat, closed : BOOLEAN]
        BY <1>1
      <3>2. [at |-> "opened", next |-> lastId + 1, closed |-> stream.closed]
               \in [at : Steps, next : Nat, closed : BOOLEAN]
        BY <1>1
      <3>3. pendingId' \in Nat
        BY <1>1, <1>5
      <3> HIDE DEF Place, Nowhere
      <3> QED
        BY <1>1, <1>5, <3>1, <3>2, <3>3
    <2> QED
      BY <1>2, <2>1 DEF EventIInv, EventTypeOK, clientVars
  <1>7. StreamInOrder'
    <2>1. Opens(stream') => stream'.next = lastId + 1
      BY <1>1, <1>5
    <2> QED
      BY <1>2, <2>1 DEF StreamInOrder, At
  <1>8. Disconnects'
    <2>1. /\ stopping = "done" => ~Reads(stream')
          /\ ~contact /\ polled => ~(stream'.at = "reading" /\ Reads(stream'))
      BY <1>1, <1>5
    <2> QED
      BY <1>2, <2>1 DEF Disconnects, Active, At
  <1> QED
    BY <1>2, <1>6, <1>7, <1>8, StreamOnly DEF clientVars

LEMMA ClosesKeep ==
    ASSUME EventIInv, StopSets \/ StopCloses \/ WatchSwitch
    PROVE  EventIInv'
  <1> USE DEF StopSets, StopCloses, WatchSwitch, CloseActive, Active, outside, streamVars
  <1>1. EventTypeOK' /\ UNCHANGED <<log, lastId, clientVars>>
    BY DEF EventIInv, EventTypeOK, clientVars
  <1>2. StreamInOrder'
    BY DEF EventIInv, EventTypeOK, StreamInOrder, At
  <1>3. Disconnects'
    BY DEF EventIInv, EventTypeOK, Disconnects, At
  <1> QED
    BY <1>1, <1>2, <1>3, StreamOnly

(* A line of data: the place moves on, and the event is handled.            *)
LEMMA DataLineKeeps ==
    ASSUME EventIInv, DataLine
    PROVE  EventIInv'
  <1> DEFINE n == stream.next
             event == log[n]
             told == event.type = "retired"
  <1>1. /\ log \in Seq(EventRecord) /\ n \in DOMAIN log /\ event \in EventRecord /\ DOMAIN log = 1..Len(log)
        /\ Len(log) \in Nat /\ lastId \in Nat /\ lastId <= Len(log) /\ n = lastId + 1 /\ lastId' = n
        /\ pendingId' = 0
        /\ UNCHANGED <<log, contact, stopping, polled, localRow, recall>>
    <2>1. /\ n \in DOMAIN log /\ n = lastId + 1 /\ lastId' = n /\ pendingId' = 0
          /\ UNCHANGED <<log, contact, stopping, polled, localRow, recall>>
      BY DEF EventIInv, DataLine, More, At, StreamInOrder, outside
    <2>2. log \in Seq(EventRecord) /\ lastId \in 0..Len(log)
      BY DEF EventIInv, EventTypeOK, EventRecord
    <2>3. DOMAIN log = 1..Len(log) /\ Len(log) \in Nat /\ \A i \in 1..Len(log) : log[i] \in EventRecord
      BY <2>2
    <2> QED
      BY <2>1, <2>2, <2>3
  <1>2. /\ stream' = IF event.kind = "odd" THEN [at |-> "dead", next |-> 0, closed |-> FALSE]
                     ELSE [stream EXCEPT !.next = @ + 1]
        /\ stream.at = "reading" /\ ~stream.closed
        /\ pending' = IF told THEN pending \cup {event.item} ELSE pending
        /\ learned' = IF told THEN learned \cup {event.item} ELSE learned
        /\ cached' = IF told THEN WithoutItem(event.item)
                     ELSE IF event.kind = "odd" THEN cached ELSE WithEvent(n)
    BY DEF DataLine, More, At
  <1>3. ToldByStream' = IF told THEN ToldByStream \cup {event.item} ELSE ToldByStream
    BY <1>1 DEF ToldByStream
  <1>4. ~told => event.item \notin ToldByStream
    BY <1>1 DEF EventIInv, RetiredLast, ToldByStream
  <1> DEFINE fresh == [item |-> event.item, version |-> n, kind |-> event.kind]
  <1>5. WithEvent(n) \subseteq {c \in cached : c.item # event.item} \cup {fresh}
    BY DEF WithEvent
  <1>6. EventTypeOK'
    <2>1. fresh \in EventRow
      BY <1>1 DEF EventRow, EventRecord
    <2>2. cached' \subseteq EventRow
      BY <1>2, <1>5, <2>1 DEF EventIInv, EventTypeOK, WithoutItem
    <2>3. stream' \in [at : {"top", "allowed", "registered", "handshake", "opened", "reading", "ended", "dead"},
                       next : Nat, closed : BOOLEAN]
      BY <1>2 DEF EventIInv, EventTypeOK
    <2>4. pending' \subseteq Item /\ learned' \subseteq Item
      BY <1>1, <1>2 DEF EventIInv, EventTypeOK, EventRecord
    <2> QED
      BY <1>1, <2>2, <2>3, <2>4 DEF EventIInv, EventTypeOK
  <1>7. RetiredLast' /\ StreamInOrder' /\ Disconnects'
    <2>1. stream.next + 1 = lastId' + 1
      BY <1>1
    <2> QED
      BY <1>1, <1>2, <2>1 DEF EventIInv, EventTypeOK, RetiredLast, StreamInOrder, Disconnects, Active, At
  <1>8. CacheHolds'
    <2>1. CASE told
      BY <2>1, <1>2, <1>3 DEF EventIInv, CacheHolds, WithoutItem
    <2>2. CASE ~told /\ event.kind = "odd"
      BY <2>2, <1>2, <1>3 DEF EventIInv, CacheHolds
    <2>3. CASE ~told /\ event.kind # "odd"
      <3>1. cached' \subseteq {c \in cached : c.item # event.item} \cup {fresh} /\ ToldByStream' = ToldByStream
        BY <2>3, <1>2, <1>3, <1>5
      <3> QED
        BY <2>3, <3>1, <1>4 DEF EventIInv, CacheHolds
    <2> QED
      BY <2>1, <2>2, <2>3
  <1>9. RetirementsKept'
    BY <1>1, <1>2 DEF EventIInv, RetirementsKept
  <1>10. \A q \in Query : RecallHolds(q)'
    BY <1>1, <1>3 DEF EventIInv, RecallHolds, MayShow, In
  <1> QED
    BY <1>6, <1>7, <1>8, <1>9, <1>10 DEF EventIInv

(***************************************************************************)
(* Recalls                                                                 *)
(***************************************************************************)

(* A step of the client alone: its recalls, what it learned and its rows.   *)
LEMMA ClientOnly ==
    ASSUME EventIInv, Client, UNCHANGED cached,
           pending' \subseteq Item, learned' \subseteq Item,
           localRow' \in [Item -> {"none", "synced", "marked"}],
           NEW q \in Query,
           NEW new \in [at : {"none", "first", "applied", "snapshot", "fetched", "last", "answered", "raised"},
                        took : SUBSET Item, retired : SUBSET Item, known : SUBSET Item,
                        fetched : SUBSET EventRow, shared : SUBSET EventRow],
           Goes(q, new), RecallHolds(q)', RetirementsKept'
    PROVE  EventIInv'
  <1>1. /\ UNCHANGED <<log, contact, stream, pendingId, lastId, stopping, polled, cached>>
        /\ ToldByStream' = ToldByStream
    BY DEF Client, outside, streamVars, ToldByStream
  <1>2. recall' = [recall EXCEPT ![q] = new]
    BY DEF Goes
  <1>3. EventTypeOK'
    BY <1>1, <1>2 DEF EventIInv, EventTypeOK
  <1>4. RetiredLast' /\ StreamInOrder' /\ CacheHolds' /\ Disconnects'
    BY <1>1 DEF EventIInv, RetiredLast, StreamInOrder, At, CacheHolds, Disconnects, Active
  <1>5. \A r \in Query : RecallHolds(r)'
    <2> SUFFICES ASSUME NEW r \in Query, r # q
                 PROVE  RecallHolds(r)'
      OBVIOUS
    <2>1. recall'[r] = recall[r]
      BY <1>2 DEF EventIInv, EventTypeOK
    <2> QED
      BY <1>1, <2>1 DEF EventIInv, RecallHolds, MayShow, In
  <1> QED
    BY <1>3, <1>4, <1>5 DEF EventIInv

LEMMA GetsRemoteIdKeeps ==
    ASSUME EventIInv, NEW item \in Item, GetsRemoteId(item)
    PROVE  EventIInv'
  <1>1. /\ UNCHANGED <<log, contact, stream, pendingId, lastId, stopping, polled, cached, pending, recall, learned>>
        /\ localRow' = [localRow EXCEPT ![item] = "synced"] /\ localRow[item] = "none"
        /\ ToldByStream' = ToldByStream
    BY DEF GetsRemoteId, outside, streamVars, ToldByStream
  <1>2. EventTypeOK'
    BY <1>1 DEF EventIInv, EventTypeOK
  <1>3. RetiredLast' /\ StreamInOrder' /\ CacheHolds' /\ Disconnects'
    BY <1>1 DEF EventIInv, RetiredLast, StreamInOrder, At, CacheHolds, Disconnects, Active
  <1>4. \A q \in Query : RecallHolds(q)'
    BY <1>1 DEF EventIInv, RecallHolds, MayShow, In
  <1>5. RetirementsKept'
    BY <1>1 DEF EventIInv, EventTypeOK, RetirementsKept
  <1> QED
    BY <1>2, <1>3, <1>4, <1>5 DEF EventIInv

(* What a recall is, from the invariant.                                    *)
LEMMA RecallTyped ==
    ASSUME EventIInv, NEW q \in Query
    PROVE  /\ recall[q] \in [at : {"none", "first", "applied", "snapshot", "fetched", "last", "answered", "raised"},
                             took : SUBSET Item, retired : SUBSET Item, known : SUBSET Item,
                             fetched : SUBSET EventRow, shared : SUBSET EventRow]
           /\ RecallHolds(q) /\ ToldByStream \subseteq Item
           /\ localRow \in [Item -> {"none", "synced", "marked"}] /\ pending \subseteq Item /\ learned \subseteq Item
           /\ cached \subseteq EventRow /\ q \in DOMAIN recall
  <1>1. ToldByStream \subseteq Item
    <2>1. log \in Seq(EventRecord) /\ lastId \in 0..Len(log)
      BY DEF EventIInv, EventTypeOK, EventRecord
    <2>2. \A m \in 1..lastId : log[m] \in EventRecord
      <3>1. \A m \in 1..Len(log) : log[m] \in EventRecord
        BY <2>1
      <3>2. 1..lastId \subseteq 1..Len(log)
        BY <2>1
      <3> QED
        BY <3>1, <3>2
    <2> QED
      BY <2>2 DEF ToldByStream, EventRecord
  <1> QED
    BY <1>1 DEF EventIInv, EventTypeOK

LEMMA RecallBeginsKeeps ==
    ASSUME EventIInv, NEW q \in Query, RecallBegins(q)
    PROVE  EventIInv'
  <1> DEFINE new == [recall[q] EXCEPT !.at = "first", !.took = pending, !.known = ToldByStream]
  <1>1. /\ recall[q].at = "none" /\ pending' = {} /\ Goes(q, new) /\ Client
        /\ UNCHANGED <<cached, localRow, learned>>
    BY DEF RecallBegins, In
  <1>2. new \in [at : {"none", "first", "applied", "snapshot", "fetched", "last", "answered", "raised"},
                 took : SUBSET Item, retired : SUBSET Item, known : SUBSET Item,
                 fetched : SUBSET EventRow, shared : SUBSET EventRow]
    BY RecallTyped
  <1>3. recall' = [recall EXCEPT ![q] = new] /\ recall'[q] = new /\ \A r \in Query \ {q} : recall'[r] = recall[r]
    BY <1>1, RecallTyped DEF Goes, EventIInv, EventTypeOK
  <1>4. ToldByStream' = ToldByStream
    BY <1>1 DEF Client, outside, streamVars, ToldByStream
  <1>5. RecallHolds(q)'
    BY <1>1, <1>3, <1>4, RecallTyped DEF RecallHolds, MayShow, In
  <1>6. RetirementsKept'
    <2>1. recall[q].took = {}
      BY <1>1, RecallTyped DEF RecallHolds, In
    <2>2. recall'[q].took = pending
      BY <1>3, RecallTyped
    <2> QED
      BY <1>1, <1>3, <2>1, <2>2 DEF EventIInv, RetirementsKept
  <1> QED
    BY <1>1, <1>2, <1>5, <1>6, RecallTyped, ClientOnly

LEMMA ApplyKeeps ==
    ASSUME EventIInv, NEW q \in Query, NEW done \in SUBSET Item, Apply(q, done)
    PROVE  EventIInv'
  <1> DEFINE all == done = Applicable(q)
             new == IF all
                    THEN [recall[q] EXCEPT !.at = IF In(q, "first") THEN "applied" ELSE "answered", !.took = {}]
                    ELSE [recall[q] EXCEPT !.at = IF In(q, "first") THEN "answered" ELSE "raised", !.took = {},
                                           !.shared = IF In(q, "last") THEN @ ELSE {}]
  <1>1. /\ In(q, "first") \/ In(q, "last")
        /\ done \subseteq Applicable(q) /\ Goes(q, new) /\ Client
        /\ localRow' = [i \in Item |-> IF i \in done THEN "marked" ELSE localRow[i]]
        /\ pending' = pending \cup (recall[q].took \ done)
        /\ UNCHANGED <<cached, learned>>
    BY DEF Apply, PutBack
  <1>2. new \in [at : {"none", "first", "applied", "snapshot", "fetched", "last", "answered", "raised"},
                 took : SUBSET Item, retired : SUBSET Item, known : SUBSET Item,
                 fetched : SUBSET EventRow, shared : SUBSET EventRow]
    BY RecallTyped
  <1>3. /\ recall'[q] = new /\ \A r \in Query \ {q} : recall'[r] = recall[r]
        /\ new.took = {} /\ new.fetched = recall[q].fetched /\ new.known = recall[q].known
        /\ new.shared \subseteq recall[q].shared /\ new.at # "none"
    BY <1>1, RecallTyped DEF Goes, EventIInv, EventTypeOK
  <1>4. ToldByStream' = ToldByStream
    BY <1>1 DEF Client, outside, streamVars, ToldByStream
  <1>5. RecallHolds(q)'
    BY <1>3, <1>4, RecallTyped DEF RecallHolds, MayShow, In
  <1>6. RetirementsKept'
    <2> SUFFICES ASSUME NEW i \in learned, i \notin pending', localRow'[i] # "marked"
                 PROVE  \E r \in Query : i \in recall'[r].took
      BY <1>1 DEF RetirementsKept
    <2>1. i \in Item /\ i \notin pending /\ i \notin recall[q].took \ done /\ i \notin done /\ localRow[i] # "marked"
      BY <1>1, RecallTyped
    <2>2. PICK r \in Query : i \in recall[r].took
      BY <2>1 DEF EventIInv, RetirementsKept
    <2>3. r # q
      BY <2>1, <2>2
    <2> QED
      BY <1>3, <2>2, <2>3
  <1>7. pending' \subseteq Item /\ learned' \subseteq Item /\ localRow' \in [Item -> {"none", "synced", "marked"}]
    BY <1>1, RecallTyped
  <1> QED
    BY <1>1, <1>2, <1>5, <1>6, <1>7, ClientOnly

(* A step of a recall that takes no retirement and marks no row.            *)
LEMMA ShowsOnly ==
    ASSUME EventIInv, Client, UNCHANGED <<cached, pending, localRow, learned>>, NEW q \in Query,
           NEW new \in [at : {"none", "first", "applied", "snapshot", "fetched", "last", "answered", "raised"},
                        took : SUBSET Item, retired : SUBSET Item, known : SUBSET Item,
                        fetched : SUBSET EventRow, shared : SUBSET EventRow],
           Goes(q, new), new.at # "none", new.took = {}, recall[q].took = {}, new.known = recall[q].known,
           MayShow(q, new.fetched), MayShow(q, new.shared)
    PROVE  EventIInv'
  <1>1. recall'[q] = new /\ \A r \in Query \ {q} : recall'[r] = recall[r]
    BY DEF Goes, EventIInv, EventTypeOK
  <1>2. ToldByStream' = ToldByStream
    BY DEF Client, outside, streamVars, ToldByStream
  <1>3. RecallHolds(q)'
    BY <1>1, <1>2, RecallTyped DEF RecallHolds, MayShow, In
  <1>4. RetirementsKept'
    BY <1>1 DEF EventIInv, RetirementsKept
  <1> QED
    BY <1>3, <1>4, RecallTyped, ClientOnly

(* What is left of rows that may be shown may be shown.                     *)
LEMMA FewerMayShow ==
    ASSUME NEW q \in Query, NEW found, NEW fewer \in SUBSET found, MayShow(q, found)
    PROVE  MayShow(q, fewer)
  BY DEF MayShow

LEMMA TakesCachedKeeps ==
    ASSUME EventIInv, NEW q \in Query, NEW works \in BOOLEAN, TakesCached(q, works)
    PROVE  EventIInv'
  <1> DEFINE hits == IF works THEN Screened(CachedHits) ELSE {}
             new == [recall[q] EXCEPT !.at = IF works THEN "snapshot" ELSE "answered", !.shared = hits]
  <1>1. /\ In(q, "applied") /\ Goes(q, new) /\ Client /\ UNCHANGED <<cached, pending, localRow, learned>>
    BY DEF TakesCached
  <1>2. hits \subseteq EventRow
    BY RecallTyped DEF Screened, CachedHits
  <1>3. new \in [at : {"none", "first", "applied", "snapshot", "fetched", "last", "answered", "raised"},
                 took : SUBSET Item, retired : SUBSET Item, known : SUBSET Item,
                 fetched : SUBSET EventRow, shared : SUBSET EventRow]
    BY <1>2, RecallTyped
  <1>4. MayShow(q, hits)
    BY RecallTyped DEF EventIInv, CacheHolds, RecallHolds, MayShow, Screened, CachedHits
  <1>5. recall[q].took = {}
    BY <1>1, RecallTyped DEF RecallHolds, In
  <1>6. new.at # "none" /\ new.took = {} /\ new.known = recall[q].known /\ new.fetched = recall[q].fetched
        /\ new.shared = hits
    BY <1>5, RecallTyped
  <1> QED
    BY <1>1, <1>3, <1>4, <1>5, <1>6, RecallTyped, ShowsOnly DEF RecallHolds

LEMMA NoFetchKeeps ==
    ASSUME EventIInv, NEW q \in Query, NoFetch(q)
    PROVE  EventIInv'
  <1> DEFINE new == [recall[q] EXCEPT !.at = "answered"]
  <1>1. /\ In(q, "snapshot") /\ Goes(q, new) /\ Client /\ UNCHANGED <<cached, pending, localRow, learned>>
    BY DEF NoFetch
  <1>2. new \in [at : {"none", "first", "applied", "snapshot", "fetched", "last", "answered", "raised"},
                 took : SUBSET Item, retired : SUBSET Item, known : SUBSET Item,
                 fetched : SUBSET EventRow, shared : SUBSET EventRow]
    BY RecallTyped
  <1>3. recall[q].took = {}
    BY <1>1, RecallTyped DEF RecallHolds, In
  <1>4. new.at # "none" /\ new.took = {} /\ new.known = recall[q].known /\ new.fetched = recall[q].fetched
        /\ new.shared = recall[q].shared
    BY <1>3, RecallTyped
  <1> QED
    BY <1>1, <1>2, <1>3, <1>4, RecallTyped, ShowsOnly DEF RecallHolds

(* The last event of an item that is shown is one of the log.               *)
LEMMA LatestIsShown ==
    ASSUME EventTypeOK, NEW shown \in SUBSET DOMAIN log, shown # {}
    PROVE  (CHOOSE n \in shown : \A m \in shown : m <= n) \in shown
  <1>1. DOMAIN log = 1..Len(log) /\ Len(log) \in Nat
    BY DEF EventTypeOK
  <1> DEFINE ahead == {Len(log) - n : n \in shown}
  <1>2. IsWellFoundedOn(OpToRel(<, Nat), Nat)
    BY NatLessThanWellFounded
  <1>3. ahead \subseteq Nat /\ ahead # {}
    BY <1>1
  <1>4. PICK k \in ahead : \A j \in ahead : ~(<<j, k>> \in OpToRel(<, Nat))
    BY <1>2, <1>3, WFMin
  <1>5. \A j \in ahead : ~(j < k)
    BY <1>3, <1>4 DEF OpToRel
  <1>6. PICK n \in shown : k = Len(log) - n
    BY <1>4
  <1>7. ASSUME NEW m \in shown
        PROVE  m <= n
    <2>1. ~(Len(log) - m < k) /\ m \in 1..Len(log) /\ n \in 1..Len(log)
      BY <1>1, <1>5
    <2> QED
      BY <1>1, <1>6, <2>1
  <1> QED
    BY <1>7

LEMMA FetchKeeps ==
    ASSUME EventIInv, NEW q \in Query, NEW items \in SUBSET Item, NEW like \in SUBSET Item, NEW likeCached \in SUBSET Item,
           Fetch(q, items, like, likeCached)
    PROVE  EventIInv'
  <1> DEFINE passed == Screened(Unlike(Found(items), like))
             found == {c \in passed : ~Retired(c.item)}
             gone == {i \in Item : Retired(i) /\ \E c \in passed : c.item = i}
             new == [recall[q] EXCEPT !.at = "fetched", !.retired = gone, !.fetched = found,
                                      !.shared = Unlike(@, likeCached)]
  <1>1. /\ In(q, "snapshot") /\ Goes(q, new) /\ Client /\ UNCHANGED <<cached, pending, localRow, learned>>
    BY DEF Fetch
  <1>2. found \subseteq Found(items) /\ \A c \in found : c.kind = "good" /\ ~Retired(c.item)
    BY DEF Screened, Unlike
  <1>3. ASSUME NEW i \in Item, LatestText(i) # 0
        PROVE  LatestText(i) \in DOMAIN log
    <2> DEFINE shown == {n \in DOMAIN log : log[n] \in [type : {"published"}, item : {i}, kind : {"good", "bad"}]}
    <2>1. shown # {} /\ LatestText(i) = CHOOSE n \in shown : \A m \in shown : m <= n
      BY <1>3 DEF LatestText
    <2> QED
      <3>1. LatestText(i) \in shown
        BY <2>1, LatestIsShown DEF EventIInv
      <3> QED
        BY <3>1
  <1>4. found \subseteq EventRow
    BY <1>2, <1>3 DEF Found, EventRow, EventIInv, EventTypeOK
  <1>5. new \in [at : {"none", "first", "applied", "snapshot", "fetched", "last", "answered", "raised"},
                 took : SUBSET Item, retired : SUBSET Item, known : SUBSET Item,
                 fetched : SUBSET EventRow, shared : SUBSET EventRow]
    BY <1>4, RecallTyped DEF Unlike
  <1>6. MayShow(q, found)
    <2>1. \A i \in Item : ~Retired(i) => i \notin ToldByStream
      BY DEF Retired, ToldByStream, EventIInv, EventTypeOK
    <2>2. \A c \in found : c.item \in items /\ ~Retired(c.item)
                           /\ c = [item |-> c.item, version |-> LatestText(c.item), kind |-> log[LatestText(c.item)].kind]
      BY <1>2 DEF Found
    <2> QED
      BY <1>2, <2>1, <2>2, RecallTyped DEF MayShow, RecallHolds
  <1>7. recall[q].took = {}
    BY <1>1, RecallTyped DEF RecallHolds, In
  <1>8. new.at # "none" /\ new.took = {} /\ new.known = recall[q].known /\ new.fetched = found
        /\ new.shared \subseteq recall[q].shared
    BY <1>7, RecallTyped DEF Unlike
  <1>9. MayShow(q, new.shared)
    BY <1>8, RecallTyped, FewerMayShow DEF RecallHolds
  <1> QED
    BY <1>1, <1>5, <1>6, <1>7, <1>8, <1>9, ShowsOnly

LEMMA ToldKeeps ==
    ASSUME EventIInv, NEW q \in Query, Told(q)
    PROVE  EventIInv'
  <1> DEFINE gone == recall[q].retired
  <1>1. /\ In(q, "fetched") /\ learned' = learned \cup gone /\ Client /\ UNCHANGED <<cached, localRow>>
        /\ gone \subseteq Item
    BY RecallTyped DEF Told
  <1>2. recall[q].took = {}
    BY <1>1, RecallTyped DEF RecallHolds, In
  <1>3. CASE gone = {}
    <2> DEFINE new == [recall[q] EXCEPT !.at = "answered"]
    <2>1. Goes(q, new) /\ UNCHANGED <<cached, pending, localRow, learned>>
      BY <1>1, <1>3 DEF Told
    <2>2. new \in [at : {"none", "first", "applied", "snapshot", "fetched", "last", "answered", "raised"},
                   took : SUBSET Item, retired : SUBSET Item, known : SUBSET Item,
                   fetched : SUBSET EventRow, shared : SUBSET EventRow]
      BY RecallTyped
    <2>3. new.at # "none" /\ new.took = {} /\ new.known = recall[q].known /\ new.fetched = recall[q].fetched
          /\ new.shared = recall[q].shared
      BY <1>2, RecallTyped
    <2> QED
      BY <1>1, <1>2, <2>1, <2>2, <2>3, RecallTyped, ShowsOnly DEF RecallHolds
  <1>4. CASE gone # {}
    <2> DEFINE new == [recall[q] EXCEPT !.at = "last", !.took = pending \cup gone]
    <2>1. Goes(q, new) /\ pending' = {}
      BY <1>4 DEF Told
    <2>2. new \in [at : {"none", "first", "applied", "snapshot", "fetched", "last", "answered", "raised"},
                   took : SUBSET Item, retired : SUBSET Item, known : SUBSET Item,
                   fetched : SUBSET EventRow, shared : SUBSET EventRow]
      BY <1>1, RecallTyped
    <2>3. /\ recall'[q] = new /\ \A r \in Query \ {q} : recall'[r] = recall[r]
          /\ new.at = "last" /\ new.took = pending \cup gone /\ new.known = recall[q].known
          /\ new.fetched = recall[q].fetched /\ new.shared = recall[q].shared
      BY <2>1, RecallTyped DEF Goes, EventIInv, EventTypeOK
    <2>4. ToldByStream' = ToldByStream
      BY <1>1 DEF Client, outside, streamVars, ToldByStream
    <2>5. RecallHolds(q)'
      BY <2>3, <2>4, RecallTyped DEF RecallHolds, MayShow, In
    <2>6. RetirementsKept'
      BY <1>1, <1>2, <2>1, <2>3 DEF EventIInv, RetirementsKept
    <2>7. pending' \subseteq Item /\ learned' \subseteq Item
      BY <1>1, <2>1, RecallTyped
    <2> QED
      BY <1>1, <2>1, <2>2, <2>5, <2>6, <2>7, RecallTyped, ClientOnly
  <1> QED
    BY <1>3, <1>4

-----------------------------------------------------------------------------
LEMMA EventNextKept == EventIInv /\ [EventNext]_eventVars => EventIInv'
  <1> SUFFICES ASSUME EventIInv, [EventNext]_eventVars
               PROVE  EventIInv'
    OBVIOUS
  <1>1. CASE UNCHANGED eventVars
    <2>1. EventTypeOK' /\ StreamInOrder' /\ Disconnects' /\ UNCHANGED <<log, lastId, clientVars>>
      BY <1>1 DEF eventVars, clientVars, EventIInv, EventTypeOK, StreamInOrder, At, Disconnects, Active
    <2> QED
      BY <2>1, StreamOnly
  <1>2. ASSUME NEW item \in Item, NEW kind \in {"good", "bad", "odd"}, Happens("published", item, kind)
        PROVE  EventIInv'
    BY <1>2, HappensKeeps
  <1>3. ASSUME NEW item \in Item, Happens("retired", item, "good")
        PROVE  EventIInv'
    BY <1>3, HappensKeeps
  <1>4. ASSUME NEW item \in Item, GetsRemoteId(item)
        PROVE  EventIInv'
    BY <1>4, GetsRemoteIdKeeps
  <1>5. CASE Switch
    BY <1>5, SwitchKeeps
  <1>6. CASE Loops
    BY <1>6, LoopKeeps
  <1>7. CASE DataLine
    BY <1>7, DataLineKeeps
  <1>8. CASE StopSets \/ StopCloses \/ WatchSwitch
    BY <1>8, ClosesKeep
  <1>9. ASSUME NEW q \in Query, RecallBegins(q) \/ NoFetch(q) \/ Told(q)
        PROVE  EventIInv'
    BY <1>9, RecallBeginsKeeps, NoFetchKeeps, ToldKeeps
  <1>10. ASSUME NEW q \in Query, NEW done \in SUBSET Item, Apply(q, done)
         PROVE  EventIInv'
    BY <1>10, ApplyKeeps
  <1>11. ASSUME NEW q \in Query, NEW works \in BOOLEAN, TakesCached(q, works)
         PROVE  EventIInv'
    BY <1>11, TakesCachedKeeps
  <1>12. ASSUME NEW q \in Query, NEW items \in SUBSET Item, NEW like \in SUBSET Item, NEW likeCached \in SUBSET Item,
                Fetch(q, items, like, likeCached)
         PROVE  EventIInv'
    BY <1>12, FetchKeeps
  <1> QED
    BY <1>1, <1>2, <1>3, <1>4, <1>5, <1>6, <1>7, <1>8, <1>9, <1>10, <1>11, <1>12 DEF EventNext, Loops

(***************************************************************************)
(* The inductive invariant of the event stream (_listen_loop,              *)
(* _process_line, merge_shared_results): the place in the stream follows   *)
(* the events handled, the cache has nothing that was told to be retired,  *)
(* and every retirement learned is somewhere until its row is marked.      *)
(***************************************************************************)
THEOREM EventInvariance == EventSpec => []EventIInv
  BY EventInitKept, EventNextKept, PTL DEF EventSpec

(***************************************************************************)
(* SSESubscriber.stop, _watch_switch, apply_pending_remote_retirements and *)
(* merge_shared_results: the connection ends when it is told to, no        *)
(* retirement the client learned of is forgotten, and a recall shows       *)
(* nothing refused, nothing the stream told the retirement of before, and  *)
(* nothing twice.                                                          *)
(***************************************************************************)
THEOREM RemoteIsSound == EventSpec => []RemoteSound
  <1>1. EventIInv => RemoteSound
    <2> SUFFICES ASSUME EventIInv
                 PROVE  AnswersSound
      BY DEF EventIInv, RemoteSound
    <2> SUFFICES ASSUME NEW q \in Query
                 PROVE  \A c \in Answer(q) : /\ c.kind = "good" /\ c.item \notin recall[q].known
                                             /\ \A d \in Answer(q) : d.item = c.item => d = c
      BY DEF AnswersSound
    <2> QED
      BY DEF EventIInv, RecallHolds, MayShow, Answer
  <1> QED
    BY <1>1, EventInvariance, PTL
=============================================================================
