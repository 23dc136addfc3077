-------------------------- MODULE RetryQueueProofs --------------------------
(***************************************************************************)
(* Proofs about RetryQueue, for any records, namespaces, drainers and      *)
(* bounds: the inductive invariant IInv, and that a record stays in the    *)
(* queue until it was sent or tried often enough, and is sent once; and    *)
(* about PushCycle, for any rows and page size: the inductive invariant    *)
(* PushIInv, and that a cycle marks what it pushed and pages what it owes. *)
(***************************************************************************)
EXTENDS RetryQueue, PushCycle, FiniteSetTheorems, WellFoundedInduction, TLAPS

-----------------------------------------------------------------------------
(* Picking the lines at some places of a sequence *)

(* A set of natural numbers has a least one. *)
LEMMA Least ==
    ASSUME NEW T, T \subseteq Nat, T # {}
    PROVE  \E x \in T : \A y \in T : x <= y
  <1>1. IsWellFoundedOn(OpToRel(<, Nat), Nat)
    BY NatLessThanWellFounded
  <1>2. PICK x \in T : \A y \in T : ~(<<y, x>> \in OpToRel(<, Nat))
    BY <1>1, WFMin
  <1>3. \A y \in T : ~(y < x)
    BY <1>2 DEF OpToRel
  <1> QED
    BY <1>3

(* P is a set of places of a sequence of length m. *)
Places(P, m) == \A i \in P : i \in 1..m

(* Below i, or at it: how many places of P there are. *)
Upto(P, i) == {j \in P : j <= i}

LEMMA UptoCounts ==
    ASSUME NEW m \in Nat, NEW P, Places(P, m)
    PROVE  /\ IsFiniteSet(P) /\ Cardinality(P) \in Nat
           /\ \A i \in Nat : /\ IsFiniteSet(Upto(P, i))
                             /\ Cardinality(Upto(P, i)) \in Nat
                             /\ Cardinality(Upto(P, i)) <= Cardinality(P)
           /\ \A i \in P : Cardinality(Upto(P, i)) = Cardinality(Upto(P, i - 1)) + 1
           /\ \A i \in Nat \ P : i > 0 => Cardinality(Upto(P, i)) = Cardinality(Upto(P, i - 1))
           /\ Cardinality(Upto(P, 0)) = 0 /\ Cardinality(Upto(P, m)) = Cardinality(P)
  <1>0. \A i \in P : i \in 1..m
    BY DEF Places
  <1>1. IsFiniteSet(P) /\ Cardinality(P) \in Nat
    <2>1. IsFiniteSet(1..m)
      BY FS_Interval
    <2>2. P \in SUBSET (1..m)
      BY <1>0
    <2> QED
      BY <2>1, <2>2, FS_Subset, FS_CardinalityType
  <1>2. ASSUME NEW i
        PROVE  /\ IsFiniteSet(Upto(P, i)) /\ Cardinality(Upto(P, i)) \in Nat
               /\ Cardinality(Upto(P, i)) <= Cardinality(P)
    <2>1. Upto(P, i) \in SUBSET P
      BY DEF Upto
    <2> QED
      BY <1>1, <2>1, FS_Subset, FS_CardinalityType
  <1>3. ASSUME NEW i \in P
        PROVE  Cardinality(Upto(P, i)) = Cardinality(Upto(P, i - 1)) + 1
    <2>1. Upto(P, i) = Upto(P, i - 1) \cup {i} /\ i \notin Upto(P, i - 1)
      BY <1>0 DEF Upto
    <2> QED
      BY <1>2, <2>1, FS_AddElement
  <1>4. ASSUME NEW i \in Nat \ P, i > 0
        PROVE  Upto(P, i) = Upto(P, i - 1)
    <2>1. \A j \in P : j <= i <=> j <= i - 1
      BY <1>0, <1>4
    <2> QED
      BY <2>1 DEF Upto
  <1>5. Upto(P, 0) = {} /\ Upto(P, m) = P
    BY <1>0 DEF Upto
  <1> QED
    BY <1>1, <1>2, <1>3, <1>4, <1>5, FS_EmptySet

(* The n-th place of P exists, and every place is some n-th. *)
LEMMA NthPlace ==
    ASSUME NEW m \in Nat, NEW P, Places(P, m)
    PROVE  /\ \A n \in 1..Cardinality(P) : \E i \in P : Cardinality(Upto(P, i)) = n
           /\ \A i \in P : Cardinality(Upto(P, i)) \in 1..Cardinality(P)
           /\ \A i, j \in P : Cardinality(Upto(P, i)) = Cardinality(Upto(P, j)) => i = j
  <1>0. \A i \in P : i \in 1..m
    BY DEF Places
  <1> DEFINE c(i) == Cardinality(Upto(P, i))
  <1>1. /\ \A i \in Nat : c(i) \in Nat /\ c(i) <= Cardinality(P)
        /\ \A i \in P : c(i) = c(i - 1) + 1
        /\ \A i \in Nat \ P : i > 0 => c(i) = c(i - 1)
        /\ c(0) = 0 /\ c(m) = Cardinality(P) /\ Cardinality(P) \in Nat
    BY UptoCounts
  <1>2. ASSUME NEW i \in Nat, NEW j \in P, i < j
        PROVE  c(i) < c(j)
    <2>1. Upto(P, i) \in SUBSET Upto(P, j - 1) /\ j - 1 \in Nat
      BY <1>0, <1>2 DEF Upto
    <2>2. IsFiniteSet(Upto(P, j - 1))
      BY <2>1, UptoCounts
    <2>3. c(i) <= c(j - 1)
      BY <2>1, <2>2, FS_Subset
    <2> QED
      BY <1>1, <2>1, <2>3
  <1> HIDE DEF c
  <1>3. ASSUME NEW n \in 1..Cardinality(P)
        PROVE  \E i \in P : c(i) = n
    <2> DEFINE T == {i \in Nat : c(i) >= n}
    <2>1. m \in T
      BY <1>1
    <2>2. PICK i \in T : \A j \in T : i <= j
      <3>1. T \subseteq Nat /\ T # {}
        BY <2>1
      <3> QED
        BY <3>1, Least
    <2>3. i > 0 /\ i - 1 \in Nat /\ i - 1 \notin T
      BY <1>1, <2>2
    <2>4. c(i - 1) < n /\ c(i - 1) \in Nat
      BY <1>1, <2>3
    <2>5. i \in P
      BY <1>1, <2>2, <2>3, <2>4
    <2> QED
      BY <1>1, <2>2, <2>4, <2>5
  <1>4. ASSUME NEW i \in P
        PROVE  c(i) \in 1..Cardinality(P)
    BY <1>0, <1>1
  <1>5. \A i, j \in P : c(i) = c(j) => i = j
    BY <1>0, <1>1, <1>2
  <1> QED
    BY <1>3, <1>4, <1>5 DEF c

(* What is picked: the lines at the places of P, and no other. *)
LEMMA Picked ==
    ASSUME NEW S, NEW s \in Seq(S), NEW P, Places(P, Len(s))
    PROVE  /\ Pick(s, P) \in Seq(S)
           /\ \A n \in 1..Len(Pick(s, P)) : \E i \in P : Pick(s, P)[n] = s[i]
           /\ \A i \in P : \E n \in 1..Len(Pick(s, P)) : Pick(s, P)[n] = s[i]
           /\ KeysOnce(s) => KeysOnce(Pick(s, P))
  <1> DEFINE nth(n) == CHOOSE i \in P : Cardinality({j \in P : j <= i}) = n
             r == Pick(s, P)
             c == Cardinality(P)
  <1>0. \A i \in P : i \in 1..Len(s)
    BY DEF Places
  <1>1. Len(s) \in Nat /\ c \in Nat
    BY UptoCounts
  <1>2. \A n \in 1..c : nth(n) \in P /\ Cardinality(Upto(P, nth(n))) = n
    <2>1. \A n \in 1..c : \E i \in P : Cardinality({j \in P : j <= i}) = n
      BY <1>1, NthPlace DEF Upto
    <2> QED
      BY <2>1 DEF Upto
  <1>3. r = [n \in 1..c |-> s[nth(n)]]
    BY DEF Pick
  <1> HIDE DEF nth
  <1>4. r \in Seq(S) /\ Len(r) = c /\ \A n \in 1..c : r[n] = s[nth(n)]
    <2>1. \A n \in 1..c : s[nth(n)] \in S
      BY <1>0, <1>1, <1>2
    <2>2. r \in [1..c -> S]
      BY <1>3, <2>1
    <2> QED
      BY <1>1, <1>3, <2>2
  <1>5. \A i \in P : \E n \in 1..c : nth(n) = i
    BY <1>0, <1>1, <1>2, NthPlace
  <1>6. ASSUME KeysOnce(s) PROVE KeysOnce(r)
    <2>1. \A n, l \in 1..c : nth(n) = nth(l) => n = l
      BY <1>2
    <2> QED
      BY <1>0, <1>2, <1>4, <1>6, <2>1 DEF KeysOnce
  <1> HIDE DEF r, c
  <1> QED
    BY <1>2, <1>4, <1>5, <1>6 DEF r

-----------------------------------------------------------------------------
(* The lines of a file, a snapshot or what a drain keeps, without their order *)

LEMMA KeysOfRows ==
    ASSUME NEW s
    PROVE  KeysIn(s) = {r.key : r \in Rows(s)}
  BY DEF Rows, KeysIn

LEMMA RowsTyped ==
    ASSUME NEW S, NEW s \in Seq(S)
    PROVE  Rows(s) \subseteq S
  BY DEF Rows

LEMMA EmptyLines ==
    Rows(<<>>) = {} /\ KeysIn(<<>>) = {} /\ KeysOnce(<<>>) /\ <<>> \in Seq(Line)
  BY DEF Rows, KeysIn, KeysOnce

LEMMA AppendLines ==
    ASSUME NEW S, NEW s \in Seq(S), NEW x \in S
    PROVE  /\ Append(s, x) \in Seq(S)
           /\ Rows(Append(s, x)) = Rows(s) \cup {x}
           /\ KeysOnce(s) /\ x.key \notin KeysIn(s) => KeysOnce(Append(s, x))
  <1> DEFINE r == Append(s, x)
  <1>1. /\ r \in Seq(S) /\ Len(s) \in Nat /\ Len(r) = Len(s) + 1
        /\ r[Len(s) + 1] = x /\ \A i \in 1..Len(s) : r[i] = s[i]
    OBVIOUS
  <1> HIDE DEF r
  <1>2. Rows(r) = Rows(s) \cup {x}
    <2>1. \A i \in 1..Len(r) : i \in 1..Len(s) \/ i = Len(s) + 1
      BY <1>1
    <2>2. 1..Len(s) \subseteq 1..Len(r) /\ Len(s) + 1 \in 1..Len(r)
      BY <1>1
    <2> QED
      BY <1>1, <2>1, <2>2 DEF Rows
  <1>3. ASSUME KeysOnce(s), x.key \notin KeysIn(s)
        PROVE  KeysOnce(r)
    <2>1. \A i \in 1..Len(r) : i \in 1..Len(s) \/ i = Len(s) + 1
      BY <1>1
    <2> QED
      BY <1>1, <1>3, <2>1 DEF KeysOnce, KeysIn
  <1> QED
    BY <1>1, <1>2, <1>3 DEF r

LEMMA ConcatLines ==
    ASSUME NEW S, NEW s \in Seq(S), NEW t \in Seq(S)
    PROVE  /\ s \o t \in Seq(S)
           /\ Rows(s \o t) = Rows(s) \cup Rows(t)
           /\ KeysOnce(s) /\ KeysOnce(t) /\ KeysIn(s) \cap KeysIn(t) = {} => KeysOnce(s \o t)
  <1> DEFINE r == s \o t
  <1>1. /\ r \in Seq(S) /\ Len(s) \in Nat /\ Len(t) \in Nat /\ Len(r) = Len(s) + Len(t)
        /\ \A i \in 1..Len(s) : r[i] = s[i]
        /\ \A i \in 1..Len(t) : r[Len(s) + i] = t[i]
    OBVIOUS
  <1> HIDE DEF r
  <1>2. ASSUME NEW i \in 1..Len(r)
        PROVE  \/ i \in 1..Len(s) /\ r[i] = s[i]
               \/ i - Len(s) \in 1..Len(t) /\ r[i] = t[i - Len(s)]
    <2>1. i \in 1..Len(s) \/ i - Len(s) \in 1..Len(t)
      BY <1>1
    <2>2. Len(s) + (i - Len(s)) = i
      BY <1>1
    <2> QED
      BY <1>1, <2>1, <2>2
  <1>3. Rows(r) \subseteq Rows(s) \cup Rows(t)
    BY <1>2 DEF Rows
  <1>4. Rows(s) \subseteq Rows(r) /\ Rows(t) \subseteq Rows(r)
    <2>1. \A i \in 1..Len(s) : i \in 1..Len(r)
      BY <1>1
    <2>2. \A i \in 1..Len(t) : Len(s) + i \in 1..Len(r)
      BY <1>1
    <2> QED
      BY <1>1, <2>1, <2>2 DEF Rows
  <1>5. ASSUME KeysOnce(s), KeysOnce(t), KeysIn(s) \cap KeysIn(t) = {}
        PROVE  KeysOnce(r)
    <2> SUFFICES ASSUME NEW i \in 1..Len(r), NEW j \in 1..Len(r), r[i].key = r[j].key
                 PROVE  i = j
      BY DEF KeysOnce
    <2>1. \A n \in 1..Len(s) : s[n].key \in KeysIn(s)
      BY DEF KeysIn
    <2>2. \A n \in 1..Len(t) : t[n].key \in KeysIn(t)
      BY DEF KeysIn
    <2>3. CASE i \in 1..Len(s) /\ r[i] = s[i] /\ j \in 1..Len(s) /\ r[j] = s[j]
      BY <1>5, <2>3 DEF KeysOnce
    <2>4. CASE /\ i - Len(s) \in 1..Len(t) /\ r[i] = t[i - Len(s)]
               /\ j - Len(s) \in 1..Len(t) /\ r[j] = t[j - Len(s)]
      <3>1. i - Len(s) = j - Len(s)
        BY <1>5, <2>4 DEF KeysOnce
      <3> QED
        BY <1>1, <3>1
    <2> QED
      BY <1>2, <1>5, <2>1, <2>2, <2>3, <2>4
  <1> QED
    BY <1>1, <1>3, <1>4, <1>5 DEF r

(* Reading skips the torn lines and no other. *)
LEMMA ReadLines ==
    ASSUME file \in Seq(Line), KeysOnce(file)
    PROVE  /\ ReadAll \in Seq(Line) /\ KeysOnce(ReadAll)
           /\ Rows(ReadAll) = {r \in Rows(file) : ~r.torn}
  <1> DEFINE P == {i \in 1..Len(file) : ~file[i].torn}
  <1>1. Places(P, Len(file))
    BY DEF Places
  <1>2. ReadAll = Pick(file, P)
    BY DEF ReadAll
  <1> HIDE DEF P
  <1>3. /\ ReadAll \in Seq(Line) /\ KeysOnce(ReadAll)
        /\ \A n \in 1..Len(ReadAll) : \E i \in P : ReadAll[n] = file[i]
        /\ \A i \in P : \E n \in 1..Len(ReadAll) : ReadAll[n] = file[i]
    BY <1>1, <1>2, Picked
  <1>4. ASSUME NEW r \in Rows(ReadAll)
        PROVE  r \in Rows(file) /\ ~r.torn
    <2>1. PICK n \in 1..Len(ReadAll) : r = ReadAll[n]
      BY <1>4 DEF Rows
    <2>2. PICK i \in P : r = file[i]
      BY <1>3, <2>1
    <2> QED
      BY <2>2 DEF P, Rows
  <1>5. ASSUME NEW r \in Rows(file), ~r.torn
        PROVE  r \in Rows(ReadAll)
    <2>1. PICK i \in 1..Len(file) : r = file[i]
      BY DEF Rows
    <2>2. i \in P
      BY <1>5, <2>1 DEF P
    <2> QED
      BY <1>3, <2>1, <2>2 DEF Rows
  <1> QED
    BY <1>3, <1>4, <1>5

(* What arrived is what is read and is not of the snapshot. *)
LEMMA ArrivalLines ==
    ASSUME file \in Seq(Line), KeysOnce(file)
    PROVE  /\ Arrivals \in Seq(Line) /\ KeysOnce(Arrivals)
           /\ Rows(Arrivals) = {r \in Rows(file) : ~r.torn /\ r.key \notin KeysIn(entries)}
  <1> DEFINE P == {i \in 1..Len(ReadAll) : ReadAll[i].key \notin KeysIn(entries)}
  <1>1. Places(P, Len(ReadAll))
    BY DEF Places
  <1>2. Arrivals = Pick(ReadAll, P)
    BY DEF Arrivals
  <1>3. /\ ReadAll \in Seq(Line) /\ KeysOnce(ReadAll)
        /\ Rows(ReadAll) = {r \in Rows(file) : ~r.torn}
    BY ReadLines
  <1> HIDE DEF P
  <1>4. /\ Arrivals \in Seq(Line) /\ KeysOnce(Arrivals)
        /\ \A n \in 1..Len(Arrivals) : \E i \in P : Arrivals[n] = ReadAll[i]
        /\ \A i \in P : \E n \in 1..Len(Arrivals) : Arrivals[n] = ReadAll[i]
    <2> DEFINE s == ReadAll
    <2>1. s \in Seq(Line) /\ Places(P, Len(s)) /\ KeysOnce(s) /\ Arrivals = Pick(s, P)
      BY <1>1, <1>2, <1>3
    <2> HIDE DEF s
    <2>2. /\ Arrivals \in Seq(Line) /\ KeysOnce(Arrivals)
          /\ \A n \in 1..Len(Arrivals) : \E i \in P : Arrivals[n] = s[i]
          /\ \A i \in P : \E n \in 1..Len(Arrivals) : Arrivals[n] = s[i]
      BY <2>1, Picked
    <2> QED
      BY <2>2 DEF s
  <1>5. ASSUME NEW r \in Rows(Arrivals)
        PROVE  r \in Rows(ReadAll) /\ r.key \notin KeysIn(entries)
    BY <1>4 DEF P, Rows
  <1>6. ASSUME NEW r \in Rows(ReadAll), r.key \notin KeysIn(entries)
        PROVE  r \in Rows(Arrivals)
    <2>1. PICK i \in 1..Len(ReadAll) : r = ReadAll[i]
      BY DEF Rows
    <2>2. i \in P
      BY <1>6, <2>1 DEF P
    <2> QED
      BY <1>4, <2>1, <2>2 DEF Rows
  <1> QED
    BY <1>3, <1>4, <1>5, <1>6

-----------------------------------------------------------------------------
(* The invariant holds at the start and across every step *)

LEMMA InitKept == Init => IInv
  <1> SUFFICES ASSUME Init PROVE IInv
    OBVIOUS
  <1>1. TypeOK
    BY DEF Init, TypeOK
  <1>2. Past = {}
    BY DEF Init, Past
  <1> QED
    BY <1>1, <1>2, EmptyLines, RetryQueueAssumption
       DEF Init, IInv, IdleIsEmpty, DrainKeepsPast, StatusAgrees, Done, UnsentOfDrain,
           SentOnce, TriesCounted, DoneIsOver, ExhaustedWasTried

(* The record appended is new to the file and was never sent. *)
LEMMA EnqueueKept ==
    ASSUME IInv, NEW k \in Key, Enqueue(k)
    PROVE  IInv'
  <1> DEFINE x == [key |-> k, retries |-> 0, torn |-> FALSE]
  <1>1. TypeOK /\ IdleIsEmpty /\ DrainKeepsPast /\ StatusAgrees /\ UnsentOfDrain
        /\ SentOnce /\ TriesCounted /\ DoneIsOver /\ ExhaustedWasTried
        /\ KeysOnce(file) /\ KeysOnce(entries) /\ KeysOnce(remaining)
    BY DEF IInv
  <1>2. x \in Line /\ x.key = k /\ x.retries = 0 /\ ~x.torn
    BY RetryQueueAssumption DEF Line
  <1> HIDE DEF x
  <1>3. /\ ReadAll \in Seq(Line) /\ KeysOnce(ReadAll)
        /\ Rows(ReadAll) = {r \in Rows(file) : ~r.torn}
    BY <1>1, ReadLines DEF TypeOK
  <1>4. k \notin KeysIn(file) /\ k \notin KeysIn(entries) /\ posts[k] = 0
    BY <1>1 DEF StatusAgrees, Enqueue
  <1>5. k \notin KeysIn(ReadAll)
    BY <1>3, <1>4, KeysOfRows
  <1>6. file' = Append(ReadAll, x)
    BY DEF Enqueue, x
  <1>7. /\ file' \in Seq(Line) /\ KeysOnce(file')
        /\ Rows(file') = {r \in Rows(file) : ~r.torn} \cup {x}
    BY <1>2, <1>3, <1>5, <1>6, AppendLines
  <1>8. KeysIn(file') \subseteq KeysIn(file) \cup {k}
    BY <1>2, <1>7, KeysOfRows
  <1>9. /\ status' = [status EXCEPT ![k] = "queued"]
        /\ UNCHANGED <<drainer, entries, at, remaining, posts, attempts, interrupts, tears>>
    BY DEF Enqueue
  <1>10. TypeOK'
    BY <1>1, <1>7, <1>9 DEF TypeOK
  <1>11. Past' = Past /\ Done' = Done
    BY <1>9 DEF Past, Done
  <1>12. IdleIsEmpty' /\ DrainKeepsPast'
    BY <1>1, <1>9, <1>11 DEF IdleIsEmpty, DrainKeepsPast
  <1>13. StatusAgrees'
    BY <1>1, <1>2, <1>7, <1>8, <1>9 DEF StatusAgrees, TypeOK
  <1>14. UnsentOfDrain'
    BY <1>1, <1>4, <1>8, <1>9, <1>11 DEF UnsentOfDrain, TypeOK
  <1>15. TriesCounted'
    BY <1>1, <1>2, <1>7, <1>9 DEF TriesCounted, TypeOK
  <1>16. SentOnce' /\ DoneIsOver' /\ ExhaustedWasTried'
    BY <1>1, <1>9, <1>11 DEF SentOnce, DoneIsOver, ExhaustedWasTried, TypeOK
  <1> QED
    BY <1>1, <1>7, <1>9, <1>10, <1>12, <1>13, <1>14, <1>15, <1>16 DEF IInv

LEMMA EnqueueRefusedKept ==
    ASSUME IInv, NEW k \in Key, EnqueueRefused(k)
    PROVE  IInv'
  <1>1. /\ status[k] = "new" /\ status' = [status EXCEPT ![k] = "refused"]
        /\ UNCHANGED <<file, drainer, entries, at, remaining, posts, attempts, interrupts, tears>>
    BY DEF EnqueueRefused
  <1>2. TypeOK'
    BY <1>1 DEF IInv, TypeOK
  <1>3. StatusAgrees'
    BY <1>1 DEF IInv, TypeOK, StatusAgrees
  <1>4. ExhaustedWasTried'
    BY <1>1 DEF IInv, TypeOK, ExhaustedWasTried
  <1> QED
    BY <1>1, <1>2, <1>3, <1>4
       DEF IInv, IdleIsEmpty, DrainKeepsPast, Past, Done, UnsentOfDrain, SentOnce,
           TriesCounted, DoneIsOver

LEMMA ClearKept ==
    ASSUME IInv, Clear
    PROVE  IInv'
  <1>1. /\ file' = <<>>
        /\ status' = [k \in Key |-> IF k \in KeysIn(file) /\ status[k] = "queued"
                                    THEN "cleared" ELSE status[k]]
        /\ UNCHANGED <<drainer, entries, at, remaining, posts, attempts, interrupts, tears>>
    BY DEF Clear
  <1>2. Rows(file') = {} /\ KeysIn(file') = {} /\ KeysOnce(file') /\ file' \in Seq(Line)
    BY <1>1, EmptyLines
  <1>3. TypeOK'
    BY <1>1, <1>2 DEF IInv, TypeOK
  <1>4. \A k \in Key : status[k] = "queued" => k \in KeysIn(file)
    BY KeysOfRows DEF IInv, StatusAgrees
  <1>5. StatusAgrees'
    BY <1>1, <1>2, <1>4 DEF IInv, StatusAgrees
  <1>6. ExhaustedWasTried'
    BY <1>1 DEF IInv, ExhaustedWasTried
  <1>7. TriesCounted'
    BY <1>1, <1>2 DEF IInv, TriesCounted
  <1>8. Past' = Past /\ Done' = Done
    BY <1>1 DEF Past, Done
  <1>9. UnsentOfDrain'
    BY <1>1, <1>2, <1>8 DEF IInv, UnsentOfDrain
  <1> QED
    BY <1>1, <1>2, <1>3, <1>5, <1>6, <1>7, <1>8, <1>9
       DEF IInv, IdleIsEmpty, DrainKeepsPast, SentOnce, DoneIsOver

LEMMA DrainBeginKept ==
    ASSUME IInv, NEW d \in Drainer, DrainBegin(d)
    PROVE  IInv'
  <1>1. /\ drainer = None /\ drainer' = d /\ entries' = ReadAll /\ at' = 1 /\ remaining' = <<>>
        /\ UNCHANGED <<file, status, posts, attempts, interrupts, tears>>
    BY DEF DrainBegin
  <1>2. /\ ReadAll \in Seq(Line) /\ KeysOnce(ReadAll)
        /\ Rows(ReadAll) = {r \in Rows(file) : ~r.torn}
    BY ReadLines DEF IInv, TypeOK
  <1>3. Rows(entries') = {r \in Rows(file) : ~r.torn} /\ Len(entries') \in Nat
    BY <1>1, <1>2
  <1>4. Rows(remaining') = {} /\ KeysIn(remaining') = {} /\ KeysOnce(remaining') /\ remaining' \in Seq(Line)
    BY <1>1, EmptyLines
  <1>5. KeysIn(entries') \subseteq KeysIn(file)
    BY <1>3, KeysOfRows
  <1>6. Past' = {} /\ Done' = {} /\ Past = {} /\ Done = {}
    BY <1>1 DEF IInv, IdleIsEmpty, Past, Done
  <1>7. TypeOK'
    BY <1>1, <1>2, <1>4 DEF IInv, TypeOK
  <1>8. IdleIsEmpty'
    BY <1>1, RetryQueueAssumption DEF IdleIsEmpty
  <1>9. DrainKeepsPast'
    BY <1>1, <1>3, <1>4, <1>6 DEF DrainKeepsPast
  <1>10. StatusAgrees'
    BY <1>1, <1>5 DEF IInv, StatusAgrees
  <1>11. UnsentOfDrain'
    BY <1>1, <1>5, <1>6 DEF IInv, UnsentOfDrain
  <1>12. TriesCounted'
    BY <1>1, <1>3, <1>4 DEF IInv, TriesCounted
  <1>13. DoneIsOver'
    BY <1>6 DEF DoneIsOver
  <1> QED
    BY <1>1, <1>2, <1>4, <1>7, <1>8, <1>9, <1>10, <1>11, <1>12, <1>13
       DEF IInv, SentOnce, ExhaustedWasTried

(* The record a drain is at is a line it read and has not been at. *)
LEMMA HereIsNext ==
    ASSUME IInv, Draining
    PROVE  /\ Here \in Rows(entries) /\ Here \in Line /\ ~Here.torn
           /\ Here.key \in KeysIn(entries) /\ Here.key \notin Past
           /\ Here.retries <= attempts[Here.key]
           /\ at + 1 <= Len(entries) + 1 /\ at + 1 \in Nat \ {0}
           /\ at' = at + 1 /\ entries' = entries => Past' = Past \cup {Here.key}
  <1>1. /\ at \in Nat \ {0} /\ Len(entries) \in Nat /\ at <= Len(entries) /\ at \in 1..Len(entries)
        /\ entries \in Seq(Line)
    BY DEF IInv, TypeOK, Draining
  <1>2. Here \in Rows(entries) /\ Here.key \in KeysIn(entries) /\ Here \in Line
    BY <1>1 DEF Here, Rows, KeysIn
  <1>3. Here.key \notin Past
    <2> SUFFICES ASSUME NEW i \in 1..(at - 1), entries[i].key = Here.key
                 PROVE  FALSE
      BY DEF Past
    <2>1. i \in 1..Len(entries) /\ i # at
      BY <1>1
    <2> QED
      BY <1>1, <2>1 DEF IInv, KeysOnce, Here
  <1>4. ASSUME at' = at + 1, entries' = entries
        PROVE  Past' = Past \cup {Here.key}
    <2>1. \A i : i \in 1..(at' - 1) <=> i \in 1..(at - 1) \/ i = at
      BY <1>1, <1>4
    <2>2. Past' = {entries[i].key : i \in 1..(at' - 1)}
      BY <1>4 DEF Past
    <2> QED
      BY <2>1, <2>2 DEF Past, Here
  <1> QED
    BY <1>1, <1>2, <1>3, <1>4 DEF IInv, DrainKeepsPast, TriesCounted

(* What a step that keeps the record it is at, or one like it, does to the  *)
(* records kept.                                                            *)
LEMMA KeepKeeps ==
    ASSUME IInv, Draining, NEW r \in Line, r.key = Here.key, ~r.torn, Keep(r), UNCHANGED entries
    PROVE  /\ remaining' \in Seq(Line) /\ KeysOnce(remaining')
           /\ Rows(remaining') = Rows(remaining) \cup {r}
           /\ at' \in Nat \ {0} /\ Past' = Past \cup {Here.key} /\ Done' = Done
           /\ DrainKeepsPast'
  <1>1. Here.key \notin KeysIn(remaining)
    BY HereIsNext DEF IInv, DrainKeepsPast
  <1>2. remaining' = Append(remaining, r) /\ at' = at + 1 /\ entries' = entries
    BY DEF Keep
  <1>3. /\ remaining' \in Seq(Line) /\ KeysOnce(remaining')
        /\ Rows(remaining') = Rows(remaining) \cup {r}
    BY <1>1, <1>2, AppendLines DEF IInv, TypeOK
  <1>4. KeysIn(remaining') = KeysIn(remaining) \cup {Here.key}
    BY <1>3, KeysOfRows
  <1>5. Past' = Past \cup {Here.key} /\ at' \in Nat \ {0} /\ at' <= Len(entries') + 1
    BY <1>2, HereIsNext
  <1>6. Done' = Done
    BY <1>4, <1>5, HereIsNext DEF Done
  <1>7. DrainKeepsPast'
    BY <1>2, <1>3, <1>4, <1>5 DEF IInv, DrainKeepsPast
  <1> QED
    BY <1>3, <1>5, <1>6, <1>7

(* A record out of retries was tried as often as they say. *)
LEMMA DrainEvictKept ==
    ASSUME IInv, DrainEvict
    PROVE  IInv'
  <1>1. /\ Draining /\ Here.retries >= MAX_RETRIES /\ at' = at + 1
        /\ UNCHANGED <<file, drainer, entries, remaining, status, posts, attempts, interrupts, tears>>
    BY DEF DrainEvict
  <1>2. /\ Here \in Line /\ Here.retries <= attempts[Here.key]
        /\ at + 1 <= Len(entries) + 1 /\ at + 1 \in Nat \ {0}
    BY <1>1, HereIsNext
  <1>3. Past' = Past \cup {Here.key}
    BY <1>1, HereIsNext
  <1>4. Done \subseteq Done' /\ Done' \subseteq Done \cup {Here.key}
    BY <1>1, <1>3 DEF Done
  <1>5. TypeOK'
    BY <1>1, <1>2 DEF IInv, TypeOK
  <1>6. attempts[Here.key] >= MAX_RETRIES
    BY <1>1, <1>2, RetryQueueAssumption DEF IInv, TypeOK, Line
  <1>7. DoneIsOver'
    BY <1>1, <1>4, <1>6 DEF IInv, DoneIsOver
  <1>8. UnsentOfDrain'
    BY <1>1, <1>4 DEF IInv, UnsentOfDrain
  <1>9. DrainKeepsPast'
    BY <1>1, <1>2, <1>3 DEF IInv, DrainKeepsPast
  <1>10. IdleIsEmpty'
    BY <1>1 DEF Draining, IdleIsEmpty
  <1> QED
    BY <1>1, <1>5, <1>7, <1>8, <1>9, <1>10
       DEF IInv, StatusAgrees, SentOnce, TriesCounted, ExhaustedWasTried

LEMMA DrainForeignKept ==
    ASSUME IInv, DrainForeign
    PROVE  IInv'
  <1>1. /\ Draining /\ Keep(Here)
        /\ UNCHANGED <<file, drainer, entries, status, posts, attempts, interrupts, tears>>
    BY DEF DrainForeign
  <1>2. Here \in Line /\ Here \in Rows(entries) /\ ~Here.torn
    BY <1>1, HereIsNext
  <1>3. /\ remaining' \in Seq(Line) /\ KeysOnce(remaining')
        /\ Rows(remaining') = Rows(remaining) \cup {Here}
        /\ at' \in Nat \ {0} /\ Done' = Done /\ DrainKeepsPast'
    BY <1>1, <1>2, KeepKeeps
  <1>4. TypeOK'
    BY <1>1, <1>3 DEF IInv, TypeOK
  <1>5. TriesCounted'
    BY <1>1, <1>2, <1>3 DEF IInv, TriesCounted
  <1>6. IdleIsEmpty'
    BY <1>1 DEF Draining, IdleIsEmpty
  <1> QED
    BY <1>1, <1>3, <1>4, <1>5, <1>6
       DEF IInv, StatusAgrees, UnsentOfDrain, SentOnce, DoneIsOver, ExhaustedWasTried

(* The record was sent by no drain but interrupted ones, and is now over. *)
LEMMA DrainSentKept ==
    ASSUME IInv, DrainSent
    PROVE  IInv'
  <1> DEFINE h == Here.key
  <1>1. /\ Draining /\ at' = at + 1
        /\ posts' = [posts EXCEPT ![h] = @ + 1]
        /\ attempts' = [attempts EXCEPT ![h] = @ + 1]
        /\ UNCHANGED <<file, drainer, entries, remaining, status, interrupts, tears>>
    BY DEF DrainSent, Mine
  <1>2. /\ h \in KeysIn(entries) /\ h \notin Past /\ h \in Key
        /\ at + 1 <= Len(entries) + 1 /\ at + 1 \in Nat \ {0}
    BY <1>1, HereIsNext DEF Line
  <1>3. Past' = Past \cup {h}
    BY <1>1, HereIsNext
  <1> HIDE DEF h
  <1>4. h \notin KeysIn(remaining)
    BY <1>2 DEF IInv, DrainKeepsPast
  <1>5. Done' = Done \cup {h} /\ h \notin Done
    BY <1>1, <1>2, <1>3, <1>4 DEF Done
  <1>6. /\ posts \in [Key -> Nat] /\ attempts \in [Key -> Nat] /\ interrupts \in Nat
        /\ posts' \in [Key -> Nat] /\ attempts' \in [Key -> Nat]
        /\ posts'[h] = posts[h] + 1 /\ \A k \in Key \ {h} : posts'[k] = posts[k]
        /\ \A k \in Key : attempts'[k] >= attempts[k]
    BY <1>1, <1>2 DEF IInv, TypeOK
  <1>7. posts[h] <= interrupts
    BY <1>2, <1>5 DEF IInv, UnsentOfDrain
  <1>8. TypeOK'
    BY <1>1, <1>2, <1>6 DEF IInv, TypeOK
  <1>9. SentOnce'
    BY <1>1, <1>6, <1>7 DEF IInv, SentOnce
  <1>10. KeysIn(file) \subseteq Key /\ KeysIn(entries) \subseteq Key /\ Done \subseteq Key
    <2>1. Rows(file) \subseteq Line /\ Rows(entries) \subseteq Line
      BY RowsTyped DEF IInv, TypeOK
    <2>2. Past \subseteq KeysIn(entries)
      BY DEF IInv, TypeOK, DrainKeepsPast, Past, KeysIn
    <2> QED
      BY <2>1, <2>2, KeysOfRows DEF Line, Done
  <1>11. UnsentOfDrain'
    BY <1>1, <1>5, <1>6, <1>10 DEF IInv, UnsentOfDrain
  <1>12. DoneIsOver'
    BY <1>2, <1>5, <1>6, <1>10, RetryQueueAssumption DEF IInv, DoneIsOver
  <1>13. TriesCounted'
    <2>1. Rows(file) \subseteq Line /\ Rows(entries) \subseteq Line /\ Rows(remaining) \subseteq Line
      BY RowsTyped DEF IInv, TypeOK
    <2>2. ASSUME NEW r \in Line, r.retries <= attempts[r.key]
          PROVE  r.retries <= attempts'[r.key]
      BY <1>6, <2>2, RetryQueueAssumption DEF Line
    <2> QED
      BY <1>1, <2>1, <2>2 DEF IInv, TriesCounted
  <1>14. ExhaustedWasTried'
    BY <1>1, <1>6, RetryQueueAssumption DEF IInv, ExhaustedWasTried
  <1>15. StatusAgrees'
    BY <1>1, <1>2, <1>6 DEF IInv, StatusAgrees
  <1>16. DrainKeepsPast' /\ IdleIsEmpty'
    BY <1>1, <1>2, <1>3 DEF IInv, DrainKeepsPast, IdleIsEmpty, Draining
  <1> QED
    BY <1>1, <1>8, <1>9, <1>11, <1>12, <1>13, <1>14, <1>15, <1>16 DEF IInv

LEMMA DrainFailedKept ==
    ASSUME IInv, DrainFailed
    PROVE  IInv'
  <1> DEFINE h == Here.key
             x == [Here EXCEPT !.retries = @ + 1]
  <1>1. /\ Draining /\ Here.retries < MAX_RETRIES /\ Keep(x)
        /\ attempts' = [attempts EXCEPT ![h] = @ + 1]
        /\ UNCHANGED <<file, drainer, entries, status, posts, interrupts, tears>>
    BY DEF DrainFailed, Mine
  <1>2. Here \in Line /\ ~Here.torn /\ Here.retries <= attempts[h]
    BY <1>1, HereIsNext
  <1>3. x \in Line /\ x.key = h /\ ~x.torn /\ x.retries = Here.retries + 1 /\ h \in Key
    BY <1>1, <1>2, RetryQueueAssumption DEF Line
  <1>4. /\ remaining' \in Seq(Line) /\ KeysOnce(remaining')
        /\ Rows(remaining') = Rows(remaining) \cup {x}
        /\ at' \in Nat \ {0} /\ Done' = Done /\ DrainKeepsPast'
    BY <1>1, <1>3, KeepKeeps
  <1> HIDE DEF h, x
  <1>5. /\ attempts \in [Key -> Nat] /\ attempts' \in [Key -> Nat]
        /\ attempts'[h] = attempts[h] + 1
        /\ \A k \in Key : attempts'[k] >= attempts[k]
    BY <1>1, <1>3 DEF IInv, TypeOK
  <1>6. TypeOK'
    BY <1>1, <1>4, <1>5 DEF IInv, TypeOK
  <1>7. TriesCounted'
    <2>1. Rows(file) \subseteq Line /\ Rows(entries) \subseteq Line /\ Rows(remaining) \subseteq Line
      BY RowsTyped DEF IInv, TypeOK
    <2>2. ASSUME NEW r \in Line, r.retries <= attempts[r.key]
          PROVE  r.retries <= attempts'[r.key]
      BY <1>5, <2>2, RetryQueueAssumption DEF Line
    <2>3. x.retries <= attempts'[x.key]
      BY <1>2, <1>3, <1>5, RetryQueueAssumption DEF Line
    <2> QED
      BY <1>1, <1>4, <2>1, <2>2, <2>3 DEF IInv, TriesCounted
  <1>8. Done \subseteq Key
    <2>1. Rows(entries) \subseteq Line
      BY RowsTyped DEF IInv, TypeOK
    <2>2. Past \subseteq KeysIn(entries)
      BY DEF IInv, TypeOK, DrainKeepsPast, Past, KeysIn
    <2> QED
      BY <2>1, <2>2, KeysOfRows DEF Line, Done
  <1>9. DoneIsOver'
    BY <1>1, <1>4, <1>5, <1>8, RetryQueueAssumption DEF IInv, DoneIsOver
  <1>10. ExhaustedWasTried'
    BY <1>1, <1>5, RetryQueueAssumption DEF IInv, ExhaustedWasTried
  <1>11. IdleIsEmpty'
    BY <1>1 DEF Draining, IdleIsEmpty
  <1> QED
    BY <1>1, <1>4, <1>6, <1>7, <1>9, <1>10, <1>11
       DEF IInv, StatusAgrees, UnsentOfDrain, SentOnce

(* What is written is what was kept, which is of the snapshot, and what     *)
(* arrived, which is not.                                                   *)
LEMMA DrainEndKept ==
    ASSUME IInv, DrainEnd
    PROVE  IInv'
  <1>1. /\ drainer # None /\ at > Len(entries) /\ file' = remaining \o Arrivals
        /\ status' = [k \in Key |->
                        IF k \in KeysIn(entries) \ KeysIn(remaining) THEN Outcome(k)
                        ELSE IF k \in KeysIn(remaining) /\ status[k] = "torn" THEN "queued"
                        ELSE status[k]]
        /\ drainer' = None /\ entries' = <<>> /\ at' = 1 /\ remaining' = <<>>
        /\ UNCHANGED <<posts, attempts, interrupts, tears>>
    BY DEF DrainEnd
  <1>2. TypeOK /\ KeysOnce(file) /\ KeysOnce(remaining)
    BY DEF IInv
  <1>3. /\ Arrivals \in Seq(Line) /\ KeysOnce(Arrivals)
        /\ Rows(Arrivals) = {r \in Rows(file) : ~r.torn /\ r.key \notin KeysIn(entries)}
    BY <1>2, ArrivalLines DEF TypeOK
  <1>4. Past = KeysIn(entries)
    <2>1. at - 1 = Len(entries)
      BY <1>1, <1>2 DEF IInv, DrainKeepsPast, TypeOK
    <2> QED
      BY <2>1 DEF Past, KeysIn
  <1>5. KeysIn(remaining) \subseteq KeysIn(entries) /\ Done = KeysIn(entries) \ KeysIn(remaining)
    BY <1>4 DEF IInv, DrainKeepsPast, Done
  <1>6. KeysIn(Arrivals) \subseteq KeysIn(file) /\ KeysIn(Arrivals) \cap KeysIn(entries) = {}
    BY <1>3, KeysOfRows
  <1>7. /\ file' \in Seq(Line) /\ KeysOnce(file')
        /\ Rows(file') = Rows(remaining) \cup Rows(Arrivals)
    BY <1>1, <1>2, <1>3, <1>5, <1>6, ConcatLines DEF TypeOK
  <1>8. KeysIn(file') = KeysIn(remaining) \cup KeysIn(Arrivals)
    BY <1>7, KeysOfRows
  <1>9. /\ Rows(entries') = {} /\ KeysIn(entries') = {} /\ KeysOnce(entries') /\ entries' \in Seq(Line)
        /\ Rows(remaining') = {} /\ KeysIn(remaining') = {} /\ KeysOnce(remaining') /\ remaining' \in Seq(Line)
    BY <1>1, EmptyLines
  <1>10. Past' = {} /\ Done' = {} /\ Len(entries') = 0
    BY <1>1 DEF Past, Done
  <1>11. TypeOK'
    BY <1>1, <1>2, <1>7, <1>9 DEF TypeOK, Outcome
  <1>12. IdleIsEmpty' /\ DrainKeepsPast'
    BY <1>1, <1>9, <1>10 DEF IdleIsEmpty, DrainKeepsPast
  <1>13. StatusAgrees'
    <2> SUFFICES ASSUME NEW k \in Key
                 PROVE  /\ status'[k] = "queued" => \E r \in Rows(file') : r.key = k /\ ~r.torn
                        /\ status'[k] \in {"new", "refused", "sent", "exhausted"} => k \notin KeysIn(file')
                        /\ status'[k] = "new" => posts[k] = 0
      BY <1>1, <1>9 DEF StatusAgrees
    <2>1. /\ status[k] = "queued" => \E r \in Rows(file) : r.key = k /\ ~r.torn
          /\ status[k] \in {"new", "refused", "sent", "exhausted"} => k \notin KeysIn(file) \cup KeysIn(entries)
          /\ status[k] = "new" => posts[k] = 0
      BY DEF IInv, StatusAgrees
    <2>2. CASE k \in KeysIn(entries) \ KeysIn(remaining)
      <3>1. status'[k] \in {"sent", "exhausted"}
        BY <1>1, <2>2 DEF Outcome
      <3>2. k \notin KeysIn(file')
        BY <1>6, <1>8, <2>2
      <3> QED
        BY <3>1, <3>2
    <2>3. CASE k \in KeysIn(remaining)
      <3>1. \E r \in Rows(file') : r.key = k /\ ~r.torn
        BY <1>7, <2>3, KeysOfRows DEF IInv, DrainKeepsPast
      <3>2. status'[k] = IF status[k] = "torn" THEN "queued" ELSE status[k]
        BY <1>1, <2>3
      <3> QED
        BY <1>5, <2>1, <2>3, <3>1, <3>2
    <2>4. CASE k \notin KeysIn(entries)
      <3>1. status'[k] = status[k] /\ k \notin KeysIn(remaining)
        BY <1>1, <1>5, <2>4
      <3>2. status[k] = "queued" => \E r \in Rows(file') : r.key = k /\ ~r.torn
        BY <1>3, <1>7, <2>1, <2>4
      <3> QED
        BY <1>6, <1>8, <2>1, <3>1, <3>2
    <2> QED
      BY <2>2, <2>3, <2>4
  <1>14. UnsentOfDrain'
    <2>1. KeysIn(file') \subseteq (KeysIn(file) \cup KeysIn(entries)) \ Done
      BY <1>5, <1>6, <1>8
    <2> QED
      BY <1>1, <1>9, <2>1 DEF IInv, UnsentOfDrain
  <1>15. TriesCounted'
    BY <1>1, <1>3, <1>7, <1>9 DEF IInv, TriesCounted
  <1>16. DoneIsOver'
    BY <1>10 DEF DoneIsOver
  <1>17. ExhaustedWasTried'
    <2> SUFFICES ASSUME NEW k \in Key, status'[k] = "exhausted"
                 PROVE  attempts[k] >= MAX_RETRIES
      BY <1>1 DEF ExhaustedWasTried
    <2>1. CASE k \in KeysIn(entries) \ KeysIn(remaining)
      <3>1. ~(posts[k] > 0)
        BY <1>1, <2>1 DEF Outcome
      <3> QED
        BY <1>5, <2>1, <3>1 DEF IInv, DoneIsOver
    <2>2. CASE k \notin KeysIn(entries) \ KeysIn(remaining)
      BY <1>1, <2>2 DEF IInv, ExhaustedWasTried
    <2> QED
      BY <2>1, <2>2
  <1> QED
    BY <1>1, <1>7, <1>9, <1>11, <1>12, <1>13, <1>14, <1>15, <1>16, <1>17 DEF IInv, SentOnce

(* Whatever the drain had sent may be sent once more. *)
LEMMA InterruptKept ==
    ASSUME IInv, Interrupt
    PROVE  IInv'
  <1>1. /\ interrupts' = interrupts + 1
        /\ drainer' = None /\ entries' = <<>> /\ at' = 1 /\ remaining' = <<>>
        /\ UNCHANGED <<file, status, posts, attempts, tears>>
    BY DEF Interrupt
  <1>2. /\ Rows(entries') = {} /\ KeysIn(entries') = {} /\ KeysOnce(entries') /\ entries' \in Seq(Line)
        /\ Rows(remaining') = {} /\ KeysIn(remaining') = {} /\ KeysOnce(remaining') /\ remaining' \in Seq(Line)
    BY <1>1, EmptyLines
  <1>3. Past' = {} /\ Done' = {} /\ Len(entries') = 0
    BY <1>1 DEF Past, Done
  <1>4. TypeOK'
    BY <1>1, <1>2 DEF IInv, TypeOK
  <1>5. KeysIn(file) \subseteq Key
    <2>1. Rows(file) \subseteq Line
      BY RowsTyped DEF IInv, TypeOK
    <2> QED
      BY <2>1, KeysOfRows DEF Line
  <1>6. UnsentOfDrain'
    BY <1>1, <1>2, <1>5 DEF IInv, TypeOK, SentOnce, UnsentOfDrain
  <1>7. SentOnce'
    BY <1>1 DEF IInv, TypeOK, SentOnce
  <1>8. IdleIsEmpty' /\ DrainKeepsPast'
    BY <1>1, <1>2, <1>3 DEF IdleIsEmpty, DrainKeepsPast
  <1>9. TriesCounted' /\ StatusAgrees'
    BY <1>1, <1>2 DEF IInv, TriesCounted, StatusAgrees
  <1>10. DoneIsOver' /\ ExhaustedWasTried'
    BY <1>1, <1>3 DEF IInv, DoneIsOver, ExhaustedWasTried
  <1> QED
    BY <1>1, <1>2, <1>4, <1>6, <1>7, <1>8, <1>9, <1>10 DEF IInv

LEMMA TearKept ==
    ASSUME IInv, Tear
    PROVE  IInv'
  <1>1. PICK n \in 1..Len(file) :
            /\ ~file[n].torn /\ tears' = tears + 1
            /\ file' = [file EXCEPT ![n].torn = TRUE]
            /\ status' = [status EXCEPT ![file[n].key] = "torn"]
            /\ UNCHANGED <<drainer, entries, at, remaining, posts, attempts, interrupts>>
    BY DEF Tear
  <1> DEFINE h == file[n].key
  <1>2. /\ file \in Seq(Line) /\ file[n] \in Line /\ h \in Key
        /\ [file[n] EXCEPT !.torn = TRUE] \in Line
        /\ [file[n] EXCEPT !.torn = TRUE].key = h
        /\ [file[n] EXCEPT !.torn = TRUE].retries = file[n].retries
    <2>1. file \in Seq(Line)
      BY DEF IInv, TypeOK
    <2>2. file[n] \in Line
      BY <2>1
    <2> QED
      BY <2>1, <2>2 DEF Line
  <1>3. /\ file' \in Seq(Line) /\ Len(file') = Len(file)
        /\ \A i \in 1..Len(file) : /\ i # n => file'[i] = file[i]
                                   /\ file'[i].key = file[i].key
                                   /\ file'[i].retries = file[i].retries
    BY <1>1, <1>2
  <1> HIDE DEF h
  <1>4. KeysOnce(file') /\ KeysIn(file') = KeysIn(file)
    BY <1>3 DEF IInv, KeysOnce, KeysIn
  <1>5. TypeOK'
    BY <1>1, <1>2, <1>3 DEF IInv, TypeOK
  <1>6. \A r \in Rows(file') : \E q \in Rows(file) : q.key = r.key /\ q.retries = r.retries
    BY <1>3 DEF Rows
  <1>7. TriesCounted'
    BY <1>1, <1>6 DEF IInv, TriesCounted
  <1>8. \A r \in Rows(file) : r.key # h => r \in Rows(file')
    BY <1>3 DEF Rows, h
  <1>9. StatusAgrees'
    BY <1>1, <1>2, <1>4, <1>8 DEF IInv, TypeOK, StatusAgrees, h
  <1>10. Past' = Past /\ Done' = Done
    BY <1>1 DEF Past, Done
  <1>11. ExhaustedWasTried'
    BY <1>1 DEF IInv, TypeOK, ExhaustedWasTried
  <1> QED
    BY <1>1, <1>4, <1>5, <1>7, <1>9, <1>10, <1>11
       DEF IInv, IdleIsEmpty, DrainKeepsPast, UnsentOfDrain, SentOnce, DoneIsOver

-----------------------------------------------------------------------------
(* IInv holds in every state the queue can reach. *)
THEOREM Invariance == Spec => []IInv
  <1>1. ASSUME IInv, [Next]_vars
        PROVE  IInv'
    <2>1. CASE UNCHANGED vars
      BY <1>1, <2>1
         DEF vars, IInv, TypeOK, IdleIsEmpty, DrainKeepsPast, StatusAgrees, Past, Done,
             UnsentOfDrain, SentOnce, TriesCounted, DoneIsOver, ExhaustedWasTried
    <2>2. CASE \E k \in Key : Enqueue(k) \/ EnqueueRefused(k)
      BY <1>1, <2>2, EnqueueKept, EnqueueRefusedKept
    <2>3. CASE \E d \in Drainer : DrainBegin(d)
      BY <1>1, <2>3, DrainBeginKept
    <2>4. CASE DrainStep
      BY <1>1, <2>4, DrainEvictKept, DrainForeignKept, DrainSentKept, DrainFailedKept, DrainEndKept
         DEF DrainStep
    <2>5. CASE Interrupt
      BY <1>1, <2>5, InterruptKept
    <2>6. CASE Tear
      BY <1>1, <2>6, TearKept
    <2>7. CASE Clear
      BY <1>1, <2>7, ClearKept
    <2> QED
      BY <1>1, <2>1, <2>2, <2>3, <2>4, <2>5, <2>6, <2>7 DEF Next
  <1> QED
    BY <1>1, InitKept, PTL DEF Spec

(* A record accepted by enqueue is in the file, once, until it was sent or  *)
(* tried MAX_RETRIES times; it is not there after that, and it is sent a    *)
(* second time only for a drain that was interrupted: for any number of     *)
(* records, drainers, mishaps, and any depth of the queue.                  *)
THEOREM RecordSafety == Spec => []RecordsKept
  <1>1. ASSUME IInv PROVE RecordsKept
    <2>1. ASSUME NEW k \in Key, status[k] = "queued"
          PROVE  Cardinality({i \in 1..Len(file) : file[i].key = k}) = 1
      <3>1. PICK n \in 1..Len(file) : file[n].key = k
        BY <1>1, <2>1 DEF IInv, StatusAgrees, Rows
      <3>2. {i \in 1..Len(file) : file[i].key = k} = {n}
        BY <1>1, <3>1 DEF IInv, KeysOnce
      <3> QED
        BY <3>2, FS_Singleton
    <2>2. ASSUME NEW k \in Key, status[k] \in {"sent", "exhausted"}
          PROVE  {i \in 1..Len(file) : file[i].key = k} = {}
      BY <1>1, <2>2 DEF IInv, StatusAgrees, KeysIn
    <2>3. NoRecordLost
      BY <2>1, <2>2 DEF NoRecordLost
    <2> QED
      BY <1>1, <2>3 DEF RecordsKept, IInv
  <1> QED
    BY <1>1, Invariance, PTL

-----------------------------------------------------------------------------
(* The order of the rows of a page *)

(* Finitely many rows, no two of them of one revision of an id. *)
Ordered(some) ==
    /\ some \subseteq Paged /\ IsFiniteSet(some)
    /\ \A q, r \in some : q[1] = r[1] /\ q[2] = r[2] => q = r

LEMMA PagedIs ==
    ASSUME NEW r \in Paged
    PROVE  r[1] \in Nat /\ r[2] \in Nat /\ r[2] \in Id /\ r[3] \in Nat
  BY PushCycleAssumption DEF Paged, Id

LEMMA BeforeOrders ==
    ASSUME NEW r, NEW s, NEW t,
           r[1] \in Nat, r[2] \in Nat, s[1] \in Nat, s[2] \in Nat, t[1] \in Nat, t[2] \in Nat
    PROVE  /\ ~Before(r, r) /\ (Before(r, s) => ~Before(s, r))
           /\ Before(r, s) \/ Before(s, r) \/ (r[1] = s[1] /\ r[2] = s[2])
           /\ Before(r, s) /\ Before(s, t) => Before(r, t)
           /\ ~Before(s, r) /\ Before(s, t) => Before(r, t)
           /\ Before(r, s) /\ ~Before(t, s) => Before(r, t)
  BY DEF Before

(* Of some rows one is the first and one the last. *)
LEMMA Outermost ==
    ASSUME NEW S, Ordered(S), S # {}
    PROVE  /\ \E r \in S : \A q \in S : ~Before(q, r)
           /\ \E r \in S : \A q \in S : ~Before(r, q)
  <1> DEFINE Under(r) == {q \in S : Before(q, r)}
             Over(r) == {q \in S : Before(r, q)}
  <1>1. \A r \in S : r[1] \in Nat /\ r[2] \in Nat
    BY PagedIs DEF Ordered
  <1>2. \A r \in S : /\ IsFiniteSet(Under(r)) /\ Cardinality(Under(r)) \in Nat
                     /\ IsFiniteSet(Over(r)) /\ Cardinality(Over(r)) \in Nat
    <2> TAKE r \in S
    <2>1. Under(r) \in SUBSET S /\ Over(r) \in SUBSET S
      OBVIOUS
    <2> QED
      BY <2>1, FS_Subset, FS_CardinalityType DEF Ordered
  <1>3. \A q, r \in S : Before(q, r) => /\ Cardinality(Under(q)) < Cardinality(Under(r))
                                        /\ Cardinality(Over(r)) < Cardinality(Over(q))
    <2> SUFFICES ASSUME NEW q \in S, NEW r \in S, Before(q, r)
                 PROVE  /\ Cardinality(Under(q)) < Cardinality(Under(r))
                        /\ Cardinality(Over(r)) < Cardinality(Over(q))
      OBVIOUS
    <2>1. ~Before(q, q) /\ ~Before(r, r)
      BY <1>1, BeforeOrders
    <2>2. Under(q) \in SUBSET Under(r)
      BY <1>1, BeforeOrders
    <2>3. q \in Under(r) /\ q \notin Under(q)
      BY <2>1
    <2>4. Over(r) \in SUBSET Over(q)
      BY <1>1, BeforeOrders
    <2>5. r \in Over(q) /\ r \notin Over(r)
      BY <2>1
    <2>6. Cardinality(Under(q)) < Cardinality(Under(r))
      <3> HIDE DEF Under
      <3>1. Under(q) # Under(r)
        BY <2>3
      <3>2. /\ Cardinality(Under(q)) <= Cardinality(Under(r))
            /\ Cardinality(Under(q)) = Cardinality(Under(r)) => Under(q) = Under(r)
        BY <1>2, <2>2, FS_Subset
      <3>3. Cardinality(Under(q)) \in Nat /\ Cardinality(Under(r)) \in Nat
        BY <1>2
      <3>4. Cardinality(Under(q)) # Cardinality(Under(r))
        BY <3>1, <3>2
      <3> QED
        BY <3>2, <3>3, <3>4
    <2>7. Cardinality(Over(r)) < Cardinality(Over(q))
      <3> HIDE DEF Over
      <3>1. Over(q) # Over(r)
        BY <2>5
      <3>2. /\ Cardinality(Over(r)) <= Cardinality(Over(q))
            /\ Cardinality(Over(r)) = Cardinality(Over(q)) => Over(r) = Over(q)
        BY <1>2, <2>4, FS_Subset
      <3>3. Cardinality(Over(q)) \in Nat /\ Cardinality(Over(r)) \in Nat
        BY <1>2
      <3>4. Cardinality(Over(q)) # Cardinality(Over(r))
        BY <3>1, <3>2
      <3> QED
        BY <3>2, <3>3, <3>4
    <2> QED
      BY <2>6, <2>7
  <1> HIDE DEF Under, Over
  <1>4. \E r \in S : \A q \in S : ~Before(q, r)
    <2>1. PICK x \in {Cardinality(Under(r)) : r \in S} : \A y \in {Cardinality(Under(r)) : r \in S} : x <= y
      BY <1>2, Least
    <2>2. PICK r \in S : x = Cardinality(Under(r))
      BY <2>1
    <2>3. \A q \in S : Cardinality(Under(r)) <= Cardinality(Under(q))
      BY <2>1, <2>2
    <2> QED
      BY <1>2, <1>3, <2>3
  <1>5. \E r \in S : \A q \in S : ~Before(r, q)
    <2>1. PICK x \in {Cardinality(Over(r)) : r \in S} : \A y \in {Cardinality(Over(r)) : r \in S} : x <= y
      BY <1>2, Least
    <2>2. PICK r \in S : x = Cardinality(Over(r))
      BY <2>1
    <2>3. \A q \in S : Cardinality(Over(r)) <= Cardinality(Over(q))
      BY <2>1, <2>2
    <2> QED
      BY <1>2, <1>3, <2>3
  <1> QED
    BY <1>4, <1>5

LEMMA LastOf ==
    ASSUME NEW S, Ordered(S), S # {}
    PROVE  /\ Last(S) \in S /\ Last(S) \in Paged
           /\ \A q \in S : q = Last(S) \/ Before(q, Last(S))
           /\ \A q \in S : ~Before(Last(S), q)
  <1>1. PICK r \in S : \A q \in S : ~Before(r, q)
    BY Outermost
  <1>2. \A q \in S : q[1] \in Nat /\ q[2] \in Nat
    BY PagedIs DEF Ordered
  <1>3. \A q \in S : q = r \/ Before(q, r)
    BY <1>1, <1>2, BeforeOrders DEF Ordered
  <1>4. Last(S) \in S /\ \A q \in S : q = Last(S) \/ Before(q, Last(S))
    BY <1>3 DEF Last
  <1>5. \A q \in S : ~Before(Last(S), q)
    BY <1>2, <1>4, BeforeOrders
  <1> QED
    BY <1>4, <1>5 DEF Ordered

LEMMA PartOrdered ==
    ASSUME NEW S, Ordered(S), NEW T, T \subseteq S
    PROVE  Ordered(T)
  <1>1. IsFiniteSet(T)
    BY FS_Subset DEF Ordered
  <1> QED
    BY <1>1 DEF Ordered

(* A page is the first rows of what it is cut from: all of them when it is  *)
(* short, and what it leaves out comes behind it.                           *)
LEMMA CutOf ==
    ASSUME NEW S, Ordered(S)
    PROVE  /\ Cut(S) \subseteq S /\ Ordered(Cut(S)) /\ Cardinality(Cut(S)) \in Nat
           /\ Cardinality(Cut(S)) < LIMIT => Cut(S) = S
           /\ Cardinality(Cut(S)) >= LIMIT => Cut(S) # {}
           /\ \A q \in S \ Cut(S), r \in Cut(S) : Before(r, q)
  <1> DEFINE Under(r) == {q \in S : Before(q, r)}
  <1>1. \A r \in S : r[1] \in Nat /\ r[2] \in Nat
    BY PagedIs DEF Ordered
  <1>2. Cut(S) \subseteq S
    BY DEF Cut
  <1>3. Ordered(Cut(S))
    BY <1>2, PartOrdered
  <1>4. IsFiniteSet(Cut(S)) /\ Cardinality(Cut(S)) \in Nat
    BY <1>3, FS_CardinalityType DEF Ordered
  <1>5. \A r \in S : IsFiniteSet(Under(r)) /\ Cardinality(Under(r)) \in Nat
    <2> TAKE r \in S
    <2>1. Under(r) \in SUBSET S
      OBVIOUS
    <2> QED
      BY <2>1, FS_Subset, FS_CardinalityType DEF Ordered
  <1>6. \A r \in S : r \in Cut(S) <=> Cardinality(Under(r)) < LIMIT
    BY DEF Cut
  <1>7. LIMIT \in Nat \ {0}
    BY PushCycleAssumption
  <1>8. \A q \in S, r \in Cut(S) : Before(q, r) => q \in Cut(S)
    <2> SUFFICES ASSUME NEW q \in S, NEW r \in Cut(S), Before(q, r) PROVE q \in Cut(S)
      OBVIOUS
    <2>1. r \in S
      BY <1>2
    <2>2. Under(q) \in SUBSET Under(r)
      BY <1>1, <2>1, BeforeOrders
    <2>3. Cardinality(Under(q)) <= Cardinality(Under(r))
      <3> HIDE DEF Under
      <3> QED
        BY <1>5, <2>1, <2>2, FS_Subset
    <2>4. Cardinality(Under(r)) < LIMIT
      BY <1>6, <2>1
    <2> HIDE DEF Under
    <2>5. Cardinality(Under(q)) < LIMIT
      BY <1>5, <1>7, <2>1, <2>3, <2>4
    <2> QED
      BY <1>6, <2>5
  <1>9. ASSUME Cardinality(Cut(S)) < LIMIT PROVE Cut(S) = S
    <2> SUFFICES ASSUME S \ Cut(S) # {} PROVE FALSE
      BY <1>2
    <2>1. PICK r \in S \ Cut(S) : \A q \in S \ Cut(S) : ~Before(q, r)
      BY PartOrdered, Outermost
    <2>2. Under(r) \in SUBSET Cut(S)
      BY <2>1
    <2> HIDE DEF Under
    <2>3. Cardinality(Under(r)) <= Cardinality(Cut(S))
      BY <1>4, <2>2, FS_Subset
    <2>4. Cardinality(Under(r)) < LIMIT
      BY <1>4, <1>5, <1>7, <1>9, <2>1, <2>3
    <2> QED
      BY <1>6, <2>1, <2>4
  <1>10. ASSUME Cut(S) = {} PROVE ~(Cardinality(Cut(S)) >= LIMIT)
    BY <1>7, <1>10, FS_EmptySet
  <1>11. \A q \in S \ Cut(S), r \in Cut(S) : Before(r, q)
    <2> TAKE q \in S \ Cut(S), r \in Cut(S)
    <2>1. r \in S /\ q # r /\ ~Before(q, r)
      BY <1>2, <1>8
    <2> QED
      BY <1>1, <2>1, BeforeOrders DEF Ordered
  <1> QED
    BY <1>2, <1>3, <1>4, <1>9, <1>10, <1>11

-----------------------------------------------------------------------------
(* The rows of a query *)

LEMMA IdsCount ==
    /\ Id \subseteq Nat /\ IsFiniteSet(Id)
    /\ \A i \in Id : i > 0 /\ i \in 0..MAX_ID
  BY PushCycleAssumption, FS_Interval DEF Id

LEMMA BehindOrdered ==
    ASSUME PushTypeOK
    PROVE  /\ Ordered(Behind)
           /\ \A r \in Behind : r = Row(r[2]) /\ r[2] \in dirty /\ Before(after, r)
           /\ \A i \in dirty : Ahead(after, i) => Row(i) \in Behind
  <1> DEFINE ids == {j \in dirty : Before(after, <<seq[j], j>>)}
  <1>1. IsFiniteSet(ids)
    <2>1. ids \in SUBSET Id
      BY DEF PushTypeOK
    <2> QED
      BY <2>1, IdsCount, FS_Subset
  <1>2. IsFiniteSet(Behind)
    <2> DEFINE f == [i \in ids |-> Row(i)]
    <2>1. f \in Surjection(ids, Behind)
      BY DEF Behind, Surjection
    <2> HIDE DEF f, ids
    <2> QED
      BY <1>1, <2>1, FS_Surjection
  <1>3. \A r \in Behind : r = Row(r[2]) /\ r[2] \in dirty /\ Before(after, r)
    <2> TAKE r \in Behind
    <2>1. PICK i \in ids : r = Row(i)
      BY DEF Behind
    <2>2. r[1] = seq[i] /\ r[2] = i /\ i \in dirty
      BY <2>1 DEF Row
    <2> QED
      BY <2>1, <2>2 DEF Before
  <1>4. Behind \subseteq Paged
    <2> SUFFICES ASSUME NEW i \in dirty PROVE Row(i) \in Paged
      BY DEF Behind
    <2>1. seq[i] \in Nat /\ i \in Id /\ text[i] \in Nat
      BY DEF PushTypeOK
    <2> QED
      BY <2>1 DEF Row, Paged
  <1>5. \A i \in dirty : Ahead(after, i) => Row(i) \in Behind
    BY DEF Behind, Ahead
  <1> QED
    BY <1>2, <1>3, <1>4, <1>5 DEF Ordered

(* What a query finds, and what it makes of the page. *)
LEMMA QueryFinds ==
    ASSUME PushIInv, step = "query",
           NEW found, found = Cut(Behind), NEW filled, filled = page \cup Admitted(found)
    PROVE  /\ Ordered(found) /\ Ordered(filled) /\ PageHolds(filled)
           /\ \A r \in filled : r \in page \/ r \in found
           /\ \A r \in found : r = Row(r[2]) /\ r[2] \in dirty /\ Before(after, r)
           /\ Cardinality(found) \in Nat /\ (Cardinality(found) >= LIMIT => found # {})
           /\ \A i \in dirty \ blocked : Ahead(after, i) =>
                 \/ Row(i) \in filled
                 \/ Cardinality(found) >= LIMIT /\ \A r \in found : Before(r, Row(i))
  <1>1. PushTypeOK /\ NumbersAgree /\ PagesHold
    BY DEF PushIInv
  <1>2. /\ Ordered(Behind)
        /\ \A r \in Behind : r = Row(r[2]) /\ r[2] \in dirty /\ Before(after, r)
        /\ \A i \in dirty : Ahead(after, i) => Row(i) \in Behind
    BY <1>1, BehindOrdered
  <1>3. /\ found \subseteq Behind /\ Ordered(found) /\ Cardinality(found) \in Nat
        /\ Cardinality(found) < LIMIT => found = Behind
        /\ Cardinality(found) >= LIMIT => found # {}
        /\ \A q \in Behind \ found, r \in found : Before(r, q)
    BY <1>2, CutOf
  <1>4. \A r \in found : r = Row(r[2]) /\ r[2] \in dirty /\ Before(after, r)
    BY <1>2, <1>3
  <1>5. Admitted(found) \subseteq found /\ Ordered(Admitted(found))
    BY <1>3, PartOrdered DEF Admitted
  <1>6. \A r \in filled : r \in page \/ r \in found
    BY <1>5
  <1>7. PageHolds(page) /\ Ordered(page) /\ \A r \in page : ~Before(after, r)
    BY <1>1 DEF PagesHold, PageHolds, PushTypeOK, Ordered
  <1>8. \A q \in page, r \in found : ~(q[1] = r[1] /\ q[2] = r[2])
    BY <1>4, <1>7 DEF Before
  <1>9. Ordered(filled)
    <2>1. IsFiniteSet(filled)
      BY <1>5, <1>7, FS_Union DEF Ordered
    <2>2. \A q, r \in filled : q[1] = r[1] /\ q[2] = r[2] => q = r
      BY <1>3, <1>6, <1>7, <1>8 DEF Ordered
    <2>3. filled \subseteq Paged
      BY <1>5, <1>7 DEF Ordered
    <2> QED
      BY <2>1, <2>2, <2>3 DEF Ordered
  <1>10. PageHolds(filled)
    <2>1. \A q, r \in filled : q[1] = r[1] /\ q[2] = r[2] => q = r
      BY <1>9 DEF Ordered
    <2>2. ASSUME NEW r \in filled, r[2] \notin reused
          PROVE  r[1] = r[3] /\ r[3] <= text[r[2]] /\ r[2] \in dirty
      <3>1. CASE r \in page
        BY <1>7, <2>2, <3>1 DEF PageHolds
      <3>2. CASE r \in found
        <4>1. r = Row(r[2]) /\ r[2] \in dirty /\ r[2] \in Id
          BY <1>1, <1>4, <3>2 DEF PushTypeOK
        <4>2. r[1] = seq[r[2]] /\ r[3] = text[r[2]]
          BY <4>1 DEF Row
        <4>3. seq[r[2]] = text[r[2]] /\ text[r[2]] \in Nat
          BY <1>1, <2>2, <4>1 DEF NumbersAgree, PushTypeOK
        <4> QED
          BY <4>1, <4>2, <4>3
      <3> QED
        BY <1>6, <3>1, <3>2
    <2>3. \A r \in filled : r[2] \in steady => r = Row(r[2])
      BY <1>4, <1>6, <1>7 DEF PageHolds
    <2> QED
      BY <2>1, <2>2, <2>3 DEF PageHolds
  <1>11. ASSUME NEW i \in dirty \ blocked, Ahead(after, i), Row(i) \notin filled
         PROVE  Cardinality(found) >= LIMIT /\ \A r \in found : Before(r, Row(i))
    <2>1. Row(i) \in Behind
      BY <1>2, <1>11
    <2>2. Row(i)[2] = i
      BY DEF Row
    <2>3. Row(i) \notin found
      BY <1>11, <2>2 DEF Admitted
    <2>4. LIMIT \in Nat
      BY PushCycleAssumption
    <2> QED
      BY <1>3, <2>1, <2>3, <2>4
  <1> QED
    BY <1>3, <1>4, <1>6, <1>9, <1>10, <1>11

-----------------------------------------------------------------------------
(* A query *)

(* Of an id that nothing touched a page has the row or nothing. *)
LEMMA GivenOnce ==
    ASSUME NEW S, Ordered(S), PageHolds(S), NEW i \in Id
    PROVE  /\ Cardinality({r \in S : r[2] = i}) \in Nat
           /\ i \in steady =>
                Cardinality({r \in S : r[2] = i}) = IF Row(i) \in S THEN 1 ELSE 0
  <1> DEFINE those == {r \in S : r[2] = i}
  <1>1. IsFiniteSet(those) /\ Cardinality(those) \in Nat
    <2>1. those \in SUBSET S
      OBVIOUS
    <2> QED
      BY <2>1, FS_Subset, FS_CardinalityType DEF Ordered
  <1>2. ASSUME i \in steady PROVE Cardinality(those) = IF Row(i) \in S THEN 1 ELSE 0
    <2>1. Row(i)[2] = i
      BY DEF Row
    <2>2. \A r \in those : r = Row(i)
      BY <1>2 DEF PageHolds
    <2>3. those = IF Row(i) \in S THEN {Row(i)} ELSE {}
      BY <2>1, <2>2
    <2> HIDE DEF those
    <2> QED
      BY <2>3, FS_Singleton, FS_EmptySet
  <1> QED
    BY <1>1, <1>2

LEMMA QueryGives ==
    ASSUME PushIInv, Query, PageFull(Cut(Behind), page \cup Admitted(Cut(Behind)))
    PROVE  PushIInv'
  <1> DEFINE found == Cut(Behind)
             filled == page \cup Admitted(found)
  <1>1. PushTypeOK /\ NumbersAgree /\ PagesHold /\ SyncedIsCurrent
    BY DEF PushIInv
  <1>2. /\ step = "query" /\ given' = Cut(filled) /\ page' = {} /\ step' = "send"
        /\ got' = [i \in Id |-> got[i] + Cardinality({r \in given' : r[2] = i})]
        /\ UNCHANGED <<after, rows, steady, remote>>
    BY DEF Query
  <1>3. /\ UNCHANGED <<after, seq, text, dirty, blocked, copy, reused, steady, platform, accepted>>
    BY <1>2 DEF rows, remote
  <1>4. PageFull(found, filled)
    OBVIOUS
  <1>5. /\ Ordered(found) /\ Ordered(filled) /\ PageHolds(filled)
        /\ \A r \in filled : r \in page \/ r \in found
        /\ \A r \in found : r = Row(r[2]) /\ r[2] \in dirty /\ Before(after, r)
        /\ Cardinality(found) \in Nat /\ (Cardinality(found) >= LIMIT => found # {})
        /\ \A i \in dirty \ blocked : Ahead(after, i) =>
              \/ Row(i) \in filled
              \/ Cardinality(found) >= LIMIT /\ \A r \in found : Before(r, Row(i))
    BY <1>2, QueryFinds
  <1> HIDE DEF found, filled
  <1>6. /\ given' \subseteq filled /\ Ordered(given') /\ Cardinality(given') \in Nat
        /\ Cardinality(given') < LIMIT => given' = filled
        /\ Cardinality(given') >= LIMIT => given' # {}
        /\ \A q \in filled \ given', r \in given' : Before(r, q)
    BY <1>2, <1>5, CutOf
  <1>7. PageHolds(given')
    BY <1>5, <1>6 DEF PageHolds
  <1>8. LIMIT \in Nat \ {0}
    BY PushCycleAssumption
  <1>9. \A i \in Id : Row(i)' = Row(i) /\ (\A p : Ahead(p, i)' <=> Ahead(p, i))
    BY <1>3 DEF Row, Ahead
  <1>10. PushTypeOK'
    <2>1. got' \in [Id -> Nat]
      <3>1. got \in [Id -> Nat]
        BY <1>1 DEF PushTypeOK
      <3>2. \A i \in Id : Cardinality({r \in given' : r[2] = i}) \in Nat
        <4>1. SUFFICES ASSUME NEW i \in Id PROVE Cardinality({r \in given' : r[2] = i}) \in Nat
          OBVIOUS
        <4>2. Ordered(given') /\ PageHolds(given')
          BY <1>6, <1>7
        <4> QED
          BY <4>1, <4>2, GivenOnce
      <3> QED
        BY <1>2, <3>1, <3>2
    <2>2. given' \subseteq Paged /\ IsFiniteSet(given')
      BY <1>6 DEF Ordered
    <2>3. page' \subseteq Paged /\ IsFiniteSet(page')
      BY <1>2, FS_EmptySet
    <2> QED
      BY <1>1, <1>2, <1>3, <2>1, <2>2, <2>3 DEF PushTypeOK
  <1>11. NumbersAgree' /\ SyncedIsCurrent'
    BY <1>1, <1>3 DEF NumbersAgree, SyncedIsCurrent, Clean
  <1>12. PagesHold'
    <2>1. PageHolds(given)'
      BY <1>3, <1>7, <1>9 DEF PageHolds, Row
    <2>2. PageHolds(page)' /\ Cardinality(page') < LIMIT
      BY <1>2, <1>8, FS_EmptySet DEF PageHolds
    <2> QED
      BY <1>2, <2>1, <2>2 DEF PagesHold
  <1>13. SentIsThere'
    BY <1>2 DEF SentIsThere
  <1>14. ASSUME NEW i \in steady' PROVE SteadyOwed(i)'
    <2>1. i \in steady /\ i \in Id /\ SteadyOwed(i)
      BY <1>1, <1>3, <1>14 DEF PushIInv, PushTypeOK
    <2>2. i \notin blocked /\ got[i] \in {0, 1} /\ (got[i] = 0 => i \in dirty)
      BY <1>2, <2>1 DEF SteadyOwed
    <2>3. IF got[i] = 1 THEN ~Ahead(after, i) /\ Row(i) \notin page
                        ELSE Ahead(after, i) \/ Row(i) \in page
      BY <1>2, <2>1 DEF SteadyOwed
    <2>4. got'[i] = got[i] + (IF Row(i) \in given' THEN 1 ELSE 0)
      BY <1>2, <1>6, <1>7, <2>1, GivenOnce
    <2>5. Row(i)[1] = seq[i] /\ Row(i)[2] = i /\ seq[i] \in Nat /\ i \in Nat
      BY <1>1, <2>1, IdsCount DEF Row, PushTypeOK
    <2>6. \A p : Ahead(p, i) <=> Before(p, Row(i))
      BY <2>5 DEF Ahead, Before
    <2>7. after[1] \in Nat /\ after[2] \in Nat
      BY <1>1, PushCycleAssumption DEF PushTypeOK
    <2>8. \A r \in filled : r[1] \in Nat /\ r[2] \in Nat
      BY <1>5, PagedIs DEF Ordered
    <2>9. \A r \in page : ~Before(after, r)
      BY <1>1 DEF PagesHold
    <2>10. Cardinality(given') >= LIMIT =>
              /\ Last(given') \in filled /\ \A q \in given' : ~Before(Last(given'), q)
              /\ \A q \in filled \ given' : Before(Last(given'), q)
      BY <1>6, LastOf
    <2>11. CASE got[i] = 1
      <3>1. Row(i) \notin filled
        BY <1>5, <2>3, <2>6, <2>11
      <3>2. got'[i] = 1
        BY <1>6, <2>4, <2>11, <3>1
      <3>3. ASSUME Cardinality(given') >= LIMIT PROVE ~Before(Last(given'), Row(i))
        <4>1. PICK r \in given' : r \notin page
          <5> SUFFICES ASSUME given' \subseteq page PROVE FALSE
            OBVIOUS
          <5>1. IsFiniteSet(page) /\ Cardinality(page) < LIMIT
            BY <1>1 DEF PushTypeOK, PagesHold
          <5>2. Cardinality(given') <= Cardinality(page) /\ Cardinality(page) \in Nat
            BY <5>1, FS_Subset, FS_CardinalityType
          <5> QED
            BY <1>6, <1>8, <3>3, <5>1, <5>2
        <4>2. r \in filled /\ Before(after, r)
          BY <1>5, <1>6, <4>1
        <4>3. ~Before(Last(given'), r) /\ Last(given') \in filled
          BY <2>10, <3>3
        <4>4. Before(after, Last(given'))
          BY <2>7, <2>8, <4>2, <4>3, BeforeOrders
        <4>5. ~Before(after, Row(i))
          BY <2>3, <2>6, <2>11
        <4> QED
          BY <2>5, <2>7, <2>8, <4>3, <4>4, <4>5, BeforeOrders
      <3> QED
        BY <1>2, <1>3, <1>9, <2>1, <2>2, <2>6, <3>2, <3>3 DEF SteadyOwed
    <2>12. CASE got[i] = 0 /\ Row(i) \in given'
      <3>1. got'[i] = 1
        BY <2>4, <2>12
      <3>2. Cardinality(given') >= LIMIT => ~Before(Last(given'), Row(i))
        BY <2>10, <2>12
      <3> QED
        BY <1>2, <1>3, <1>9, <2>1, <2>2, <2>6, <3>1, <3>2 DEF SteadyOwed
    <2>13. CASE got[i] = 0 /\ Row(i) \notin given'
      <3>1. got'[i] = 0 /\ i \in dirty
        BY <2>2, <2>4, <2>13
      <3>2. CASE Row(i) \in filled
        <4>1. Cardinality(given') >= LIMIT
          BY <1>6, <1>8, <2>13, <3>2
        <4>2. Before(Last(given'), Row(i))
          BY <2>10, <2>13, <3>2, <4>1
        <4> QED
          BY <1>2, <1>3, <1>9, <2>1, <2>2, <2>6, <3>1, <4>1, <4>2 DEF SteadyOwed
      <3>3. CASE Row(i) \notin filled
        <4>1. Ahead(after, i) /\ Row(i) \notin page
          <5>1. Row(i) \notin page
            BY <3>3 DEF filled
          <5> QED
            BY <2>3, <2>13, <5>1
        <4>2. Cardinality(found) >= LIMIT /\ \A r \in found : Before(r, Row(i))
          BY <1>5, <2>2, <3>1, <3>3, <4>1
        <4>3. Cardinality(filled) >= LIMIT
          BY <1>4, <1>5, <1>8, <4>2 DEF PageFull
        <4>4. Cardinality(given') >= LIMIT
          BY <1>6, <1>8, <4>3
        <4>5. Last(given') \in filled
          BY <2>10, <4>4
        <4>6. Before(Last(given'), Row(i))
          <5>1. CASE Last(given') \in found
            BY <4>2, <5>1
          <5>2. CASE Last(given') \in page
            <6>1. ~Before(after, Last(given')) /\ Before(after, Row(i))
              BY <2>6, <2>9, <4>1, <5>2
            <6> QED
              BY <2>5, <2>7, <2>8, <4>5, <6>1, BeforeOrders
          <5> QED
            BY <1>5, <4>5, <5>1, <5>2
        <4> QED
          BY <1>2, <1>3, <1>9, <2>1, <2>2, <2>6, <3>1, <4>4, <4>6 DEF SteadyOwed
      <3> QED
        BY <3>2, <3>3
    <2> QED
      BY <2>2, <2>11, <2>12, <2>13
  <1> QED
    BY <1>10, <1>11, <1>12, <1>13, <1>14 DEF PushIInv

LEMMA QueryFills ==
    ASSUME PushIInv, Query, ~PageFull(Cut(Behind), page \cup Admitted(Cut(Behind)))
    PROVE  PushIInv'
  <1> DEFINE found == Cut(Behind)
             filled == page \cup Admitted(found)
  <1>1. PushTypeOK /\ NumbersAgree /\ PagesHold /\ SyncedIsCurrent
    BY DEF PushIInv
  <1>2. /\ step = "query" /\ page' = filled /\ after' = <<Last(found)[1], Last(found)[2]>>
        /\ UNCHANGED <<given, got, step, rows, steady, remote>>
    BY DEF Query
  <1>3. /\ UNCHANGED <<given, got, step, seq, text, dirty, blocked, copy, reused, steady, platform, accepted>>
    BY <1>2 DEF rows, remote
  <1>4. Cardinality(found) >= LIMIT /\ Cardinality(filled) < LIMIT
    <2>1. Cardinality(found) \in Nat /\ Cardinality(filled) \in Nat
      BY <1>2, QueryFinds, FS_CardinalityType DEF Ordered
    <2> QED
      BY <2>1, PushCycleAssumption DEF PageFull
  <1>5. /\ Ordered(found) /\ Ordered(filled) /\ PageHolds(filled)
        /\ \A r \in filled : r \in page \/ r \in found
        /\ \A r \in found : r = Row(r[2]) /\ r[2] \in dirty /\ Before(after, r)
        /\ found # {}
        /\ \A i \in dirty \ blocked : Ahead(after, i) =>
              \/ Row(i) \in filled
              \/ \A r \in found : Before(r, Row(i))
    BY <1>2, <1>4, QueryFinds
  <1> HIDE DEF found, filled
  <1>6. /\ Last(found) \in found /\ Last(found) \in Paged
        /\ \A q \in found : ~Before(Last(found), q)
    BY <1>5, LastOf
  <1>7. after[1] \in Nat /\ after[2] \in Nat
    BY <1>1, PushCycleAssumption DEF PushTypeOK
  <1>8. \A r : Before(after', r) <=> Before(Last(found), r)
    BY <1>2 DEF Before
  <1>9. \A i \in Id : Row(i)' = Row(i)
    BY <1>3 DEF Row
  <1>10. PushTypeOK'
    <2>1. after' \in Nat \X (0..MAX_ID)
      BY <1>2, <1>6, PagedIs, IdsCount
    <2>2. page' \subseteq Paged /\ IsFiniteSet(page')
      BY <1>2, <1>5 DEF Ordered
    <2> QED
      BY <1>1, <1>3, <2>1, <2>2 DEF PushTypeOK
  <1>11. NumbersAgree' /\ SyncedIsCurrent'
    BY <1>1, <1>3 DEF NumbersAgree, SyncedIsCurrent, Clean
  <1>12. PagesHold'
    <2>1. PageHolds(page)'
      BY <1>2, <1>3, <1>5 DEF PageHolds, Row
    <2>2. \A r \in page' : ~Before(after', r)
      <3> SUFFICES ASSUME NEW r \in filled PROVE ~Before(Last(found), r)
        BY <1>2, <1>8
      <3>1. CASE r \in found
        BY <1>6, <3>1
      <3>2. CASE r \in page
        <4>1. ~Before(after, r) /\ Before(after, Last(found))
          BY <1>1, <1>5, <1>6, <3>2 DEF PagesHold
        <4>2. r \in Paged
          BY <1>5 DEF Ordered
        <4> QED
          BY <1>6, <1>7, <4>1, <4>2, PagedIs, BeforeOrders
      <3> QED
        BY <1>5, <3>1, <3>2
    <2> QED
      BY <1>2, <1>3, <1>4, <2>1, <2>2 DEF PagesHold
  <1>13. SentIsThere'
    BY <1>2 DEF SentIsThere
  <1>14. ASSUME NEW i \in steady' PROVE SteadyOwed(i)'
    <2>1. i \in steady /\ i \in Id /\ SteadyOwed(i)
      BY <1>1, <1>3, <1>14 DEF PushIInv, PushTypeOK
    <2>2. i \notin blocked /\ got[i] \in {0, 1} /\ (got[i] = 0 => i \in dirty)
      BY <1>2, <2>1 DEF SteadyOwed
    <2>3. IF got[i] = 1 THEN ~Ahead(after, i) /\ Row(i) \notin page
                        ELSE Ahead(after, i) \/ Row(i) \in page
      BY <1>2, <2>1 DEF SteadyOwed
    <2>4. Row(i)[1] = seq[i] /\ Row(i)[2] = i /\ seq[i] \in Nat /\ i \in Nat
      BY <1>1, <2>1, IdsCount DEF Row, PushTypeOK
    <2>5. \A p : Ahead(p, i) <=> Before(p, Row(i))
      BY <2>4 DEF Ahead, Before
    <2>6. Ahead(after, i)' <=> Before(Last(found), Row(i))
      BY <1>2, <1>3, <2>4 DEF Ahead, Before
    <2>7. Last(found)[1] \in Nat /\ Last(found)[2] \in Nat
      BY <1>6, PagedIs
    <2>8. Before(after, Last(found))
      BY <1>5, <1>6
    <2>9. CASE got[i] = 1
      <3>1. ~Before(after, Row(i))
        BY <2>3, <2>5, <2>9
      <3>2. Row(i) \notin filled
        BY <1>5, <2>3, <2>9, <3>1
      <3>3. ~Before(Last(found), Row(i))
        BY <1>7, <2>4, <2>7, <2>8, <3>1, BeforeOrders
      <3> QED
        BY <1>2, <1>3, <1>9, <2>1, <2>2, <2>6, <2>9, <3>2, <3>3 DEF SteadyOwed
    <2>10. CASE got[i] = 0
      <3>1. Ahead(after, i)' \/ Row(i) \in filled
        <4>1. CASE Row(i) \in page
          BY <4>1 DEF filled
        <4>2. CASE Ahead(after, i)
          BY <1>5, <1>6, <2>2, <2>6, <2>10, <4>2
        <4> QED
          BY <2>3, <2>10, <4>1, <4>2
      <3> QED
        BY <1>2, <1>3, <1>9, <2>1, <2>2, <2>10, <3>1 DEF SteadyOwed
    <2> QED
      BY <2>2, <2>9, <2>10
  <1> QED
    BY <1>10, <1>11, <1>12, <1>13, <1>14 DEF PushIInv

-----------------------------------------------------------------------------
(* Sending and marking *)

LEMMA SentOrdered ==
    ASSUME PushTypeOK, PageHolds(given), NEW i
    PROVE  /\ SentOf(i) # {} => /\ Last(SentOf(i)) \in given /\ Last(SentOf(i)) \in Paged
                                /\ Last(SentOf(i))[2] = i
                                /\ \A q \in SentOf(i) : q = Last(SentOf(i)) \/ Before(q, Last(SentOf(i)))
           /\ \A r \in SentOf(i) : r \in given /\ r \in Paged /\ r[2] = i /\ r[3] \in Nat
           /\ \A r \in Sent : r \in given /\ r \in SentOf(r[2])
  <1>1. Ordered(given)
    BY DEF PushTypeOK, PageHolds, Ordered
  <1>2. SentOf(i) \subseteq given /\ \A r \in SentOf(i) : r[2] = i
    BY DEF SentOf, Sent
  <1>3. Ordered(SentOf(i))
    BY <1>1, <1>2, PartOrdered
  <1>4. \A r \in SentOf(i) : r[3] \in Nat /\ r \in Paged
    BY <1>3, PagedIs DEF Ordered
  <1>5. \A r \in Sent : r \in given /\ r \in SentOf(r[2])
    BY DEF SentOf, Sent
  <1> QED
    BY <1>2, <1>3, <1>4, <1>5, LastOf

LEMMA SendKeeps ==
    ASSUME PushIInv, Send
    PROVE  PushIInv'
  <1>1. PushTypeOK /\ NumbersAgree /\ PagesHold /\ SyncedIsCurrent /\ step = "send"
    BY DEF PushIInv, Send
  <1>2. /\ Arrive \/ UNCHANGED <<platform, accepted>>
        /\ step' = "end" \/ (Arrive /\ step' = "mark")
        /\ UNCHANGED <<seq, text, dirty, blocked, copy, reused, after, page, given, got, steady>>
    BY DEF Send, rows, remote
  <1>3. PageHolds(given)
    BY <1>1 DEF PagesHold
  <1>4. Arrive => /\ platform' = [i \in Id |-> IF SentOf(i) = {} THEN platform[i] ELSE Last(SentOf(i))[3]]
                  /\ accepted' = [i \in Id |-> accepted[i] \cup {r[3] : r \in SentOf(i)}]
    BY DEF Arrive
  <1>5. platform' \in [Id -> Nat] /\ accepted' \in [Id -> SUBSET Nat]
    <2>1. CASE Arrive
      <3>1. \A i \in Id : SentOf(i) # {} => Last(SentOf(i))[3] \in Nat
        BY <1>1, <1>3, SentOrdered, PagedIs
      <3>2. \A i \in Id : {r[3] : r \in SentOf(i)} \subseteq Nat
        BY <1>1, <1>3, SentOrdered
      <3>3. platform \in [Id -> Nat] /\ accepted \in [Id -> SUBSET Nat]
        BY <1>1 DEF PushTypeOK
      <3> QED
        BY <1>4, <2>1, <3>1, <3>2, <3>3
    <2>2. CASE UNCHANGED <<platform, accepted>>
      BY <1>1, <2>2 DEF PushTypeOK
    <2> QED
      BY <1>2, <2>1, <2>2
  <1>6. PushTypeOK' /\ NumbersAgree'
    BY <1>1, <1>2, <1>5 DEF PushTypeOK, NumbersAgree
  <1>7. PagesHold'
    <2>1. PageHolds(given)' /\ PageHolds(page)'
      BY <1>1, <1>2, <1>3 DEF PagesHold, PageHolds, Row
    <2> QED
      BY <1>1, <1>2, <2>1 DEF PagesHold
  <1>8. SentIsThere'
    <2> SUFFICES ASSUME step' = "mark"
                 PROVE  \A r \in Sent : r[3] \in accepted'[r[2]] /\ platform'[r[2]] = Last(SentOf(r[2]))[3]
      BY <1>2 DEF SentIsThere, Sent, SentOf
    <2> TAKE r \in Sent
    <2>1. r \in SentOf(r[2]) /\ r[2] \in Id
      BY <1>1, <1>3, SentOrdered, PagedIs DEF PushTypeOK
    <2>2. Arrive
      BY <1>2
    <2>3. platform'[r[2]] = Last(SentOf(r[2]))[3]
      BY <1>4, <2>1, <2>2
    <2>4. accepted'[r[2]] = accepted[r[2]] \cup {q[3] : q \in SentOf(r[2])}
      BY <1>4, <2>1, <2>2
    <2> QED
      BY <2>1, <2>3, <2>4
  <1>9. SyncedIsCurrent'
    <2> SUFFICES ASSUME NEW i \in Id \ reused, Clean(i)
                 PROVE  text[i] \in accepted'[i] /\ platform'[i] = text[i]
      BY <1>2 DEF SyncedIsCurrent, Clean
    <2>1. text[i] \in accepted[i] /\ platform[i] = text[i]
      BY <1>1 DEF SyncedIsCurrent
    <2>2. SentOf(i) = {}
      BY <1>1, <1>3, SentOrdered DEF PageHolds, Clean
    <2> QED
      BY <1>2, <1>4, <2>1, <2>2
  <1>10. ASSUME NEW i \in steady' PROVE SteadyOwed(i)'
    <2>1. i \in steady /\ SteadyOwed(i) /\ Cardinality(given) \in Nat
      BY <1>1, <1>2, <1>10, FS_CardinalityType DEF PushIInv, PushTypeOK
    <2> QED
      BY <1>1, <1>2, <2>1, PushCycleAssumption DEF SteadyOwed, Ahead
  <1> QED
    BY <1>6, <1>7, <1>8, <1>9, <1>10 DEF PushIInv

LEMMA MarkKeeps ==
    ASSUME PushIInv, MarkSynced
    PROVE  PushIInv'
  <1> DEFINE marked == {r[2] : r \in {x \in Sent : Marks(x)}}
  <1>1. PushTypeOK /\ NumbersAgree /\ PagesHold /\ SyncedIsCurrent /\ SentIsThere /\ step = "mark"
    BY DEF PushIInv, MarkSynced
  <1>2. /\ dirty' = dirty \ marked
        /\ UNCHANGED <<seq, text, blocked, copy, reused, page, got, steady, platform, accepted>>
    BY DEF MarkSynced, remote
  <1>3. \/ step' = "end" /\ UNCHANGED <<after, given>> /\ Cardinality(given) < LIMIT
        \/ /\ step' = "query" /\ given' = {} /\ ~(Cardinality(given) < LIMIT)
           /\ after' = <<Last(given)[1], Last(given)[2]>>
    BY DEF MarkSynced
  <1>4. PageHolds(given) /\ Ordered(given) /\ page = {} /\ Cardinality(given) \in Nat
    BY <1>1, FS_CardinalityType DEF PagesHold, PageHolds, PushTypeOK, Ordered
  <1>5. LIMIT \in Nat \ {0}
    BY PushCycleAssumption
  <1>6. ~(Cardinality(given) < LIMIT) =>
           /\ Last(given) \in Paged
           /\ \A q \in given : q = Last(given) \/ Before(q, Last(given))
           /\ \A q \in given : ~Before(Last(given), q)
    <2>1. given = {} => Cardinality(given) < LIMIT
      BY <1>5, FS_EmptySet
    <2> QED
      BY <1>4, <2>1, LastOf
  <1>7. \A i \in marked : \E r \in SentOf(i) : r \in Sent /\ seq[i] = r[1] /\ seq[i] > 0
    <2> SUFFICES ASSUME NEW r \in Sent, Marks(r)
                 PROVE  r \in SentOf(r[2]) /\ seq[r[2]] = r[1] /\ seq[r[2]] > 0
      OBVIOUS
    <2> QED
      BY DEF SentOf, Marks
  <1> HIDE DEF marked
  <1>8. PushTypeOK'
    <2>1. after' \in Nat \X (0..MAX_ID)
      <3>1. CASE UNCHANGED after
        BY <1>1, <3>1 DEF PushTypeOK
      <3>2. CASE after' = <<Last(given)[1], Last(given)[2]>> /\ Last(given) \in Paged
        BY <3>2, PagedIs, IdsCount
      <3> QED
        BY <1>3, <1>6, <3>1, <3>2
    <2>2. given' \subseteq Paged /\ IsFiniteSet(given')
      BY <1>1, <1>3, FS_EmptySet DEF PushTypeOK
    <2>3. dirty' \subseteq Id /\ step' \in {"query", "send", "mark", "end"}
      BY <1>1, <1>2, <1>3 DEF PushTypeOK
    <2> QED
      BY <1>1, <1>2, <2>1, <2>2, <2>3 DEF PushTypeOK
  <1>9. NumbersAgree'
    BY <1>1, <1>2 DEF NumbersAgree
  <1>10. PagesHold'
    <2>1. PageHolds(page)' /\ Cardinality(page') < LIMIT
      BY <1>2, <1>4, <1>5, FS_EmptySet DEF PageHolds
    <2> QED
      BY <1>2, <1>3, <1>4, <2>1 DEF PagesHold
  <1>11. SentIsThere'
    BY <1>3 DEF SentIsThere
  <1>12. SyncedIsCurrent'
    <2> SUFFICES ASSUME NEW i \in Id \ reused, seq[i] > 0, i \notin dirty'
                 PROVE  text[i] \in accepted[i] /\ platform[i] = text[i]
      BY <1>2 DEF SyncedIsCurrent, Clean
    <2>1. CASE i \notin dirty
      BY <1>1, <2>1 DEF SyncedIsCurrent, Clean
    <2>2. CASE i \in marked
      <3>1. PICK r \in SentOf(i) : r \in Sent /\ seq[i] = r[1]
        BY <1>7, <2>2
      <3> DEFINE l == Last(SentOf(i))
      <3>2. /\ r[2] = i /\ r \in given /\ r \in Paged
            /\ l \in given /\ l \in Paged /\ l[2] = i /\ (r = l \/ Before(r, l))
        BY <1>1, <1>4, <3>1, SentOrdered
      <3>3. r[3] \in accepted[i] /\ platform[i] = l[3]
        BY <1>1, <3>1, <3>2 DEF SentIsThere
      <3> HIDE DEF l
      <3>4. r[1] = r[3] /\ l[1] = l[3] /\ l[3] <= text[i]
        BY <1>4, <3>2 DEF PageHolds
      <3>5. seq[i] = text[i] /\ text[i] \in Nat /\ i \in Nat
        BY <1>1, IdsCount DEF NumbersAgree, PushTypeOK
      <3>6. l[1] \in Nat /\ r[1] \in Nat
        BY <3>2, PagedIs
      <3>7. ~Before(r, l)
        BY <3>1, <3>2, <3>4, <3>5, <3>6 DEF Before
      <3> QED
        BY <3>1, <3>2, <3>3, <3>4, <3>5, <3>7
    <2> QED
      BY <1>2, <2>1, <2>2
  <1>13. ASSUME NEW i \in steady' PROVE SteadyOwed(i)'
    <2>1. i \in steady /\ SteadyOwed(i) /\ i \in Id
      BY <1>1, <1>2, <1>13 DEF PushIInv, PushTypeOK
    <2>2. /\ i \notin blocked /\ got[i] \in {0, 1} /\ (got[i] = 0 => i \in dirty)
          /\ IF got[i] = 1 THEN Cardinality(given) >= LIMIT => ~Ahead(Last(given), i)
                           ELSE Cardinality(given) >= LIMIT /\ Ahead(Last(given), i)
      BY <1>1, <2>1 DEF SteadyOwed
    <2>3. ASSUME got[i] = 0 PROVE i \in dirty'
      <3> SUFFICES ASSUME i \in marked PROVE FALSE
        BY <1>2, <2>2, <2>3
      <3>1. PICK r \in SentOf(i) : TRUE
        BY <1>7
      <3>2. r \in given /\ r[2] = i
        BY <1>1, <1>4, SentOrdered
      <3>3. r = Row(i)
        BY <1>4, <2>1, <3>2 DEF PageHolds
      <3>4. ~(Cardinality(given) < LIMIT) /\ Ahead(Last(given), i)
        BY <1>4, <1>5, <2>2, <2>3
      <3>5. Before(Last(given), r)
        BY <3>3, <3>4 DEF Ahead, Before, Row
      <3> QED
        BY <1>6, <3>2, <3>4, <3>5
    <2>4. CASE step' = "end"
      BY <1>2, <1>3, <1>4, <1>5, <2>2, <2>4 DEF SteadyOwed
    <2>5. CASE step' = "query"
      <3>1. Ahead(after, i)' <=> Ahead(Last(given), i)
        BY <1>2, <1>3, <2>5 DEF Ahead, Before
      <3>2. Cardinality(given) >= LIMIT
        BY <1>3, <1>4, <1>5, <2>5
      <3>3. Row(i)' \notin page'
        BY <1>2, <1>4
      <3> QED
        BY <1>2, <2>2, <2>3, <2>5, <3>1, <3>2, <3>3 DEF SteadyOwed
    <2> QED
      BY <1>3, <2>4, <2>5
  <1> QED
    BY <1>8, <1>9, <1>10, <1>11, <1>12, <1>13 DEF PushIInv

-----------------------------------------------------------------------------
(* A new cycle, and the other calls *)

LEMMA BeginKeeps ==
    ASSUME NumbersAgree', SyncedIsCurrent', steady' = dirty' \ blocked', Begin,
           /\ seq' \in [Id -> Nat] /\ text' \in [Id -> Nat] /\ dirty' \subseteq Id /\ blocked' \subseteq Id
           /\ reused' \subseteq Id /\ copy' \in [Writer -> Copy]
           /\ platform' \in [Id -> Nat] /\ accepted' \in [Id -> SUBSET Nat]
    PROVE  PushIInv'
  <1>1. /\ after' = <<0, 0>> /\ page' = {} /\ given' = {} /\ got' = [i \in Id |-> 0] /\ step' = "query"
    BY DEF Begin
  <1>2. LIMIT \in Nat \ {0} /\ 0 \in 0..MAX_ID
    BY PushCycleAssumption
  <1>3. PushTypeOK'
    BY <1>1, <1>2, FS_EmptySet DEF PushTypeOK
  <1>4. PagesHold'
    BY <1>1, <1>2, FS_EmptySet DEF PagesHold, PageHolds
  <1>5. SentIsThere'
    BY <1>1 DEF SentIsThere
  <1>6. ASSUME NEW i \in steady' PROVE SteadyOwed(i)'
    <2>1. i \in dirty' /\ i \notin blocked' /\ i \in Id
      BY <1>6
    <2>2. seq'[i] > 0 /\ seq'[i] \in Nat
      BY <2>1 DEF NumbersAgree
    <2>3. Ahead(after, i)'
      BY <1>1, <2>2 DEF Ahead, Before
    <2> QED
      BY <1>1, <2>1, <2>3 DEF SteadyOwed
  <1> QED
    BY <1>3, <1>4, <1>5, <1>6 DEF PushIInv

LEMMA PushInitKeeps == PushInit => PushIInv
  <1> SUFFICES ASSUME PushInit PROVE PushIInv
    OBVIOUS
  <1>1. /\ after = <<0, 0>> /\ page = {} /\ given = {} /\ got = [i \in Id |-> 0] /\ step = "query"
        /\ seq = [i \in Id |-> 1] /\ text = [i \in Id |-> 1] /\ dirty = Id /\ blocked \in SUBSET Id
        /\ copy \in [Writer -> Copy] /\ reused = {} /\ steady = dirty \ blocked
        /\ platform = [i \in Id |-> 0] /\ accepted = [i \in Id |-> {}]
    BY DEF PushInit, Copy
  <1>2. LIMIT \in Nat \ {0} /\ 0 \in 0..MAX_ID
    BY PushCycleAssumption
  <1>3. PushTypeOK
    BY <1>1, <1>2, FS_EmptySet DEF PushTypeOK
  <1>4. PagesHold
    BY <1>1, <1>2, FS_EmptySet DEF PagesHold, PageHolds
  <1>5. NumbersAgree /\ SyncedIsCurrent /\ SentIsThere
    BY <1>1 DEF NumbersAgree, SyncedIsCurrent, Clean, SentIsThere
  <1>6. ASSUME NEW i \in steady PROVE SteadyOwed(i)
    <2>1. Ahead(after, i) /\ i \in Id /\ i \in dirty /\ i \notin blocked
      BY <1>1, <1>6 DEF Ahead, Before
    <2> QED
      BY <1>1, <2>1 DEF SteadyOwed
  <1> QED
    BY <1>3, <1>4, <1>5, <1>6 DEF PushIInv

LEMMA NewCycleKeeps ==
    ASSUME PushIInv, NewCycle
    PROVE  PushIInv'
  <1>1. PushTypeOK /\ NumbersAgree /\ SyncedIsCurrent
    BY DEF PushIInv
  <1>2. /\ Begin /\ steady' = dirty \ blocked
        /\ UNCHANGED <<seq, text, dirty, blocked, copy, reused, platform, accepted>>
    BY DEF NewCycle, rows, remote
  <1>3. NumbersAgree' /\ SyncedIsCurrent'
    BY <1>1, <1>2 DEF NumbersAgree, SyncedIsCurrent, Clean
  <1> QED
    BY <1>1, <1>2, <1>3, BeginKeeps DEF PushTypeOK

(* Another call touches one id: the pages and what nothing touched stay.    *)
LEMMA TouchKeeps ==
    ASSUME PushIInv, NEW i \in Id, Touch(i),
           PushTypeOK', NumbersAgree', SyncedIsCurrent',
           PageHolds(page)', PageHolds(given) => PageHolds(given)',
           \A j \in Id \ {i} : /\ seq'[j] = seq[j] /\ text'[j] = text[j]
                               /\ j \in dirty' <=> j \in dirty
                               /\ j \in blocked' <=> j \in blocked
    PROVE  PushIInv'
  <1>1. /\ PushTypeOK /\ PagesHold /\ SentIsThere
        /\ UNCHANGED <<after, page, given, got, step, platform, accepted>> /\ steady' = steady \ {i}
    BY DEF PushIInv, Touch, paging, remote
  <1>2. PagesHold'
    BY <1>1 DEF PagesHold
  <1>3. SentIsThere'
    BY <1>1 DEF SentIsThere, Sent, SentOf
  <1>4. ASSUME NEW j \in steady' PROVE SteadyOwed(j)'
    <2>1. j \in Id \ {i} /\ SteadyOwed(j)
      BY <1>1, <1>4 DEF PushTypeOK, PushIInv
    <2>2. seq'[j] = seq[j] /\ text'[j] = text[j] /\ (j \in dirty' <=> j \in dirty) /\ (j \in blocked' <=> j \in blocked)
      BY <2>1
    <2>3. Row(j)' = Row(j) /\ (Ahead(after, j)' <=> Ahead(after, j))
          /\ (Ahead(Last(given), j)' <=> Ahead(Last(given), j))
      BY <1>1, <2>2 DEF Row, Ahead
    <2> QED
      BY <1>1, <2>1, <2>2, <2>3 DEF SteadyOwed
  <1> QED
    BY <1>2, <1>3, <1>4 DEF PushIInv

(* A revision with a new number: the row's next one, or an id is excepted   *)
(* from here on.                                                            *)
LEMMA RenumberKeeps ==
    ASSUME PushIInv, NEW i \in Id, NEW n \in Nat, Renumber(i, n + 1), Touch(i), blocked' = blocked,
           copy' \in [Writer -> Copy],
           reused \subseteq reused', reused' \subseteq reused \cup {i}, n = seq[i] \/ i \in reused'
    PROVE  PushIInv'
  <1>1. PushTypeOK /\ NumbersAgree /\ SyncedIsCurrent /\ PagesHold
    BY DEF PushIInv
  <1>2. /\ seq' = [seq EXCEPT ![i] = n + 1] /\ text' = [text EXCEPT ![i] = @ + 1]
        /\ dirty' = dirty \cup {i} /\ steady' = steady \ {i} /\ Touch(i)
        /\ UNCHANGED <<blocked, after, page, given, got, step, platform, accepted>>
    BY DEF Renumber, Touch, paging, remote
  <1>3. /\ seq \in [Id -> Nat] /\ text \in [Id -> Nat]
        /\ seq'[i] = n + 1 /\ text'[i] = text[i] + 1
        /\ \A j \in Id \ {i} : seq'[j] = seq[j] /\ text'[j] = text[j]
    BY <1>1, <1>2 DEF PushTypeOK
  <1>4. PushTypeOK'
    <2>1. seq' \in [Id -> Nat] /\ text' \in [Id -> Nat]
      BY <1>2, <1>3
    <2> QED
      BY <1>1, <1>2, <2>1 DEF PushTypeOK
  <1>5. NumbersAgree'
    <2>1. \A j \in Id \ reused' : seq'[j] = text'[j] /\ seq'[j] > 0
      <3> TAKE j \in Id \ reused'
      <3> QED
        BY <1>1, <1>3 DEF NumbersAgree
    <2>2. \A j \in dirty' : seq'[j] > 0
      <3> TAKE j \in dirty'
      <3> QED
        BY <1>1, <1>2, <1>3 DEF NumbersAgree, PushTypeOK
    <2> QED
      BY <1>2, <2>1, <2>2 DEF NumbersAgree
  <1>6. SyncedIsCurrent'
    BY <1>1, <1>2, <1>3 DEF SyncedIsCurrent, Clean
  <1>7. ASSUME NEW S, S \subseteq Paged, PageHolds(S)
        PROVE  /\ \A q, r \in S : q[1] = r[1] /\ q[2] = r[2] => q = r
               /\ \A r \in S : r[2] \notin reused' => r[1] = r[3] /\ r[3] <= text'[r[2]] /\ r[2] \in dirty'
               /\ \A r \in S : r[2] \in steady' => r = <<seq'[r[2]], r[2], text'[r[2]]>>
    <2>1. \A q, r \in S : q[1] = r[1] /\ q[2] = r[2] => q = r
      BY <1>7 DEF PageHolds
    <2>2. ASSUME NEW r \in S, r[2] \notin reused'
          PROVE  r[1] = r[3] /\ r[3] <= text'[r[2]] /\ r[2] \in dirty'
      <3>1. r[2] \in Id /\ r[3] \in Nat /\ r[1] = r[3] /\ r[3] <= text[r[2]] /\ r[2] \in dirty
        BY <1>2, <1>7, <2>2, PagedIs DEF PageHolds
      <3>2. text[r[2]] \in Nat /\ (text'[r[2]] = text[r[2]] \/ text'[r[2]] = text[r[2]] + 1)
        BY <1>3, <3>1
      <3> QED
        BY <1>2, <3>1, <3>2
    <2>3. ASSUME NEW r \in S, r[2] \in steady'
          PROVE  r = <<seq'[r[2]], r[2], text'[r[2]]>>
      <3>1. r[2] \in Id \ {i} /\ r = Row(r[2])
        BY <1>2, <1>7, <2>3, PagedIs DEF PageHolds
      <3> QED
        BY <1>3, <3>1 DEF Row
    <2> QED
      BY <2>1, <2>2, <2>3
  <1>8. PageHolds(page)' /\ (PageHolds(given) => PageHolds(given)')
    BY <1>1, <1>2, <1>7 DEF PagesHold, PageHolds, Row, PushTypeOK
  <1> QED
    BY <1>2, <1>3, <1>4, <1>5, <1>6, <1>8, TouchKeeps

LEMMA EditKeeps ==
    ASSUME PushIInv, NEW i \in Id, Edit(i)
    PROVE  PushIInv'
  <1>1. seq[i] \in Nat /\ copy \in [Writer -> Copy]
    BY DEF PushIInv, PushTypeOK
  <1>2. Renumber(i, seq[i] + 1) /\ Touch(i) /\ UNCHANGED <<blocked, copy, reused>>
    BY DEF Edit
  <1> QED
    BY <1>1, <1>2, RenumberKeeps

LEMMA StoreReadKeeps ==
    ASSUME PushIInv, NEW w \in Writer, NEW i \in Id, StoreRead(w, i)
    PROVE  PushIInv'
  <1>1. <<i, seq[i]>> \in Copy /\ copy \in [Writer -> Copy]
    BY DEF PushIInv, PushTypeOK, Copy
  <1>2. /\ copy' = [copy EXCEPT ![w] = <<i, seq[i]>>]
        /\ UNCHANGED <<seq, text, dirty, blocked, reused, after, page, given, got, step, steady, platform, accepted>>
    BY DEF StoreRead, paging, remote
  <1>3. copy' \in [Writer -> Copy]
    BY <1>1, <1>2
  <1> QED
    BY <1>2, <1>3 DEF PushIInv, PushTypeOK, NumbersAgree, PagesHold, PageHolds, SentIsThere,
       SyncedIsCurrent, SteadyOwed, Ahead, Row, Clean, Sent, SentOf

LEMMA StoreWriteKeeps ==
    ASSUME PushIInv, NEW w \in Writer, StoreWrite(w)
    PROVE  PushIInv'
  <1> DEFINE i == copy[w][1]
             n == copy[w][2]
  <1>1. copy \in [Writer -> Copy] /\ i \in Id /\ n \in Nat
    BY DEF PushIInv, PushTypeOK, StoreWrite, Copy
  <1>2. /\ Renumber(i, n + 1) /\ Touch(i) /\ blocked' = blocked
        /\ reused' = (IF n = seq[i] THEN reused ELSE reused \cup {i})
        /\ copy' = [copy EXCEPT ![w] = NoCopy]
    BY DEF StoreWrite
  <1>3. copy' \in [Writer -> Copy]
    BY <1>1, <1>2 DEF Copy
  <1> HIDE DEF i, n
  <1> QED
    BY <1>1, <1>2, <1>3, RenumberKeeps

LEMMA ForgetKeeps ==
    ASSUME PushIInv, NEW i \in Id, Forget(i)
    PROVE  PushIInv'
  <1>1. PushTypeOK /\ NumbersAgree /\ SyncedIsCurrent /\ PagesHold
    BY DEF PushIInv
  <1>2. /\ seq' = [seq EXCEPT ![i] = 0] /\ dirty' = dirty \ {i} /\ reused' = reused \cup {i}
        /\ steady' = steady \ {i} /\ Touch(i)
        /\ UNCHANGED <<text, blocked, copy, after, page, given, got, step, platform, accepted>>
    BY DEF Forget, Touch, paging, remote
  <1>3. /\ seq \in [Id -> Nat] /\ seq'[i] = 0 /\ \A j \in Id \ {i} : seq'[j] = seq[j]
    BY <1>1, <1>2 DEF PushTypeOK
  <1>4. PushTypeOK'
    <2>1. seq' \in [Id -> Nat]
      BY <1>2, <1>3
    <2> QED
      BY <1>1, <1>2, <2>1 DEF PushTypeOK
  <1>5. NumbersAgree' /\ SyncedIsCurrent'
    BY <1>1, <1>2, <1>3 DEF NumbersAgree, SyncedIsCurrent, Clean, PushTypeOK
  <1>6. ASSUME NEW S, S \subseteq Paged, PageHolds(S)
        PROVE  /\ \A q, r \in S : q[1] = r[1] /\ q[2] = r[2] => q = r
               /\ \A r \in S : r[2] \notin reused' => r[1] = r[3] /\ r[3] <= text[r[2]] /\ r[2] \in dirty'
               /\ \A r \in S : r[2] \in steady' => r = <<seq'[r[2]], r[2], text[r[2]]>>
    <2>1. \A q, r \in S : q[1] = r[1] /\ q[2] = r[2] => q = r
      BY <1>6 DEF PageHolds
    <2>2. \A r \in S : r[2] \notin reused' => r[1] = r[3] /\ r[3] <= text[r[2]] /\ r[2] \in dirty'
      BY <1>2, <1>6 DEF PageHolds
    <2>3. ASSUME NEW r \in S, r[2] \in steady'
          PROVE  r = <<seq'[r[2]], r[2], text[r[2]]>>
      <3>1. r[2] \in Id \ {i} /\ r = Row(r[2])
        BY <1>2, <1>6, <2>3, PagedIs DEF PageHolds
      <3> QED
        BY <1>3, <3>1 DEF Row
    <2> QED
      BY <2>1, <2>2, <2>3
  <1>7. PageHolds(page)' /\ (PageHolds(given) => PageHolds(given)')
    BY <1>1, <1>2, <1>6 DEF PagesHold, PageHolds, Row, PushTypeOK
  <1> QED
    BY <1>2, <1>3, <1>4, <1>5, <1>7, TouchKeeps

LEMMA BlockKeeps ==
    ASSUME PushIInv, NEW i \in Id, Block(i)
    PROVE  PushIInv'
  <1>1. PushTypeOK /\ NumbersAgree /\ SyncedIsCurrent /\ PagesHold
    BY DEF PushIInv
  <1>2. /\ blocked' = (IF i \in blocked THEN blocked \ {i} ELSE blocked \cup {i})
        /\ steady' = steady \ {i} /\ Touch(i)
        /\ UNCHANGED <<seq, text, dirty, copy, reused, after, page, given, got, step, platform, accepted>>
    BY DEF Block, Touch, paging, remote
  <1>3. PushTypeOK'
    BY <1>1, <1>2 DEF PushTypeOK
  <1>4. NumbersAgree' /\ SyncedIsCurrent'
    BY <1>1, <1>2 DEF NumbersAgree, SyncedIsCurrent, Clean
  <1>5. PageHolds(page)' /\ (PageHolds(given) => PageHolds(given)')
    BY <1>1, <1>2 DEF PagesHold, PageHolds, Row
  <1> QED
    BY <1>2, <1>3, <1>4, <1>5, TouchKeeps

-----------------------------------------------------------------------------
(* The push cycle, for any rows, page size, and ids the client holds back:  *)
(* what is paged and not marked yet is a revision the row still has or had, *)
(* and each row nothing touched was given once and lies behind the paging,  *)
(* or lies before it.                                                       *)
THEOREM PushInvariance == PushSpec => []PushIInv
  <1>1. ASSUME PushIInv, [PushNext]_pushVars PROVE PushIInv'
    <2>1. CASE Query
      <3>1. CASE PageFull(Cut(Behind), page \cup Admitted(Cut(Behind)))
        BY <1>1, <2>1, <3>1, QueryGives
      <3>2. CASE ~PageFull(Cut(Behind), page \cup Admitted(Cut(Behind)))
        BY <1>1, <2>1, <3>2, QueryFills
      <3> QED
        BY <3>1, <3>2
    <2>2. CASE Send
      BY <1>1, <2>2, SendKeeps
    <2>3. CASE MarkSynced
      BY <1>1, <2>3, MarkKeeps
    <2>4. CASE NewCycle
      BY <1>1, <2>4, NewCycleKeeps
    <2>5. ASSUME NEW i \in Id, Edit(i) PROVE PushIInv'
      BY <1>1, <2>5, EditKeeps
    <2>6. ASSUME NEW i \in Id, Forget(i) PROVE PushIInv'
      BY <1>1, <2>6, ForgetKeeps
    <2>7. ASSUME NEW i \in Id, Block(i) PROVE PushIInv'
      BY <1>1, <2>7, BlockKeeps
    <2>9. ASSUME NEW w \in Writer, StoreWrite(w) PROVE PushIInv'
      BY <1>1, <2>9, StoreWriteKeeps
    <2>10. ASSUME NEW w \in Writer, NEW i \in Id, StoreRead(w, i) PROVE PushIInv'
      BY <1>1, <2>10, StoreReadKeeps
    <2>8. CASE UNCHANGED pushVars
      BY <1>1, <2>8 DEF pushVars, PushIInv, PushTypeOK, NumbersAgree, PagesHold, PageHolds, SentIsThere,
            SyncedIsCurrent, SteadyOwed, Ahead, Row, Clean, Sent, SentOf
    <2> QED
      BY <1>1, <2>1, <2>2, <2>3, <2>4, <2>5, <2>6, <2>7, <2>8, <2>9, <2>10 DEF PushNext, Cycle
  <1> QED
    BY <1>1, PushInitKeeps, PTL DEF PushSpec

(* CycleExact: a clean row is the one the platform accepted last, wherever  *)
(* an edit fell between the page, the send and the mark; and a cycle that   *)
(* was not cut short gave every row it owed once, whatever the ledger       *)
(* blocks, the client holds back and other calls write between its pages.   *)
THEOREM CycleIsExact == PushSpec => []CycleExact
  <1>1. PushIInv => CycleExact
    BY DEF PushIInv, CycleExact, EveryRowOnce, SteadyOwed
  <1> QED
    BY <1>1, PushInvariance, PTL
=============================================================================
