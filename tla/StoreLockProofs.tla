-------------------------- MODULE StoreLockProofs --------------------------
(***************************************************************************)
(* Proofs about StoreLock, for any number of processes, contexts and       *)
(* holds: the inductive invariant IInv, the safety properties that follow  *)
(* from it, and that StoreLock implements StoreAccess.                     *)
(***************************************************************************)
EXTENDS StoreLock, FiniteSetTheorems, TLAPS

(* A set of holds is finite; adding and removing a hold counts by one, and   *)
(* the count is zero exactly when the set is empty.                          *)
LEMMA Counting ==
    ASSUME NEW S \in SUBSET Hold
    PROVE  /\ Cardinality(S) \in Nat
           /\ Cardinality(S) = 0 <=> S = {}
           /\ \A x : x \notin S => Cardinality(S \cup {x}) = Cardinality(S) + 1
           /\ \A x \in S : Cardinality(S \ {x}) = Cardinality(S) - 1
  <1>1. IsFiniteSet(S)
    BY FS_Subset, StoreLockAssumption
  <1>2. Cardinality(S) \in Nat
    BY <1>1, FS_CardinalityType
  <1>3. Cardinality(S) = 0 <=> S = {}
    BY <1>1, FS_EmptySet
  <1>4. \A x : x \notin S => Cardinality(S \cup {x}) = Cardinality(S) + 1
    BY <1>1, FS_AddElement
  <1>5. \A x \in S : Cardinality(S \ {x}) = Cardinality(S) - 1
    BY <1>1, FS_RemoveElement
  <1> QED
    BY <1>2, <1>3, <1>4, <1>5

(* The process of a hold is a process. *)
LEMMA HoldProc == \A h \in Hold : P(h) \in Proc /\ HoldCtx[h] \in Ctx
  BY StoreLockAssumption DEF P

(* Init establishes the invariant. *)
LEMMA InitKeeps == Init => IInv
  <1> SUFFICES ASSUME Init PROVE IInv
    OBVIOUS
  <1>1. TypeOK
    BY StoreLockAssumption DEF Init, TypeOK, Lock
  <1>2. \A p \in Proc : Using(p) = {} /\ Sharing(p) = {} /\ Opening(p) = {}
    BY DEF Init, Using, Sharing, Opening
  <1>3. CountsRight /\ ExclusiveRight
    BY <1>2, FS_EmptySet, StoreLockAssumption DEF Init, CountsRight, ExclusiveRight
  <1>4. DescriptorKept
    BY <1>2 DEF Init, DescriptorKept
  <1>5. KernelTable /\ KernelBacksHolds /\ BeliefIsTruth
    BY DEF Init, KernelTable, KernelBacksHolds, BeliefIsTruth, Live
  <1>6. QueueSound /\ OwnedSound
    BY DEF Init, QueueSound, OwnedSound, Live
  <1> QED
    BY <1>1, <1>3, <1>4, <1>5, <1>6 DEF IInv

(***************************************************************************)
(* Pin: one more user.  When there was none, the counts it resets are      *)
(* already zero and the lock it drops is already gone.                     *)
(***************************************************************************)
LEMMA PinKeeps ==
    ASSUME IInv, NEW h \in Hold, Pin(h)
    PROVE  IInv'
  <1> DEFINE p == P(h)
  <1> USE DEF IInv
  <1>p. p \in Proc
    BY HoldProc
  <1>u. pc' = [pc EXCEPT ![h] = "pinned"] /\ pc[h] = "idle"
    BY DEF Pin
  <1>1. Live' = Live
    BY <1>u DEF Live, TypeOK
  <1>2. /\ \A q \in Proc : Sharing(q)' = Sharing(q) /\ Opening(q)' = Opening(q)
        /\ \A q \in Proc : q # p => Using(q)' = Using(q)
        /\ Using(p)' = Using(p) \cup {h} /\ h \notin Using(p)
    BY <1>u DEF Sharing, Opening, Using, TypeOK
  <1>3. users[p] = 0 => /\ \A g \in Hold : P(g) = p => pc[g] \notin {"pinned", "failed", "held"}
                        /\ Sharing(p) = {} /\ Opening(p) = {}
    <2>1. Using(p) \in SUBSET Hold
      BY DEF Using
    <2>2. users[p] = 0 => Using(p) = {}
      BY <1>p, <2>1, Counting DEF CountsRight
    <2> QED
      BY <2>2 DEF Using, Sharing, Opening
  <1>4. users[p] = 0 => shared[p] = 0 /\ opens[p] = 0 /\ exclusive[p] = NoHold
                        /\ kernel[p] = "UN" /\ klock[p] = "UN"
    <2>1. users[p] = 0 => shared[p] = 0 /\ opens[p] = 0
      BY <1>p, <1>3, FS_EmptySet DEF CountsRight
    <2>2. users[p] = 0 => exclusive[p] = NoHold
      BY <1>p, <1>3 DEF ExclusiveRight, TypeOK
    <2>3. users[p] = 0 => klock[p] = "UN"
      BY <1>p, <1>3 DEF KernelBacksHolds, Live
    <2> QED
      BY <2>1, <2>2, <2>3 DEF BeliefIsTruth
  <1>5. UNCHANGED <<shared, opens, exclusive, kernel, klock, owned, queue, leased>>
    BY <1>4, <1>p DEF Pin, TypeOK
  <1>6. TypeOK'
    BY <1>5, <1>p DEF Pin, TypeOK
  <1>7. CountsRight' /\ ExclusiveRight'
    <2>1. users'[p] = Cardinality(Using(p)')
      <3>1. Using(p) \in SUBSET Hold
        BY DEF Using
      <3>2. Cardinality(Using(p) \cup {h}) = Cardinality(Using(p)) + 1
        BY <3>1, <1>2, Counting
      <3>3. users'[p] = users[p] + 1
        BY <1>p DEF Pin, TypeOK
      <3> QED
        BY <1>2, <1>p, <3>2, <3>3 DEF CountsRight
    <2>2. \A q \in Proc : users'[q] = Cardinality(Using(q)')
      BY <1>2, <1>p, <2>1 DEF Pin, TypeOK, CountsRight
    <2>3. \A q \in Proc, g \in Hold :
             exclusive'[q] = g <=> P(g) = q /\ pc'[g] = "held" /\ IsExcl(g)
      BY <1>u, <1>5 DEF ExclusiveRight, TypeOK
    <2> QED
      BY <2>2, <2>3, <1>2, <1>5 DEF CountsRight, ExclusiveRight, P, IsExcl
  <1>8. DescriptorKept'
    <2>1. \A q \in Proc \ {p} : Using(q)' = Using(q) /\ fdOpen'[q] = fdOpen[q]
      BY <1>2, <1>p DEF Pin, TypeOK
    <2>2. fdOpen'[p] /\ ~leased'[p]
      <3>1. fdOpen'[p]
        BY <1>p DEF Pin, TypeOK
      <3>2. Using(p) = {} => users[p] = 0
        BY <1>p, FS_EmptySet DEF CountsRight
      <3>3. ~leased[p]
        BY <3>2, <1>p DEF Pin, DescriptorKept
      <3> QED
        BY <3>1, <3>3, <1>5
    <2> QED
      BY <2>1, <2>2, <1>5 DEF DescriptorKept
  <1>9. KernelTable' /\ BeliefIsTruth' /\ KernelBacksHolds'
    BY <1>1, <1>5 DEF KernelTable, BeliefIsTruth, KernelBacksHolds, P, IsExcl
  <1>10. QueueSound' /\ OwnedSound'
    <2>1. \A g \in Hold : pc[g] \in {"held", "closed"} => pc'[g] = pc[g]
      BY <1>u DEF TypeOK
    <2> QED
      BY <2>1, <1>1, <1>5 DEF QueueSound, OwnedSound, P, TypeOK
  <1> QED
    BY <1>6, <1>7, <1>8, <1>9, <1>10

(***************************************************************************)
(* Acquire: the hold becomes live.  CanTake is what keeps the kernel's     *)
(* table free of conflicts and a quiescing op among its own.               *)
(***************************************************************************)
LEMMA AcquireKeeps ==
    ASSUME IInv, NEW h \in Hold, Acquire(h)
    PROVE  IInv'
  <1> DEFINE p == P(h)
  <1> USE DEF IInv
  <1>p. p \in Proc /\ HoldCtx[h] \in Ctx /\ CtxProc[HoldCtx[h]] = p
    BY HoldProc DEF P
  <1>u. pc' = [pc EXCEPT ![h] = "held"] /\ pc[h] = "pinned" /\ CanTake(h)
    BY DEF Acquire
  <1>1. Live' = Live \cup {h} /\ h \notin Live
    BY <1>u DEF Live, TypeOK
  <1>2. \A q \in Proc : Using(q)' = Using(q)
    BY <1>u DEF Using, TypeOK
  <1>3. UNCHANGED <<queue, fdOpen, users, leased>>
    BY DEF Acquire
  <1>4. /\ \A q \in Proc : q # p => Sharing(q)' = Sharing(q) /\ Opening(q)' = Opening(q)
        /\ Sharing(p)' = IF IsExcl(h) THEN Sharing(p) ELSE Sharing(p) \cup {h}
        /\ Opening(p)' = IF HoldOp[h] = "open" THEN Opening(p) \cup {h} ELSE Opening(p)
        /\ h \notin Sharing(p) /\ h \notin Opening(p)
    BY <1>u DEF Sharing, Opening, TypeOK, IsExcl
  <1>5. HoldOp[h] = "open" => ~IsExcl(h)
    BY DEF IsExcl, Shared
  <1>6. TypeOK'
    BY <1>p DEF Acquire, TypeOK, Lock, Wanted
  <1>7. CountsRight' /\ ExclusiveRight'
    <2>1. Sharing(p) \in SUBSET Hold /\ Opening(p) \in SUBSET Hold
      BY DEF Sharing, Opening
    <2>2. /\ Cardinality(Sharing(p) \cup {h}) = Cardinality(Sharing(p)) + 1
          /\ Cardinality(Opening(p) \cup {h}) = Cardinality(Opening(p)) + 1
      BY <2>1, <1>4, Counting
    <2>3. shared'[p] = Cardinality(Sharing(p)')
      BY <2>2, <1>4, <1>p DEF Acquire, TypeOK, CountsRight
    <2>4. opens'[p] = Cardinality(Opening(p)')
      BY <2>2, <1>4, <1>5, <1>p DEF Acquire, TypeOK, CountsRight
    <2>5. \A q \in Proc \ {p} : shared'[q] = shared[q] /\ opens'[q] = opens[q]
      BY <1>p DEF Acquire, TypeOK
    <2>6. IsExcl(h) => exclusive[p] = NoHold
      BY <1>u DEF CanTake, Blocked
    <2>7. \A q \in Proc, g \in Hold :
             exclusive'[q] = g <=> P(g) = q /\ pc'[g] = "held" /\ IsExcl(g)
      <3> SUFFICES ASSUME NEW q \in Proc, NEW g \in Hold
                   PROVE exclusive'[q] = g <=> P(g) = q /\ pc'[g] = "held" /\ IsExcl(g)
        OBVIOUS
      <3>1. CASE IsExcl(h)
        BY <3>1, <2>6, <1>u, <1>p, StoreLockAssumption DEF ExclusiveRight, TypeOK, Acquire
      <3>2. CASE ~IsExcl(h)
        BY <3>2, <1>u, <1>p DEF ExclusiveRight, TypeOK, Acquire
      <3> QED
        BY <3>1, <3>2
    <2> QED
      BY <2>3, <2>4, <2>5, <2>7, <1>2, <1>3, <1>4 DEF CountsRight, ExclusiveRight, P, IsExcl
  <1>8. DescriptorKept'
    BY <1>2, <1>3 DEF DescriptorKept
  <1>9. KernelTable' /\ BeliefIsTruth'
    <2>1. CASE NeedsKernel(h)
      <3>1. /\ klock' = [klock EXCEPT ![p] = Wanted(h)]
            /\ kernel' = [kernel EXCEPT ![p] = Wanted(h)]
            /\ KernelGrants(p, Wanted(h))
        BY <2>1, <1>u DEF Acquire, CanTake
      <3>2. BeliefIsTruth'
        BY <3>1 DEF BeliefIsTruth
      <3>3. Wanted(h) \in {"RD", "WR"}
        BY DEF Wanted
      <3>4. KernelTable'
        BY <3>1, <3>3, <1>p DEF TypeOK, Lock, KernelTable, KernelGrants
      <3> QED
        BY <3>2, <3>4
    <2>2. CASE ~NeedsKernel(h)
      BY <2>2 DEF Acquire, KernelTable, BeliefIsTruth
    <2> QED
      BY <2>1, <2>2
  <1>10. KernelBacksHolds'
    <2> SUFFICES ASSUME NEW q \in Proc
                 PROVE  klock'[q] = IF \E g \in Live' : P(g) = q /\ IsExcl(g) THEN "WR"
                                    ELSE IF \E g \in Live' : P(g) = q THEN "RD" ELSE "UN"
      BY DEF KernelBacksHolds, P, IsExcl
    <2>0. klock[q] = IF \E g \in Live : P(g) = q /\ IsExcl(g) THEN "WR"
                     ELSE IF \E g \in Live : P(g) = q THEN "RD" ELSE "UN"
      BY DEF KernelBacksHolds
    <2>1. CASE q # p
      BY <2>0, <2>1, <1>1, <1>p DEF Acquire, TypeOK
    <2>2. CASE q = p /\ IsExcl(h)
      BY <2>2, <1>1, <1>p DEF Acquire, TypeOK, NeedsKernel, Wanted
    <2>3. CASE q = p /\ ~IsExcl(h)
      <3>1. CASE NeedsKernel(h)
        <4>1. klock'[p] = "RD"
          BY <2>3, <3>1, <1>p DEF Acquire, TypeOK, Wanted
        <4>2. klock[p] = "UN"
          BY <2>3, <3>1, <1>p DEF NeedsKernel, BeliefIsTruth
        <4>3. \A g \in Live : P(g) # p
          BY <4>2, <2>0, <2>3
        <4> QED
          BY <4>1, <4>3, <2>3, <1>1
      <3>2. CASE ~NeedsKernel(h)
        <4>1. klock'[p] = klock[p] /\ klock[p] # "UN"
          BY <2>3, <3>2, <1>p DEF Acquire, NeedsKernel, BeliefIsTruth
        <4> QED
          BY <4>1, <2>0, <2>3, <1>1
      <3> QED
        BY <3>1, <3>2
    <2> QED
      BY <2>1, <2>2, <2>3
  <1>11. QueueSound'
    BY <1>u, <1>3 DEF QueueSound, TypeOK
  <1>12. OwnedSound'
    <2>1. \A c \in Ctx : owned'[c] = IF c = HoldCtx[h] /\ HoldOp[h] # "serve"
                                    THEN owned[c] \cup {h} ELSE owned[c]
      BY <1>p DEF Acquire, TypeOK
    <2>2. \A c \in Ctx : \A g \in owned'[c] :
             pc'[g] = "held" /\ P(g) = CtxProc[c] /\ HoldOp[g] # "serve"
      <3> SUFFICES ASSUME NEW c \in Ctx, NEW g \in owned'[c]
                   PROVE  pc'[g] = "held" /\ P(g) = CtxProc[c] /\ HoldOp[g] # "serve"
        OBVIOUS
      <3>1. CASE g \in owned[c]
        BY <3>1, <1>u DEF OwnedSound, TypeOK
      <3>2. CASE g \notin owned[c]
        BY <3>2, <2>1, <1>u, <1>p DEF TypeOK
      <3> QED
        BY <3>1, <3>2
    <2>3. \A g \in Live' : HoldOp[g] # "serve" => g \in owned'[HoldCtx[g]]
      BY <2>1, <1>1, <1>p, HoldProc DEF OwnedSound, Live
    <2>4. ASSUME NEW g \in Live', NEW c \in Ctx, HoldOp[g] \in Quiescing,
                 CtxProc[c] = P(g), owned'[c] # {}
          PROVE  g \in owned'[c]
      <3>0. Quiescing \cap Shared = {} /\ "serve" \notin Quiescing
        BY DEF Quiescing, Shared
      <3>1. CASE g = h
        <4>1. exclusive[p] = NoHold /\ opens[p] = 0
          BY <3>1, <2>4, <3>0, <1>u, <1>p DEF CanTake, Blocked, IsExcl, TypeOK
        <4>2. Opening(p) = {}
          <5>1. Opening(p) \in SUBSET Hold
            BY DEF Opening
          <5> QED
            BY <5>1, <4>1, <1>p, Counting DEF CountsRight
        <4>3. \A x \in Hold : P(x) = p /\ pc[x] = "held" => HoldOp[x] = "serve"
          BY <4>1, <4>2, <1>p, StoreLockAssumption DEF ExclusiveRight, Opening, IsExcl, Shared
        <4>4. owned[c] = {}
          BY <4>3, <2>4, <3>1 DEF OwnedSound, TypeOK
        <4> QED
          BY <4>4, <2>1, <2>4, <3>1
      <3>2. CASE g # h
        <4>1. g \in Live /\ IsExcl(g) /\ g \in Hold
          BY <3>2, <1>1, <2>4, <3>0 DEF IsExcl, Live
        <4>2. CASE owned[c] # {}
          BY <4>1, <4>2, <2>1, <2>4 DEF OwnedSound
        <4>3. CASE owned[c] = {}
          <5>0. c = HoldCtx[h]
            BY <4>3, <2>1, <2>4
          <5>1. exclusive[p] = g
            BY <5>0, <4>1, <2>4, <1>p DEF ExclusiveRight, Live
          <5> QED
            BY <5>0, <5>1, <4>3, <4>1, <1>u, <2>4, StoreLockAssumption DEF CanTake, Blocked
        <4> QED
          BY <4>2, <4>3
      <3> QED
        BY <3>1, <3>2
    <2> QED
      BY <2>2, <2>3, <2>4 DEF OwnedSound, P
  <1> QED
    BY <1>6, <1>7, <1>8, <1>9, <1>10, <1>11, <1>12

(***************************************************************************)
(* A step of a call that leaves every hold's liveness and ownership and    *)
(* the kernel's table alone: only the descriptor and the users count have  *)
(* to be looked at.                                                        *)
(***************************************************************************)
LEMMA QuietKeeps ==
    ASSUME IInv, TypeOK',
           Live' = Live,
           UNCHANGED <<owned, shared, opens, exclusive, kernel, klock>>,
           \A h \in queue' : pc'[h] \in {"held", "closed"},
           \A p \in Proc : users'[p] = Cardinality(Using(p)'),
           DescriptorKept'
    PROVE  IInv'
  <1> USE DEF IInv
  <1>1. \A h \in Hold : pc'[h] = "held" <=> pc[h] = "held"
    BY DEF Live
  <1>2. \A p \in Proc : Sharing(p)' = Sharing(p) /\ Opening(p)' = Opening(p)
    BY <1>1 DEF Sharing, Opening
  <1>3. CountsRight'
    BY <1>2 DEF CountsRight
  <1>4. ExclusiveRight'
    BY <1>1 DEF ExclusiveRight, P, IsExcl
  <1>5. KernelTable' /\ BeliefIsTruth' /\ KernelBacksHolds'
    BY DEF KernelTable, BeliefIsTruth, KernelBacksHolds, P, IsExcl
  <1>6. QueueSound'
    BY DEF QueueSound
  <1>7. OwnedSound'
    <2>1. \A c \in Ctx : owned[c] \subseteq Hold
      BY DEF TypeOK
    <2> QED
      BY <1>1, <2>1 DEF OwnedSound, P
  <1> QED
    BY <1>3, <1>4, <1>5, <1>6, <1>7

LEMMA FailKeeps ==
    ASSUME IInv, NEW h \in Hold, Fail(h)
    PROVE  IInv'
  <1>u. /\ pc' = [pc EXCEPT ![h] = "failed"] /\ pc[h] = "pinned"
        /\ UNCHANGED <<queue, owned, fdOpen, users, shared, opens, exclusive, kernel, klock, leased>>
    BY DEF Fail, file
  <1>1. TypeOK' /\ Live' = Live
    BY <1>u DEF IInv, TypeOK, Live
  <1>2. \A q \in Proc : Using(q)' = Using(q)
    BY <1>u DEF IInv, TypeOK, Using
  <1>3. \A q \in Proc : users'[q] = Cardinality(Using(q)')
    BY <1>2, <1>u DEF IInv, CountsRight
  <1>4. DescriptorKept'
    BY <1>2, <1>u DEF IInv, DescriptorKept
  <1>5. \A g \in queue' : pc'[g] \in {"held", "closed"}
    BY <1>u DEF IInv, QueueSound, TypeOK
  <1> QED
    BY <1>u, <1>1, <1>3, <1>4, <1>5, QuietKeeps

LEMMA UnpinKeeps ==
    ASSUME IInv, NEW h \in Hold, Unpin(h)
    PROVE  IInv'
  <1> DEFINE p == P(h)
  <1>p. p \in Proc
    BY HoldProc
  <1>u. /\ pc' = [pc EXCEPT ![h] = "unpinned"] /\ pc[h] = "failed"
        /\ users' = [users EXCEPT ![p] = @ - 1]
        /\ UNCHANGED <<queue, owned, fdOpen, shared, opens, exclusive, kernel, klock, leased>>
    BY DEF Unpin
  <1>2. /\ \A q \in Proc : q # p => Using(q)' = Using(q)
        /\ Using(p)' = Using(p) \ {h} /\ h \in Using(p)
    BY <1>u DEF IInv, TypeOK, Using
  <1>3. /\ users[p] = Cardinality(Using(p)) /\ users[p] # 0
        /\ users[p] - 1 = Cardinality(Using(p)')
    <2>1. Using(p) \in SUBSET Hold
      BY DEF Using
    <2> QED
      BY <2>1, <1>2, <1>p, Counting DEF IInv, CountsRight
  <1>1. TypeOK' /\ Live' = Live
    BY <1>u, <1>p, <1>3 DEF IInv, TypeOK, Live
  <1>4. \A q \in Proc : users'[q] = Cardinality(Using(q)')
    BY <1>2, <1>3, <1>p, <1>u DEF IInv, CountsRight, TypeOK
  <1>5. DescriptorKept'
    BY <1>2, <1>u DEF IInv, DescriptorKept
  <1>6. \A g \in queue' : pc'[g] \in {"held", "closed"}
    BY <1>u DEF IInv, QueueSound, TypeOK
  <1> QED
    BY <1>u, <1>1, <1>4, <1>5, <1>6, QuietKeeps

(* The sweep closes a descriptor only when no hold uses it, and then the     *)
(* process has no lock to lose.                                              *)
LEMMA FinishReleaseKeeps ==
    ASSUME IInv, NEW h \in Hold, FinishRelease(h)
    PROVE  IInv'
  <1> DEFINE p == P(h)
  <1>p. p \in Proc
    BY HoldProc
  <1>u. /\ pc[h] \in {"sweeping", "unpinned"}
        /\ pc' = [pc EXCEPT ![h] = "idle"] \/ pc' = [pc EXCEPT ![h] = "closed"]
        /\ Sweep(p)
        /\ UNCHANGED <<queue, owned, users, shared, opens, exclusive, leased>>
    BY DEF FinishRelease
  <1>2. \A q \in Proc : Using(q)' = Using(q)
    BY <1>u DEF IInv, TypeOK, Using
  <1>3. users[p] = 0 => Using(p) = {} /\ klock[p] = "UN" /\ kernel[p] = "UN"
    <2>1. Using(p) \in SUBSET Hold
      BY DEF Using
    <2>2. users[p] = 0 => Using(p) = {}
      BY <2>1, <1>p, Counting DEF IInv, CountsRight
    <2>3. Using(p) = {} => klock[p] = "UN"
      BY <1>p DEF IInv, KernelBacksHolds, Live, Using
    <2> QED
      BY <2>2, <2>3 DEF IInv, BeliefIsTruth
  <1>4. kernel' = kernel /\ klock' = klock
    BY <1>3, <1>u, <1>p DEF Sweep, IInv, TypeOK
  <1>1. TypeOK' /\ Live' = Live
    BY <1>u, <1>p, <1>4 DEF IInv, TypeOK, Live, Sweep
  <1>5. \A q \in Proc : users'[q] = Cardinality(Using(q)')
    BY <1>2, <1>u DEF IInv, CountsRight
  <1>6. DescriptorKept'
    BY <1>2, <1>3, <1>u, <1>p DEF IInv, DescriptorKept, Sweep, TypeOK
  <1>7. \A g \in queue' : pc'[g] \in {"held", "closed"}
    BY <1>u DEF IInv, QueueSound, TypeOK
  <1> QED
    BY <1>u, <1>1, <1>4, <1>5, <1>6, <1>7, QuietKeeps

LEMMA ReleaseSoonKeeps ==
    ASSUME IInv, NEW h \in Hold, ReleaseSoon(h)
    PROVE  IInv'
  <1>u. /\ pc[h] \in {"held", "closed"} /\ queue' = queue \cup {h}
        /\ UNCHANGED <<pc, owned, fdOpen, users, shared, opens, exclusive, kernel, klock, leased>>
    BY DEF ReleaseSoon, file
  <1>1. TypeOK' /\ Live' = Live
    BY <1>u DEF IInv, TypeOK, Live
  <1>2. \A q \in Proc : Using(q)' = Using(q)
    BY <1>u DEF Using
  <1>3. \A q \in Proc : users'[q] = Cardinality(Using(q)')
    BY <1>2, <1>u DEF IInv, CountsRight
  <1>4. DescriptorKept'
    BY <1>2, <1>u DEF IInv, DescriptorKept
  <1>5. \A g \in queue' : pc'[g] \in {"held", "closed"}
    BY <1>u DEF IInv, QueueSound
  <1> QED
    BY <1>u, <1>1, <1>3, <1>4, <1>5, QuietKeeps

(***************************************************************************)
(* The release of a live hold, by close() or by the finalizer's drain.     *)
(* The kernel lock becomes what the remaining holds need: this is where    *)
(* the conversion must be granted.                                         *)
(***************************************************************************)
LEMMA ReleaseKeeps ==
    ASSUME IInv, NEW h \in Hold, NEW s \in {"sweeping", "idle"},
           pc[h] = "held", pc' = [pc EXCEPT ![h] = s],
           ReleaseLocked(h), queue' = queue \ {h},
           UNCHANGED <<fdOpen, leased>>
    PROVE  IInv'
  <1> DEFINE p == P(h)
             wasEx == exclusive[p] = h
             ex == IF wasEx THEN NoHold ELSE exclusive[p]
             sh == IF wasEx THEN shared[p] ELSE shared[p] - 1
             t == Target(p, ex, sh)
  <1> USE DEF IInv
  <1>p. p \in Proc /\ HoldCtx[h] \in Ctx /\ CtxProc[HoldCtx[h]] = p
    BY HoldProc DEF P
  <1>u. /\ exclusive' = [exclusive EXCEPT ![p] = ex]
        /\ shared' = [shared EXCEPT ![p] = sh]
        /\ opens' = IF ~wasEx /\ HoldOp[h] = "open" THEN [opens EXCEPT ![p] = @ - 1] ELSE opens
        /\ users' = [users EXCEPT ![p] = @ - 1]
        /\ owned' = [c \in Ctx |-> owned[c] \ {h}]
    BY DEF ReleaseLocked
  <1>k. IF t # kernel[p] /\ KernelGrants(p, t)
        THEN /\ kernel' = [kernel EXCEPT ![p] = t]
             /\ klock' = [klock EXCEPT ![p] = t]
        ELSE UNCHANGED <<kernel, klock>>
    BY DEF ReleaseLocked
  <1>x. wasEx <=> IsExcl(h)
    BY <1>p DEF ExclusiveRight
  <1>o. HoldOp[h] = "open" => ~IsExcl(h)
    BY DEF IsExcl, Shared
  <1>h. \A g \in Hold : pc'[g] = "held" <=> pc[g] = "held" /\ g # h
    BY DEF TypeOK
  <1>1. Live' = Live \ {h} /\ h \in Live
    BY <1>h DEF Live
  <1>2. /\ \A q \in Proc : q # p => /\ Using(q)' = Using(q)
                                     /\ Sharing(q)' = Sharing(q)
                                     /\ Opening(q)' = Opening(q)
        /\ Using(p)' = Using(p) \ {h} /\ h \in Using(p)
        /\ Sharing(p)' = (IF wasEx THEN Sharing(p) ELSE Sharing(p) \ {h})
        /\ Opening(p)' = (IF HoldOp[h] = "open" THEN Opening(p) \ {h} ELSE Opening(p))
    <2>1. \A g \in Hold : pc'[g] \in {"pinned", "failed", "held"}
                            <=> pc[g] \in {"pinned", "failed", "held"} /\ g # h
      BY DEF TypeOK
    <2>2. /\ \A q \in Proc : q # p => Using(q)' = Using(q)
          /\ Using(p)' = Using(p) \ {h} /\ h \in Using(p)
      BY <2>1 DEF Using
    <2>3. /\ \A q \in Proc : q # p => Sharing(q)' = Sharing(q)
          /\ Sharing(p)' = (IF wasEx THEN Sharing(p) ELSE Sharing(p) \ {h})
      BY <1>h, <1>x DEF Sharing
    <2>4. /\ \A q \in Proc : q # p => Opening(q)' = Opening(q)
          /\ Opening(p)' = (IF HoldOp[h] = "open" THEN Opening(p) \ {h} ELSE Opening(p))
      BY <1>h DEF Opening
    <2> QED
      BY <2>2, <2>3, <2>4
  <1>3. /\ users[p] - 1 = Cardinality(Using(p)') /\ users[p] - 1 \in Nat
        /\ sh = Cardinality(Sharing(p)') /\ sh \in Nat
        /\ opens'[p] = Cardinality(Opening(p)') /\ opens'[p] \in Nat
    <2>1. /\ Using(p) \in SUBSET Hold /\ Sharing(p) \in SUBSET Hold /\ Opening(p) \in SUBSET Hold
          /\ Using(p)' \in SUBSET Hold /\ Sharing(p)' \in SUBSET Hold /\ Opening(p)' \in SUBSET Hold
      BY DEF Using, Sharing, Opening
    <2>2. users[p] - 1 = Cardinality(Using(p)') /\ users[p] - 1 \in Nat
      BY <2>1, <1>2, <1>p, Counting DEF CountsRight
    <2>3. sh = Cardinality(Sharing(p)') /\ sh \in Nat
      <3>1. ~wasEx => h \in Sharing(p)
        BY <1>x DEF Sharing
      <3> QED
        BY <3>1, <2>1, <1>2, <1>p, Counting DEF CountsRight
    <2>4. opens'[p] = Cardinality(Opening(p)') /\ opens'[p] \in Nat
      <3>1. CASE HoldOp[h] = "open"
        <4>1. h \in Opening(p) /\ ~wasEx
          BY <3>1, <1>x, <1>o DEF Opening
        <4>2. opens'[p] = opens[p] - 1
          BY <3>1, <4>1, <1>u, <1>p DEF TypeOK
        <4> QED
          BY <3>1, <4>1, <4>2, <2>1, <1>2, <1>p, Counting DEF CountsRight
      <3>2. CASE HoldOp[h] # "open"
        BY <3>2, <2>1, <1>2, <1>u, <1>p, Counting DEF CountsRight
      <3> QED
        BY <3>1, <3>2
    <2> QED
      BY <2>2, <2>3, <2>4
  <1>4. CountsRight'
    BY <1>2, <1>3, <1>u, <1>p DEF CountsRight, TypeOK
  <1>5. ExclusiveRight'
    <2>1. \A q \in Proc, g \in Hold :
             exclusive'[q] = g <=> exclusive[q] = g /\ g # h
      BY <1>u, <1>p, <1>x, StoreLockAssumption DEF ExclusiveRight, TypeOK
    <2> QED
      BY <2>1, <1>h DEF ExclusiveRight, P, IsExcl
  <1>6. DescriptorKept'
    BY <1>2 DEF DescriptorKept
  <1>7. t = IF \E g \in Live' : P(g) = p /\ IsExcl(g) THEN "WR"
            ELSE IF \E g \in Live' : P(g) = p THEN "RD" ELSE "UN"
    <2>1. ex # NoHold <=> \E g \in Live' : P(g) = p /\ IsExcl(g)
      <3>1. ex # NoHold => ex \in Hold /\ ex # h /\ exclusive[p] = ex
        BY <1>p DEF TypeOK
      <3>2. ex # NoHold => \E g \in Live' : P(g) = p /\ IsExcl(g)
        BY <3>1, <1>1, <1>p DEF ExclusiveRight, Live
      <3>3. ASSUME NEW g \in Live', P(g) = p, IsExcl(g) PROVE ex # NoHold
        <4>1. g \in Hold /\ g # h /\ exclusive[p] = g
          BY <3>3, <1>1, <1>p DEF ExclusiveRight, Live
        <4> QED
          BY <4>1, StoreLockAssumption
      <3> QED
        BY <3>2, <3>3
    <2>2. sh > 0 <=> Sharing(p)' # {}
      <3>1. Sharing(p)' \in SUBSET Hold
        BY DEF Sharing
      <3>2. Cardinality(Sharing(p)') = 0 <=> Sharing(p)' = {}
        BY <3>1, Counting
      <3> QED
        BY <3>2, <1>3
    <2>3. Sharing(p)' # {} <=> \E g \in Live' : P(g) = p /\ ~IsExcl(g)
      BY DEF Sharing, Live, P, IsExcl
    <2> QED
      BY <2>1, <2>2, <2>3 DEF Target
  <1>8. t = kernel[p] \/ KernelGrants(p, t)
    <2>0. klock[p] = IF \E g \in Live : P(g) = p /\ IsExcl(g) THEN "WR"
                     ELSE IF \E g \in Live : P(g) = p THEN "RD" ELSE "UN"
      BY <1>p DEF KernelBacksHolds
    <2>1. t = "UN" \/ t = "RD" \/ t = "WR"
      BY DEF Target
    <2>2. t = "WR" => klock[p] = "WR"
      BY <1>7, <2>0, <1>1
    <2>3. t = "RD" => \A q \in Proc \ {p} : klock[q] # "WR"
      <3>1. klock[p] # "UN"
        BY <2>0, <1>1
      <3> QED
        BY <3>1, <1>p DEF KernelTable
    <2> QED
      BY <2>1, <2>2, <2>3 DEF KernelGrants, BeliefIsTruth
  <1>9. /\ kernel' = [kernel EXCEPT ![p] = t]
        /\ klock' = [klock EXCEPT ![p] = t]
    BY <1>k, <1>8, <1>p DEF TypeOK, BeliefIsTruth
  <1>10. BeliefIsTruth' /\ KernelTable' /\ KernelBacksHolds'
    <2>1. BeliefIsTruth'
      BY <1>9 DEF BeliefIsTruth
    <2>2. KernelBacksHolds'
      <3> SUFFICES ASSUME NEW q \in Proc
                   PROVE  klock'[q] = IF \E g \in Live' : P(g) = q /\ IsExcl(g) THEN "WR"
                                      ELSE IF \E g \in Live' : P(g) = q THEN "RD" ELSE "UN"
        BY DEF KernelBacksHolds, P, IsExcl
      <3>1. CASE q = p
        BY <3>1, <1>7, <1>9, <1>p DEF TypeOK
      <3>2. CASE q # p
        <4>1. klock'[q] = klock[q]
          BY <3>2, <1>9 DEF TypeOK
        <4> QED
          BY <4>1, <3>2, <1>1 DEF KernelBacksHolds
      <3> QED
        BY <3>1, <3>2
    <2>3. KernelTable'
      <3>1. t = "WR" => klock[p] = "WR"
        BY <1>7, <1>1, <1>p DEF KernelBacksHolds
      <3>2. t = "RD" => klock[p] # "UN"
        BY <1>1, <1>p DEF KernelBacksHolds
      <3> QED
        BY <3>1, <3>2, <1>9, <1>p DEF KernelTable, TypeOK, Target
    <2> QED
      BY <2>1, <2>2, <2>3
  <1>11. QueueSound'
    BY DEF QueueSound, TypeOK
  <1>12. OwnedSound'
    <2>1. \A c \in Ctx : owned'[c] = owned[c] \ {h}
      BY <1>u
    <2>2. \A c \in Ctx : \A g \in owned'[c] :
             pc'[g] = "held" /\ P(g) = CtxProc[c] /\ HoldOp[g] # "serve"
      BY <2>1, <1>h DEF OwnedSound, TypeOK
    <2>3. \A g \in Live' : HoldOp[g] # "serve" => g \in owned'[HoldCtx[g]]
      BY <2>1, <1>1, HoldProc DEF OwnedSound, Live
    <2>4. \A g \in Live', c \in Ctx :
             (HoldOp[g] \in Quiescing /\ CtxProc[c] = P(g) /\ owned'[c] # {}) => g \in owned'[c]
      BY <2>1, <1>1 DEF OwnedSound
    <2> QED
      BY <2>2, <2>3, <2>4 DEF OwnedSound, P
  <1>13. TypeOK'
    <2>1. t \in Lock
      BY DEF Target, Lock
    <2>2. ex \in Hold \cup {NoHold}
      BY <1>p DEF TypeOK
    <2>3. opens' \in [Proc -> Nat]
      BY <1>u, <1>3, <1>p DEF TypeOK
    <2>4. users' \in [Proc -> Nat] /\ shared' \in [Proc -> Nat]
      BY <1>u, <1>3, <1>p DEF TypeOK
    <2>5. kernel' \in [Proc -> Lock] /\ klock' \in [Proc -> Lock] /\ exclusive' \in [Proc -> Hold \cup {NoHold}]
      BY <2>1, <2>2, <1>u, <1>9, <1>p DEF TypeOK
    <2>6. owned' \in [Ctx -> SUBSET Hold] /\ queue' \subseteq Hold
      BY <1>u DEF TypeOK
    <2>7. pc' \in [Hold -> {"idle", "pinned", "failed", "held", "sweeping", "unpinned", "closed"}]
      BY DEF TypeOK
    <2> QED
      BY <2>3, <2>4, <2>5, <2>6, <2>7 DEF TypeOK
  <1> QED
    BY <1>4, <1>5, <1>6, <1>10, <1>11, <1>12, <1>13

LEMMA DrainKeeps ==
    ASSUME IInv, NEW h \in Hold, Drain(h)
    PROVE  IInv'
  <1>1. CASE pc[h] = "held"
    BY <1>1, ReleaseKeeps DEF Drain
  <1>2. CASE pc[h] # "held"
    <2>u. /\ pc' = [pc EXCEPT ![h] = "idle"] /\ pc[h] = "closed" /\ queue' = queue \ {h}
          /\ UNCHANGED <<owned, fdOpen, users, shared, opens, exclusive, kernel, klock, leased>>
      BY <1>2 DEF Drain, file, IInv, QueueSound
    <2>1. TypeOK' /\ Live' = Live
      BY <2>u DEF IInv, TypeOK, Live
    <2>2. \A q \in Proc : Using(q)' = Using(q)
      BY <2>u DEF IInv, TypeOK, Using
    <2>3. \A q \in Proc : users'[q] = Cardinality(Using(q)')
      BY <2>2, <2>u DEF IInv, CountsRight
    <2>4. DescriptorKept'
      BY <2>2, <2>u DEF IInv, DescriptorKept
    <2>5. \A g \in queue' : pc'[g] \in {"held", "closed"}
      BY <2>u DEF IInv, QueueSound, TypeOK
    <2> QED
      BY <2>u, <2>1, <2>3, <2>4, <2>5, QuietKeeps
  <1> QED
    BY <1>1, <1>2

LEMMA CopyContextKeeps ==
    ASSUME IInv, NEW c \in Ctx, NEW d \in Ctx, CopyContext(c, d)
    PROVE  IInv'
  <1> USE DEF IInv
  <1>u. /\ CtxProc[c] = CtxProc[d] /\ owned' = [owned EXCEPT ![d] = owned[c]]
        /\ \A g \in Hold : HoldCtx[g] = d => pc[g] \in {"idle", "closed"}
        /\ UNCHANGED <<pc, queue, fdOpen, users, shared, opens, exclusive, kernel, klock, leased>>
    BY DEF CopyContext, file
  <1>1. TypeOK'
    BY <1>u DEF TypeOK
  <1>2. \A p \in Proc : Using(p)' = Using(p) /\ Sharing(p)' = Sharing(p) /\ Opening(p)' = Opening(p)
    BY <1>u DEF Using, Sharing, Opening
  <1>3. CountsRight' /\ DescriptorKept'
    BY <1>u, <1>2 DEF CountsRight, DescriptorKept
  <1>4. ExclusiveRight' /\ QueueSound'
    BY <1>u DEF ExclusiveRight, QueueSound, P, IsExcl
  <1>5. Live' = Live
    BY <1>u DEF Live
  <1>6. KernelTable' /\ BeliefIsTruth' /\ KernelBacksHolds'
    BY <1>u, <1>5 DEF KernelTable, BeliefIsTruth, KernelBacksHolds, P, IsExcl
  <1>7. OwnedSound'
    <2>1. \A x \in Ctx : owned'[x] = IF x = d THEN owned[c] ELSE owned[x]
      BY <1>u DEF TypeOK
    <2>2. \A x \in Ctx : \A g \in owned'[x] :
             pc'[g] = "held" /\ P(g) = CtxProc[x] /\ HoldOp[g] # "serve"
      BY <2>1, <1>u DEF OwnedSound
    <2>3. \A g \in Live' : HoldOp[g] # "serve" => g \in owned'[HoldCtx[g]]
      BY <2>1, <1>5, <1>u, HoldProc DEF OwnedSound, Live
    <2>4. \A g \in Live', x \in Ctx :
             (HoldOp[g] \in Quiescing /\ CtxProc[x] = P(g) /\ owned'[x] # {}) => g \in owned'[x]
      BY <2>1, <1>5, <1>u DEF OwnedSound
    <2> QED
      BY <2>2, <2>3, <2>4 DEF OwnedSound, P
  <1> QED
    BY <1>1, <1>3, <1>4, <1>6, <1>7

(* A reader of the lock file: its close strips the process's lock, which is  *)
(* why no reader may be there while a hold is.                               *)
LEMMA ReaderKeeps ==
    ASSUME IInv, NEW p \in Proc, LeaseReader(p) \/ CloseReader(p)
    PROVE  IInv'
  <1>1. fdOpen[p] = FALSE /\ klock[p] = "UN"
    <2>1. ~fdOpen[p]
      BY DEF LeaseReader, CloseReader, IInv, DescriptorKept, TypeOK
    <2>2. Using(p) = {}
      BY <2>1 DEF IInv, DescriptorKept
    <2>3. klock[p] = "UN"
      BY <2>2 DEF Using, Live, IInv, KernelBacksHolds
    <2> QED
      BY <2>1, <2>3 DEF IInv, TypeOK
  <1>2. UNCHANGED <<pc, queue, owned, fdOpen, users, shared, opens, exclusive, kernel, klock>>
    BY <1>1 DEF LeaseReader, CloseReader, file, IInv, TypeOK
  <1>3. \A q \in Proc : leased'[q] # leased[q] => q = p
    BY DEF LeaseReader, CloseReader, IInv, TypeOK
  <1>4. TypeOK'
    BY <1>2 DEF LeaseReader, CloseReader, IInv, TypeOK
  <1>5. Live' = Live /\ \A q \in Proc : Using(q)' = Using(q)
    BY <1>2 DEF Live, Using
  <1>6. DescriptorKept'
    BY <1>1, <1>2, <1>3, <1>5 DEF IInv, DescriptorKept
  <1>7. \A q \in Proc : users'[q] = Cardinality(Using(q)')
    BY <1>2, <1>5 DEF IInv, CountsRight
  <1>8. \A g \in queue' : pc'[g] \in {"held", "closed"}
    BY <1>2 DEF IInv, QueueSound
  <1> QED
    BY <1>2, <1>4, <1>5, <1>6, <1>7, <1>8, QuietKeeps

LEMMA CrashKeeps ==
    ASSUME IInv, NEW p \in Proc, Crash(p)
    PROVE  IInv'
  <1> USE DEF IInv
  <1>h. \A g \in Hold : pc'[g] = IF P(g) = p THEN "idle" ELSE pc[g]
    BY DEF Crash
  <1>1. TypeOK'
    BY StoreLockAssumption DEF Crash, TypeOK, Lock
  <1>2. /\ Using(p)' = {} /\ Sharing(p)' = {} /\ Opening(p)' = {}
        /\ \A q \in Proc \ {p} : /\ Using(q)' = Using(q) /\ Sharing(q)' = Sharing(q)
                                 /\ Opening(q)' = Opening(q)
    BY <1>h DEF Using, Sharing, Opening
  <1>3. CountsRight'
    BY <1>2, FS_EmptySet DEF CountsRight, Crash, TypeOK
  <1>4. ExclusiveRight'
    BY <1>h, StoreLockAssumption DEF ExclusiveRight, Crash, TypeOK, P, IsExcl
  <1>5. DescriptorKept'
    BY <1>2 DEF DescriptorKept, Crash, TypeOK
  <1>6. KernelTable' /\ BeliefIsTruth'
    BY DEF KernelTable, BeliefIsTruth, Crash, TypeOK
  <1>7. KernelBacksHolds'
    <2>1. Live' = {g \in Live : P(g) # p}
      BY <1>h DEF Live
    <2>2. \A q \in Proc : klock'[q] = IF q = p THEN "UN" ELSE klock[q]
      BY DEF Crash, TypeOK
    <2> QED
      BY <2>1, <2>2 DEF KernelBacksHolds, P, IsExcl
  <1>8. QueueSound'
    BY <1>h DEF QueueSound, Crash, TypeOK
  <1>9. OwnedSound'
    <2>1. \A c \in Ctx : owned'[c] = IF CtxProc[c] = p THEN {} ELSE owned[c]
      BY DEF Crash
    <2>2. Live' = {g \in Live : P(g) # p}
      BY <1>h DEF Live
    <2>3. \A c \in Ctx : \A g \in owned'[c] :
             pc'[g] = "held" /\ P(g) = CtxProc[c] /\ HoldOp[g] # "serve"
      BY <2>1, <1>h DEF OwnedSound, TypeOK
    <2>4. \A g \in Live' : HoldOp[g] # "serve" => g \in owned'[HoldCtx[g]]
      BY <2>1, <2>2, HoldProc DEF OwnedSound, Live, P
    <2>5. \A g \in Live', c \in Ctx :
             (HoldOp[g] \in Quiescing /\ CtxProc[c] = P(g) /\ owned'[c] # {}) => g \in owned'[c]
      BY <2>1, <2>2 DEF OwnedSound
    <2> QED
      BY <2>3, <2>4, <2>5 DEF OwnedSound, P
  <1> QED
    BY <1>1, <1>3, <1>4, <1>5, <1>6, <1>7, <1>8, <1>9

(* IInv is an invariant of the store lock. *)
THEOREM Invariance == Spec => []IInv
  <1>1. IInv /\ [Next]_vars => IInv'
    <2> SUFFICES ASSUME IInv, [Next]_vars PROVE IInv'
      OBVIOUS
    <2>1. ASSUME NEW h \in Hold, Pin(h) PROVE IInv'
      BY <2>1, PinKeeps
    <2>2. ASSUME NEW h \in Hold, Attempt(h) PROVE IInv'
      BY <2>2, AcquireKeeps, FailKeeps DEF Attempt
    <2>3. ASSUME NEW h \in Hold, Unpin(h) PROVE IInv'
      BY <2>3, UnpinKeeps
    <2>4. ASSUME NEW h \in Hold, Release(h) PROVE IInv'
      <3>1. queue' = queue \ {h}
        BY <2>4 DEF Release
      <3> QED
        BY <2>4, <3>1, ReleaseKeeps DEF Release
    <2>5. ASSUME NEW h \in Hold, FinishRelease(h) PROVE IInv'
      BY <2>5, FinishReleaseKeeps
    <2>6. ASSUME NEW h \in Hold, ReleaseSoon(h) PROVE IInv'
      BY <2>6, ReleaseSoonKeeps
    <2>7. ASSUME NEW h \in Hold, Drain(h) PROVE IInv'
      BY <2>7, DrainKeeps
    <2>8. ASSUME NEW c \in Ctx, NEW d \in Ctx, CopyContext(c, d) PROVE IInv'
      BY <2>8, CopyContextKeeps
    <2>9. ASSUME NEW p \in Proc, LeaseReader(p) \/ CloseReader(p) PROVE IInv'
      BY <2>9, ReaderKeeps
    <2>10. ASSUME NEW p \in Proc, Crash(p) PROVE IInv'
      BY <2>10, CrashKeeps
    <2>11. CASE UNCHANGED vars
      <3>1. TypeOK' /\ Live' = Live /\ \A q \in Proc : Using(q)' = Using(q)
        BY <2>11 DEF vars, IInv, TypeOK, Live, Using
      <3>2. DescriptorKept' /\ \A q \in Proc : users'[q] = Cardinality(Using(q)')
        BY <2>11, <3>1 DEF vars, IInv, DescriptorKept, CountsRight
      <3>3. \A g \in queue' : pc'[g] \in {"held", "closed"}
        BY <2>11 DEF vars, IInv, QueueSound
      <3> QED
        BY <2>11, <3>1, <3>2, <3>3, QuietKeeps DEF vars
    <2> QED
      BY <2>1, <2>2, <2>3, <2>4, <2>5, <2>6, <2>7, <2>8, <2>9, <2>10, <2>11 DEF Next
  <1> QED
    BY InitKeeps, <1>1, PTL DEF Spec

(* Type correctness, counts included: no release is counted twice. *)
THEOREM TypeCorrect == Spec => []TypeOK
  <1>1. IInv => TypeOK
    BY DEF IInv
  <1> QED
    BY <1>1, Invariance, PTL

(* An exclusive operation has the store to itself, in every execution and    *)
(* for any number of processes, contexts and holds.                          *)
THEOREM ExclusiveSafety == Spec => []ExclusiveAlone
  <1>1. IInv => ExclusiveAlone
    <2> SUFFICES ASSUME IInv, NEW h \in Live, NEW g \in Live, IsExcl(h), g # h
                 PROVE  P(g) = P(h) /\ ~IsExcl(g)
      BY DEF ExclusiveAlone
    <2>1. h \in Hold /\ g \in Hold /\ P(h) \in Proc /\ P(g) \in Proc
      BY HoldProc DEF Live
    <2>2. klock[P(h)] = "WR" /\ klock[P(g)] # "UN"
      BY <2>1 DEF IInv, KernelBacksHolds
    <2>3. P(g) = P(h)
      BY <2>1, <2>2 DEF IInv, KernelTable
    <2>4. exclusive[P(h)] = h
      BY <2>1 DEF IInv, ExclusiveRight, Live
    <2>5. ~IsExcl(g)
      BY <2>1, <2>3, <2>4 DEF IInv, ExclusiveRight, Live
    <2> QED
      BY <2>3, <2>5
  <1> QED
    BY <1>1, Invariance, PTL

(* While a quiescing operation is live, its process has no connection but    *)
(* those of contexts with part in it.                                        *)
THEOREM QuiescingSafety == Spec => []QuiescingAlone
  <1>1. IInv => QuiescingAlone
    <2> SUFFICES ASSUME IInv, NEW h \in Live, NEW g \in Live, HoldOp[h] \in Quiescing,
                        HoldOp[g] = "open", P(g) = P(h)
                 PROVE  h \in owned[HoldCtx[g]]
      BY DEF QuiescingAlone
    <2>1. g \in Hold /\ HoldCtx[g] \in Ctx
      BY HoldProc DEF Live
    <2>2. g \in owned[HoldCtx[g]]
      <3>1. HoldOp[g] # "serve"
        OBVIOUS
      <3>2. \A x \in Live : HoldOp[x] # "serve" => x \in owned[HoldCtx[x]]
        BY DEF IInv, OwnedSound
      <3> QED
        BY <3>1, <3>2
    <2> QED
      BY <2>1, <2>2 DEF IInv, OwnedSound, P
  <1> QED
    BY <1>1, Invariance, PTL

(* The kernel's lock table backs the registry in every execution. *)
THEOREM KernelSafety == Spec => [](KernelBacksHolds /\ BeliefIsTruth)
  <1>1. IInv => KernelBacksHolds /\ BeliefIsTruth
    BY DEF IInv
  <1> QED
    BY <1>1, Invariance, PTL

(***************************************************************************)
(* Refinement.  Pin, Fail, Unpin, the sweep, the finalizer's queueing and  *)
(* the readers stutter; Acquire takes an access, the two releases and a    *)
(* crash drop accesses.                                                    *)
(***************************************************************************)
LEMMA AcquireTakes ==
    ASSUME IInv, NEW h \in Hold, Acquire(h)
    PROVE  Access!Take(h)
  <1> USE DEF IInv
  <1>p. P(h) \in Proc /\ HoldCtx[h] \in Ctx
    BY HoldProc
  <1>u. pc' = [pc EXCEPT ![h] = "held"] /\ pc[h] = "pinned" /\ CanTake(h)
    BY DEF Acquire
  <1>1. Live' = Live \cup {h} /\ h \notin Live
    BY <1>u DEF Live, TypeOK
  <1>2. owned' = IF HoldOp[h] = "serve" THEN owned
                 ELSE [owned EXCEPT ![HoldCtx[h]] = @ \cup {h}]
    BY DEF Acquire
  <1>3. ASSUME NEW g \in Live, IsExcl(h)
        PROVE  P(g) = P(h) /\ ~IsExcl(g) /\ ~(HoldOp[h] \in Quiescing /\ HoldOp[g] = "open")
    <2>0. g \in Hold /\ pc[g] = "held" /\ P(g) \in Proc
      BY HoldProc DEF Live
    <2>1. \A q \in Proc \ {P(h)} : klock[q] = "UN"
      BY <1>3, <1>u DEF CanTake, NeedsKernel, Wanted, KernelGrants
    <2>2. klock[P(g)] # "UN"
      BY <2>0 DEF KernelBacksHolds
    <2>3. P(g) = P(h)
      BY <2>0, <2>1, <2>2
    <2>4. ~IsExcl(g)
      BY <2>0, <2>3, <1>3, <1>u, StoreLockAssumption DEF CanTake, Blocked, ExclusiveRight
    <2>5. ~(HoldOp[h] \in Quiescing /\ HoldOp[g] = "open")
      <3>1. SUFFICES ASSUME HoldOp[h] \in Quiescing, HoldOp[g] = "open" PROVE FALSE
        OBVIOUS
      <3>2. g \in Opening(P(h)) /\ Opening(P(h)) \in SUBSET Hold
        BY <2>0, <2>3, <3>1 DEF Opening
      <3>3. Cardinality(Opening(P(h))) \in Nat /\ Cardinality(Opening(P(h))) # 0
        BY <3>2, Counting
      <3>4. opens[P(h)] > 0
        BY <3>3, <1>p DEF CountsRight
      <3> QED
        BY <3>1, <3>4, <1>3, <1>u DEF CanTake, Blocked
    <2> QED
      BY <2>3, <2>4, <2>5
  <1>4. ASSUME NEW g \in Live, ~IsExcl(h), IsExcl(g)
        PROVE  P(g) = P(h) /\ (HoldOp[g] \in Quiescing => g \in owned[HoldCtx[h]])
    <2>0. g \in Hold /\ pc[g] = "held" /\ P(g) \in Proc
      BY HoldProc DEF Live
    <2>1. klock[P(g)] = "WR"
      BY <2>0, <1>4 DEF KernelBacksHolds
    <2>2. P(g) = P(h)
      <3>1. CASE kernel[P(h)] = "UN"
        BY <3>1, <2>0, <2>1, <1>4, <1>u DEF CanTake, NeedsKernel, Wanted, KernelGrants
      <3>2. CASE kernel[P(h)] # "UN"
        BY <3>2, <2>0, <2>1, <1>p DEF BeliefIsTruth, KernelTable
      <3> QED
        BY <3>1, <3>2
    <2>3. exclusive[P(h)] = g
      BY <2>0, <2>2, <1>4 DEF ExclusiveRight
    <2>4. HoldOp[g] \in Quiescing => owned[HoldCtx[h]] # {}
      BY <2>0, <2>3, <1>4, <1>u, StoreLockAssumption DEF CanTake, Blocked
    <2>5. CtxProc[HoldCtx[h]] = P(g)
      BY <2>2 DEF P
    <2> QED
      BY <2>2, <2>4, <2>5, <1>p DEF OwnedSound
  <1>5. Access!Compatible(h)
    BY <1>3, <1>4 DEF Access!Compatible, Access!Excl, Access!Quiesce, Access!Site,
       Access!SharedOps, Access!QuiescingOps, IsExcl, Shared, Quiescing, P
  <1> QED
    BY <1>1, <1>2, <1>5 DEF Access!Take

(* The release of one live hold drops it. *)
LEMMA ReleaseDrops ==
    ASSUME IInv, NEW h \in Hold, NEW s \in {"sweeping", "idle"},
           pc[h] = "held", pc' = [pc EXCEPT ![h] = s], ReleaseLocked(h)
    PROVE  Access!Drop({h})
  <1>1. Live' = Live \ {h}
    BY DEF IInv, TypeOK, Live
  <1>2. owned' = [c \in Ctx |-> owned[c] \ {h}]
    BY DEF ReleaseLocked
  <1> QED
    BY <1>1, <1>2 DEF Access!Drop

(* A crash drops every hold of the process at once. *)
LEMMA CrashDrops ==
    ASSUME IInv, NEW p \in Proc, Crash(p)
    PROVE  \E S \in SUBSET Hold : Access!Drop(S)
  <1> DEFINE S == {h \in Hold : P(h) = p}
  <1>1. Live' = Live \ S
    BY DEF Crash, Live
  <1>2. \A c \in Ctx : owned[c] \ S = IF CtxProc[c] = p THEN {} ELSE owned[c]
    BY DEF IInv, OwnedSound, TypeOK
  <1>3. owned' = [c \in Ctx |-> owned[c] \ S]
    BY <1>2 DEF Crash
  <1>4. Access!Drop(S)
    BY <1>1, <1>3 DEF Access!Drop
  <1> QED
    BY <1>4

(* The store lock implements StoreAccess: whatever the counts, descriptors   *)
(* and kernel conversions do, the holds that are live together are the ones  *)
(* the protocol allows together.                                             *)
THEOREM Refinement == Spec => AccessSpec
  <1>1. Init => Access!AInit
    BY DEF Init, Access!AInit, Live
  <1>2. IInv /\ [Next]_vars => [Access!ANext]_Access!avars
    <2> SUFFICES ASSUME IInv, [Next]_vars
                 PROVE  Access!ANext \/ (Live' = Live /\ owned' = owned)
      BY DEF Access!avars
    <2>1. ASSUME NEW h \in Hold, Pin(h) \/ Fail(h) \/ Unpin(h) \/ FinishRelease(h) \/ ReleaseSoon(h)
          PROVE  Live' = Live /\ owned' = owned
      BY <2>1 DEF Pin, Fail, Unpin, FinishRelease, ReleaseSoon, Live, IInv, TypeOK
    <2>2. ASSUME NEW h \in Hold, Acquire(h) PROVE Access!ANext
      BY <2>2, AcquireTakes DEF Access!ANext
    <2>3. ASSUME NEW h \in Hold, Release(h) PROVE Access!ANext
      <3>1. Access!Drop({h})
        BY <2>3, ReleaseDrops DEF Release
      <3> QED
        BY <3>1 DEF Access!ANext
    <2>4. ASSUME NEW h \in Hold, Drain(h) PROVE Access!ANext \/ (Live' = Live /\ owned' = owned)
      <3>1. CASE pc[h] = "held"
        <4>1. Access!Drop({h})
          BY <2>4, <3>1, ReleaseDrops DEF Drain
        <4> QED
          BY <4>1 DEF Access!ANext
      <3>2. CASE pc[h] # "held"
        BY <2>4, <3>2 DEF Drain, Live, IInv, TypeOK
      <3> QED
        BY <3>1, <3>2
    <2>5. ASSUME NEW c \in Ctx, NEW d \in Ctx, CopyContext(c, d) PROVE Access!ANext
      <3>1. Access!Share(c, d)
        BY <2>5 DEF CopyContext, Access!Share, Live
      <3> QED
        BY <3>1 DEF Access!ANext
    <2>6. ASSUME NEW p \in Proc, LeaseReader(p) \/ CloseReader(p)
          PROVE  Live' = Live /\ owned' = owned
      BY <2>6 DEF LeaseReader, CloseReader, Live
    <2>7. ASSUME NEW p \in Proc, Crash(p) PROVE Access!ANext
      BY <2>7, CrashDrops DEF Access!ANext
    <2>8. CASE UNCHANGED vars
      BY <2>8 DEF vars, Live
    <2> QED
      BY <2>1, <2>2, <2>3, <2>4, <2>5, <2>6, <2>7, <2>8 DEF Next, Attempt
  <1> QED
    BY <1>1, <1>2, Invariance, PTL DEF Spec, AccessSpec, Access!ASpec
=============================================================================
