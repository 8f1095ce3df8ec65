------------------------- MODULE MCCapabilities_proofs -------------------------
(***************************************************************************)
(* The limiter: permit conservation, the concurrency cap and the absence   *)
(* of lost wake-ups, for every finite set of acquisitions and all limits.  *)
(* The adapters: a failure is everybody's.  The sandbox: a success is real.*)
(***************************************************************************)
EXTENDS MCCapabilities, FiniteSetTheorems, SequenceTheorems, WellFoundedInduction, TLAPS

\* An acquisition is inside, handed a permit, or parked once: never two.
OnePlace ==
    /\ held \cap handoff = {}
    /\ Parked \cap (held \cup handoff) = {}
    /\ \A i, j \in 1..Len(waiters) : waiters[i] = waiters[j] => i = j

\* A pending drain is room the limit has given up: the two together never
\* exceed what max_limit allows.
DrainCap == current_limit + drain_count <= MaxLimit

\* The inductive invariant.
IInv == TypeOK /\ OnePlace /\ PermitConservation /\ DrainCap /\ NoLostWakeup
-----------------------------------------------------------------------------
(* Lemmas *)

\* The sets of acquisitions are finite and their sizes are numbers.
LEMMA FiniteHolders ==
    ASSUME TypeOK
    PROVE  /\ IsFiniteSet(held) /\ Cardinality(held) \in Nat
           /\ IsFiniteSet(handoff) /\ Cardinality(handoff) \in Nat
  BY AcquisitionAssumption, FS_Subset, FS_CardinalityType DEF TypeOK

\* Waking the first k waiters wakes k different ones.
LEMMA WokenCount ==
    ASSUME TypeOK, OnePlace, NEW k \in 0..Len(waiters)
    PROVE  LET W == {waiters[i] : i \in 1..k}
           IN  /\ IsFiniteSet(W)
               /\ Cardinality(W) = k
               /\ W \subseteq Parked
               /\ W \subseteq Acquisition
<1> DEFINE W == {waiters[i] : i \in 1..k}
           f == [i \in 1..k |-> waiters[i]]
<1>0. waiters \in Seq(Acquisition) /\ Len(waiters) \in Nat
      /\ DOMAIN waiters = 1..Len(waiters)
  BY LenProperties DEF TypeOK
<1>1. f \in Surjection(1..k, W)
  BY DEF Surjection
<1>2. f \in Injection(1..k, W)
  <2>1. f \in [1..k -> W]
    OBVIOUS
  <2>2. ASSUME NEW i \in 1..k, NEW j \in 1..k, f[i] = f[j] PROVE i = j
    BY <2>2, <1>0 DEF OnePlace
  <2>3. QED BY <2>1, <2>2 DEF Injection, IsInjective
<1>3. IsFiniteSet(1..k) /\ Cardinality(1..k) = k
  BY FS_Interval
<1>4. IsFiniteSet(W) /\ Cardinality(W) = k
  BY <1>1, <1>2, <1>3, FS_Surjection
<1>5. W \subseteq Parked /\ W \subseteq Acquisition
  BY <1>0, ElementOfSeq DEF Parked
<1>6. QED BY <1>4, <1>5

\* What Release(n) does to the queue, the hand-offs and the counter.
LEMMA ReleaseEffect ==
    ASSUME TypeOK, OnePlace, NoLostWakeup, NEW n \in Nat, Release(n)
    PROVE  /\ waiters' \in Seq(Acquisition)
           /\ handoff' \in SUBSET Acquisition
           /\ available' \in Nat
           /\ available' + Cardinality(handoff')
                = available + Cardinality(handoff) + n
           /\ handoff' \subseteq handoff \cup Parked
           /\ Parked' \subseteq Parked
           /\ Parked' \cap handoff' = {}
           /\ \A i, j \in 1..Len(waiters') :
                waiters'[i] = waiters'[j] => i = j
           /\ waiters' # <<>> /\ available' > 0 => handoff' # {}
<1> DEFINE k == IF n <= Len(waiters) THEN n ELSE Len(waiters)
           W == {waiters[i] : i \in 1..k}
<1>0. waiters \in Seq(Acquisition) /\ Len(waiters) \in Nat
      /\ DOMAIN waiters = 1..Len(waiters)
  BY LenProperties DEF TypeOK
<1>1. k \in 0..Len(waiters) /\ k <= n
  BY <1>0
<1>2. IsFiniteSet(W) /\ Cardinality(W) = k /\ W \subseteq Parked
      /\ W \subseteq Acquisition
  BY <1>1, WokenCount
<1>3. /\ handoff' = handoff \cup W
      /\ waiters' = SubSeq(waiters, k + 1, Len(waiters))
      /\ available' = (available + n) - k
  BY DEF Release
<1>a. (n > Len(waiters) /\ k = Len(waiters)) \/ k = n
  OBVIOUS
<1> HIDE DEF k, W
<1>4. /\ waiters' \in Seq(Acquisition)
      /\ Len(waiters') = Len(waiters) - k
      /\ \A i \in 1..Len(waiters') : waiters'[i] = waiters[k + i]
  <2>1. \A i \in k + 1 .. Len(waiters) : waiters[i] \in Acquisition
    BY <1>0, <1>1, ElementOfSeq
  <2>2. /\ SubSeq(waiters, k + 1, Len(waiters)) \in Seq(Acquisition)
        /\ Len(SubSeq(waiters, k + 1, Len(waiters))) =
             IF k + 1 <= Len(waiters) THEN Len(waiters) - (k + 1) + 1 ELSE 0
        /\ \A i \in 1 .. Len(waiters) - (k + 1) + 1 :
             SubSeq(waiters, k + 1, Len(waiters))[i] = waiters[(k + 1) + i - 1]
    <3>1. k + 1 \in Int /\ Len(waiters) \in Int
      BY <1>0, <1>1
    <3>2. QED BY <2>1, <3>1, SubSeqProperties
  <2>3. Len(waiters') = Len(waiters) - k
    <3> DEFINE m == Len(waiters)
               r == Len(SubSeq(waiters, k + 1, m))
    <3>1. m \in Nat /\ k \in 0..m /\ Len(waiters') = r
      BY <1>0, <1>1, <1>3
    <3>2. r = IF k + 1 <= m THEN m - (k + 1) + 1 ELSE 0
      BY <2>2
    <3> HIDE DEF m, r
    <3>3. r = m - k
      BY <3>1, <3>2
    <3>4. QED BY <3>1, <3>3 DEF m
  <2>4. ASSUME NEW i \in 1..Len(waiters') PROVE waiters'[i] = waiters[k + i]
    <3>1. i \in 1 .. Len(waiters) - (k + 1) + 1
      BY <2>3, <1>0, <1>1
    <3>2. (k + 1) + i - 1 = k + i
      BY <3>1, <1>0, <1>1
    <3>3. QED BY <2>2, <3>1, <3>2, <1>3
  <2>5. QED BY <2>2, <2>3, <2>4, <1>3
<1>5. Cardinality(handoff') = Cardinality(handoff) + k
  <2>1. handoff \cap W = {}
    BY <1>2 DEF OnePlace
  <2>2. Cardinality(handoff \cap W) = 0
    BY <2>1, FS_EmptySet
  <2>3. Cardinality(handoff \cup W)
          = Cardinality(handoff) + Cardinality(W) - Cardinality(handoff \cap W)
    BY <1>2, FiniteHolders, FS_Union
  <2>4. QED BY <2>2, <2>3, <1>1, <1>2, <1>3, FiniteHolders
<1>6. available' \in Nat
  BY <1>1, <1>3 DEF TypeOK
<1>7. Parked' = {waiters'[i] : i \in 1..Len(waiters')}
  BY <1>4, LenProperties DEF Parked
<1>8. Parked' \subseteq Parked
  <2>1. ASSUME NEW i \in 1..Len(waiters')
        PROVE  waiters'[i] \in Parked
    <3>1. waiters'[i] = waiters[k + i] /\ k + i \in DOMAIN waiters
      BY <1>0, <1>1, <1>4
    <3>2. QED BY <3>1 DEF Parked
  <2>2. QED BY <2>1, <1>7
<1>9. Parked' \cap handoff' = {}
  <2>1. ASSUME NEW i \in 1..Len(waiters'), NEW j \in 1..k
        PROVE  waiters'[i] # waiters[j]
    <3>1. waiters'[i] = waiters[k + i] /\ k + i \in 1..Len(waiters)
          /\ j \in 1..Len(waiters) /\ k + i # j
      BY <1>0, <1>1, <1>4
    <3>2. QED BY <3>1 DEF OnePlace
  <2>2. Parked' \cap W = {}
    BY <2>1, <1>7 DEF W
  <2>3. Parked' \cap handoff = {}
    BY <1>8 DEF OnePlace
  <2>4. QED BY <2>2, <2>3, <1>3
<1>10. \A i, j \in 1..Len(waiters') : waiters'[i] = waiters'[j] => i = j
  <2>1. ASSUME NEW i \in 1..Len(waiters'), NEW j \in 1..Len(waiters'),
               waiters'[i] = waiters'[j]
        PROVE  i = j
    <3>1. waiters[k + i] = waiters[k + j]
          /\ k + i \in 1..Len(waiters) /\ k + j \in 1..Len(waiters)
      BY <2>1, <1>0, <1>1, <1>4
    <3>2. k + i = k + j
      BY <3>1 DEF OnePlace
    <3>3. QED BY <3>2, <1>1, <1>4
  <2>2. QED BY <2>1
<1>11. waiters' # <<>> /\ available' > 0 => handoff' # {}
  <2> SUFFICES ASSUME waiters' # <<>>, available' > 0, handoff' = {}
               PROVE  FALSE
    OBVIOUS
  <2>1. Len(waiters') > 0
    BY <1>4, EmptySeq
  <2>2. k = n /\ Len(waiters) > 0
    <3>1. Len(waiters) - k > 0
      BY <2>1, <1>4
    <3>2. Len(waiters) \in Nat /\ k \in Nat /\ n \in Nat
      BY <1>0, <1>1
    <3>3. Len(waiters) > 0 /\ k # Len(waiters)
      BY <3>1, <3>2
    <3>4. QED BY <3>3, <1>a
  <2>3. k = 0
    <3>1. W = {}
      BY <1>3
    <3>2. QED BY <3>1, <1>2, FS_EmptySet
  <2>4. available' = available /\ handoff = {}
    <3>1. available' = (available + 0) - 0
      BY <2>2, <2>3, <1>3
    <3>2. QED BY <3>1, <1>3 DEF TypeOK
  <2>5. waiters # <<>>
    BY <2>2, EmptySeq
  <2>6. QED BY <2>4, <2>5 DEF NoLostWakeup
<1>12. handoff' \in SUBSET Acquisition /\ handoff' \subseteq handoff \cup Parked
  BY <1>2, <1>3 DEF TypeOK
<1>13. available' + Cardinality(handoff')
         = available + Cardinality(handoff) + n
  BY <1>1, <1>3, <1>5, FiniteHolders DEF TypeOK
<1>14. QED
  BY <1>4, <1>6, <1>8, <1>9, <1>10, <1>11, <1>12, <1>13

\* What handing the permit of a departing waiter `a` to the oldest parked one
\* does (second wake-up of acquire(), and its cancellation path).
LEMMA PassOn ==
    ASSUME TypeOK, OnePlace, NEW a \in handoff, waiters # <<>>,
           handoff' = (handoff \ {a}) \cup {Head(waiters)},
           waiters' = Tail(waiters)
    PROVE  /\ waiters' \in Seq(Acquisition)
           /\ handoff' \in SUBSET Acquisition
           /\ Head(waiters) \in Parked
           /\ Cardinality(handoff') = Cardinality(handoff)
           /\ Parked' \subseteq Parked
           /\ Parked' \cap handoff' = {}
           /\ \A i, j \in 1..Len(waiters') :
                waiters'[i] = waiters'[j] => i = j
<1>0. waiters \in Seq(Acquisition) /\ Len(waiters) \in Nat /\ Len(waiters) > 0
      /\ DOMAIN waiters = 1..Len(waiters) /\ Head(waiters) = waiters[1]
  BY LenProperties, EmptySeq DEF TypeOK
<1>1. /\ waiters' \in Seq(Acquisition)
      /\ Len(waiters') = Len(waiters) - 1
      /\ \A i \in 1..Len(waiters') : waiters'[i] = waiters[i + 1]
      /\ Head(waiters) \in Acquisition
  BY <1>0, HeadTailProperties
<1>2. Head(waiters) \in Parked
  BY <1>0 DEF Parked
<1>3. Parked' = {waiters'[i] : i \in 1..Len(waiters')}
  BY <1>1, LenProperties DEF Parked
<1>4. ASSUME NEW i \in 1..Len(waiters')
      PROVE  /\ i + 1 \in 1..Len(waiters)
             /\ waiters'[i] = waiters[i + 1]
             /\ waiters'[i] \in Parked
             /\ waiters'[i] # Head(waiters)
  <2>1. i + 1 \in 1..Len(waiters) /\ 1 \in 1..Len(waiters) /\ i + 1 # 1
        /\ waiters'[i] = waiters[i + 1]
    BY <1>0, <1>1
  <2>2. waiters[i + 1] # waiters[1]
    BY <2>1 DEF OnePlace
  <2>3. waiters[i + 1] \in Parked
    BY <2>1, <1>0 DEF Parked
  <2>4. QED BY <2>1, <2>2, <2>3, <1>0
<1>5. Parked' \subseteq Parked /\ Parked' \cap handoff' = {}
  BY <1>3, <1>4 DEF OnePlace
<1>6. \A i, j \in 1..Len(waiters') : waiters'[i] = waiters'[j] => i = j
  <2>1. ASSUME NEW i \in 1..Len(waiters'), NEW j \in 1..Len(waiters'),
               waiters'[i] = waiters'[j]
        PROVE  i = j
    <3>1. i + 1 = j + 1
      BY <2>1, <1>4 DEF OnePlace
    <3>2. QED BY <3>1, <1>0, <1>1
  <2>2. QED BY <2>1
<1>7. Cardinality(handoff') = Cardinality(handoff)
  <2>1. /\ IsFiniteSet(handoff \ {a})
        /\ Cardinality(handoff \ {a}) = Cardinality(handoff) - 1
    BY FiniteHolders, FS_RemoveElement
  <2>2. Head(waiters) \notin handoff \ {a}
    BY <1>2 DEF OnePlace
  <2>3. Cardinality(handoff') = Cardinality(handoff \ {a}) + 1
    BY <2>1, <2>2, FS_AddElement
  <2>4. QED BY <2>1, <2>3, FiniteHolders
<1>8. QED
  BY <1>1, <1>2, <1>5, <1>6, <1>7 DEF TypeOK

\* Taking one waiter out of the middle of the queue disturbs no other.
LEMMA LeaveQueue ==
    ASSUME TypeOK, OnePlace, NEW a \in Acquisition, CancelParked(a)
    PROVE  /\ waiters' \in Seq(Acquisition)
           /\ Parked' \subseteq Parked
           /\ \A i, j \in 1..Len(waiters') :
                waiters'[i] = waiters'[j] => i = j
<1>0. waiters \in Seq(Acquisition) /\ Len(waiters) \in Nat
      /\ DOMAIN waiters = 1..Len(waiters)
  BY LenProperties DEF TypeOK
<1>1. PICK k \in 1..Len(waiters) :
        waiters' = SubSeq(waiters, 1, k - 1) \o SubSeq(waiters, k + 1, Len(waiters))
  BY <1>0 DEF CancelParked
<1> DEFINE s == SubSeq(waiters, 1, k - 1)
           t == SubSeq(waiters, k + 1, Len(waiters))
<1>2. \A i \in 1..Len(waiters) : waiters[i] \in Acquisition
  BY <1>0, ElementOfSeq
<1>3. /\ s \in Seq(Acquisition)
      /\ Len(s) = k - 1
      /\ \A i \in 1..k - 1 : s[i] = waiters[i]
  <2>1. 1 \in Int /\ k - 1 \in Int /\ \A i \in 1..k - 1 : waiters[i] \in Acquisition
    BY <1>0, <1>2
  <2>2. /\ s \in Seq(Acquisition)
        /\ Len(s) = IF 1 <= k - 1 THEN (k - 1) - 1 + 1 ELSE 0
        /\ \A i \in 1..(k - 1) - 1 + 1 : s[i] = waiters[1 + i - 1]
    BY <2>1, SubSeqProperties
  <2>3. QED BY <2>2
<1>4. /\ t \in Seq(Acquisition)
      /\ Len(t) = Len(waiters) - k
      /\ \A i \in 1..Len(waiters) - k : t[i] = waiters[k + i]
  <2>1. k + 1 \in Int /\ Len(waiters) \in Int
        /\ \A i \in k + 1..Len(waiters) : waiters[i] \in Acquisition
    BY <1>0, <1>2
  <2>2. /\ t \in Seq(Acquisition)
        /\ Len(t) = IF k + 1 <= Len(waiters) THEN Len(waiters) - (k + 1) + 1 ELSE 0
        /\ \A i \in 1..Len(waiters) - (k + 1) + 1 : t[i] = waiters[(k + 1) + i - 1]
    BY <2>1, SubSeqProperties
  <2>3. Len(t) = Len(waiters) - k
    <3> DEFINE m == Len(waiters)
    <3>1. k \in 1..m /\ m \in Nat
      BY <1>0
    <3>2. Len(t) = IF k + 1 <= m THEN m - (k + 1) + 1 ELSE 0
      BY <2>2
    <3> HIDE DEF m, t
    <3>3. Len(t) = m - k
      BY <3>1, <3>2
    <3>4. QED BY <3>3 DEF m
  <2>4. ASSUME NEW i \in 1..Len(waiters) - k PROVE t[i] = waiters[k + i]
    <3>1. i \in 1..Len(waiters) - (k + 1) + 1 /\ (k + 1) + i - 1 = k + i
      BY <1>0
    <3>2. QED BY <3>1, <2>2
  <2>5. QED BY <2>2, <2>3, <2>4
<1> HIDE DEF s, t
<1>5. /\ waiters' \in Seq(Acquisition)
      /\ Len(waiters') = Len(s) + Len(t)
      /\ \A i \in 1..Len(s) + Len(t) :
           waiters'[i] = IF i <= Len(s) THEN s[i] ELSE t[i - Len(s)]
  <2>1. waiters' = s \o t
    BY <1>1 DEF s, t
  <2>2. QED BY <2>1, <1>3, <1>4, ConcatProperties
<1> DEFINE old(i) == IF i <= k - 1 THEN i ELSE i + 1
<1>6. ASSUME NEW i \in 1..Len(waiters')
      PROVE  old(i) \in 1..Len(waiters) /\ waiters'[i] = waiters[old(i)]
  <2>1. CASE i <= k - 1
    BY <2>1, <1>0, <1>3, <1>4, <1>5
  <2>2. CASE ~(i <= k - 1)
    <3>1. i \in 1..Len(s) + Len(t) /\ i - Len(s) \in 1..Len(waiters) - k
          /\ k + (i - Len(s)) = i + 1
      BY <2>2, <1>0, <1>3, <1>4, <1>5
    <3>2. waiters'[i] = t[i - Len(s)]
      BY <2>2, <3>1, <1>3, <1>5
    <3>3. t[i - Len(s)] = waiters[i + 1]
      BY <3>1, <1>4
    <3>4. i + 1 \in 1..Len(waiters)
      BY <2>2, <1>0, <1>3, <1>4, <1>5
    <3>5. QED BY <2>2, <3>2, <3>3, <3>4
  <2>3. QED BY <2>1, <2>2
<1>7. Parked' \subseteq Parked
  <2>1. Parked' = {waiters'[i] : i \in 1..Len(waiters')}
    BY <1>5, LenProperties DEF Parked
  <2>2. QED BY <2>1, <1>6, <1>0 DEF Parked
<1>8. ASSUME NEW i \in 1..Len(waiters'), NEW j \in 1..Len(waiters'),
             waiters'[i] = waiters'[j]
      PROVE  i = j
  <2>1. old(i) = old(j)
    BY <1>8, <1>6 DEF OnePlace
  <2>2. QED BY <2>1, <1>5, <1>3, <1>4, <1>0
<1>9. QED BY <1>5, <1>7, <1>8
-----------------------------------------------------------------------------
(* The invariant is inductive *)

\* The initial state satisfies the invariant.
LEMMA InitIInv == Init => IInv
<1> SUFFICES ASSUME Init PROVE IInv
  OBVIOUS
<1>1. TypeOK
  BY LimitAssumption, EmptySeq DEF Init, TypeOK
<1>2. OnePlace
  <2>1. Len(waiters) = 0 /\ Parked = {}
    BY EmptySeq DEF Init, Parked
  <2>2. QED BY <2>1 DEF Init, OnePlace
<1>3. PermitConservation /\ DrainCap /\ NoLostWakeup
  BY LimitAssumption, FS_EmptySet
     DEF Init, PermitConservation, DrainCap, NoLostWakeup
<1>4. QED BY <1>1, <1>2, <1>3 DEF IInv

\* Nobody is parked twice, in or out of the queue, once `a` joined its end.
LEMMA ParkStep ==
    ASSUME IInv, NEW a \in Acquisition, Park(a)
    PROVE  IInv'
<1> USE DEF IInv
<1>0. waiters \in Seq(Acquisition) /\ Len(waiters) \in Nat
      /\ DOMAIN waiters = 1..Len(waiters)
  BY LenProperties DEF TypeOK
<1>1. /\ waiters' \in Seq(Acquisition)
      /\ Len(waiters') = Len(waiters) + 1
      /\ \A i \in 1..Len(waiters) : waiters'[i] = waiters[i]
      /\ waiters'[Len(waiters) + 1] = a
  BY <1>0, AppendProperties DEF Park
<1>2. DOMAIN waiters' = 1..Len(waiters')
  BY <1>1, LenProperties
<1>3. Parked' = Parked \cup {a}
  BY <1>0, <1>1, <1>2 DEF Parked
<1>4. \A i \in 1..Len(waiters) : waiters[i] # a
  BY <1>0 DEF Park, Parked
<1>5. \A i, j \in 1..Len(waiters') : waiters'[i] = waiters'[j] => i = j
  BY <1>0, <1>1, <1>4 DEF OnePlace
<1>6. OnePlace'
  BY <1>3, <1>5 DEF OnePlace, Park
<1>7. TypeOK' /\ PermitConservation' /\ DrainCap'
  BY <1>1 DEF TypeOK, PermitConservation, DrainCap, Park
<1>8. NoLostWakeup'
  BY DEF NoLostWakeup, Park, Locked, TypeOK
<1>9. QED BY <1>6, <1>7, <1>8

\* Entering at once moves one permit from the counter to a hold.
LEMMA EnterAtOnceStep ==
    ASSUME IInv, NEW a \in Acquisition, EnterAtOnce(a)
    PROVE  IInv'
<1> USE DEF IInv
<1>1. Cardinality(held') = Cardinality(held) + 1
  BY FiniteHolders, FS_AddElement DEF EnterAtOnce
<1>2. TypeOK'
  BY DEF TypeOK, EnterAtOnce, Locked
<1>3. Parked' = Parked
  BY DEF Parked, EnterAtOnce
<1>4. OnePlace'
  BY <1>3 DEF OnePlace, EnterAtOnce
<1>5. PermitConservation'
  BY <1>1, FiniteHolders DEF PermitConservation, EnterAtOnce, TypeOK
<1>6. DrainCap' /\ NoLostWakeup'
  BY DEF DrainCap, NoLostWakeup, EnterAtOnce, Locked
<1>7. QED BY <1>2, <1>4, <1>5, <1>6

\* Resuming turns a hand-off into a hold and may pass one permit on.
LEMMA ResumeStep ==
    ASSUME IInv, NEW a \in Acquisition, Resume(a)
    PROVE  IInv'
<1> USE DEF IInv
<1>1. /\ a \in handoff /\ held' = held \cup {a}
      /\ current_limit' = current_limit /\ drain_count' = drain_count
  BY DEF Resume
<1>2. Cardinality(held') = Cardinality(held) + 1
  BY <1>1, FiniteHolders, FS_AddElement DEF OnePlace
<1>3. CASE available > 0 /\ waiters # <<>>
  <2>1. /\ handoff' = (handoff \ {a}) \cup {Head(waiters)}
        /\ waiters' = Tail(waiters)
        /\ available' = available - 1
    BY <1>3 DEF Resume
  <2>2. /\ waiters' \in Seq(Acquisition)
        /\ handoff' \in SUBSET Acquisition
        /\ Head(waiters) \in Parked
        /\ Cardinality(handoff') = Cardinality(handoff)
        /\ Parked' \subseteq Parked
        /\ Parked' \cap handoff' = {}
        /\ \A i, j \in 1..Len(waiters') : waiters'[i] = waiters'[j] => i = j
    BY <1>1, <1>3, <2>1, PassOn
  <2>3. TypeOK'
    BY <1>1, <1>3, <2>1, <2>2 DEF TypeOK
  <2>4. OnePlace'
    BY <1>1, <2>1, <2>2 DEF OnePlace
  <2>5. PermitConservation'
    BY <1>1, <1>2, <2>1, <2>2, FiniteHolders DEF PermitConservation, TypeOK
  <2>6. DrainCap' /\ NoLostWakeup'
    BY <1>1, <2>1 DEF DrainCap, NoLostWakeup
  <2>7. QED BY <2>3, <2>4, <2>5, <2>6
<1>4. CASE ~(available > 0 /\ waiters # <<>>)
  <2>1. handoff' = handoff \ {a} /\ waiters' = waiters /\ available' = available
    BY <1>4 DEF Resume
  <2>2. Cardinality(handoff') = Cardinality(handoff) - 1
    BY <1>1, <2>1, FiniteHolders, FS_RemoveElement
  <2>3. Parked' = Parked
    BY <2>1 DEF Parked
  <2>4. TypeOK'
    BY <1>1, <2>1 DEF TypeOK
  <2>5. OnePlace'
    BY <1>1, <2>1, <2>3 DEF OnePlace
  <2>6. PermitConservation'
    BY <1>1, <1>2, <2>1, <2>2, FiniteHolders DEF PermitConservation, TypeOK
  <2>7. DrainCap' /\ NoLostWakeup'
    BY <1>1, <1>4, <2>1 DEF DrainCap, NoLostWakeup
  <2>8. QED BY <2>4, <2>5, <2>6, <2>7
<1>5. QED BY <1>3, <1>4

\* A cancelled parked waiter takes nothing along.
LEMMA CancelParkedStep ==
    ASSUME IInv, NEW a \in Acquisition, CancelParked(a)
    PROVE  IInv'
<1> USE DEF IInv
<1>1. /\ waiters' \in Seq(Acquisition)
      /\ Parked' \subseteq Parked
      /\ \A i, j \in 1..Len(waiters') : waiters'[i] = waiters'[j] => i = j
  BY LeaveQueue
<1>2. UNCHANGED <<current_limit, available, drain_count, handoff, held>>
  BY DEF CancelParked
<1>3. TypeOK'
  BY <1>1, <1>2 DEF TypeOK
<1>4. OnePlace'
  BY <1>1, <1>2 DEF OnePlace
<1>5. PermitConservation' /\ DrainCap'
  BY <1>2 DEF PermitConservation, DrainCap
<1>6. waiters # <<>>
  BY EmptySeq DEF CancelParked, Parked
<1>7. NoLostWakeup'
  BY <1>2, <1>6 DEF NoLostWakeup
<1>8. QED BY <1>3, <1>4, <1>5, <1>7

\* A cancelled hand-off goes to the next waiter or back to the counter.
LEMMA CancelHandoffStep ==
    ASSUME IInv, NEW a \in Acquisition, CancelHandoff(a)
    PROVE  IInv'
<1> USE DEF IInv
<1>1. /\ a \in handoff /\ held' = held
      /\ current_limit' = current_limit /\ drain_count' = drain_count
  BY DEF CancelHandoff
<1>2. CASE waiters # <<>>
  <2>1. /\ handoff' = (handoff \ {a}) \cup {Head(waiters)}
        /\ waiters' = Tail(waiters)
        /\ available' = available
    BY <1>2 DEF CancelHandoff
  <2>2. /\ waiters' \in Seq(Acquisition)
        /\ handoff' \in SUBSET Acquisition
        /\ Head(waiters) \in Parked
        /\ Cardinality(handoff') = Cardinality(handoff)
        /\ Parked' \subseteq Parked
        /\ Parked' \cap handoff' = {}
        /\ \A i, j \in 1..Len(waiters') : waiters'[i] = waiters'[j] => i = j
    BY <1>1, <1>2, <2>1, PassOn
  <2>3. TypeOK'
    BY <1>1, <2>1, <2>2 DEF TypeOK
  <2>4. OnePlace'
    BY <1>1, <2>1, <2>2 DEF OnePlace
  <2>5. PermitConservation' /\ DrainCap' /\ NoLostWakeup'
    BY <1>1, <2>1, <2>2 DEF PermitConservation, DrainCap, NoLostWakeup
  <2>6. QED BY <2>3, <2>4, <2>5
<1>3. CASE waiters = <<>>
  <2>1. handoff' = handoff \ {a} /\ waiters' = waiters
        /\ available' = available + 1
    BY <1>3 DEF CancelHandoff
  <2>2. Cardinality(handoff') = Cardinality(handoff) - 1
    BY <1>1, <2>1, FiniteHolders, FS_RemoveElement
  <2>3. Parked' = Parked
    BY <2>1 DEF Parked
  <2>4. TypeOK'
    BY <1>1, <2>1 DEF TypeOK
  <2>5. OnePlace'
    BY <1>1, <2>1, <2>3 DEF OnePlace
  <2>6. PermitConservation'
    BY <1>1, <2>1, <2>2, FiniteHolders DEF PermitConservation, TypeOK
  <2>7. DrainCap' /\ NoLostWakeup'
    BY <1>1, <1>3, <2>1 DEF DrainCap, NoLostWakeup
  <2>8. QED BY <2>4, <2>5, <2>6, <2>7
<1>4. QED BY <1>2, <1>3

\* A new limit is between the bounds; shrinking goes down, growing by one.
LEMMA NewLimitRange ==
    ASSUME TypeOK, NEW slow \in BOOLEAN
    PROVE  /\ NewLimit(slow) \in MinLimit..MaxLimit
           /\ NewLimit(slow) <= current_limit + 1
<1>1. current_limit \in Nat /\ MinLimit \in Nat /\ MaxLimit \in Nat
      /\ MinLimit <= current_limit /\ current_limit <= MaxLimit
  BY LimitAssumption DEF TypeOK
<1> DEFINE q == (current_limit * 9) \div 10
<1>2. q \in Nat /\ q <= current_limit
  BY <1>1
<1> HIDE DEF q
<1>3. CASE slow
  <2>1. NewLimit(slow) = Larger(MinLimit, q)
    BY <1>3 DEF NewLimit, q
  <2>2. QED BY <2>1, <1>1, <1>2 DEF Larger
<1>4. CASE ~slow
  <2>1. NewLimit(slow) = Smaller(MaxLimit, current_limit + 1)
    BY <1>4 DEF NewLimit
  <2>2. QED BY <2>1, <1>1, LimitAssumption DEF Smaller
<1>5. QED BY <1>3, <1>4

\* Leaving absorbs, releases, grows and shrinks without losing a permit.
LEMMA ExitStep ==
    ASSUME IInv, NEW a \in Acquisition, NEW slow \in BOOLEAN, Exit(a, slow)
    PROVE  IInv'
<1> USE DEF IInv
<1> DEFINE new    == NewLimit(slow)
           grown  == IF new > current_limit THEN new - current_limit ELSE 0
           shrunk == IF new < current_limit THEN current_limit - new ELSE 0
           own    == IF drain_count > 0 THEN 0 ELSE 1
           freed  == own + (grown - CancelledDrains(grown))
<1>1. /\ a \in held /\ held' = held \ {a}
      /\ drain_count' = (Drained - CancelledDrains(grown)) + shrunk
      /\ Release(freed)
      /\ current_limit' = new
  BY DEF Exit
<1>2. new \in MinLimit..MaxLimit /\ new <= current_limit + 1
      /\ current_limit \in Nat /\ drain_count \in Nat /\ new \in Nat
      /\ current_limit <= MaxLimit /\ MaxLimit \in Nat /\ available \in Nat
  BY NewLimitRange, LimitAssumption DEF TypeOK
<1> HIDE DEF new
<1>3. /\ drain_count' \in Nat
      /\ freed \in Nat
      /\ current_limit' + drain_count' = current_limit + drain_count + freed - 1
      /\ current_limit' + drain_count' <= MaxLimit
  BY <1>1, <1>2 DEF Drained, CancelledDrains, Smaller, DrainCap
<1> HIDE DEF freed, grown, shrunk, own
<1>4. /\ waiters' \in Seq(Acquisition)
      /\ handoff' \in SUBSET Acquisition
      /\ available' \in Nat
      /\ available' + Cardinality(handoff')
           = available + Cardinality(handoff) + freed
      /\ handoff' \subseteq handoff \cup Parked
      /\ Parked' \subseteq Parked
      /\ Parked' \cap handoff' = {}
      /\ \A i, j \in 1..Len(waiters') : waiters'[i] = waiters'[j] => i = j
      /\ waiters' # <<>> /\ available' > 0 => handoff' # {}
  BY <1>1, <1>3, ReleaseEffect
<1>5. TypeOK'
  BY <1>1, <1>2, <1>3, <1>4 DEF TypeOK
<1>6. OnePlace'
  BY <1>1, <1>4 DEF OnePlace
<1>7. Cardinality(held') = Cardinality(held) - 1
  BY <1>1, FiniteHolders, FS_RemoveElement
<1>8. Cardinality(handoff') \in Nat
  BY <1>5, FiniteHolders, AcquisitionAssumption, FS_Subset, FS_CardinalityType
     DEF TypeOK
<1>9. PermitConservation'
  <2>1. available + Cardinality(held) + Cardinality(handoff)
          = current_limit + drain_count
    BY DEF PermitConservation
  <2>2. /\ available \in Nat /\ available' \in Nat /\ freed \in Nat
        /\ Cardinality(held) \in Nat /\ Cardinality(handoff) \in Nat
        /\ current_limit \in Nat /\ drain_count \in Nat
        /\ current_limit' \in Nat /\ drain_count' \in Nat
    <3>1. Cardinality(held) \in Nat /\ Cardinality(handoff) \in Nat
      BY FiniteHolders
    <3>2. current_limit' \in Nat
      BY <1>1, <1>2
    <3>3. QED BY <1>2, <1>3, <1>4, <3>1, <3>2
  <2>3. available' + Cardinality(held') + Cardinality(handoff')
          = current_limit' + drain_count'
    <3>1. available' + Cardinality(handoff')
            = available + Cardinality(handoff) + freed
      BY <1>4
    <3>2. current_limit' + drain_count' = current_limit + drain_count + freed - 1
      BY <1>3
    <3> DEFINE l2 == current_limit'  d2 == drain_count'  a2 == available'
               h2 == Cardinality(handoff')
    <3>3. /\ l2 \in Nat /\ d2 \in Nat /\ a2 \in Nat /\ h2 \in Nat
          /\ a2 + h2 = available + Cardinality(handoff) + freed
          /\ l2 + d2 = current_limit + drain_count + freed - 1
      BY <2>2, <3>1, <3>2, <1>8
    <3> HIDE DEF l2, d2, a2, h2
    <3>4. /\ available \in Nat /\ freed \in Nat /\ Cardinality(held) \in Nat
          /\ Cardinality(handoff) \in Nat
          /\ current_limit \in Nat /\ drain_count \in Nat
      BY <2>2
    <3>5. a2 + (Cardinality(held) - 1) + h2 = l2 + d2
      BY <2>1, <3>3, <3>4
    <3>6. QED BY <3>5, <1>7 DEF l2, d2, a2, h2
  <2>4. QED BY <2>3 DEF PermitConservation
<1>10. DrainCap' /\ NoLostWakeup'
  BY <1>3, <1>4 DEF DrainCap, NoLostWakeup
<1>11. QED BY <1>5, <1>6, <1>9, <1>10

\* Every step of the limiter keeps the invariant.
LEMMA NextIInv == IInv /\ [Next]_vars => IInv'
<1> SUFFICES ASSUME IInv, [Next]_vars PROVE IInv'
  OBVIOUS
<1>1. CASE UNCHANGED vars
  BY <1>1 DEF IInv, TypeOK, OnePlace, Parked, PermitConservation, DrainCap,
              NoLostWakeup, vars
<1>2. ASSUME NEW a \in Acquisition, EnterAtOnce(a) PROVE IInv'
  BY <1>2, EnterAtOnceStep
<1>3. ASSUME NEW a \in Acquisition, Park(a) PROVE IInv'
  BY <1>3, ParkStep
<1>4. ASSUME NEW a \in Acquisition, Resume(a) PROVE IInv'
  BY <1>4, ResumeStep
<1>5. ASSUME NEW a \in Acquisition, CancelParked(a) PROVE IInv'
  BY <1>5, CancelParkedStep
<1>6. ASSUME NEW a \in Acquisition, CancelHandoff(a) PROVE IInv'
  BY <1>6, CancelHandoffStep
<1>7. ASSUME NEW a \in Acquisition, NEW slow \in BOOLEAN, Exit(a, slow)
      PROVE  IInv'
  BY <1>7, ExitStep
<1>8. QED
  BY <1>1, <1>2, <1>3, <1>4, <1>5, <1>6, <1>7 DEF Next

\* IInv is inductive.
LEMMA Invariance == Spec => []IInv
  BY InitIInv, NextIInv, PTL DEF Spec
-----------------------------------------------------------------------------
(* Theorems *)

\* Types, for every finite set of acquisitions and all limits.
THEOREM TypeCorrect == Spec => []TypeOK
<1>1. IInv => TypeOK
  BY DEF IInv
<1>2. QED BY <1>1, Invariance, PTL

\* __aexit__ and the hand-off neither lose nor mint a permit (FZ-04).
THEOREM Conservation == Spec => []PermitConservation
<1>1. IInv => PermitConservation
  BY DEF IInv
<1>2. QED BY <1>1, Invariance, PTL

\* At most max_limit calls are in flight, whatever the limit did meanwhile.
THEOREM Capped == Spec => []ConcurrencyCap
<1>1. IInv => ConcurrencyCap
  BY FiniteHolders, LimitAssumption
     DEF IInv, TypeOK, PermitConservation, DrainCap, ConcurrencyCap
<1>2. QED BY <1>1, Invariance, PTL

\* A free permit and a parked waiter imply a wake-up on its way.
THEOREM WakeupsKept == Spec => []NoLostWakeup
<1>1. IInv => NoLostWakeup
  BY DEF IInv
<1>2. QED BY <1>1, Invariance, PTL

\* The limiter implements the abstract pool of max_limit permits.
THEOREM Refinement == Spec => ImplementsPermitPool
<1>1. Init => Pool!Init
  BY DEF Init, Pool!Init
<1>2. IInv /\ [Next]_vars => [Pool!Next]_held
  <2> SUFFICES ASSUME IInv, [Next]_vars PROVE [Pool!Next]_held
    OBVIOUS
  <2>0. /\ Cardinality(held) \in Nat /\ Cardinality(handoff) \in Nat
        /\ IsFiniteSet(handoff)
        /\ available \in Nat /\ current_limit \in Nat /\ drain_count \in Nat
        /\ MaxLimit \in Nat
        /\ available + Cardinality(held) + Cardinality(handoff) <= MaxLimit
    BY FiniteHolders, LimitAssumption
       DEF IInv, TypeOK, PermitConservation, DrainCap
  <2>a. Pool!Cardinality(held) = Cardinality(held)
    BY DEF Pool!Cardinality, Cardinality
  <2>1. ASSUME NEW a \in Acquisition, EnterAtOnce(a) PROVE Pool!Enter(a)
    BY <2>0, <2>a, <2>1 DEF EnterAtOnce, Locked, Pool!Enter
  <2>2. ASSUME NEW a \in Acquisition, Resume(a) PROVE Pool!Enter(a)
    <3>1. Cardinality(handoff) # 0
      BY <2>0, <2>2, FS_EmptySet DEF Resume
    <3>2. Cardinality(held) < MaxLimit
      BY <2>0, <3>1
    <3>3. QED BY <2>2, <2>a, <3>2 DEF Resume, Pool!Enter, IInv, OnePlace
  <2>3. ASSUME NEW a \in Acquisition, NEW slow \in BOOLEAN, Exit(a, slow)
        PROVE  Pool!Leave(a)
    BY <2>3 DEF Exit, Pool!Leave
  <2>4. ASSUME NEW a \in Acquisition, Park(a) \/ CancelParked(a) \/ CancelHandoff(a)
        PROVE  UNCHANGED held
    BY <2>4 DEF Park, CancelParked, CancelHandoff
  <2>5. QED
    BY <2>1, <2>2, <2>3, <2>4 DEF Next, vars, Pool!Next
<1>3. QED
  BY <1>1, <1>2, Invariance, PTL DEF Spec, ImplementsPermitPool, Pool!Spec
-----------------------------------------------------------------------------
(* The adapters of a capability. *)
Scores == [Runtime!Adapter -> Nat]
Rankings == Seq(Runtime!Adapter)
\* A ranking asks for every adapter that was available, the healthier first, and else for
\* the one that recovers soonest.
Ranks(q, of) ==
    IF of.able = {} THEN Runtime!ToSet(q) = of.soonest
    ELSE /\ Runtime!ToSet(q) = of.able
         /\ \A i, j \in 1..Len(q) : i < j => of.score[q[i]] >= of.score[q[j]]
\* What an invocation has asked, and will, is the ranking it started with.
AdaptersTyped ==
    /\ now \in Nat /\ health \in Scores /\ strikes \in Scores /\ until \in Scores
    /\ todo = [c \in Invocation |-> todo[c]] /\ tried = [c \in Invocation |-> tried[c]]
    /\ choice = [c \in Invocation |-> choice[c]] /\ pc = [c \in Invocation |-> pc[c]]
    /\ \A c \in Invocation : todo[c] \in Rankings /\ tried[c] \in Rankings
AdaptersFollow ==
    \A c \in Invocation :
        /\ pc[c] = "idle" => tried[c] = <<>>
        /\ pc[c] = "asking" => todo[c] # <<>> /\ Ranks(tried[c] \o todo[c], choice[c])
        /\ pc[c] = "failed" => Ranks(tried[c], choice[c])
AdaptersIInv == AdaptersTyped /\ AdaptersFollow

LEMMA AdaptersTried == AdaptersIInv => EveryAdapterTried
<1> SUFFICES ASSUME AdaptersIInv, NEW c \in Invocation, pc[c] = "failed"
             PROVE  IF choice[c].able = {} THEN Runtime!ToSet(tried[c]) = choice[c].soonest
                    ELSE /\ Runtime!ToSet(tried[c]) = choice[c].able
                         /\ \A i, j \in DOMAIN tried[c] :
                              i < j => choice[c].score[tried[c][i]] >= choice[c].score[tried[c][j]]
  BY DEF EveryAdapterTried, Runtime!EveryAdapterTried
<1>1. Ranks(tried[c], choice[c]) /\ DOMAIN tried[c] = 1..Len(tried[c])
  BY DEF AdaptersIInv, AdaptersFollow, AdaptersTyped, Rankings
<1> QED BY <1>1 DEF Ranks

LEMMA AdaptersInitially == Runtime!Init => AdaptersIInv
<1> SUFFICES ASSUME Runtime!Init PROVE AdaptersIInv
  OBVIOUS
<1>1. AdaptersTyped
  BY AdaptersAssumption DEF Runtime!Init, AdaptersTyped, Scores, Rankings
<1>2. AdaptersFollow
  BY DEF Runtime!Init, AdaptersFollow
<1> QED BY <1>1, <1>2 DEF AdaptersIInv

-----------------------------------------------------------------------------
(* Lemmas about the operators of Adapters. *)

\* Numbers are well ordered: a set of them has a least one.
Less == {p \in Nat \X Nat : p[1] < p[2]}
LEMMA Least == ASSUME NEW T, T \subseteq Nat, T # {} PROVE \E m \in T : \A n \in T : m <= n
<1>1. IsWellFoundedOn(Less, Nat)
  BY NatLessThanWellFounded DEF OpToRel, Less
<1>2. PICK m \in T : \A n \in T : ~(<<n, m>> \in Less)
  BY <1>1, WFMin
<1>3. ASSUME NEW n \in T PROVE m <= n
  <2>1. m \in Nat /\ n \in Nat /\ ~(<<n, m>> \in Less)
    BY <1>2
  <2>2. ~(n < m)
    BY <2>1 DEF Less
  <2> QED BY <2>1, <2>2
<1> QED BY <1>3

LEMMA PowerIsNat == ASSUME NEW n \in Nat PROVE 2 ^ n \in Nat
<1>1. IsFiniteSet(1..n) /\ Cardinality(1..n) = n
  BY FS_Interval
<1>2. IsFiniteSet(SUBSET (1..n)) /\ Cardinality(SUBSET (1..n)) = 2 ^ n
  <2>1. IsFiniteSet(SUBSET (1..n)) /\ Cardinality(SUBSET (1..n)) = 2 ^ Cardinality(1..n)
    BY <1>1, FS_SUBSET
  <2> QED BY <1>1, <2>1
<1> QED BY <1>2, FS_CardinalityType

LEMMA DelayIsNat == ASSUME NEW n \in Nat, n >= 1 PROVE Runtime!Delay(n) \in Nat
<1>1. n - 1 \in Nat
  OBVIOUS
<1>2. 2 ^ (n - 1) \in Nat
  BY <1>1, PowerIsNat
<1> QED BY <1>2, AdaptersAssumption DEF Runtime!Delay

\* The adapter whose cooldown ends first is one of those registered.
LEMMA SoonestIsOne ==
    ASSUME until \in Scores, NEW s \in Rankings, s # <<>>
    PROVE  Runtime!Soonest(s) \in Runtime!Adapter
<1> DEFINE D == 1..Len(s)
           U == {until[s[i]] : i \in D}
<1>0. DOMAIN s = D /\ 1 \in D /\ Len(s) \in Nat /\ \A i \in D : s[i] \in Runtime!Adapter
  BY DEF Rankings
<1>1. U \subseteq Nat /\ U # {}
  BY <1>0 DEF Scores
<1>2. PICK u \in U : \A v \in U : u <= v
  BY <1>1, Least
<1> DEFINE F == {i \in D : until[s[i]] = u}
<1>3. F \subseteq Nat /\ F # {}
  OBVIOUS
<1>4. PICK i \in F : \A j \in F : i <= j
  BY <1>3, Least
<1>5. \A j \in D : until[s[i]] <= until[s[j]]
  BY <1>2, <1>4
<1>6. ASSUME NEW j \in 1 .. i - 1 PROVE until[s[j]] > until[s[i]]
  <2>1. j \in D /\ j < i
    BY <1>3, <1>4
  <2>2. j \notin F
    BY <1>3, <1>4, <2>1
  <2>3. until[s[j]] \in Nat /\ until[s[i]] \in Nat /\ until[s[i]] <= until[s[j]]
    BY <1>0, <1>4, <1>5, <2>1 DEF Scores
  <2>4. until[s[j]] # until[s[i]]
    BY <1>4, <2>1, <2>2
  <2> QED BY <2>3, <2>4
<1>7. Runtime!Soonest(s) = s[CHOOSE k \in DOMAIN s :
        /\ \A j \in DOMAIN s : until[s[k]] <= until[s[j]]
        /\ \A j \in 1 .. k - 1 : until[s[j]] > until[s[k]]]
  BY DEF Runtime!Soonest
<1>8. \E k \in DOMAIN s :
        /\ \A j \in DOMAIN s : until[s[k]] <= until[s[j]]
        /\ \A j \in 1 .. k - 1 : until[s[j]] > until[s[k]]
  BY <1>0, <1>4, <1>5, <1>6
<1> HIDE DEF D, U, F
<1> QED BY <1>0, <1>7, <1>8

\* The ranking that an invocation starts with.
LEMMA RankRanks ==
    ASSUME health \in Scores, until \in Scores, NEW s \in Rankings, s # <<>>,
           NEW q \in Runtime!Rank(s)
    PROVE  LET of == [able |-> Runtime!AbleOf(s), score |-> health,
                      soonest |-> {Runtime!Soonest(s)}]
           IN  q \in Rankings /\ q # <<>> /\ Ranks(q, of)
<1> DEFINE of == [able |-> Runtime!AbleOf(s), score |-> health, soonest |-> {Runtime!Soonest(s)}]
<1>1. CASE Runtime!AbleOf(s) = {}
  <2>1. q = <<Runtime!Soonest(s)>>
    BY <1>1 DEF Runtime!Rank
  <2>2. q \in Rankings /\ q # <<>>
    BY <2>1, SoonestIsOne DEF Rankings
  <2>3. Runtime!ToSet(q) = {Runtime!Soonest(s)}
    BY <2>1 DEF Runtime!ToSet
  <2> QED BY <1>1, <2>2, <2>3 DEF Ranks
<1>2. CASE Runtime!AbleOf(s) # {}
  <2> DEFINE able == {i \in DOMAIN s : Runtime!Available(s[i])}
             n == Cardinality(able)
  <2>0. DOMAIN s = 1..Len(s) /\ Len(s) \in Nat /\ \A i \in 1..Len(s) : s[i] \in Runtime!Adapter
    BY DEF Rankings
  <2>1. n \in Nat
    <3>1. IsFiniteSet(1..Len(s)) /\ able \subseteq 1..Len(s)
      BY <2>0, FS_Interval
    <3> QED BY <3>1, FS_Subset, FS_CardinalityType
  <2>2. PICK o \in [1..n -> able] :
          /\ q = [k \in DOMAIN o |-> s[o[k]]]
          /\ Runtime!ToSet(o) = able
          /\ \A k, m \in DOMAIN o : k < m =>
               \/ health[s[o[k]]] > health[s[o[m]]]
               \/ health[s[o[k]]] = health[s[o[m]]] /\ o[k] < o[m]
    <3> DEFINE Earlier(i, j) ==
                 \/ health[s[i]] > health[s[j]]
                 \/ health[s[i]] = health[s[j]] /\ i < j
               Ordered(o) ==
                 /\ Runtime!ToSet(o) = able
                 /\ \A k, m \in DOMAIN o : k < m => Earlier(o[k], o[m])
               All == {o \in [1..n -> able] : Ordered(o)}
    <3>1. q \in Runtime!Healthiest(s)
      BY <1>2 DEF Runtime!Rank
    <3>2. Runtime!Healthiest(s) = {[k \in DOMAIN o |-> s[o[k]]] : o \in All}
      <4>1. Runtime!Cardinality(able) = n
        BY DEF Runtime!Cardinality, Cardinality
      <4> QED BY <4>1, Zenon DEF Runtime!Healthiest
    <3> HIDE DEF All
    <3>3. PICK o \in All : q = [k \in DOMAIN o |-> s[o[k]]]
      BY <3>1, <3>2
    <3>4. o \in [1..n -> able] /\ Ordered(o)
      BY <3>3 DEF All
    <3> HIDE DEF n, able
    <3> QED BY <3>3, <3>4
  <2>3. DOMAIN o = 1..n /\ \A k \in 1..n : o[k] \in able
    OBVIOUS
  <2>4. q \in Seq(Runtime!Adapter) /\ Len(q) = n /\ \A k \in 1..n : q[k] = s[o[k]]
    <3>1. q \in [1..n -> Runtime!Adapter]
      BY <2>0, <2>2, <2>3
    <3> HIDE DEF n, able
    <3> QED BY <2>1, <2>2, <2>3, <3>1
  <2>5. Runtime!ToSet(q) = Runtime!AbleOf(s)
    <3>1. Runtime!ToSet(q) = {s[o[k]] : k \in 1..n}
      BY <2>2, <2>3 DEF Runtime!ToSet
    <3>2. {o[k] : k \in 1..n} = able
      BY <2>2, <2>3 DEF Runtime!ToSet
    <3>3. Runtime!AbleOf(s) = {s[i] : i \in able}
      BY DEF Runtime!AbleOf, Runtime!ToSet
    <3> HIDE DEF able, n
    <3> QED BY <3>1, <3>2, <3>3
  <2>6. \A k, m \in 1..n : k < m => health[q[k]] >= health[q[m]]
    <3> SUFFICES ASSUME NEW k \in 1..n, NEW m \in 1..n, k < m PROVE health[q[k]] >= health[q[m]]
      OBVIOUS
    <3>1. q[k] \in Runtime!Adapter /\ q[m] \in Runtime!Adapter
      BY <2>1, <2>4
    <3>2. health[q[k]] \in Nat /\ health[q[m]] \in Nat
      BY <3>1 DEF Scores
    <3>3. health[q[k]] > health[q[m]] \/ health[q[k]] = health[q[m]]
      BY <2>2, <2>3, <2>4
    <3> QED BY <3>2, <3>3
  <2>7. q # <<>>
    BY <1>2, <2>5 DEF Runtime!ToSet
  <2> HIDE DEF n, able
  <2>8. /\ of.able = Runtime!AbleOf(s) /\ of.score = health
    OBVIOUS
  <2> HIDE DEF of
  <2>9. Ranks(q, of)
    BY <1>2, <2>4, <2>5, <2>6, <2>8 DEF Ranks
  <2> QED BY <2>4, <2>7, <2>9 DEF of, Rankings
<1> QED BY <1>1, <1>2

-----------------------------------------------------------------------------
LEMMA AdaptersInvokeKeeps ==
    ASSUME AdaptersIInv, NEW c \in Invocation, NEW t \in Type, Runtime!Invoke(c, t)
    PROVE  AdaptersIInv'
<1>0. pc[c] = "idle" /\ UNCHANGED <<now, health, strikes, until, tried>>
  BY DEF Runtime!Invoke
<1>1. CASE t \notin DOMAIN Provides \/ Provides[t] = <<>>
  <2>1. pc' = [pc EXCEPT ![c] = "unknown"] /\ UNCHANGED <<todo, choice>>
    BY <1>1 DEF Runtime!Invoke
  <2> QED BY <1>0, <2>1 DEF AdaptersIInv, AdaptersTyped, AdaptersFollow, Scores, Rankings
<1>2. CASE ~(t \notin DOMAIN Provides \/ Provides[t] = <<>>)
  <2> DEFINE s == Provides[t]
             of == [able |-> Runtime!AbleOf(s), score |-> health, soonest |-> {Runtime!Soonest(s)}]
  <2>1. PICK q \in Runtime!Rank(s) : todo' = [todo EXCEPT ![c] = q]
    BY <1>2 DEF Runtime!Invoke
  <2>2. pc' = [pc EXCEPT ![c] = "asking"] /\ choice' = [choice EXCEPT ![c] = of]
    BY <1>2 DEF Runtime!Invoke
  <2>3. s \in Rankings /\ s # <<>>
    BY <1>2, AdaptersAssumption DEF Rankings
  <2> HIDE DEF s
  <2>4. q \in Rankings /\ q # <<>> /\ Ranks(q, of)
    BY <2>1, <2>3, RankRanks DEF AdaptersIInv, AdaptersTyped
  <2> HIDE DEF of
  <2>5. <<>> \o q = q
    BY <2>4 DEF Rankings
  <2>6. tried'[c] = <<>> /\ todo'[c] = q /\ choice'[c] = of
    BY <1>0, <2>1, <2>2 DEF AdaptersIInv, AdaptersTyped, AdaptersFollow
  <2>7. AdaptersTyped'
    BY <1>0, <2>1, <2>2, <2>4 DEF AdaptersIInv, AdaptersTyped
  <2>8. AdaptersFollow'
    <3> SUFFICES ASSUME NEW d \in Invocation
                 PROVE  /\ pc'[d] = "idle" => tried'[d] = <<>>
                        /\ pc'[d] = "asking" =>
                             todo'[d] # <<>> /\ Ranks(tried'[d] \o todo'[d], choice'[d])
                        /\ pc'[d] = "failed" => Ranks(tried'[d], choice'[d])
      BY DEF AdaptersFollow, Ranks
    <3>1. CASE d = c
      <4>1. pc'[c] = "asking"
        BY <2>2 DEF AdaptersIInv, AdaptersTyped
      <4>2. tried'[c] \o todo'[c] = q
        BY <2>5, <2>6
      <4> QED BY <2>4, <2>6, <3>1, <4>1, <4>2
    <3>2. CASE d # c
      <4>1. UNCHANGED <<pc[d], todo[d], tried[d], choice[d]>>
        BY <1>0, <2>1, <2>2, <3>2 DEF AdaptersIInv, AdaptersTyped
      <4> QED BY <4>1 DEF AdaptersIInv, AdaptersFollow
    <3> QED BY <3>1, <3>2
  <2> QED BY <2>7, <2>8 DEF AdaptersIInv
<1> QED BY <1>1, <1>2

\* An invocation that ends by other means than by a failure.
LEMMA AdaptersEndsKeeps ==
    ASSUME AdaptersIInv, NEW c \in Invocation, NEW step \in {"served", "cancelled"},
           pc' = [pc EXCEPT ![c] = step], Runtime!Forget(c), now' = now,
           health' \in Scores, strikes' \in Scores, until' \in Scores
    PROVE  AdaptersIInv'
<1>1. /\ todo' = [todo EXCEPT ![c] = <<>>] /\ tried' = [tried EXCEPT ![c] = <<>>]
      /\ choice' = [choice EXCEPT ![c] = Runtime!NoChoice]
  BY DEF Runtime!Forget
<1>2. AdaptersTyped'
  <2>1. <<>> \in Rankings
    BY DEF Rankings
  <2> DEFINE none == Runtime!NoChoice
  <2> HIDE DEF none
  <2>2. choice' = [choice EXCEPT ![c] = none]
    BY <1>1 DEF none
  <2>3. /\ todo' = [d \in Invocation |-> todo'[d]] /\ tried' = [d \in Invocation |-> tried'[d]]
        /\ pc' = [d \in Invocation |-> pc'[d]]
    BY <1>1 DEF AdaptersIInv, AdaptersTyped
  <2>4. choice' = [d \in Invocation |-> choice'[d]]
    BY <2>2 DEF AdaptersIInv, AdaptersTyped
  <2>5. \A d \in Invocation : todo'[d] \in Rankings /\ tried'[d] \in Rankings
    BY <1>1, <2>1 DEF AdaptersIInv, AdaptersTyped
  <2>6. now' \in Nat
    BY DEF AdaptersIInv, AdaptersTyped
  <2> QED BY <2>3, <2>4, <2>5, <2>6 DEF AdaptersTyped
<1>3. ASSUME NEW d \in Invocation
      PROVE  \/ d = c /\ pc'[d] = step
             \/ pc'[d] = pc[d] /\ todo'[d] = todo[d] /\ tried'[d] = tried[d] /\ choice'[d] = choice[d]
  BY <1>1 DEF AdaptersIInv, AdaptersTyped
<1>4. AdaptersFollow'
  <2> SUFFICES ASSUME NEW d \in Invocation
               PROVE  /\ pc'[d] = "idle" => tried'[d] = <<>>
                      /\ pc'[d] = "asking" =>
                           todo'[d] # <<>> /\ Ranks(tried'[d] \o todo'[d], choice'[d])
                      /\ pc'[d] = "failed" => Ranks(tried'[d], choice'[d])
    BY DEF AdaptersFollow, Ranks
  <2>1. CASE pc'[d] = step
    BY <2>1
  <2>2. CASE pc'[d] # step
    BY <1>3, <2>2 DEF AdaptersIInv, AdaptersFollow
  <2> QED BY <2>1, <2>2
<1> QED BY <1>2, <1>4 DEF AdaptersIInv

LEMMA AdaptersServeKeeps ==
    ASSUME AdaptersIInv, NEW c \in Invocation, NEW detail \in Runtime!Details, Runtime!Serve(c, detail)
    PROVE  AdaptersIInv'
<1> DEFINE a == Head(todo[c])
<1>1. a \in Runtime!Adapter
  BY HeadTailProperties DEF Runtime!Serve, AdaptersIInv, AdaptersTyped, AdaptersFollow, Rankings
<1>2. /\ strikes' = [strikes EXCEPT ![a] = 0] /\ health' = [health EXCEPT ![a] = Runtime!Gained(a)]
      /\ pc' = [pc EXCEPT ![c] = "served"] /\ Runtime!Forget(c) /\ UNCHANGED <<now, until>>
  BY DEF Runtime!Serve
<1> HIDE DEF a
<1>3. Runtime!Gained(a) \in Nat
  BY <1>1, AdaptersAssumption DEF Runtime!Gained, AdaptersIInv, AdaptersTyped, Scores
<1>4. health' \in Scores /\ strikes' \in Scores /\ until' \in Scores
  BY <1>1, <1>2, <1>3 DEF AdaptersIInv, AdaptersTyped, Scores
<1> QED BY <1>2, <1>4, AdaptersEndsKeeps

LEMMA AdaptersCancelKeeps ==
    ASSUME AdaptersIInv, NEW c \in Invocation, Runtime!Cancel(c) PROVE AdaptersIInv'
BY AdaptersEndsKeeps DEF Runtime!Cancel, AdaptersIInv, AdaptersTyped

LEMMA AdaptersFailKeeps ==
    ASSUME AdaptersIInv, NEW c \in Invocation, NEW detail \in Runtime!Details,
           Runtime!FailAdapter(c, detail)
    PROVE  AdaptersIInv'
<1> DEFINE a == Head(todo[c])
           rest == Tail(todo[c])
           more == Append(tried[c], a)
<1>0. pc[c] = "asking" /\ todo[c] # <<>> /\ todo[c] \in Rankings /\ tried[c] \in Rankings
  BY DEF Runtime!FailAdapter, AdaptersIInv, AdaptersTyped, AdaptersFollow
<1>1. a \in Runtime!Adapter /\ rest \in Rankings /\ more \in Rankings
  BY <1>0 DEF Rankings
<1>2. more \o rest = tried[c] \o todo[c]
  <2>1. more = tried[c] \o <<a>>
    BY <1>0, <1>1, AppendIsConcat DEF Rankings
  <2>2. <<a>> \o rest = todo[c]
    <3>1. <<a>> \in Seq(Runtime!Adapter) /\ rest \in Seq(Runtime!Adapter)
      BY <1>1 DEF Rankings
    <3>2. Len(todo[c]) \in Nat /\ Len(todo[c]) >= 1 /\ Len(rest) = Len(todo[c]) - 1
          /\ \A i \in 1..Len(rest) : rest[i] = todo[c][i + 1]
      BY <1>0, HeadTailProperties, LenProperties DEF Rankings
    <3>3. a = todo[c][1]
      BY <1>0 DEF Rankings
    <3>4. /\ Len(<<a>> \o rest) = Len(todo[c])
          /\ \A i \in 1..Len(todo[c]) : (<<a>> \o rest)[i] = todo[c][i]
      <4> HIDE DEF a, rest
      <4>1. /\ <<a>> \o rest \in Seq(Runtime!Adapter)
            /\ Len(<<a>> \o rest) = 1 + Len(rest)
            /\ \A i \in 1..1 + Len(rest) :
                 (<<a>> \o rest)[i] = IF i <= 1 THEN a ELSE rest[i - 1]
        BY <3>1, ConcatProperties
      <4> QED BY <3>2, <3>3, <4>1
    <3>5. <<a>> \o rest \in Seq(Runtime!Adapter)
      BY <3>1, ConcatProperties
    <3> HIDE DEF a, rest
    <3> QED BY <1>0, <3>4, <3>5, SeqEqual DEF Rankings
  <2>3. (tried[c] \o <<a>>) \o rest = tried[c] \o (<<a>> \o rest)
    <3>1. <<a>> \in Seq(Runtime!Adapter)
      BY <1>1
    <3> DEFINE S == Runtime!Adapter
               one == <<a>>
               past == tried[c]
    <3>2. one \in Seq(S) /\ rest \in Seq(S) /\ past \in Seq(S)
      BY <1>0, <1>1, <3>1 DEF Rankings
    <3> HIDE DEF S, one, past, rest
    <3>3. (past \o one) \o rest = past \o (one \o rest)
      BY <3>2, ConcatAssociative
    <3> QED BY <3>3 DEF one, past
  <2> QED BY <2>1, <2>2, <2>3
<1>3. /\ strikes' = [strikes EXCEPT ![a] = @ + 1]
      /\ health' = [health EXCEPT ![a] = IF @ < Loss THEN 0 ELSE @ - Loss]
      /\ until' = [until EXCEPT ![a] = now + Runtime!Delay(strikes'[a])]
      /\ tried' = [tried EXCEPT ![c] = more] /\ todo' = [todo EXCEPT ![c] = rest]
      /\ IF todo'[c] = <<>> THEN pc' = [pc EXCEPT ![c] = "failed"] ELSE pc' = pc
      /\ UNCHANGED <<now, choice>>
  BY DEF Runtime!FailAdapter, Runtime!AskNext
<1> HIDE DEF a, rest, more
<1>4. strikes'[a] \in Nat /\ strikes'[a] >= 1 /\ strikes' \in Scores
  BY <1>1, <1>3 DEF AdaptersIInv, AdaptersTyped, Scores
<1>5. Runtime!Delay(strikes'[a]) \in Nat
  BY <1>4, DelayIsNat
<1>6. health' \in Scores /\ until' \in Scores
  <2>1. health[a] \in Nat /\ now \in Nat
    BY <1>1 DEF AdaptersIInv, AdaptersTyped, Scores
  <2>2. (IF health[a] < Loss THEN 0 ELSE health[a] - Loss) \in Nat
    BY <2>1, AdaptersAssumption
  <2>3. health' \in Scores
    BY <1>3, <2>2 DEF AdaptersIInv, AdaptersTyped, Scores
  <2> DEFINE end == now + Runtime!Delay(strikes'[a])
  <2>4. end \in Nat
    BY <1>5, <2>1
  <2>5. until' = [until EXCEPT ![a] = end]
    BY <1>3
  <2> HIDE DEF end
  <2>6. until' \in Scores
    BY <2>4, <2>5 DEF AdaptersIInv, AdaptersTyped, Scores
  <2> QED BY <2>3, <2>6
<1>7. AdaptersTyped'
  BY <1>1, <1>3, <1>4, <1>6 DEF AdaptersIInv, AdaptersTyped
<1>8. AdaptersFollow'
  <2> SUFFICES ASSUME NEW d \in Invocation
               PROVE  /\ pc'[d] = "idle" => tried'[d] = <<>>
                      /\ pc'[d] = "asking" =>
                           todo'[d] # <<>> /\ Ranks(tried'[d] \o todo'[d], choice'[d])
                      /\ pc'[d] = "failed" => Ranks(tried'[d], choice'[d])
    BY DEF AdaptersFollow, Ranks
  <2>1. CASE d = c
    <3>1. tried'[c] = more /\ todo'[c] = rest /\ choice'[c] = choice[c]
      BY <1>3 DEF AdaptersIInv, AdaptersTyped
    <3>2. Ranks(more \o rest, choice[c])
      BY <1>0, <1>2 DEF AdaptersIInv, AdaptersFollow
    <3>3. CASE rest = <<>>
      <4>1. pc'[c] = "failed"
        BY <1>3, <3>1, <3>3 DEF AdaptersIInv, AdaptersTyped
      <4>2. more \o rest = more
        BY <1>1, <3>3 DEF Rankings
      <4> QED BY <2>1, <3>1, <3>2, <4>1, <4>2
    <3>4. CASE rest # <<>>
      <4>1. pc'[c] = "asking"
        BY <1>0, <1>3, <3>1, <3>4
      <4> QED BY <2>1, <3>1, <3>2, <3>4, <4>1
    <3> QED BY <3>3, <3>4
  <2>2. CASE d # c
    <3>1. pc'[d] = pc[d] /\ todo'[d] = todo[d] /\ tried'[d] = tried[d] /\ choice'[d] = choice[d]
      BY <1>3, <2>2 DEF AdaptersIInv, AdaptersTyped
    <3> QED BY <3>1 DEF AdaptersIInv, AdaptersFollow
  <2> QED BY <2>1, <2>2
<1> QED BY <1>7, <1>8 DEF AdaptersIInv

LEMMA AdaptersInductive == AdaptersIInv /\ [Runtime!Next]_(Runtime!vars) => AdaptersIInv'
<1> SUFFICES ASSUME AdaptersIInv, [Runtime!Next]_(Runtime!vars) PROVE AdaptersIInv'
  OBVIOUS
<1>1. CASE Runtime!Tick
  <2>1. now' \in Nat /\ UNCHANGED <<health, strikes, until, pc, todo, tried, choice>>
    BY <1>1 DEF Runtime!Tick, AdaptersIInv, AdaptersTyped
  <2> QED BY <2>1 DEF AdaptersIInv, AdaptersTyped, AdaptersFollow, Ranks
<1>2. CASE UNCHANGED Runtime!vars
  BY <1>2 DEF Runtime!vars, AdaptersIInv, AdaptersTyped, AdaptersFollow, Ranks
<1> QED BY <1>1, <1>2, AdaptersInvokeKeeps, AdaptersServeKeeps, AdaptersFailKeeps,
           AdaptersCancelKeeps DEF Runtime!Next

-----------------------------------------------------------------------------
(* The sandbox. *)
SandboxShapes ==
    /\ dir = [h \in Handle |-> dir[h]] /\ \A h \in Handle : dir[h] \in Workspace
    /\ run = [h \in Handle |-> run[h]] /\ process = [h \in Handle |-> process[h]]
    /\ out = [h \in Handle |-> out[h]] /\ cgroup = [h \in Handle |-> cgroup[h]]
    /\ result = [h \in Handle |-> result[h]]
    /\ disk \in [Workspace -> {"gone", "empty", "output"}]
\* Nobody destroyed the directory of h.
Undisturbed(h) == \A g \in destroyed : dir[g] # dir[h]
Unstarted == {"none", "queued", "raised"}
Running == {"spawned", "waiting"}
Over == {"ended", "classified", "returned"}
\* A process starts with the run, and what it is when the run is past, it stays.
SandboxRuns ==
    \A h \in Handle :
        /\ run[h] \in Unstarted \union Running \union Over
        /\ run[h] \in Unstarted => process[h] = "none"
        /\ run[h] \in Unstarted \union Running => out[h] = "none"
        /\ run[h] \in Over /\ out[h] = "exit" => process[h] # "alive"
        /\ run[h] \in Over => out[h] \in {"exit", "timeout"}
\* A handle in use keeps its cgroup and its directory until somebody destroys them.
SandboxKept ==
    \A h \in Handle :
        /\ run[h] # "none" => h \in known \union destroyed
        /\ h \in known => cgroup[h] \in {"unmet", "met"}
        /\ h \in known /\ Undisturbed(h) => disk[dir[h]] # "gone"
        /\ process[h] = "zero" /\ Undisturbed(h) => disk[dir[h]] = "output"
\* What _classify() concluded still holds when the run returns, and after.
SandboxJudged ==
    \A h \in Handle :
        /\ run[h] \in {"classified", "returned"} /\ Namespace!Succeeded(h) =>
             process[h] = "zero" /\ out[h] = "exit" /\ cgroup[h] # "met"
        /\ run[h] = "returned" /\ Namespace!Succeeded(h) /\ Undisturbed(h) =>
             result[h].artifacts
SandboxIInv == SandboxShapes /\ SandboxRuns /\ SandboxKept /\ SandboxJudged

LEMMA SandboxEarned == SandboxIInv => SuccessIsEarned
BY DEF SandboxIInv, SandboxRuns, SandboxKept, SandboxJudged, Undisturbed, SuccessIsEarned,
       Namespace!SuccessIsEarned, Unstarted

LEMMA SandboxInitially == Namespace!Init => SandboxIInv
<1> SUFFICES ASSUME Namespace!Init PROVE SandboxIInv
  OBVIOUS
<1> USE DEF Namespace!Init
<1>1. SandboxShapes
  BY DEF SandboxShapes
<1>2. SandboxRuns
  BY DEF SandboxRuns, Unstarted, Running, Over
<1>3. SandboxKept
  BY DEF SandboxKept
<1>4. SandboxJudged
  BY DEF SandboxJudged
<1> QED BY <1>1, <1>2, <1>3, <1>4 DEF SandboxIInv

-----------------------------------------------------------------------------
\* The runs move on and nothing else that the judgement rests on changes.
LEMMA SandboxGoes ==
    ASSUME SandboxIInv, NEW h \in Handle, NEW step \in Unstarted \union Running \union Over,
           run' = [run EXCEPT ![h] = step], h \in known \union destroyed,
           UNCHANGED <<dir, known, cgroup, process, out, result, disk, destroyed>>,
           step \in Unstarted => process[h] = "none",
           step \in Unstarted \union Running => out[h] = "none",
           step \in Over /\ out[h] = "exit" => process[h] # "alive",
           step \in Over => out[h] \in {"exit", "timeout"},
           step \notin {"classified", "returned"}
    PROVE  SandboxIInv'
<1>1. SandboxShapes'
  BY DEF SandboxIInv, SandboxShapes
<1>2. \A g \in Handle : run'[g] = IF g = h THEN step ELSE run[g]
  BY DEF SandboxIInv, SandboxShapes
<1>3. SandboxRuns'
  BY <1>2 DEF SandboxIInv, SandboxRuns
<1>4. SandboxKept'
  BY <1>2 DEF SandboxIInv, SandboxKept, Undisturbed
<1>5. SandboxJudged'
  BY <1>2 DEF SandboxIInv, SandboxJudged, Undisturbed, Namespace!Succeeded
<1> QED BY <1>1, <1>3, <1>4, <1>5 DEF SandboxIInv

\* A process that is not past changes how it ends, or a directory what is in it.
LEMMA SandboxCreateKeeps == ASSUME SandboxIInv, NEW h \in Handle, Namespace!Create(h) PROVE SandboxIInv'
<1>1. /\ run[h] = "none" /\ h \notin destroyed /\ known' = known \union {h}
      /\ disk' = [disk EXCEPT ![dir[h]] = IF @ = "gone" THEN "empty" ELSE @]
      /\ cgroup' = [cgroup EXCEPT ![h] = "unmet"]
      /\ UNCHANGED <<dir, process, run, out, result, destroyed>>
  BY DEF Namespace!Create
<1>2. dir[h] \in Workspace
  BY DEF SandboxIInv, SandboxShapes
<1>3. \A w \in Workspace : disk'[w] = IF w = dir[h] /\ disk[w] = "gone" THEN "empty" ELSE disk[w]
  BY <1>1, <1>2 DEF SandboxIInv, SandboxShapes
<1>4. \A g \in Handle : cgroup'[g] = IF g = h THEN "unmet" ELSE cgroup[g]
  BY <1>1 DEF SandboxIInv, SandboxShapes
<1>5. SandboxShapes'
  BY <1>1, <1>2 DEF SandboxIInv, SandboxShapes
<1>6. SandboxRuns'
  BY <1>1 DEF SandboxIInv, SandboxRuns
<1>7. SandboxKept'
  <2>1. ASSUME NEW g \in Handle PROVE dir[g] \in Workspace
    BY DEF SandboxIInv, SandboxShapes
  <2> QED BY <1>1, <1>3, <1>4, <2>1 DEF SandboxIInv, SandboxKept, Undisturbed
<1>8. SandboxJudged'
  BY <1>1, <1>4 DEF SandboxIInv, SandboxJudged, Undisturbed, Namespace!Succeeded
<1> QED BY <1>5, <1>6, <1>7, <1>8 DEF SandboxIInv

\* The process of a run under way may be killed, which is what Kill() does.
LEMMA SandboxKilled ==
    ASSUME SandboxShapes, NEW h \in Handle, Namespace!Kill(h)
    PROVE  /\ process' = [g \in Handle |-> process'[g]]
           /\ \A g \in Handle :
                \/ process'[g] = process[g]
                \/ g = h /\ process[g] = "alive" /\ process'[g] = "signal"
<1>1. CASE pgid[h] /\ process[h] = "alive"
  <2>1. process' = [process EXCEPT ![h] = "signal"]
    BY <1>1 DEF Namespace!Kill
  <2> QED BY <1>1, <2>1 DEF SandboxShapes
<1>2. CASE ~(pgid[h] /\ process[h] = "alive")
  <2>1. process' = [process EXCEPT ![h] = process[h]]
    BY <1>2 DEF Namespace!Kill
  <2> QED BY <2>1 DEF SandboxShapes
<1> QED BY <1>1, <1>2

LEMMA SandboxKillKeeps ==
    ASSUME SandboxIInv, NEW h \in Handle, Namespace!Kill(h),
           UNCHANGED <<dir, known, cgroup, run, out, result, disk, destroyed>>
    PROVE  SandboxIInv'
<1>1. \A g \in Handle :
        \/ process'[g] = process[g]
        \/ g = h /\ process[g] = "alive" /\ process'[g] = "signal"
  BY SandboxKilled DEF SandboxIInv
<1>2. SandboxShapes'
  BY SandboxKilled DEF SandboxIInv, SandboxShapes
<1>3. SandboxRuns'
  BY <1>1 DEF SandboxIInv, SandboxRuns
<1>4. SandboxKept'
  BY <1>1 DEF SandboxIInv, SandboxKept, Undisturbed
<1>5. SandboxJudged'
  BY <1>1 DEF SandboxIInv, SandboxJudged, Undisturbed, Namespace!Succeeded
<1> QED BY <1>2, <1>3, <1>4, <1>5 DEF SandboxIInv

LEMMA SandboxSpawnKeeps == ASSUME SandboxIInv, NEW h \in Handle, Namespace!Spawn(h) PROVE SandboxIInv'
<1>1. /\ run[h] = "queued" /\ h \in known
      /\ process' = [process EXCEPT ![h] = "alive"] /\ run' = [run EXCEPT ![h] = "spawned"]
      /\ UNCHANGED <<dir, known, cgroup, out, result, disk, destroyed>>
  BY DEF Namespace!Spawn, Namespace!Go
<1>2. /\ \A g \in Handle : run'[g] = IF g = h THEN "spawned" ELSE run[g]
      /\ \A g \in Handle : process'[g] = IF g = h THEN "alive" ELSE process[g]
  BY <1>1 DEF SandboxIInv, SandboxShapes
<1>3. SandboxShapes'
  BY <1>1 DEF SandboxIInv, SandboxShapes
<1>4. SandboxRuns'
  BY <1>1, <1>2 DEF SandboxIInv, SandboxRuns, Unstarted, Running, Over
<1>5. SandboxKept'
  BY <1>1, <1>2 DEF SandboxIInv, SandboxKept, Undisturbed
<1>6. SandboxJudged'
  BY <1>1, <1>2 DEF SandboxIInv, SandboxJudged, Undisturbed, Namespace!Succeeded
<1> QED BY <1>3, <1>4, <1>5, <1>6 DEF SandboxIInv

LEMMA SandboxProcessKeeps == ASSUME SandboxIInv, NEW h \in Handle, Namespace!Process(h) PROVE SandboxIInv'
<1>0. dir[h] \in Workspace
  BY DEF SandboxIInv, SandboxShapes
<1>1. CASE Namespace!Writes(h)
  <2>1. /\ disk[dir[h]] # "gone" /\ disk' = [disk EXCEPT ![dir[h]] = "output"]
        /\ UNCHANGED <<dir, known, cgroup, process, run, out, result, destroyed>>
    BY <1>1 DEF Namespace!Writes
  <2>2. \A w \in Workspace : disk'[w] = IF w = dir[h] THEN "output" ELSE disk[w]
    BY <1>0, <2>1 DEF SandboxIInv, SandboxShapes
  <2>3. SandboxShapes'
    BY <1>0, <2>1 DEF SandboxIInv, SandboxShapes
  <2>4. SandboxRuns' /\ SandboxJudged'
    BY <2>1 DEF SandboxIInv, SandboxRuns, SandboxJudged, Undisturbed, Namespace!Succeeded
  <2>5. SandboxKept'
    <3>1. \A g \in Handle : dir[g] \in Workspace
      BY DEF SandboxIInv, SandboxShapes
    <3> QED BY <2>1, <2>2, <3>1 DEF SandboxIInv, SandboxKept, Undisturbed
  <2> QED BY <2>3, <2>4, <2>5 DEF SandboxIInv
<1>2. CASE Namespace!MeetsLimit(h)
  <2>1. /\ process[h] = "alive" /\ cgroup' = [cgroup EXCEPT ![h] = "met"]
        /\ UNCHANGED <<dir, known, process, run, out, result, disk, destroyed>>
    BY <1>2 DEF Namespace!MeetsLimit, Namespace!Alive
  <2>2. \A g \in Handle : cgroup'[g] = IF g = h THEN "met" ELSE cgroup[g]
    BY <2>1 DEF SandboxIInv, SandboxShapes
  <2>3. SandboxShapes' /\ SandboxRuns'
    BY <2>1 DEF SandboxIInv, SandboxShapes, SandboxRuns
  <2>4. SandboxKept'
    BY <2>1, <2>2 DEF SandboxIInv, SandboxKept, Undisturbed
  <2>5. SandboxJudged'
    BY <2>1, <2>2 DEF SandboxIInv, SandboxJudged, Undisturbed, Namespace!Succeeded
  <2> QED BY <2>3, <2>4, <2>5 DEF SandboxIInv
<1>3. ASSUME NEW how \in {"zero", "other", "signal"}, Namespace!Exits(h, how) PROVE SandboxIInv'
  <2>1. /\ process[h] = "alive" /\ process' = [process EXCEPT ![h] = how]
        /\ how = "zero" => disk[dir[h]] # "empty"
        /\ UNCHANGED <<dir, known, cgroup, run, out, result, disk, destroyed>>
    BY <1>3 DEF Namespace!Exits, Namespace!Alive
  <2>2. \A g \in Handle : process'[g] = IF g = h THEN how ELSE process[g]
    BY <2>1 DEF SandboxIInv, SandboxShapes
  <2>3. how = "zero" /\ Undisturbed(h) => disk[dir[h]] = "output"
    <3>1. run[h] # "none" /\ (Undisturbed(h) => h \notin destroyed)
      BY <2>1 DEF SandboxIInv, SandboxRuns, Unstarted, Undisturbed
    <3>2. Undisturbed(h) => disk[dir[h]] # "gone"
      BY <3>1 DEF SandboxIInv, SandboxKept
    <3> QED BY <1>0, <2>1, <3>2 DEF SandboxIInv, SandboxShapes
  <2>4. SandboxShapes' /\ SandboxRuns'
    BY <2>1, <2>2 DEF SandboxIInv, SandboxShapes, SandboxRuns
  <2>5. SandboxKept'
    BY <2>1, <2>2, <2>3 DEF SandboxIInv, SandboxKept, Undisturbed
  <2>6. SandboxJudged'
    BY <2>1, <2>2 DEF SandboxIInv, SandboxJudged, Undisturbed, Namespace!Succeeded
  <2> QED BY <2>4, <2>5, <2>6 DEF SandboxIInv
<1> QED BY <1>1, <1>2, <1>3 DEF Namespace!Process

LEMMA SandboxWaitsKeeps ==
    ASSUME SandboxIInv, NEW h \in Handle, Namespace!Ends(h) \/ Namespace!TimeIsOver(h)
    PROVE  SandboxIInv'
<1>1. PICK o \in {"exit", "timeout"} :
        /\ run[h] = "waiting" /\ run' = [run EXCEPT ![h] = "ended"]
        /\ out' = [out EXCEPT ![h] = o] /\ (o = "exit" => process[h] # "alive")
        /\ UNCHANGED <<dir, known, cgroup, result, disk, destroyed>>
  BY DEF Namespace!Ends, Namespace!TimeIsOver, Namespace!Go, Namespace!Alive
<1>2. /\ process' = [g \in Handle |-> process'[g]]
      /\ \A g \in Handle :
            \/ process'[g] = process[g]
            \/ g = h /\ process[g] = "alive" /\ process'[g] = "signal"
  <2>1. CASE Namespace!Ends(h)
    BY <2>1 DEF Namespace!Ends, SandboxIInv, SandboxShapes
  <2>2. CASE Namespace!TimeIsOver(h)
    BY <2>2, SandboxKilled DEF Namespace!TimeIsOver, SandboxIInv
  <2> QED BY <2>1, <2>2
<1>3. /\ \A g \in Handle : run'[g] = IF g = h THEN "ended" ELSE run[g]
      /\ \A g \in Handle : out'[g] = IF g = h THEN o ELSE out[g]
  BY <1>1 DEF SandboxIInv, SandboxShapes
<1>4. SandboxShapes'
  BY <1>1, <1>2 DEF SandboxIInv, SandboxShapes
<1>5. SandboxRuns'
  BY <1>1, <1>2, <1>3 DEF SandboxIInv, SandboxRuns, Unstarted, Running, Over
<1>6. SandboxKept'
  BY <1>1, <1>2, <1>3 DEF SandboxIInv, SandboxKept, Undisturbed
<1>7. SandboxJudged'
  BY <1>1, <1>2, <1>3 DEF SandboxIInv, SandboxJudged, Undisturbed, Namespace!Succeeded
<1> QED BY <1>4, <1>5, <1>6, <1>7 DEF SandboxIInv

LEMMA SandboxClassifyKeeps == ASSUME SandboxIInv, NEW h \in Handle, Namespace!Classify(h) PROVE SandboxIInv'
<1> DEFINE reason == IF out[h] = "timeout" THEN "timeout" ELSE Namespace!Reason(h)
           exit == IF out[h] = "timeout" THEN "none" ELSE process[h]
<1>1. /\ run[h] = "ended" /\ run' = [run EXCEPT ![h] = "classified"]
      /\ result' = [result EXCEPT ![h] = [reason |-> reason, exit |-> exit]]
      /\ UNCHANGED <<dir, known, cgroup, process, out, disk, destroyed>>
  BY DEF Namespace!Classify, Namespace!Go
<1>2. reason = "completed" /\ exit = "zero" =>
        process[h] = "zero" /\ out[h] = "exit" /\ cgroup[h] # "met"
  <2>1. out[h] \in {"exit", "timeout"}
    BY <1>1 DEF SandboxIInv, SandboxRuns, Over
  <2> QED BY <2>1 DEF Namespace!Reason
<1> HIDE DEF reason, exit
<1>3. /\ \A g \in Handle : run'[g] = IF g = h THEN "classified" ELSE run[g]
      /\ \A g \in Handle \ {h} : result'[g] = result[g]
      /\ result'[h].reason = reason /\ result'[h].exit = exit
  BY <1>1 DEF SandboxIInv, SandboxShapes
<1>4. SandboxShapes'
  BY <1>1 DEF SandboxIInv, SandboxShapes
<1>5. SandboxRuns'
  BY <1>1, <1>3 DEF SandboxIInv, SandboxRuns, Unstarted, Running, Over
<1>6. SandboxKept'
  BY <1>1, <1>3 DEF SandboxIInv, SandboxKept, Undisturbed
<1>7. SandboxJudged'
  BY <1>1, <1>2, <1>3 DEF SandboxIInv, SandboxJudged, Undisturbed, Namespace!Succeeded
<1> QED BY <1>4, <1>5, <1>6, <1>7 DEF SandboxIInv

LEMMA SandboxReturnKeeps == ASSUME SandboxIInv, NEW h \in Handle, Namespace!Return(h) PROVE SandboxIInv'
<1>1. /\ run[h] = "classified" /\ run' = [run EXCEPT ![h] = "returned"]
      /\ result' = [result EXCEPT ![h] =
                      [reason |-> result[h].reason, exit |-> result[h].exit,
                       artifacts |-> disk[dir[h]] = "output"]]
      /\ UNCHANGED <<dir, known, cgroup, process, out, disk, destroyed>>
  BY DEF Namespace!Return, Namespace!Go, SandboxIInv, SandboxShapes
<1>2. /\ \A g \in Handle : run'[g] = IF g = h THEN "returned" ELSE run[g]
      /\ \A g \in Handle \ {h} : result'[g] = result[g]
      /\ result'[h].reason = result[h].reason /\ result'[h].exit = result[h].exit
  BY <1>1 DEF SandboxIInv, SandboxShapes
<1>3. disk[dir[h]] = "output" => result'[h].artifacts
  BY <1>1 DEF SandboxIInv, SandboxShapes
<1>4. SandboxShapes'
  BY <1>1 DEF SandboxIInv, SandboxShapes
<1>5. SandboxRuns'
  BY <1>1, <1>2 DEF SandboxIInv, SandboxRuns, Unstarted, Running, Over
<1>6. SandboxKept'
  BY <1>1, <1>2 DEF SandboxIInv, SandboxKept, Undisturbed
<1>7. SandboxJudged'
  BY <1>1, <1>2, <1>3 DEF SandboxIInv, SandboxKept, SandboxJudged, Undisturbed, Namespace!Succeeded
<1> QED BY <1>4, <1>5, <1>6, <1>7 DEF SandboxIInv

LEMMA SandboxDestroyKeeps == ASSUME SandboxIInv, NEW h \in Handle, Namespace!Destroy(h) PROVE SandboxIInv'
<1>1. /\ known' = known \ {h} /\ destroyed' = destroyed \union {h}
      /\ disk' = [disk EXCEPT ![dir[h]] = "gone"]
      /\ UNCHANGED <<dir, run, out, result>> /\ Namespace!Kill(h)
      /\ cgroup' = cgroup \/ cgroup' = [cgroup EXCEPT ![h] = "none"]
  BY DEF Namespace!Destroy
<1>2. /\ process' = [g \in Handle |-> process'[g]]
      /\ \A g \in Handle :
            \/ process'[g] = process[g]
            \/ g = h /\ process[g] = "alive" /\ process'[g] = "signal"
  BY <1>1, SandboxKilled DEF SandboxIInv
<1>3. \A g \in Handle : dir[g] \in Workspace
  BY DEF SandboxIInv, SandboxShapes
<1>4. /\ \A w \in Workspace : disk'[w] = IF w = dir[h] THEN "gone" ELSE disk[w]
      /\ \A g \in Handle : cgroup'[g] = cgroup[g] \/ (g = h /\ cgroup'[g] = "none")
  BY <1>1, <1>3 DEF SandboxIInv, SandboxShapes
<1>5. SandboxShapes'
  BY <1>1, <1>2, <1>3 DEF SandboxIInv, SandboxShapes
<1>6. SandboxRuns'
  BY <1>1, <1>2 DEF SandboxIInv, SandboxRuns
<1>7. \A g \in Handle : Undisturbed(g)' => Undisturbed(g) /\ dir[g] # dir[h]
  BY <1>1 DEF Undisturbed
<1>8. SandboxKept'
  BY <1>1, <1>2, <1>3, <1>4, <1>7 DEF SandboxIInv, SandboxKept
<1>9. SandboxJudged'
  BY <1>1, <1>2, <1>4, <1>7 DEF SandboxIInv, SandboxJudged, Namespace!Succeeded
<1> QED BY <1>5, <1>6, <1>8, <1>9 DEF SandboxIInv

LEMMA SandboxInductive == SandboxIInv /\ [Namespace!Next]_(Namespace!vars) => SandboxIInv'
<1> SUFFICES ASSUME SandboxIInv, [Namespace!Next]_(Namespace!vars) PROVE SandboxIInv'
  OBVIOUS
<1>1. ASSUME NEW h \in Handle,
             \/ Namespace!Run(h) \/ Namespace!Forgotten(h) \/ Namespace!SpawnFails(h)
             \/ Namespace!KnowGroup(h)
      PROVE  SandboxIInv'
  <2>1. run[h] # "none" => h \in known \union destroyed
    BY DEF SandboxIInv, SandboxKept
  <2>2. run[h] \in Unstarted => process[h] = "none"
    BY DEF SandboxIInv, SandboxRuns
  <2>3. run[h] \in Unstarted \union Running => out[h] = "none"
    BY DEF SandboxIInv, SandboxRuns
  <2>4. PICK step \in {"queued", "raised", "waiting"} :
          /\ run' = [run EXCEPT ![h] = step]
          /\ UNCHANGED <<dir, known, cgroup, process, out, result, disk, destroyed>>
          /\ run[h] \in Unstarted \union Running /\ h \in known \union destroyed
          /\ step # "waiting" => run[h] \in Unstarted
    BY <1>1, <2>1
       DEF Namespace!Run, Namespace!Forgotten, Namespace!SpawnFails, Namespace!KnowGroup,
           Namespace!Go, Unstarted, Running
  <2>5. /\ step \in Unstarted \union Running /\ step \notin Over
        /\ step \in Unstarted => step # "waiting" /\ step \notin {"classified", "returned"}
        /\ step \notin {"classified", "returned"}
    BY DEF Unstarted, Running, Over
  <2> QED BY <2>2, <2>3, <2>4, <2>5, SandboxGoes
<1>2. ASSUME NEW h \in Handle, Namespace!Cancel(h) PROVE SandboxIInv'
  BY <1>2, SandboxKillKeeps DEF Namespace!Cancel
<1>3. CASE UNCHANGED Namespace!vars
  <2>1. /\ dir' = dir /\ known' = known /\ cgroup' = cgroup /\ process' = process
        /\ run' = run /\ out' = out /\ result' = result /\ disk' = disk
        /\ destroyed' = destroyed
    BY <1>3 DEF Namespace!vars
  <2>2. SandboxShapes' /\ SandboxRuns'
    BY <2>1 DEF SandboxIInv, SandboxShapes, SandboxRuns
  <2>3. SandboxKept'
    BY <2>1 DEF SandboxIInv, SandboxKept, Undisturbed
  <2>4. SandboxJudged'
    BY <2>1 DEF SandboxIInv, SandboxJudged, Undisturbed, Namespace!Succeeded
  <2> QED BY <2>2, <2>3, <2>4 DEF SandboxIInv
<1> QED BY <1>1, <1>2, <1>3, SandboxCreateKeeps, SandboxSpawnKeeps, SandboxProcessKeeps,
           SandboxWaitsKeeps, SandboxClassifyKeeps, SandboxReturnKeeps, SandboxDestroyKeeps
       DEF Namespace!Next, Namespace!Thread

-----------------------------------------------------------------------------
\* A step of the composition is a step or a stutter of each of its parts.
LEMMA StepsAreParts ==
    ASSUME [CapabilitiesNext]_allVars
    PROVE  /\ [Next]_vars /\ [Runtime!Next]_(Runtime!vars)
           /\ [Namespace!Next]_(Namespace!vars)
<1> USE DEF CapabilitiesNext, limiterOnly, adaptersOnly, sandboxOnly, limiterVars,
        adapterVars, sandboxVars, allVars
<1>1. [Next]_vars
  OBVIOUS
<1>2. [Runtime!Next]_(Runtime!vars)
  BY DEF Runtime!vars
<1>3. [Namespace!Next]_(Namespace!vars)
  BY DEF Namespace!vars
<1> QED BY <1>1, <1>2, <1>3

\* An invocation fails only when every adapter that was available to it has failed it, in
\* the order of their health when it began: for any adapters, however invocations that
\* interleave raise and lower their health and cooldowns (AdapterRuntime.invoke()).
THEOREM FailureIsEverybodys == CapabilitiesSpec => []EveryAdapterTried
<1>1. CapabilitiesInit => Runtime!Init
  BY DEF CapabilitiesInit
<1>2. [CapabilitiesNext]_allVars => [Runtime!Next]_(Runtime!vars)
  BY StepsAreParts
<1> QED BY <1>1, <1>2, AdaptersInitially, AdaptersInductive, AdaptersTried, PTL
        DEF CapabilitiesSpec

\* A run that reports success exited with 0, in its time and its memory, and reports what
\* it wrote, unless its directory was destroyed under it: for any handles that may share
\* directories (NamespaceBackend._classify(), _collect_artifacts()).
THEOREM SuccessesAreReal == CapabilitiesSpec => []SuccessIsEarned
<1>1. CapabilitiesInit => Namespace!Init
  BY DEF CapabilitiesInit
<1>2. [CapabilitiesNext]_allVars => [Namespace!Next]_(Namespace!vars)
  BY StepsAreParts
<1> QED BY <1>1, <1>2, SandboxInitially, SandboxInductive, SandboxEarned, PTL
        DEF CapabilitiesSpec
=============================================================================
