--------------------------- MODULE MCServices_proofs ---------------------------
(***************************************************************************)
(* The services beside the requests: the durable store for any modules,    *)
(* pairs and batch sizes, and any number of failed flushes, crashes and    *)
(* restarts; the settings and the updates; the background jobs, two of     *)
(* them in detail, and the event stream, for any jobs, starts, trainings,  *)
(* topics, tasks, clients and events; then what holds of all together.     *)
(***************************************************************************)
EXTENDS MCServices, SequenceTheorems, FunctionTheorems, FiniteSetTheorems,
        TLAPS

(* How often a pair is in a sequence of items. *)

At(s, p) == {i \in DOMAIN s : s[i] = Training(p)}
Count(s, p) == Cardinality(At(s, p))

LEMMA CountIsNat ==
    ASSUME NEW s \in Seq(Item), NEW p
    PROVE  IsFiniteSet(At(s, p)) /\ Count(s, p) \in Nat
<1>1. DOMAIN s = 1..Len(s) /\ Len(s) \in Nat
  BY LenProperties
<1>2. IsFiniteSet(1..Len(s))
  BY <1>1, FS_Interval
<1>3. At(s, p) \in SUBSET (1..Len(s))
  BY <1>1 DEF At
<1>4. IsFiniteSet(At(s, p))
  BY <1>2, <1>3, FS_Subset
<1> QED BY <1>4, FS_CardinalityType DEF Count

\* What is counted in a concatenation: the second sequence is counted where it was moved to.
LEMMA CountConcat ==
    ASSUME NEW s \in Seq(Item), NEW t \in Seq(Item), NEW p
    PROVE  Count(s \o t, p) = Count(s, p) + Count(t, p)
<1> DEFINE moved == {i + Len(s) : i \in At(t, p)}
           f == [i \in At(t, p) |-> i + Len(s)]
<1>1. /\ DOMAIN s = 1..Len(s) /\ Len(s) \in Nat
      /\ DOMAIN t = 1..Len(t) /\ Len(t) \in Nat
  BY LenProperties
<1>2. /\ s \o t \in Seq(Item) /\ Len(s \o t) = Len(s) + Len(t)
      /\ \A i \in 1..Len(s) + Len(t) :
            (s \o t)[i] = IF i <= Len(s) THEN s[i] ELSE t[i - Len(s)]
  BY ConcatProperties
<1>3. DOMAIN (s \o t) = 1..Len(s) + Len(t)
  BY <1>2, LenProperties
<1>4. At(s \o t, p) = At(s, p) \union moved
  <2>1. ASSUME NEW i \in At(s \o t, p) PROVE i \in At(s, p) \union moved
    <3>1. i \in 1..Len(s) + Len(t) /\ (s \o t)[i] = Training(p)
      BY <1>3 DEF At
    <3>2. CASE i <= Len(s)
      BY <1>1, <1>2, <3>1, <3>2 DEF At
    <3>3. CASE ~(i <= Len(s))
      <4>1. i - Len(s) \in 1..Len(t) /\ t[i - Len(s)] = Training(p)
        BY <1>1, <1>2, <3>1, <3>3
      <4>2. i - Len(s) \in At(t, p) /\ i = (i - Len(s)) + Len(s)
        BY <1>1, <3>1, <4>1 DEF At
      <4> QED BY <4>2
    <3> QED BY <3>2, <3>3
  <2>2. ASSUME NEW i \in At(s, p) PROVE i \in At(s \o t, p)
    BY <1>1, <1>2, <1>3 DEF At
  <2>3. ASSUME NEW j \in At(t, p) PROVE j + Len(s) \in At(s \o t, p)
    <3>1. j \in 1..Len(t) /\ t[j] = Training(p)
      BY <1>1 DEF At
    <3>2. /\ j + Len(s) \in 1..Len(s) + Len(t) /\ ~(j + Len(s) <= Len(s))
          /\ (j + Len(s)) - Len(s) = j
      BY <1>1, <3>1
    <3>3. (s \o t)[j + Len(s)] = t[j]
      BY <1>2, <3>2
    <3> QED BY <1>3, <3>1, <3>2, <3>3 DEF At
  <2> QED BY <2>1, <2>2, <2>3
<1>5. At(s, p) \intersect moved = {}
  BY <1>1 DEF At
<1>6. f \in Bijection(At(t, p), moved)
  <2>1. f \in [At(t, p) -> moved]
    OBVIOUS
  <2>2. \A i, j \in At(t, p) : f[i] = f[j] => i = j
    BY <1>1 DEF At
  <2>3. \A k \in moved : \E i \in At(t, p) : f[i] = k
    OBVIOUS
  <2> QED BY <2>1, <2>2, <2>3, Fun_IsBij
<1>7. IsFiniteSet(At(s, p)) /\ IsFiniteSet(At(t, p)) /\ Count(s, p) \in Nat /\ Count(t,
      p) \in Nat
  BY CountIsNat
<1>8. IsFiniteSet(moved) /\ Cardinality(moved) = Count(t, p)
  BY <1>6, <1>7, FS_Bijection DEF Count, ExistsBijection
<1>9. Cardinality(At(s, p) \union moved) = Count(s, p) + Count(t, p) - Cardinality({})
  BY <1>5, <1>7, <1>8, FS_Union DEF Count
<1> QED BY <1>4, <1>7, <1>9, FS_EmptySet DEF Count

LEMMA CountEmpty == ASSUME NEW p PROVE Count(<<>>, p) = 0
<1>1. At(<<>>, p) = {}
  BY DEF At
<1> QED BY <1>1, FS_EmptySet DEF Count

\* An item that is appended counts once if it is the pair.
LEMMA CountAppend ==
    ASSUME NEW s \in Seq(Item), NEW x \in Item, NEW p
    PROVE  Count(Append(s, x), p) = Count(s, p) + IF x = Training(p) THEN 1 ELSE 0
<1>1. <<x>> \in Seq(Item) /\ Append(s, x) = s \o <<x>>
  BY AppendIsConcat
<1>2. At(<<x>>, p) = IF x = Training(p) THEN {1} ELSE {}
  BY DEF At
<1>3. Count(<<x>>, p) = IF x = Training(p) THEN 1 ELSE 0
  BY <1>2, FS_EmptySet, FS_Singleton DEF Count
<1> QED BY <1>1, <1>3, CountConcat

-----------------------------------------------------------------------------
(* Which update of a module is the newest in a sequence of items. *)

LEMMA ScoredIn ==
    ASSUME NEW s \in Seq(Item), NEW m
    PROVE  /\ Scored(s, m) \subseteq 1..Len(s) /\ Len(s) \in Nat
           /\ \A i \in Scored(s, m) : s[i].version \in 1..MaxVersion
<1>1. DOMAIN s = 1..Len(s) /\ Len(s) \in Nat /\ \A i \in 1..Len(s) : s[i] \in Item
  BY LenProperties, ElementOfSeq
<1>2. ASSUME NEW i \in Scored(s, m) PROVE s[i].version \in 1..MaxVersion
  <2>1. s[i] \in Item /\ s[i].kind = "maturity"
    BY <1>1 DEF Scored
  <2>2. \A p \in Pair : Training(p).kind = "training"
    BY DEF Training
  <2>3. PICK k \in Module, v \in 1..MaxVersion : s[i] = Score(k, v)
    BY <2>1, <2>2 DEF Item
  <2> QED BY <2>3 DEF Score
<1> QED BY <1>1, <1>2 DEF Scored

\* A set of natural numbers has a least element.
LEMMA LeastExists ==
    ASSUME NEW T \in SUBSET Nat, T # {}
    PROVE  \E k \in T : \A l \in T : k <= l
<1> DEFINE R == {ss \in Nat \X Nat : ss[1] < ss[2]}
<1>1. IsWellFoundedOn(R, Nat)
  BY NatLessThanWellFounded DEF OpToRel
<1> HIDE DEF R
<1>2. PICK k \in T : \A l \in T : <<l, k>> \notin R
  BY <1>1, WFMin
<1>3. ASSUME NEW l \in T PROVE k <= l
  <2>1. l \in Nat /\ k \in Nat /\ <<l, k>> \in Nat \X Nat
    OBVIOUS
  <2>2. ~(l < k)
    BY <1>2, <2>1 DEF R
  <2> QED BY <2>1, <2>2
<1> QED BY <1>3

\* The last of a module's updates is the one the maximum of their places names.
LEMMA LastIsMax ==
    ASSUME NEW s \in Seq(Item), NEW m, Scored(s, m) # {}
    PROVE  /\ Max(Scored(s, m)) \in Scored(s, m)
           /\ \A i \in Scored(s, m) : i <= Max(Scored(s, m))
<1> DEFINE T == {k \in 0..Len(s) : Len(s) - k \in Scored(s, m)}
<1>1. Scored(s, m) \subseteq 1..Len(s) /\ Len(s) \in Nat
  BY ScoredIn
<1>2. T \in SUBSET Nat /\ T # {}
  <2>1. PICK i \in Scored(s, m) : TRUE
    OBVIOUS
  <2>2. Len(s) - i \in 0..Len(s) /\ Len(s) - (Len(s) - i) = i
    BY <1>1
  <2>3. Len(s) - i \in T
    BY <2>2
  <2> QED BY <1>1, <2>3
<1>3. PICK k \in T : \A l \in T : k <= l
  BY <1>2, LeastExists
<1>4. Len(s) - k \in Scored(s, m)
  OBVIOUS
<1>5. ASSUME NEW i \in Scored(s, m) PROVE i <= Len(s) - k
  <2>1. Len(s) - i \in 0..Len(s) /\ Len(s) - (Len(s) - i) = i
    BY <1>1
  <2>2. k <= Len(s) - i
    BY <1>3, <2>1
  <2> QED BY <1>1, <2>2
<1> HIDE DEF T
<1> QED BY <1>4, <1>5 DEF Max

FinalIs(s, m, v) ==
    \E i \in Scored(s, m) : (\A j \in Scored(s, m) : j <= i) /\ s[i].version = v

\* A module's last update in a sequence is what a batch of it writes.
LEMMA FinalIsWritten ==
    ASSUME NEW s \in Seq(Item), NEW m, NEW v, FinalIs(s, m, v)
    PROVE  Scored(s, m) # {} /\ s[Max(Scored(s, m))].version = v
<1>1. PICK i \in Scored(s, m) : (\A j \in Scored(s, m) : j <= i) /\ s[i].version = v
  BY DEF FinalIs
<1>2. /\ Max(Scored(s, m)) \in Scored(s, m) /\ i <= Max(Scored(s, m))
      /\ Max(Scored(s, m)) <= i
  BY <1>1, LastIsMax
<1>3. Max(Scored(s, m)) = i
  BY <1>2, ScoredIn
<1> QED BY <1>1, <1>3

\* Of a concatenation the last update is that of the second sequence, if it has one.
LEMMA FinalOfConcat ==
    ASSUME NEW s \in Seq(Item), NEW t \in Seq(Item), NEW m
    PROVE  /\ Scored(s \o t, m) = {} <=> Scored(s, m) = {} /\ Scored(t, m) = {}
           /\ Scored(t, m) # {} => \A v : FinalIs(s \o t, m, v) <=> FinalIs(t, m, v)
           /\ Scored(t, m) = {} => \A v : FinalIs(s \o t, m, v) <=> FinalIs(s, m, v)
<1> DEFINE c == s \o t
<1>1. /\ DOMAIN s = 1..Len(s) /\ Len(s) \in Nat
      /\ DOMAIN t = 1..Len(t) /\ Len(t) \in Nat
  BY LenProperties
<1>2. /\ c \in Seq(Item) /\ Len(c) = Len(s) + Len(t)
      /\ \A i \in 1..Len(s) + Len(t) : c[i] = IF i <= Len(s) THEN s[i] ELSE t[i - Len(s)]
  BY ConcatProperties
<1>3. DOMAIN c = 1..Len(s) + Len(t)
  BY <1>2, LenProperties
<1> HIDE DEF c
<1>4. ASSUME NEW i \in Scored(s, m) PROVE i \in Scored(c, m) /\ c[i] = s[i]
      /\ i \in 1..Len(s)
  BY <1>1, <1>2, <1>3 DEF Scored
<1>5. ASSUME NEW j \in Scored(t, m)
      PROVE  j + Len(s) \in Scored(c, m) /\ c[j + Len(s)] = t[j] /\ j \in 1..Len(t)
  <2>1. j \in 1..Len(t)
    BY <1>1 DEF Scored
  <2>2. /\ j + Len(s) \in 1..Len(s) + Len(t) /\ ~(j + Len(s) <= Len(s))
        /\ (j + Len(s)) - Len(s) = j
    BY <1>1, <2>1
  <2>3. c[j + Len(s)] = t[j]
    BY <1>2, <2>2
  <2> QED BY <1>3, <2>1, <2>2, <2>3 DEF Scored
<1>6. ASSUME NEW i \in Scored(c, m)
      PROVE  \/ i \in Scored(s, m)
             \/ i - Len(s) \in Scored(t, m) /\ c[i] = t[i - Len(s)] /\ i \in Int
  <2>1. i \in 1..Len(s) + Len(t)
    BY <1>3 DEF Scored
  <2>2. CASE i <= Len(s)
    BY <1>1, <1>2, <2>1, <2>2 DEF Scored
  <2>3. CASE ~(i <= Len(s))
    <3>1. i - Len(s) \in 1..Len(t) /\ c[i] = t[i - Len(s)]
      BY <1>1, <1>2, <2>1, <2>3
    <3> QED BY <1>1, <2>1, <3>1 DEF Scored
  <2> QED BY <2>2, <2>3
<1>7. Scored(c, m) = {} <=> Scored(s, m) = {} /\ Scored(t, m) = {}
  BY <1>4, <1>5, <1>6
<1>8. ASSUME Scored(t, m) # {}, NEW v PROVE FinalIs(c, m, v) <=> FinalIs(t, m, v)
  <2>1. ASSUME FinalIs(t, m, v) PROVE FinalIs(c, m, v)
    <3>1. PICK j \in Scored(t, m) :
            (\A k \in Scored(t, m) : k <= j) /\ t[j].version = v
      BY <2>1 DEF FinalIs
    <3>2. /\ j + Len(s) \in Scored(c, m) /\ c[j + Len(s)].version = v /\ j \in 1..Len(t)
      BY <1>5, <3>1
    <3>3. ASSUME NEW i \in Scored(c, m) PROVE i <= j + Len(s)
      <4>1. CASE i \in Scored(s, m)
        BY <1>1, <1>4, <3>2, <4>1
      <4>2. CASE i - Len(s) \in Scored(t, m) /\ i \in Int
        <5>1. i - Len(s) <= j
          BY <3>1, <4>2
        <5> QED BY <1>1, <3>2, <4>2, <5>1
      <4> QED BY <1>6, <4>1, <4>2
    <3> QED BY <3>2, <3>3 DEF FinalIs
  <2>2. ASSUME FinalIs(c, m, v) PROVE FinalIs(t, m, v)
    <3>1. PICK i \in Scored(c, m) :
            (\A k \in Scored(c, m) : k <= i) /\ c[i].version = v
      BY <2>2 DEF FinalIs
    <3>2. PICK j \in Scored(t, m) : TRUE
      BY <1>8
    <3>3. j + Len(s) <= i /\ j \in 1..Len(t)
      BY <1>5, <3>1, <3>2
    <3>4. i \notin Scored(s, m)
      BY <1>1, <1>4, <3>3
    <3>5. i - Len(s) \in Scored(t, m) /\ c[i] = t[i - Len(s)] /\ i \in Int
      BY <1>6, <3>4
    <3>6. ASSUME NEW k \in Scored(t, m) PROVE k <= i - Len(s)
      <4>1. k + Len(s) <= i /\ k \in 1..Len(t)
        BY <1>5, <3>1
      <4> QED BY <1>1, <3>5, <4>1
    <3> QED BY <3>1, <3>5, <3>6 DEF FinalIs
  <2> QED BY <2>1, <2>2
<1>9. ASSUME Scored(t, m) = {}, NEW v PROVE FinalIs(c, m, v) <=> FinalIs(s, m, v)
  <2>1. Scored(c, m) = Scored(s, m) /\ \A i \in Scored(s, m) : c[i] = s[i]
    BY <1>4, <1>6, <1>9
  <2> QED BY <2>1 DEF FinalIs
<1> QED BY <1>7, <1>8, <1>9 DEF c

\* A new update of a module is its last; other items change nothing.
LEMMA FinalOfAppend ==
    ASSUME NEW s \in Seq(Item), NEW x \in Item, NEW m
    PROVE  LET ours == x.kind = "maturity" /\ x.mod = m
           IN  /\ ours => Scored(Append(s, x), m) # {} /\ FinalIs(Append(s, x), m,
                 x.version)
               /\ ~ours => /\ Scored(Append(s, x), m) = {} <=> Scored(s, m) = {}
                           /\ \A v : FinalIs(Append(s, x), m, v) <=> FinalIs(s, m, v)
<1> DEFINE ours == x.kind = "maturity" /\ x.mod = m
<1>1. <<x>> \in Seq(Item) /\ Append(s, x) = s \o <<x>>
  BY AppendIsConcat
<1>2. Scored(<<x>>, m) = IF ours THEN {1} ELSE {}
  BY DEF Scored
<1>3. ours => FinalIs(<<x>>, m, x.version)
  BY <1>2 DEF FinalIs
<1> HIDE DEF ours
<1> DEFINE t == <<x>>
<1>4. ours => Scored(t, m) # {} /\ FinalIs(t, m, x.version)
  BY <1>2, <1>3
<1>5. ~ours => Scored(t, m) = {}
  BY <1>2
<1>6. t \in Seq(Item)
  BY <1>1
<1> HIDE DEF t
<1>7. /\ Scored(s \o t, m) = {} <=> Scored(s, m) = {} /\ Scored(t, m) = {}
      /\ Scored(t, m) # {} => \A v : FinalIs(s \o t, m, v) <=> FinalIs(t, m, v)
      /\ Scored(t, m) = {} => \A v : FinalIs(s \o t, m, v) <=> FinalIs(s, m, v)
  BY <1>6, FinalOfConcat
<1>8. Append(s, x) = s \o t
  BY <1>1 DEF t
<1> QED BY <1>4, <1>5, <1>7, <1>8 DEF ours

-----------------------------------------------------------------------------
(* Types *)

\* What a transaction does to the tables.
LEMMA WriteEffect ==
    ASSUME TypeOK, NEW b \in Seq(Item), Write(b)
    PROVE  /\ db' \in [Module -> 0..MaxVersion] /\ pairs' \in [Pair -> Nat]
           /\ \A p \in Pair : pairs'[p] = pairs[p] + Count(b, p)
           /\ \A m \in Module : Scored(b, m) = {} => db'[m] = db[m]
           /\ \A m \in Module : \A v : FinalIs(b, m, v) => db'[m] = v
<1>1. /\ db \in [Module -> 0..MaxVersion] /\ pairs \in [Pair -> Nat]
      /\ db' = [m \in Module |-> IF Scored(b, m) = {} THEN db[m]
                                 ELSE b[Max(Scored(b, m))].version]
      /\ pairs' = [p \in Pair |-> pairs[p] + Count(b, p)]
  BY DEF TypeOK, Write, Count, At
<1>2. ASSUME NEW m \in Module, Scored(b, m) # {}
      PROVE  b[Max(Scored(b, m))].version \in 0..MaxVersion
  <2>1. Max(Scored(b, m)) \in Scored(b, m)
    BY <1>2, LastIsMax
  <2>2. b[Max(Scored(b, m))].version \in 1..MaxVersion
    BY <2>1, ScoredIn
  <2> QED BY <2>2, BoundAssumption
<1>3. \A p \in Pair : Count(b, p) \in Nat
  BY CountIsNat
<1>4. db' \in [Module -> 0..MaxVersion]
  BY <1>1, <1>2
<1>5. pairs' \in [Pair -> Nat]
  BY <1>1, <1>3
<1>6. ASSUME NEW m \in Module, NEW v, FinalIs(b, m, v) PROVE db'[m] = v
  BY <1>1, <1>6, FinalIsWritten
<1> QED BY <1>1, <1>4, <1>5, <1>6

LEMMA Typing == TypeOK /\ [Next]_vars => TypeOK'
<1> SUFFICES ASSUME TypeOK, [Next]_vars PROVE TypeOK'
  OBVIOUS
<1> USE BatchAssumption, BoundAssumption
<1>0. /\ <<>> \in Seq(Item) /\ faults \in Nat /\ MaxFaults \in Nat /\ MaxVersion \in Nat
      /\ FloorBatch \in Nat /\ CeilingBatch \in Nat /\ Grow \in Nat /\ Shrink \in Nat
      /\ FloorBatch > 0
      /\ size \in Nat /\ FloorBatch <= size /\ size <= CeilingBatch
  BY DEF TypeOK
<1>1. ASSUME NEW m \in Module, UpdateMaturity(m) PROVE TypeOK'
  <2>1. cache[m] + 1 \in 1..MaxVersion
    BY <1>0, <1>1 DEF UpdateMaturity, TypeOK
  <2>2. Score(m, cache[m] + 1) \in Item
    BY <2>1 DEF Item
  <2>3. cache' \in [Module -> 0..MaxVersion] /\ queue' \in Seq(Item)
    BY <1>1, <2>1, <2>2, AppendProperties DEF UpdateMaturity, TypeOK
  <2> QED BY <1>1, <2>3 DEF UpdateMaturity, TypeOK, disk, history
<1>2. ASSUME NEW p \in Pair, RecordPair(p) PROVE TypeOK'
  <2>1. Training(p) \in Item
    BY DEF Item
  <2>2. queue' \in Seq(Item) /\ recorded' \subseteq Pair
    BY <1>2, <2>1, AppendProperties DEF RecordPair, TypeOK
  <2> QED BY <1>2, <2>2 DEF RecordPair, TypeOK, disk
<1>3. CASE Pull
  <2>1. PICK n \in 0..Len(queue) :
          batch' = SubSeq(queue, 1, n) /\ queue' = SubSeq(queue, n + 1, Len(queue))
    <3>1. Len(queue) \in Nat
      BY LenProperties DEF TypeOK
    <3>2. (IF Len(queue) < size THEN Len(queue) ELSE size) \in 0..Len(queue)
      BY <1>0, <3>1
    <3> QED BY <1>3, <3>2 DEF Pull
  <2>2. n \in Int /\ Len(queue) \in Int /\ \A i \in 1..Len(queue) : queue[i] \in Item
    BY LenProperties, ElementOfSeq DEF TypeOK
  <2>3. /\ \A i \in 1..n : queue[i] \in Item
        /\ \A i \in (n + 1)..Len(queue) : queue[i] \in Item
    BY <2>1, <2>2
  <2>4. batch' \in Seq(Item) /\ queue' \in Seq(Item)
    BY <2>1, <2>2, <2>3, SubSeqProperties
  <2> QED BY <1>3, <2>4 DEF Pull, TypeOK, disk, history
<1>4. CASE Commit
  <2>1. db' \in [Module -> 0..MaxVersion] /\ pairs' \in [Pair -> Nat]
    BY <1>4, WriteEffect DEF Commit, TypeOK
  <2>2. size' \in FloorBatch..CeilingBatch
    BY <1>0, <1>4 DEF Commit, Adapted
  <2> QED BY <1>0, <1>4, <2>1, <2>2 DEF Commit, FlushEnds, TypeOK, history
<1>5. ASSUME Requeue, UNCHANGED disk \/ Write(batch), torn' \in BOOLEAN PROVE TypeOK'
  <2>1. db' \in [Module -> 0..MaxVersion] /\ pairs' \in [Pair -> Nat]
    BY <1>5, WriteEffect DEF TypeOK, disk
  <2>2. queue' \in Seq(Item)
    BY <1>5, ConcatProperties DEF Requeue, TypeOK
  <2>3. faults' \in 0..MaxFaults
    BY <1>0, <1>5 DEF Requeue
  <2> QED BY <1>0, <1>5, <2>1, <2>2, <2>3 DEF Requeue, FlushEnds, TypeOK
<1>6. CASE FailBeforeCommit
  BY <1>5, <1>6 DEF FailBeforeCommit, TypeOK
<1>7. CASE FailAfterCommit
  BY <1>5, <1>7 DEF FailAfterCommit
<1>8. CASE Stop
  BY <1>0, <1>8 DEF Stop, TypeOK, disk, history
<1>9. CASE OrphanEnds
  <2>1. db' \in [Module -> 0..MaxVersion] /\ pairs' \in [Pair -> Nat]
    BY <1>9, WriteEffect DEF OrphanEnds, TypeOK, disk
  <2>2. faults' \in 0..MaxFaults
    BY <1>0, <1>9 DEF OrphanEnds, TypeOK
  <2> QED BY <1>0, <1>9, <2>1, <2>2 DEF OrphanEnds, TypeOK
<1>10. CASE Exit
  BY <1>0, <1>10 DEF Exit, TypeOK, disk, history
<1>11. CASE Crash
  <2>1. faults' \in 0..MaxFaults
    BY <1>0, <1>11 DEF Crash
  <2> QED BY <1>0, <1>11, <2>1 DEF Crash, TypeOK, disk
<1>12. CASE Start
  BY <1>0, <1>12 DEF Start, TypeOK, disk
<1>13. CASE UNCHANGED vars
  BY <1>13 DEF vars, memory, disk, history, TypeOK
<1> QED BY <1>1, <1>2, <1>3, <1>4, <1>6, <1>7, <1>8, <1>9, <1>10, <1>11, <1>12, <1>13
        DEF Next, Produce, Flush

-----------------------------------------------------------------------------
(* The inductive invariant: what the running flush took is still ahead of the queue. *)

Pending == batch \o queue
Total(p) == pairs[p] + Count(Pending, p) + Count(orphan, p)

\* A pair has one place, unless a failure came after a commit.
AtMostOnce == ~torn => \A p \in Pair : Total(p) <= 1
\* A running store has what it accepted, and no thread of an earlier one.
Accepted ==
    phase = "running" =>
        orphan = <<>> /\ \A p \in Pair : p \in recorded <=> Total(p) >= 1
\* The last update of a module that is pending is the one in the cache; without one the
\* table has it.
Latest ==
    phase = "running" => \A m \in Module :
        IF Scored(Pending, m) # {} THEN FinalIs(Pending, m, cache[m]) ELSE db[m] = cache[m]
IInv == TypeOK /\ AtMostOnce /\ Accepted /\ Latest

LEMMA Counts ==
    ASSUME TypeOK, NEW p \in Pair
    PROVE  /\ Pending \in Seq(Item) /\ pairs[p] \in Nat
           /\ Count(batch, p) \in Nat /\ Count(queue, p) \in Nat /\ Count(orphan, p) \in Nat
           /\ Count(Pending, p) = Count(batch, p) + Count(queue, p)
           /\ Total(p) \in Nat
           /\ Copies(p) = pairs[p] + Count(Pending, p)
<1>1. batch \in Seq(Item) /\ queue \in Seq(Item) /\ orphan \in Seq(Item) /\ pairs[p] \in Nat
  BY DEF TypeOK
<1>2. /\ Count(batch, p) \in Nat /\ Count(queue, p) \in Nat /\ Count(orphan, p) \in Nat
      /\ Count(Pending, p) = Count(batch, p) + Count(queue, p)
  BY <1>1, CountIsNat, CountConcat DEF Pending
<1>3. Copies(p) = pairs[p] + Count(batch, p) + Count(queue, p)
  BY DEF Copies, Count, At
<1> QED BY <1>1, <1>2, <1>3, ConcatProperties DEF Pending, Total

LEMMA PendingIs ==
    ASSUME TypeOK
    PROVE  /\ batch = <<>> => Pending = queue
           /\ queue = <<>> => Pending = batch
           /\ Pending \in Seq(Item)
BY ConcatEmptySeq, ConcatProperties DEF TypeOK, Pending

TotalsAreNat == \A p \in Pair : Total(p) \in Nat
LEMMA Totals == TypeOK => TotalsAreNat
BY Counts DEF TotalsAreNat
LEMMA TotalsNext == TypeOK' => TotalsAreNat'
BY Totals, PTL

\* A step after which the store does not run, and that doubles nothing.
LEMMA Ended ==
    ASSUME IInv, TypeOK', torn' = torn, phase' # "running",
           \A p \in Pair : Total(p)' <= Total(p)
    PROVE  IInv'
<1>1. \A p \in Pair : Total(p) \in Nat /\ Total(p)' \in Nat
  BY Totals, TotalsNext DEF IInv, TotalsAreNat
<1>2. AtMostOnce'
  BY <1>1 DEF IInv, AtMostOnce
<1> QED BY <1>2 DEF IInv, Accepted, Latest

\* A step that moves what is pending, and nothing else.
LEMMA Moved ==
    ASSUME IInv, TypeOK', Pending' = Pending,
           UNCHANGED <<cache, orphan, disk, recorded, torn>>,
           phase' = "running" => phase = "running"
    PROVE  IInv'
<1>1. ASSUME NEW p PROVE Total(p)' = Total(p)
  BY DEF Total, disk
<1>2. AtMostOnce'
  BY <1>1 DEF IInv, AtMostOnce
<1>3. Accepted'
  BY <1>1 DEF IInv, Accepted
<1>4. Latest'
  BY DEF IInv, Latest, disk
<1> QED BY <1>2, <1>3, <1>4 DEF IInv

LEMMA Initially == Init => IInv
<1> SUFFICES ASSUME Init PROVE IInv
  OBVIOUS
<1>1. TypeOK
  <2>1. 0 \in 0..MaxVersion /\ 0 \in 0..MaxFaults /\ StartBatch \in FloorBatch..CeilingBatch
    BY BatchAssumption, BoundAssumption
  <2>2. <<>> \in Seq(Item)
    OBVIOUS
  <2> QED BY <2>1, <2>2 DEF Init, TypeOK
<1>2. Pending = <<>>
  BY <1>1, PendingIs DEF Init
<1>3. \A p \in Pair : Total(p) = 0
  BY <1>2, CountEmpty DEF Init, Total
<1>4. \A m \in Module : Scored(Pending, m) = {}
  BY <1>2 DEF Scored
<1> QED BY <1>1, <1>3, <1>4 DEF Init, IInv, AtMostOnce, Accepted, Latest

\* What a producer appends to the queue comes last of what is pending.
LEMMA Appended ==
    ASSUME TypeOK, NEW x \in Item, queue' = Append(queue, x), batch' = batch
    PROVE  Pending' = Append(Pending, x)
<1>1. /\ batch \in Seq(Item) /\ queue \in Seq(Item) /\ Pending \in Seq(Item)
      /\ <<x>> \in Seq(Item)
  BY PendingIs, AppendIsConcat DEF TypeOK
<1>2. /\ Append(queue, x) = queue \o <<x>>
      /\ Append(Pending, x) = Pending \o <<x>>
  BY <1>1, AppendIsConcat
<1>3. batch \o (queue \o <<x>>) = (batch \o queue) \o <<x>>
  BY <1>1, ConcatAssociative
<1> QED BY <1>2, <1>3 DEF Pending

LEMMA UpdateKeeps ==
    ASSUME IInv, TypeOK', NEW m \in Module, UpdateMaturity(m)
    PROVE  IInv'
<1> DEFINE x == Score(m, cache[m] + 1)
<1>1. x \in Item
  <2>1. cache[m] + 1 \in 1..MaxVersion
    BY BoundAssumption DEF IInv, TypeOK, UpdateMaturity
  <2> QED BY <2>1 DEF Item
<1>2. Pending' = Append(Pending, x) /\ Pending \in Seq(Item)
  BY <1>1, Appended, PendingIs DEF UpdateMaturity, IInv
<1>3. /\ x.kind = "maturity" /\ x.mod = m /\ x.version = cache[m] + 1
      /\ \A p : x # Training(p)
  <2>1. /\ x.kind = "maturity" /\ x.mod = m /\ x.version = cache[m] + 1
    BY DEF Score
  <2>2. \A p : Training(p).kind = "training"
    BY DEF Training
  <2> QED BY <2>1, <2>2
<1> HIDE DEF x
<1>4. ASSUME NEW p \in Pair PROVE Total(p)' = Total(p)
  <2>1. Count(Pending', p) = Count(Pending, p)
    BY <1>1, <1>2, <1>3, CountAppend, CountIsNat
  <2> QED BY <2>1 DEF Total, UpdateMaturity, disk
<1>5. AtMostOnce'
  BY <1>4 DEF IInv, AtMostOnce, UpdateMaturity, history
<1>6. Accepted'
  BY <1>4 DEF IInv, Accepted, UpdateMaturity, history
<1>7. ASSUME NEW k \in Module
      PROVE  IF Scored(Pending', k) # {} THEN FinalIs(Pending', k, cache'[k])
             ELSE db'[k] = cache'[k]
  <2>1. IF Scored(Pending, k) # {} THEN FinalIs(Pending, k, cache[k]) ELSE db[k] = cache[k]
    BY DEF IInv, Latest, UpdateMaturity
  <2>2. CASE k = m
    <3>1. cache'[k] = x.version
      BY <1>3, <2>2 DEF UpdateMaturity, IInv, TypeOK
    <3>2. Scored(Pending', k) # {} /\ FinalIs(Pending', k, x.version)
      BY <1>1, <1>2, <1>3, <2>2, FinalOfAppend
    <3> QED BY <3>1, <3>2
  <2>3. CASE k # m
    <3>1. cache'[k] = cache[k] /\ db'[k] = db[k]
      BY <2>3 DEF UpdateMaturity, IInv, TypeOK, disk
    <3>2. /\ Scored(Pending', k) = {} <=> Scored(Pending, k) = {}
          /\ \A v : FinalIs(Pending', k, v) <=> FinalIs(Pending, k, v)
      BY <1>1, <1>2, <1>3, <2>3, FinalOfAppend
    <3> QED BY <2>1, <3>1, <3>2
  <2> QED BY <2>2, <2>3
<1> QED BY <1>5, <1>6, <1>7 DEF IInv, Latest

LEMMA RecordKeeps ==
    ASSUME IInv, TypeOK', NEW p \in Pair, RecordPair(p)
    PROVE  IInv'
<1> DEFINE x == Training(p)
<1>1. x \in Item /\ x.kind = "training"
  BY DEF Item, Training
<1>2. Pending' = Append(Pending, x) /\ Pending \in Seq(Item)
  BY <1>1, Appended, PendingIs DEF RecordPair, IInv
<1>3. \A q \in Pair : x = Training(q) <=> q = p
  BY DEF Training
<1> HIDE DEF x
<1>4. /\ \A q \in Pair : Total(q) \in Nat
      /\ phase = "running" /\ phase' = "running" /\ orphan' = orphan /\ torn' = torn
      /\ recorded' = recorded \union {p} /\ p \notin recorded
  BY Totals DEF IInv, TotalsAreNat, RecordPair
<1>5. ASSUME NEW q \in Pair PROVE Total(q)' = Total(q) + IF q = p THEN 1 ELSE 0
  <2>1. Count(Pending', q) = Count(Pending, q) + IF q = p THEN 1 ELSE 0
    BY <1>1, <1>2, <1>3, CountAppend
  <2>2. /\ Count(Pending, q) \in Nat /\ pairs[q] \in Nat /\ Count(orphan, q) \in Nat
        /\ pairs' = pairs /\ orphan' = orphan
    BY Counts DEF IInv, RecordPair, disk
  <2> QED BY <2>1, <2>2 DEF Total
<1>6. Total(p) = 0
  BY <1>4 DEF IInv, Accepted
<1>7. AtMostOnce'
  BY <1>4, <1>5, <1>6 DEF IInv, AtMostOnce
<1>8. Accepted'
  BY <1>4, <1>5 DEF IInv, Accepted
<1>9. Latest'
  <2>1. \A k \in Module : /\ Scored(Pending', k) = {} <=> Scored(Pending, k) = {}
                          /\ \A v : FinalIs(Pending', k, v) <=> FinalIs(Pending, k, v)
    BY <1>1, <1>2, FinalOfAppend
  <2> QED BY <1>4, <2>1 DEF IInv, Latest, RecordPair, disk
<1> QED BY <1>7, <1>8, <1>9 DEF IInv

LEMMA PullKeeps == ASSUME IInv, TypeOK', Pull PROVE IInv'
<1>1. queue \in Seq(Item) /\ Len(queue) \in Nat /\ size \in Nat /\ Pending = queue
  BY LenProperties, PendingIs, BatchAssumption DEF IInv, TypeOK, Pull
<1>2. PICK n \in 0..Len(queue) :
        batch' = SubSeq(queue, 1, n) /\ queue' = SubSeq(queue, n + 1, Len(queue))
  <2>1. (IF Len(queue) < size THEN Len(queue) ELSE size) \in 0..Len(queue)
    BY <1>1
  <2> QED BY <2>1 DEF Pull
<1>3. SubSeq(queue, 1, n) \o SubSeq(queue, n + 1, Len(queue)) = SubSeq(queue, 1, Len(queue))
  <2>1. 1 \in 1..Len(queue) + 1 /\ n \in 1 - 1..Len(queue) /\ Len(queue) \in n..Len(queue)
    BY <1>1
  <2> QED BY <1>1, <2>1, ConcatAdjacentSubSeq
<1>4. Pending' = Pending
  BY <1>1, <1>2, <1>3, SubSeqFull DEF Pending
<1> QED BY <1>4, Moved DEF Pull, disk, history

\* A written batch leaves what is pending for the tables.
LEMMA CommitKeeps == ASSUME IInv, TypeOK', Commit PROVE IInv'
<1>1. /\ batch \in Seq(Item) /\ queue \in Seq(Item)
      /\ batch' = <<>> /\ queue' = queue /\ orphan' = orphan /\ cache' = cache
      /\ torn' = torn /\ recorded' = recorded
      /\ phase' = "running" => phase = "running"
  BY DEF IInv, TypeOK, Commit, FlushEnds, history
<1>2. /\ \A p \in Pair : pairs'[p] = pairs[p] + Count(batch, p)
      /\ \A m \in Module : Scored(batch, m) = {} => db'[m] = db[m]
      /\ \A m \in Module : \A v : FinalIs(batch, m, v) => db'[m] = v
  BY <1>1, WriteEffect DEF IInv, Commit
<1>3. Pending' = queue
  BY <1>1, ConcatEmptySeq DEF Pending
<1>4. ASSUME NEW p \in Pair PROVE Total(p)' = Total(p)
  <2>1. /\ pairs[p] \in Nat /\ Count(batch, p) \in Nat /\ Count(queue, p) \in Nat
        /\ Count(orphan, p) \in Nat /\ Count(Pending, p) = Count(batch, p) + Count(queue, p)
    BY Counts DEF IInv
  <2> QED BY <1>1, <1>2, <1>3, <2>1 DEF Total
<1>5. AtMostOnce'
  BY <1>1, <1>4 DEF IInv, AtMostOnce
<1>6. Accepted'
  BY <1>1, <1>4 DEF IInv, Accepted
<1>7. ASSUME phase' = "running", NEW m \in Module
      PROVE  IF Scored(queue, m) # {} THEN FinalIs(queue, m,
            cache[m]) ELSE db'[m] = cache[m]
  <2>1. IF Scored(Pending, m) # {} THEN FinalIs(Pending, m, cache[m]) ELSE db[m] = cache[m]
    BY <1>1, <1>7 DEF IInv, Latest
  <2>2. /\ Scored(Pending, m) = {} <=> Scored(batch, m) = {} /\ Scored(queue, m) = {}
        /\ Scored(queue, m) # {} => \A v : FinalIs(Pending, m, v) <=> FinalIs(queue, m, v)
        /\ Scored(queue, m) = {} => \A v : FinalIs(Pending, m, v) <=> FinalIs(batch, m, v)
    BY <1>1, FinalOfConcat DEF Pending
  <2>3. CASE Scored(queue, m) # {}
    BY <2>1, <2>2, <2>3
  <2>4. CASE Scored(queue, m) = {} /\ Scored(batch, m) # {}
    BY <1>2, <2>1, <2>2, <2>4
  <2>5. CASE Scored(queue, m) = {} /\ Scored(batch, m) = {}
    BY <1>2, <2>1, <2>2, <2>5
  <2> QED BY <2>3, <2>4, <2>5
<1>8. Latest'
  BY <1>1, <1>3, <1>7 DEF Latest
<1> QED BY <1>5, <1>6, <1>8 DEF IInv

\* A failed batch goes back to the front of the queue, where it was.
LEMMA Requeued ==
    ASSUME IInv, Requeue
    PROVE  Pending' = Pending
<1>1. queue' = batch \o queue /\ batch' = <<>> /\ queue' \in Seq(Item)
  BY ConcatProperties DEF Requeue, FlushEnds, IInv, TypeOK
<1> QED BY <1>1, ConcatEmptySeq DEF Pending

LEMMA FailedKeeps == ASSUME IInv, TypeOK', FailBeforeCommit PROVE IInv'
<1>1. Pending' = Pending
  BY Requeued DEF FailBeforeCommit
<1> QED BY <1>1, Moved DEF FailBeforeCommit, Requeue, FlushEnds

LEMMA TornKeeps == ASSUME IInv, TypeOK', FailAfterCommit PROVE IInv'
<1>1. /\ batch \in Seq(Item) /\ queue \in Seq(Item)
      /\ orphan' = orphan /\ cache' = cache /\ torn' /\ recorded' = recorded
      /\ phase' = "running" => phase = "running"
  BY DEF IInv, TypeOK, FailAfterCommit, Requeue, FlushEnds
<1>2. Pending' = Pending
  BY Requeued DEF FailAfterCommit
<1>3. /\ \A p \in Pair : pairs'[p] = pairs[p] + Count(batch, p)
      /\ \A m \in Module : Scored(batch, m) = {} => db'[m] = db[m]
  BY <1>1, WriteEffect DEF IInv, FailAfterCommit
<1>4. AtMostOnce'
  BY <1>1 DEF AtMostOnce
<1>5. ASSUME phase' = "running", NEW p \in Pair PROVE Total(p) >= 1 <=> Total(p)' >= 1
  <2>1. /\ pairs[p] \in Nat /\ Count(batch, p) \in Nat /\ Count(queue, p) \in Nat
        /\ Count(orphan, p) \in Nat /\ Count(Pending, p) = Count(batch, p) + Count(queue, p)
    BY Counts DEF IInv
  <2> QED BY <1>1, <1>2, <1>3, <2>1 DEF Total
<1>6. Accepted'
  BY <1>1, <1>5 DEF IInv, Accepted
<1>7. ASSUME NEW m \in Module, Scored(Pending, m) = {} PROVE db'[m] = db[m]
  BY <1>1, <1>3, <1>7, FinalOfConcat DEF Pending
<1>8. Latest'
  BY <1>1, <1>2, <1>7 DEF IInv, Latest
<1> QED BY <1>4, <1>6, <1>8 DEF IInv

LEMMA StopKeeps == ASSUME IInv, TypeOK', Stop PROVE IInv'
<1>1. ASSUME NEW p \in Pair PROVE Total(p)' = Total(p)
  <2>1. orphan = <<>> /\ Count(orphan, p) = 0
    BY CountEmpty DEF IInv, Accepted, Stop
  <2>2. Pending' = queue /\ orphan' = batch /\ pairs' = pairs
    BY ConcatEmptySeq DEF IInv, TypeOK, Stop, Pending, disk
  <2>3. /\ pairs[p] \in Nat /\ Count(batch, p) \in Nat /\ Count(queue, p) \in Nat
        /\ Count(Pending, p) = Count(batch, p) + Count(queue, p)
    BY Counts DEF IInv
  <2> QED BY <2>1, <2>2, <2>3 DEF Total
<1>2. \A p \in Pair : Total(p)' <= Total(p)
  BY <1>1, Totals DEF IInv, TotalsAreNat
<1> QED BY <1>2, Ended DEF Stop, history

LEMMA OrphanKeeps == ASSUME IInv, TypeOK', OrphanEnds PROVE IInv'
<1>1. phase' # "running" /\ torn' = torn
  BY DEF OrphanEnds, IInv, Accepted
<1>2. ASSUME NEW p \in Pair PROVE Total(p)' <= Total(p)
  <2>1. /\ pairs[p] \in Nat /\ Count(orphan, p) \in Nat /\ Count(Pending, p) \in Nat
    BY Counts, CountIsNat DEF IInv
  <2>2. Count(orphan', p) = 0 /\ Pending' = Pending
    BY CountEmpty DEF OrphanEnds, Pending
  <2>3. pairs'[p] = pairs[p] \/ pairs'[p] = pairs[p] + Count(orphan, p)
    <3>1. CASE Write(orphan)
      <4>1. orphan \in Seq(Item)
        BY DEF IInv, TypeOK
      <4> QED BY <3>1, <4>1, WriteEffect DEF IInv
    <3>2. CASE UNCHANGED disk
      BY <3>2 DEF disk
    <3> QED BY <3>1, <3>2 DEF OrphanEnds
  <2> QED BY <2>1, <2>2, <2>3 DEF Total
<1> QED BY <1>1, <1>2, Ended

\* What was only in memory is gone.
LEMMA Lost ==
    ASSUME IInv, TypeOK', batch' = <<>>, queue' = <<>>, pairs' = pairs,
           orphan' = orphan \/ orphan' = <<>>, NEW p \in Pair
    PROVE  Total(p)' <= Total(p) /\ Count(Pending', p) = 0
<1>1. /\ pairs[p] \in Nat /\ Count(orphan, p) \in Nat /\ Count(Pending, p) \in Nat
  BY Counts, CountIsNat DEF IInv
<1>2. Pending' = <<>>
  BY ConcatEmptySeq DEF Pending, TypeOK
<1>3. Count(Pending', p) = 0 /\ (Count(orphan', p) = Count(orphan, p) \/ Count(orphan',
      p) = 0)
  BY <1>2, CountEmpty
<1> QED BY <1>1, <1>3 DEF Total

\* stop() has flushed the batch, so that only the queue is lost at the exit.
LEMMA ExitKeeps == ASSUME IInv, TypeOK', Exit PROVE IInv'
<1>1. ASSUME NEW p \in Pair PROVE Total(p)' <= Total(p)
  <2>1. /\ pairs[p] \in Nat /\ Count(batch, p) \in Nat /\ Count(queue, p) \in Nat
        /\ Count(orphan, p) \in Nat /\ Count(Pending, p) = Count(batch, p) + Count(queue, p)
    BY Counts DEF IInv
  <2>2. Pending' = batch /\ orphan' = orphan /\ pairs' = pairs
    BY ConcatEmptySeq DEF IInv, TypeOK, Exit, Pending, disk
  <2> QED BY <2>1, <2>2 DEF Total
<1> QED BY <1>1, Ended DEF Exit, history

LEMMA CrashKeeps == ASSUME IInv, TypeOK', Crash PROVE IInv'
<1>1. \A p \in Pair : Total(p)' <= Total(p)
  BY Lost DEF Crash, disk
<1> QED BY <1>1, Ended DEF Crash

LEMMA StartKeeps == ASSUME IInv, TypeOK', Start PROVE IInv'
<1>1. /\ batch' = <<>> /\ queue' = <<>> /\ orphan' = <<>> /\ pairs' = pairs /\ db' = db
      /\ cache' = db /\ torn' = torn /\ recorded' = {p \in Pair : pairs[p] > 0}
  BY DEF Start, disk
<1>2. ASSUME NEW p \in Pair
      PROVE  Total(p)' <= Total(p) /\ Total(p)' = pairs[p] /\ pairs[p] \in Nat
            /\ Total(p) \in Nat
  <2>1. Total(p)' <= Total(p) /\ Count(Pending', p) = 0
    BY <1>1, Lost
  <2>2. Count(orphan', p) = 0
    BY <1>1, CountEmpty
  <2>3. pairs[p] \in Nat /\ Total(p) \in Nat
    BY Counts DEF IInv
  <2> QED BY <1>1, <2>1, <2>2, <2>3 DEF Total
<1>3. AtMostOnce'
  BY <1>1, <1>2 DEF IInv, AtMostOnce
<1>4. Accepted'
  BY <1>1, <1>2 DEF Accepted
<1>5. \A m \in Module : Scored(Pending', m) = {}
  BY <1>1, ConcatEmptySeq DEF Pending, Scored, TypeOK
<1>6. Latest'
  BY <1>1, <1>5 DEF Latest
<1> QED BY <1>3, <1>4, <1>6 DEF IInv

LEMMA Inductive == IInv /\ [Next]_vars => IInv'
<1> SUFFICES ASSUME IInv, [Next]_vars PROVE IInv'
  OBVIOUS
<1>1. TypeOK'
  BY Typing DEF IInv
<1>2. CASE Next
  BY <1>1, <1>2, UpdateKeeps, RecordKeeps, PullKeeps, CommitKeeps, FailedKeeps, TornKeeps,
     StopKeeps, OrphanKeeps, ExitKeeps, CrashKeeps, StartKeeps DEF Next, Produce, Flush
<1>3. CASE UNCHANGED vars
  <2>1. Pending' = Pending
    BY <1>3 DEF vars, memory, Pending
  <2> QED BY <1>1, <1>3, <2>1, Moved DEF vars, memory, history
<1> QED BY <1>2, <1>3

\* Every variable of the store keeps its type in every behaviour, the batch size stays
\* between its floor and its ceiling.
THEOREM TypeCorrect == Spec => []TypeOK
<1>1. IInv => TypeOK
  BY DEF IInv
<1> QED BY <1>1, Initially, Inductive, PTL DEF Spec

-----------------------------------------------------------------------------
(* The properties *)

LEMMA Conserved == ASSUME IInv PROVE PairsConserved
<1>1. ASSUME phase = "running", NEW p \in recorded
      PROVE  Copies(p) >= 1 /\ (~torn => Copies(p) = 1)
  <2>1. p \in Pair
    BY DEF IInv, TypeOK
  <2>2. Count(orphan, p) = 0 /\ Total(p) >= 1 /\ (~torn => Total(p) <= 1)
    BY <1>1, <2>1, CountEmpty DEF IInv, Accepted, AtMostOnce
  <2>3. /\ pairs[p] \in Nat /\ Count(Pending, p) \in Nat
        /\ Copies(p) = pairs[p] + Count(Pending, p)
    BY <2>1, Counts, CountIsNat DEF IInv
  <2>4. Copies(p) = Total(p) /\ Total(p) \in Nat
    BY <2>2, <2>3 DEF Total
  <2> QED BY <2>2, <2>4
<1> QED BY <1>1 DEF PairsConserved

\* While the store runs, no accepted training pair is lost and, unless a flush failed
\* after its commit, none is doubled: for every number of pairs, batches, failures,
\* crashes and restarts.
THEOREM PairsAreConserved == Spec => []PairsConserved
BY Conserved, Initially, Inductive, PTL DEF Spec

LEMMA Drained == ASSUME IInv PROVE DrainedIsCurrent
<1>1. ASSUME phase = "running", queue = <<>>, batch = <<>> PROVE db = cache
  <2>1. Pending = <<>>
    BY <1>1, PendingIs DEF IInv
  <2>2. \A m \in Module : Scored(Pending, m) = {}
    BY <2>1 DEF Scored
  <2>3. \A m \in Module : db[m] = cache[m]
    BY <1>1, <2>2 DEF IInv, Latest
  <2> QED BY <2>3 DEF IInv, TypeOK
<1> QED BY <1>1 DEF DrainedIsCurrent

\* Once a running store has written all it queued, the table a restart would read is
\* the cache the readers saw, whatever batches failed and in which they were written.
THEOREM DrainedCurrent == Spec => []DrainedIsCurrent
BY Drained, Initially, Inductive, PTL DEF Spec

-----------------------------------------------------------------------------
(* Why no score goes back: in all that is still to be written a module's updates are in   *)
(* their order, and none is older than the table, but those that the transaction they are *)
(* in follows with a newer one (a batch that failed after its commit).                     *)

All == orphan \o Pending
\* How many items the next transaction has at least.
Front == IF orphan # <<>> THEN Len(orphan) ELSE IF batch # <<>> THEN Len(batch)
         ELSE IF Len(queue) < size THEN Len(queue) ELSE size
InTurn(s, k, table) == \A m \in Module :
    /\ \A i, j \in Scored(s, m) : i < j => s[i].version <= s[j].version
    /\ \A i \in Scored(s, m) : s[i].version < table[m] =>
         \E j \in Scored(s, m) : j <= k /\ s[j].version >= table[m]
\* One transaction at a time, none of an ended process; a batch is never above the size.
OneWriter ==
    /\ batch = <<>> \/ orphan = <<>>
    /\ phase \in {"stopped", "down"} => batch = <<>> /\ orphan = <<>>
    /\ Len(batch) <= size
\* A running store's cache is ahead of the table and of all that is to be written.
Below == phase = "running" => \A m \in Module :
    cache[m] >= db[m] /\ \A i \in Scored(All, m) : All[i].version <= cache[m]
Turns == InTurn(All, Front, db) /\ OneWriter /\ Below

\* A longer transaction only helps.
LEMMA FrontGrows ==
    ASSUME NEW s \in Seq(Item), NEW k \in Nat, NEW l \in Nat, k <= l, NEW table,
           InTurn(s, k, table)
    PROVE  InTurn(s, l, table)
<1>1. \A m \in Module : Scored(s, m) \subseteq Nat
  BY ScoredIn
<1> QED BY <1>1 DEF InTurn

\* Where a concatenation's updates come from.
LEMMA ScoredConcat ==
    ASSUME NEW w \in Seq(Item), NEW r \in Seq(Item), NEW m
    PROVE  /\ w \o r \in Seq(Item) /\ Len(w) \in Nat
           /\ \A i \in Scored(w, m) :
                 i \in Scored(w \o r, m) /\ (w \o r)[i] = w[i] /\ i \in 1..Len(w)
           /\ \A i \in Scored(r, m) : /\ i + Len(w) \in Scored(w \o r, m)
                                      /\ (w \o r)[i + Len(w)] = r[i] /\ i \in 1..Len(r)
           /\ \A i \in Scored(w \o r, m) : i <= Len(w) => i \in Scored(w, m)
<1>1. /\ DOMAIN w = 1..Len(w) /\ Len(w) \in Nat
      /\ DOMAIN r = 1..Len(r) /\ Len(r) \in Nat
      /\ w \o r \in Seq(Item) /\ DOMAIN (w \o r) = 1..Len(w) + Len(r)
      /\ \A i \in 1..Len(w) + Len(r) :
            (w \o r)[i] = IF i <= Len(w) THEN w[i] ELSE r[i - Len(w)]
  BY LenProperties, ConcatProperties
<1> DEFINE c == w \o r
<1>2. /\ c \in Seq(Item) /\ DOMAIN c = 1..Len(w) + Len(r)
      /\ \A i \in 1..Len(w) + Len(r) : c[i] = IF i <= Len(w) THEN w[i] ELSE r[i - Len(w)]
  BY <1>1
<1> HIDE DEF c
<1>3. ASSUME NEW i \in Scored(w, m) PROVE i \in Scored(c, m) /\ c[i] = w[i] /\ i \in 1..Len(w)
  BY <1>1, <1>2 DEF Scored
<1>4. ASSUME NEW i \in Scored(r, m)
      PROVE  i + Len(w) \in Scored(c, m) /\ c[i + Len(w)] = r[i] /\ i \in 1..Len(r)
  <2>1. i \in 1..Len(r)
    BY <1>1 DEF Scored
  <2>2. /\ i + Len(w) \in 1..Len(w) + Len(r) /\ ~(i + Len(w) <= Len(w))
        /\ (i + Len(w)) - Len(w) = i
    BY <1>1, <2>1
  <2>3. c[i + Len(w)] = r[i]
    BY <1>2, <2>2
  <2> QED BY <1>2, <2>1, <2>2, <2>3 DEF Scored
<1>5. ASSUME NEW i \in Scored(c, m), i <= Len(w) PROVE i \in Scored(w, m)
  BY <1>1, <1>2, <1>5 DEF Scored
<1> QED BY <1>1, <1>2, <1>3, <1>4, <1>5 DEF c

\* What follows a transaction is newer than the table, whether it is written or lost.
LEMMA RestIsNewer ==
    ASSUME NEW w \in Seq(Item), NEW r \in Seq(Item), NEW table \in [Module -> Nat],
           InTurn(w \o r, Len(w), table), NEW l \in Nat
    PROVE  InTurn(r, l, table)
<1> SUFFICES ASSUME NEW m \in Module
             PROVE  /\ \A i, j \in Scored(r, m) : i < j => r[i].version <= r[j].version
                    /\ \A i \in Scored(r, m) : ~(r[i].version < table[m])
  BY DEF InTurn
<1> DEFINE c == w \o r
<1>1. /\ c \in Seq(Item) /\ Len(w) \in Nat
      /\ \A i \in Scored(r, m) : /\ i + Len(w) \in Scored(c, m)
                                 /\ c[i + Len(w)] = r[i] /\ i \in 1..Len(r)
  BY ScoredConcat
<1>2. /\ \A i, j \in Scored(c, m) : i < j => c[i].version <= c[j].version
      /\ \A i \in Scored(c, m) : c[i].version < table[m] =>
           \E j \in Scored(c, m) : j <= Len(w) /\ c[j].version >= table[m]
  BY DEF InTurn
<1> HIDE DEF c
<1>3. /\ Scored(c, m) \subseteq Nat /\ \A i \in Scored(c, m) : c[i].version \in Nat
      /\ table[m] \in Nat
  BY <1>1, ScoredIn
<1>4. ASSUME NEW i \in Scored(r, m) PROVE ~(r[i].version < table[m])
  <2>1. i + Len(w) \in Scored(c, m) /\ c[i + Len(w)] = r[i] /\ i \in 1..Len(r)
    BY <1>1
  <2>2. ASSUME NEW j \in Scored(c, m), j <= Len(w) PROVE c[j].version <= r[i].version
    <3>1. j < i + Len(w)
      BY <1>1, <1>3, <2>1, <2>2
    <3> QED BY <1>2, <2>1, <3>1
  <2> QED BY <1>2, <1>3, <2>1, <2>2
<1>5. ASSUME NEW i \in Scored(r, m), NEW j \in Scored(r, m), i < j
      PROVE  r[i].version <= r[j].version
  <2>1. i + Len(w) < j + Len(w)
    BY <1>1, <1>5
  <2> QED BY <1>1, <1>2, <2>1
<1> QED BY <1>4, <1>5

\* A transaction takes no score back, and leaves what follows it, or it and what follows
\* it, in turn.
LEMMA WriteIsNewer ==
    ASSUME TypeOK, TypeOK', NEW w \in Seq(Item), NEW r \in Seq(Item), InTurn(w \o r, Len(w), db),
           Write(w)
    PROVE  /\ \A m \in Module : db'[m] >= db[m]
           /\ InTurn(w \o r, Len(w), db')
<1> DEFINE c == w \o r
<1>0. /\ db \in [Module -> Nat] /\ db' \in [Module -> Nat]
      /\ db' = [m \in Module |-> IF Scored(w, m) = {} THEN db[m]
                                 ELSE w[Max(Scored(w, m))].version]
  BY BoundAssumption DEF TypeOK, Write
<1> SUFFICES ASSUME NEW m \in Module
             PROVE  /\ db'[m] >= db[m]
                    /\ \A i \in Scored(c, m) : c[i].version < db'[m] =>
                          \E j \in Scored(c, m) : j <= Len(w) /\ c[j].version >= db'[m]
  BY DEF InTurn
<1>1. /\ c \in Seq(Item) /\ Len(w) \in Nat
      /\ \A i \in Scored(w, m) : i \in Scored(c, m) /\ c[i] = w[i] /\ i \in 1..Len(w)
      /\ \A i \in Scored(c, m) : i <= Len(w) => i \in Scored(w, m)
  BY ScoredConcat
<1>2. /\ \A i, j \in Scored(c, m) : i < j => c[i].version <= c[j].version
      /\ \A i \in Scored(c, m) : c[i].version < db[m] =>
           \E j \in Scored(c, m) : j <= Len(w) /\ c[j].version >= db[m]
  BY DEF InTurn
<1> HIDE DEF c
<1>3. /\ Scored(c, m) \subseteq Nat /\ \A i \in Scored(c, m) : c[i].version \in Nat
      /\ db[m] \in Nat /\ db'[m] \in Nat
  BY <1>0, <1>1, ScoredIn
<1>4. CASE Scored(w, m) = {}
  <2>1. db'[m] = db[m]
    BY <1>0, <1>4
  <2> QED BY <1>2, <1>3, <2>1
<1>5. CASE Scored(w, m) # {}
  <2>1. PICK n \in Scored(w, m) : (\A i \in Scored(w, m) : i <= n) /\ db'[m] = w[n].version
    BY <1>0, <1>5, LastIsMax
  <2>2. n \in Scored(c, m) /\ c[n].version = db'[m] /\ n <= Len(w) /\ n \in Nat
    BY <1>1, <2>1
  <2>3. db'[m] >= db[m]
    <3>1. ASSUME db'[m] < db[m] PROVE FALSE
      <4>1. PICK j \in Scored(c, m) : j <= Len(w) /\ c[j].version >= db[m]
        BY <1>2, <2>2, <3>1
      <4>2. j <= n
        BY <1>1, <2>1, <4>1
      <4>3. c[j].version <= c[n].version
        BY <1>2, <1>3, <2>2, <4>1, <4>2
      <4> QED BY <1>3, <2>2, <3>1, <4>1, <4>3
    <3> QED BY <1>3, <3>1
  <2> QED BY <1>3, <2>2, <2>3
<1> QED BY <1>4, <1>5

LEMMA AllIs ==
    ASSUME TypeOK
    PROVE  /\ All \in Seq(Item) /\ Pending \in Seq(Item) /\ Front \in Nat
           /\ orphan \in Seq(Item) /\ batch \in Seq(Item) /\ queue \in Seq(Item)
           /\ orphan = <<>> => All = Pending
           /\ batch = <<>> => Pending = queue
           /\ Len(orphan) \in Nat /\ Len(batch) \in Nat /\ Len(queue) \in Nat /\ size \in Nat
           /\ size > 0
<1>1. /\ orphan \in Seq(Item) /\ batch \in Seq(Item) /\ queue \in Seq(Item)
      /\ size \in Nat /\ size > 0
  BY BatchAssumption DEF TypeOK
<1>2. Pending \in Seq(Item) /\ (batch = <<>> => Pending = queue)
  BY PendingIs
<1>3. All \in Seq(Item) /\ (orphan = <<>> => All = Pending)
  BY <1>1, <1>2, ConcatProperties, ConcatEmptySeq DEF All
<1>4. Len(orphan) \in Nat /\ Len(batch) \in Nat /\ Len(queue) \in Nat
  BY <1>1, LenProperties
<1> QED BY <1>1, <1>2, <1>3, <1>4 DEF Front

AllFacts ==
    /\ Front \in Nat /\ All \in Seq(Item)
    /\ orphan = <<>> => All = Pending
    /\ batch = <<>> => Pending = queue
LEMMA AllTyped == TypeOK => AllFacts
BY AllIs DEF AllFacts
LEMMA TypeAgain == TypeOK' => AllFacts'
BY AllTyped, PTL

NoneOlder == \A m \in Module : db'[m] >= db[m]
Stored == IInv /\ Turns

\* Nothing is left to be written.
LEMMA Nothing ==
    ASSUME NEW table, NEW k, NEW s, s = <<>>
    PROVE  InTurn(s, k, table) /\ \A m : Scored(s, m) = {}
BY DEF InTurn, Scored

\* A step that moves what is to be written, or makes the next transaction longer.
LEMMA TurnsMoved ==
    ASSUME Stored, TypeOK', All' = All, Front <= Front', UNCHANGED <<cache, db>>, OneWriter',
           phase' = "running" => phase = "running"
    PROVE  Turns' /\ NoneOlder
<1>1. InTurn(All', Front', db')
  BY AllIs, TypeAgain, FrontGrows DEF Stored, IInv, Turns, AllFacts
<1>2. db \in [Module -> Nat]
  BY BoundAssumption DEF Stored, IInv, TypeOK
<1> QED BY <1>1, <1>2 DEF Stored, Turns, Below, NoneOlder

LEMMA TurnsUpdate == ASSUME Stored, TypeOK', NEW m \in Module, UpdateMaturity(m) PROVE Turns' /\ NoneOlder
<1> DEFINE x == Score(m, cache[m] + 1)
<1>1. /\ x \in Item /\ x.kind = "maturity" /\ x.mod = m /\ x.version = cache[m] + 1
      /\ cache[m] \in Nat /\ db \in [Module -> Nat]
  <2>1. cache[m] + 1 \in 1..MaxVersion /\ cache[m] \in Nat /\ db \in [Module -> Nat]
    BY BoundAssumption DEF Stored, IInv, TypeOK, UpdateMaturity
  <2> QED BY <2>1 DEF Item, Score
<1>2. /\ phase = "running" /\ orphan = <<>> /\ orphan' = <<>> /\ UNCHANGED <<batch, size, db, phase>>
      /\ cache' = [cache EXCEPT ![m] = cache[m] + 1] /\ queue' = Append(queue, x)
  BY DEF Stored, IInv, Accepted, UpdateMaturity, disk
<1> HIDE DEF x
<1>3. /\ All \in Seq(Item) /\ All = Pending /\ Pending' = Append(Pending, x)
      /\ queue \in Seq(Item) /\ Len(queue') = Len(queue) + 1
  BY <1>1, <1>2, AllIs, Appended, AppendProperties DEF Stored, IInv
<1>4. All' = Append(All, x)
  BY <1>2, <1>3, TypeAgain DEF AllFacts
<1>5. Front <= Front' /\ Front \in Nat /\ Front' \in Nat
  BY <1>2, <1>3, AllIs, TypeAgain DEF Front, AllFacts, Stored, IInv
<1>6. /\ DOMAIN All = 1..Len(All) /\ Len(All) \in Nat
      /\ DOMAIN All' = 1..Len(All) + 1 /\ All'[Len(All) + 1] = x
      /\ \A i \in 1..Len(All) : All'[i] = All[i]
  BY <1>1, <1>3, <1>4, AppendProperties, LenProperties
<1>7. ASSUME NEW k \in Module
      PROVE  /\ \A i \in Scored(All', k) :
                   \/ i \in Scored(All, k) /\ All'[i] = All[i] /\ i \in 1..Len(All)
                   \/ k = m /\ i = Len(All) + 1 /\ All'[i].version = cache[m] + 1
             /\ \A i \in Scored(All, k) : i \in Scored(All', k) /\ All'[i] = All[i]
             /\ \A i \in Scored(All, k) : i \in 1..Len(All) /\ All[i].version \in Nat
                                          /\ All[i].version <= cache[k]
             /\ cache[k] >= db[k] /\ cache[k] \in Nat /\ db[k] \in Nat
  <2>1. \A i \in Scored(All, k) : i \in 1..Len(All) /\ All[i].version \in Nat
    BY <1>3, ScoredIn
  <2>2. cache[k] \in Nat /\ db[k] \in Nat
    BY <1>1, BoundAssumption DEF Stored, IInv, TypeOK
  <2>3. cache[k] >= db[k] /\ \A i \in Scored(All, k) : All[i].version <= cache[k]
    BY <1>2 DEF Stored, Turns, Below
  <2>4. \A i \in Scored(All, k) : i \in Scored(All', k) /\ All'[i] = All[i]
    BY <1>6 DEF Scored
  <2>5. \A i \in Scored(All', k) :
            \/ i \in Scored(All, k) /\ All'[i] = All[i] /\ i \in 1..Len(All)
            \/ k = m /\ i = Len(All) + 1 /\ All'[i].version = cache[m] + 1
    BY <1>1, <1>6 DEF Scored
  <2> QED BY <2>1, <2>2, <2>3, <2>4, <2>5
<1>8. InTurn(All', Front', db')
  <2> SUFFICES ASSUME NEW k \in Module
               PROVE  /\ \A i, j \in Scored(All', k) : i < j => All'[i].version <= All'[j].version
                      /\ \A i \in Scored(All', k) : All'[i].version < db[k] =>
                           \E j \in Scored(All', k) : j <= Front' /\ All'[j].version >= db[k]
    BY <1>2 DEF InTurn
  <2>1. /\ \A i, j \in Scored(All, k) : i < j => All[i].version <= All[j].version
        /\ \A i \in Scored(All, k) : All[i].version < db[k] =>
             \E j \in Scored(All, k) : j <= Front /\ All[j].version >= db[k]
    BY DEF Stored, Turns, InTurn
  <2>2. ASSUME NEW i \in Scored(All', k), NEW j \in Scored(All', k), i < j
        PROVE  All'[i].version <= All'[j].version
    <3>1. CASE i \in Scored(All, k) /\ j \in Scored(All, k)
      BY <1>7, <2>1, <2>2, <3>1
    <3>2. CASE i \in Scored(All, k) /\ j = Len(All) + 1
      <4>1. k = m /\ All'[j].version = cache[k] + 1
        BY <1>6, <1>7, <3>2
      <4>2. All'[i].version \in Nat /\ All'[i].version <= cache[k] /\ cache[k] \in Nat
        BY <1>7, <3>2
      <4> QED BY <4>1, <4>2
    <3>3. CASE i = Len(All) + 1
      BY <1>6, <1>7, <2>2, <3>3
    <3> QED BY <1>7, <3>1, <3>2, <3>3
  <2>3. ASSUME NEW i \in Scored(All', k), All'[i].version < db[k]
        PROVE  \E j \in Scored(All', k) : j <= Front' /\ All'[j].version >= db[k]
    <3>1. i \in Scored(All, k) /\ All'[i] = All[i]
      BY <1>7, <2>3
    <3>2. PICK j \in Scored(All, k) : j <= Front /\ All[j].version >= db[k]
      BY <2>1, <2>3, <3>1
    <3>3. j \in Scored(All', k) /\ All'[j] = All[j] /\ j <= Front'
      <4>1. j \in 1..Len(All) /\ j \in Scored(All', k) /\ All'[j] = All[j]
        BY <1>7
      <4> QED BY <1>5, <1>6, <3>2, <4>1
    <3> QED BY <3>2, <3>3
  <2> QED BY <2>2, <2>3
<1>9. Below'
  <2> SUFFICES ASSUME NEW k \in Module
               PROVE  cache'[k] >= db[k] /\ \A i \in Scored(All', k) : All'[i].version <= cache'[k]
    BY <1>2 DEF Below
  <2>1. cache'[k] = IF k = m THEN cache[m] + 1 ELSE cache[k]
    BY <1>2 DEF Stored, IInv, TypeOK
  <2> QED BY <1>7, <2>1
<1>10. OneWriter'
  BY <1>2 DEF Stored, Turns, OneWriter
<1> QED BY <1>1, <1>2, <1>8, <1>9, <1>10 DEF Turns, NoneOlder

LEMMA TurnsRecord == ASSUME Stored, TypeOK', NEW p \in Pair, RecordPair(p) PROVE Turns' /\ NoneOlder
<1> DEFINE x == Training(p)
<1>1. x \in Item /\ x.kind = "training"
  BY DEF Item, Training
<1>2. /\ phase = "running" /\ orphan = <<>> /\ orphan' = <<>>
      /\ UNCHANGED <<batch, size, db, phase, cache>> /\ queue' = Append(queue, x)
      /\ db \in [Module -> Nat]
  BY BoundAssumption DEF Stored, IInv, TypeOK, Accepted, RecordPair, disk
<1> HIDE DEF x
<1>3. /\ All \in Seq(Item) /\ All = Pending /\ Pending' = Append(Pending, x)
      /\ queue \in Seq(Item) /\ Len(queue') = Len(queue) + 1
  BY <1>1, <1>2, AllIs, Appended, AppendProperties DEF Stored, IInv
<1>4. All' = Append(All, x)
  BY <1>2, <1>3, TypeAgain DEF AllFacts
<1>5. Front <= Front' /\ Front \in Nat /\ Front' \in Nat
  BY <1>2, <1>3, AllIs, TypeAgain DEF Front, AllFacts, Stored, IInv
<1>6. /\ DOMAIN All = 1..Len(All) /\ Len(All) \in Nat
      /\ DOMAIN All' = 1..Len(All) + 1 /\ All'[Len(All) + 1] = x
      /\ \A i \in 1..Len(All) : All'[i] = All[i]
  BY <1>1, <1>3, <1>4, AppendProperties, LenProperties
<1>7. \A k : Scored(All', k) = Scored(All, k) /\ \A i \in Scored(All, k) : All'[i] = All[i]
  BY <1>1, <1>6 DEF Scored
<1>8. InTurn(All', Front, db')
  BY <1>2, <1>7 DEF Stored, Turns, InTurn
<1>9. InTurn(All', Front', db')
  BY <1>5, <1>8, TypeAgain, FrontGrows DEF AllFacts
<1>10. Below' /\ OneWriter' /\ NoneOlder
  BY <1>2, <1>7 DEF Stored, Turns, Below, OneWriter, NoneOlder
<1> QED BY <1>9, <1>10 DEF Turns

LEMMA TurnsPull == ASSUME Stored, TypeOK', Pull PROVE Turns' /\ NoneOlder
<1>1. /\ queue \in Seq(Item) /\ Len(queue) \in Nat /\ size \in Nat /\ size > 0
      /\ Pending = queue /\ All = queue /\ orphan = <<>> /\ batch = <<>>
      /\ orphan' = <<>> /\ UNCHANGED <<cache, db, size>>
  BY AllIs DEF Stored, IInv, Pull, disk
<1>2. PICK n \in 0..Len(queue) : /\ n = IF Len(queue) < size THEN Len(queue) ELSE size
                                 /\ batch' = SubSeq(queue, 1, n)
                                 /\ queue' = SubSeq(queue, n + 1, Len(queue))
  <2>1. (IF Len(queue) < size THEN Len(queue) ELSE size) \in 0..Len(queue)
    BY <1>1
  <2> QED BY <2>1 DEF Pull
<1>3. SubSeq(queue, 1, n) \o SubSeq(queue, n + 1, Len(queue)) = SubSeq(queue, 1, Len(queue))
  <2>1. 1 \in 1..Len(queue) + 1 /\ n \in 1 - 1..Len(queue) /\ Len(queue) \in n..Len(queue)
    BY <1>1
  <2> QED BY <1>1, <2>1, ConcatAdjacentSubSeq
<1>4. Pending' = Pending
  BY <1>1, <1>2, <1>3, SubSeqFull DEF Pending
<1>5. All' = All
  BY <1>1, <1>4, TypeAgain DEF AllFacts
<1>6. Len(batch') = n /\ (batch' = <<>> <=> n = 0)
  <2>1. Len(SubSeq(queue, 1, n)) = n /\ SubSeq(queue, 1, n) \in Seq(Item)
    BY <1>1, SubSeqProperties
  <2> QED BY <1>2, <2>1, EmptySeq
<1>7. Front = n
  BY <1>1, <1>2 DEF Front
<1>8. Front' >= n
  <2>1. CASE n = 0
    BY <2>1, TypeAgain DEF AllFacts
  <2>2. CASE n # 0
    BY <1>1, <1>6, <2>2 DEF Front
  <2> QED BY <2>1, <2>2
<1>9. OneWriter'
  <2>1. phase' # "down" /\ (phase' = "stopped" => queue = <<>>)
    BY DEF Pull
  <2>2. phase' = "stopped" => n = 0
    BY <1>1, <1>2, <2>1, EmptySeq
  <2> QED BY <1>1, <1>2, <1>6, <2>1, <2>2 DEF OneWriter
<1>10. phase' = "running" => phase = "running"
  BY DEF Pull
<1> QED BY <1>1, <1>2, <1>5, <1>7, <1>8, <1>9, <1>10, TurnsMoved

\* The transaction is over: what follows it is in turn.
LEMMA TurnsEnd ==
    ASSUME Stored, TypeOK', NEW w \in Seq(Item), NEW r \in Seq(Item), All = w \o r, All' = r,
           Front = Len(w), Write(w) \/ db' = db, OneWriter', cache' = cache,
           phase' = "running" => phase = "running" /\ Write(w)
    PROVE  Turns' /\ NoneOlder
<1>1. /\ db \in [Module -> Nat] /\ db' \in [Module -> Nat] /\ TypeOK
  <2>1. TypeOK
    BY DEF Stored, IInv
  <2>2. db \in [Module -> Nat]
    BY <2>1, BoundAssumption DEF TypeOK
  <2>3. db' \in [Module -> Nat]
    BY BoundAssumption DEF TypeOK
  <2> QED BY <2>1, <2>2, <2>3
<1>2. InTurn(w \o r, Len(w), db)
  BY DEF Stored, Turns
<1>3. InTurn(w \o r, Len(w), db') /\ NoneOlder
  BY <1>1, <1>2, WriteIsNewer DEF NoneOlder
<1>4. InTurn(All', Front', db')
  <2>1. Front' \in Nat
    BY TypeAgain DEF AllFacts
  <2> QED BY <1>1, <1>3, <2>1, RestIsNewer
<1>5. Below'
  <2> SUFFICES ASSUME phase' = "running", NEW m \in Module
               PROVE  cache[m] >= db'[m] /\ \A i \in Scored(r, m) : r[i].version <= cache[m]
    BY DEF Below
  <2>1. cache[m] >= db[m] /\ \A i \in Scored(All, m) : All[i].version <= cache[m]
    BY DEF Stored, Turns, Below
  <2>2. /\ \A i \in Scored(w, m) : i \in Scored(All, m) /\ All[i] = w[i]
        /\ \A i \in Scored(r, m) : i + Len(w) \in Scored(All, m) /\ All[i + Len(w)] = r[i]
    BY ScoredConcat
  <2>3. db'[m] = db[m] \/ \E i \in Scored(w, m) : db'[m] = w[i].version
    <3>1. db'[m] = IF Scored(w, m) = {} THEN db[m] ELSE w[Max(Scored(w, m))].version
      BY DEF Write
    <3> QED BY <3>1, LastIsMax
  <2> QED BY <2>1, <2>2, <2>3
<1> QED BY <1>3, <1>4, <1>5 DEF Turns

LEMMA TurnsCommit == ASSUME Stored, TypeOK', Commit PROVE Turns' /\ NoneOlder
<1>1. /\ batch \in Seq(Item) /\ queue \in Seq(Item) /\ batch # <<>> /\ orphan = <<>>
      /\ batch' = <<>> /\ queue' = queue /\ orphan' = <<>> /\ cache' = cache
      /\ phase' = "running" => phase = "running"
      /\ phase \in {"running", "stopping"} /\ phase' \in {"running", "stopping", "stopped"}
  BY DEF Stored, IInv, Turns, OneWriter, TypeOK, Commit, FlushEnds
<1>2. All = batch \o queue /\ All' = queue /\ Front = Len(batch)
  BY <1>1, AllIs, TypeAgain DEF Stored, IInv, AllFacts, Pending, Front
<1>3. OneWriter'
  <2>1. Len(batch') = 0 /\ size' \in Nat
    BY <1>1, EmptySeq, BatchAssumption DEF TypeOK
  <2> QED BY <1>1, <2>1 DEF OneWriter
<1> QED BY <1>1, <1>2, <1>3, TurnsEnd DEF Commit

\* A failed batch is at the front of the queue again, and in the next batch.
LEMMA TurnsRequeued ==
    ASSUME Stored, TypeOK', batch # <<>>, Requeue
    PROVE  /\ All' = All /\ Front = Len(batch) /\ Front <= Front' /\ OneWriter'
           /\ orphan = <<>> /\ All = batch \o queue /\ cache' = cache
           /\ phase' = "running" => phase = "running"
<1>1. /\ batch \in Seq(Item) /\ queue \in Seq(Item) /\ orphan = <<>> /\ Len(batch) <= size
      /\ batch' = <<>> /\ queue' = batch \o queue /\ orphan' = <<>> /\ cache' = cache
      /\ size' = size /\ size \in Nat
      /\ phase' = "running" => phase = "running"
      /\ phase \in {"running", "stopping"} /\ phase' \in {"running", "stopping", "stopped"}
  BY BatchAssumption DEF Stored, IInv, Turns, OneWriter, TypeOK, Requeue, FlushEnds
<1>2. Len(batch) \in Nat /\ Len(queue) \in Nat /\ Len(queue') = Len(batch) + Len(queue)
  BY <1>1, LenProperties, ConcatProperties
<1>3. All' = All /\ All = batch \o queue
  BY <1>1, AllIs, TypeAgain DEF Stored, IInv, AllFacts, Pending
<1>4. Front = Len(batch) /\ Front <= Front'
  BY <1>1, <1>2 DEF Front
<1>5. OneWriter'
  <2>1. Len(batch') = 0
    BY <1>1, EmptySeq
  <2> QED BY <1>1, <2>1 DEF OneWriter
<1> QED BY <1>1, <1>3, <1>4, <1>5

LEMMA TurnsFailed == ASSUME Stored, TypeOK', FailBeforeCommit PROVE Turns' /\ NoneOlder
BY TurnsRequeued, TurnsMoved DEF FailBeforeCommit, disk

LEMMA TurnsTorn == ASSUME Stored, TypeOK', FailAfterCommit PROVE Turns' /\ NoneOlder
<1>1. /\ All' = All /\ Front = Len(batch) /\ Front <= Front' /\ OneWriter'
      /\ All = batch \o queue /\ cache' = cache
      /\ phase' = "running" => phase = "running"
      /\ Write(batch) /\ TypeOK
  BY TurnsRequeued DEF FailAfterCommit, Stored, IInv
<1>2. batch \in Seq(Item) /\ queue \in Seq(Item)
  BY DEF Stored, IInv, TypeOK
<1>3. InTurn(batch \o queue, Len(batch), db') /\ NoneOlder
  <2>1. InTurn(batch \o queue, Len(batch), db)
    BY <1>1 DEF Stored, Turns
  <2> QED BY <1>1, <1>2, <2>1, WriteIsNewer DEF NoneOlder
<1>4. InTurn(All', Front', db')
  <2>1. batch \o queue \in Seq(Item) /\ Len(batch) \in Nat /\ Front' \in Nat
    BY <1>1, AllIs, TypeAgain DEF AllFacts
  <2> QED BY <1>1, <1>3, <2>1, FrontGrows
<1>5. Below'
  <2> SUFFICES ASSUME phase' = "running", NEW m \in Module PROVE cache[m] >= db'[m]
    BY <1>1 DEF Stored, Turns, Below
  <2>1. cache[m] >= db[m] /\ \A i \in Scored(All, m) : All[i].version <= cache[m]
    BY <1>1 DEF Stored, Turns, Below
  <2>2. \A i \in Scored(batch, m) : i \in Scored(All, m) /\ All[i] = batch[i]
    BY <1>1, <1>2, ScoredConcat
  <2>3. db'[m] = IF Scored(batch, m) = {} THEN db[m] ELSE batch[Max(Scored(batch, m))].version
    BY <1>1 DEF Write
  <2> QED BY <1>2, <2>1, <2>2, <2>3, LastIsMax
<1> QED BY <1>1, <1>3, <1>4, <1>5 DEF Turns

LEMMA TurnsStop == ASSUME Stored, TypeOK', Stop PROVE Turns' /\ NoneOlder
<1>1. /\ orphan = <<>> /\ batch \in Seq(Item) /\ queue \in Seq(Item)
      /\ orphan' = batch /\ batch' = <<>> /\ queue' = queue /\ phase' = "stopping"
      /\ UNCHANGED <<cache, size, db>> /\ size \in Nat
  BY BatchAssumption DEF Stored, IInv, TypeOK, Accepted, Stop, disk
<1>2. Pending' = queue /\ All' = batch \o queue /\ All = batch \o queue
  BY <1>1, AllIs, TypeAgain DEF Stored, IInv, AllFacts, Pending, All
<1>3. Front' = Front
  BY <1>1 DEF Front
<1>4. OneWriter'
  BY <1>1, EmptySeq DEF OneWriter
<1> QED BY <1>1, <1>2, <1>3, <1>4, AllIs, TurnsMoved DEF Stored, IInv

\* The thread of the cancelled flush ends, and nothing else was to be written meanwhile.
LEMMA TurnsOrphan == ASSUME Stored, TypeOK', OrphanEnds PROVE Turns' /\ NoneOlder
<1>1. /\ orphan # <<>> /\ orphan' = <<>> /\ orphan \in Seq(Item) /\ Pending \in Seq(Item)
      /\ Pending' = Pending /\ UNCHANGED <<cache, batch, phase, size>>
      /\ phase # "running" /\ (Write(orphan) \/ db' = db)
  BY AllIs DEF OrphanEnds, Stored, IInv, Accepted, Pending, disk
<1>2. All = orphan \o Pending /\ All' = Pending /\ Front = Len(orphan)
  BY <1>1, TypeAgain DEF All, AllFacts, Front
<1>3. OneWriter'
  BY <1>1 DEF Stored, Turns, OneWriter
<1> QED BY <1>1, <1>2, <1>3, TurnsEnd

\* Exit, crash and start leave nothing to be written.
LEMMA TurnsEmptied ==
    ASSUME Stored, TypeOK', Exit \/ Crash \/ Start
    PROVE  Turns' /\ NoneOlder
<1>1. /\ db' = db /\ queue' = <<>> /\ batch' = <<>> /\ orphan' = <<>>
      /\ phase' = "running" => cache' = db
      /\ db \in [Module -> Nat] /\ size' \in Nat
  BY BoundAssumption, BatchAssumption
     DEF Exit, Crash, Start, disk, Stored, IInv, TypeOK, Turns, OneWriter
<1>2. All' = <<>>
  BY <1>1, TypeAgain DEF AllFacts
<1>3. InTurn(All', Front', db') /\ \A m : Scored(All', m) = {}
  BY <1>2, Nothing
<1>4. OneWriter'
  BY <1>1, EmptySeq DEF OneWriter
<1> QED BY <1>1, <1>3, <1>4 DEF Turns, Below, NoneOlder

LEMMA TurnsInitially == Init => Turns
<1> SUFFICES ASSUME Init PROVE Turns
  OBVIOUS
<1>1. All = <<>> /\ IInv
  BY Initially, AllIs DEF Init, IInv
<1>2. InTurn(All, Front, db) /\ \A m : Scored(All, m) = {}
  BY <1>1, Nothing
<1> QED BY <1>2, EmptySeq, BatchAssumption DEF Init, Turns, Below, OneWriter

LEMMA TurnsInductive == Stored /\ [Next]_vars => Stored' /\ [NoneOlder]_vars
<1> SUFFICES ASSUME Stored, [Next]_vars PROVE Turns' /\ [NoneOlder]_vars
  BY Inductive DEF Stored
<1>1. TypeOK'
  BY Typing DEF Stored, IInv
<1>2. CASE Next
  BY <1>1, <1>2, TurnsUpdate, TurnsRecord, TurnsPull, TurnsCommit, TurnsFailed, TurnsTorn,
     TurnsStop, TurnsOrphan, TurnsEmptied DEF Next, Produce, Flush
<1>3. CASE UNCHANGED vars
  <2>1. All' = All /\ Front' = Front /\ UNCHANGED <<cache, db, phase, batch, orphan, size>>
    BY <1>3 DEF vars, memory, disk, All, Pending, Front
  <2> QED BY <1>3, <2>1 DEF Stored, Turns, Below, OneWriter
<1> QED BY <1>2, <1>3

\* A maturity score in the table is never overwritten by an older one: through requeued
\* batches, changes of the batch size and the thread of a cancelled flush.
THEOREM NoneGoesBack == Spec => NeverOlder
<1>1. [NoneOlder]_vars => [\A m \in Module : db'[m] >= db[m]]_vars
  BY DEF NoneOlder
<1> QED BY <1>1, Initially, TurnsInitially, TurnsInductive, PTL DEF Spec, Stored, NeverOlder

-----------------------------------------------------------------------------
(***************************************************************************)
(* The way back from an update, for any number of installs, commits and    *)
(* restarts, with commands that fail or time out anywhere.                 *)
(***************************************************************************)

(* The inductive invariant. *)
UpdatesSteps == {"new", "asked", "pointed", "fetched", "updated", "ended"}
UpdatesCommits == Nat \ {Updates!None}
UpdatesTyped ==
    /\ newest \in UpdatesCommits /\ head \in UpdatesCommits
    /\ step \in [Installation -> UpdatesSteps]
    /\ version \in [Installation -> Nat]
    /\ \A i \in Updates!UnderWay : version[i] \in UpdatesCommits
    /\ point \in Nat
    /\ undo \in {"idle", "checkout", "installing"}
    /\ undo = "checkout" => target \in UpdatesCommits

\* Until the owner of the point has updated, the point is where it started from; ...
UpdatesPointIsHead ==
    owner \in Installation /\ owner # Updates!Nobody /\ step[owner] \in {"pointed",
          "fetched"}
        => point = head
\* ... whoever else is under way has written no point since; ...
UpdatesOthersAsked ==
    owner # Updates!Nobody => \A j \in Updates!UnderWay : j # owner => step[j] = "asked"
\* ... and a rollback that has left its commit leaves no owner.
UpdatesOwnerKnown ==
    owner # Updates!Nobody =>
        owner \in Installation /\ step[owner] \notin {"new", "asked"} /\ undo # "installing"
UpdatesIInv == UpdatesTyped /\ UpdatesPointIsHead /\ UpdatesOthersAsked /\ UpdatesOwnerKnown
      /\ Updates!UndoIsKept

\* Only the install that moves enters or leaves the set of those under way.
LEMMA UpdatesMoves ==
    ASSUME UpdatesTyped, NEW i \in Installation, NEW s \in UpdatesSteps, Updates!To(i, s)
    PROVE  /\ step' \in [Installation -> UpdatesSteps] /\ step'[i] = s
           /\ \A j \in Installation : j # i => step'[j] = step[j]
           /\ Updates!UnderWay' \subseteq Updates!UnderWay \union {i}
           /\ i \in Updates!UnderWay' <=> s \in {"asked", "pointed", "fetched"}
BY DEF UpdatesTyped, Updates!To, Updates!UnderWay

\* Without an owner nothing but the types is claimed.
LEMMA UpdatesNoOwner ==
    ASSUME UpdatesTyped', owner' = Updates!Nobody
    PROVE  UpdatesIInv'
BY DEF UpdatesIInv, UpdatesPointIsHead, UpdatesOthersAsked, UpdatesOwnerKnown,
   Updates!UndoIsKept

LEMMA UpdatesInitially == Updates!Init => UpdatesIInv
<1> SUFFICES ASSUME Updates!Init PROVE UpdatesIInv
  OBVIOUS
<1>1. UpdatesTyped
  BY DEF Updates!Init, UpdatesTyped, UpdatesCommits, UpdatesSteps, Updates!UnderWay,
     Updates!None
<1> QED BY <1>1 DEF Updates!Init, UpdatesIInv, UpdatesPointIsHead, UpdatesOthersAsked,
           UpdatesOwnerKnown, Updates!UndoIsKept

LEMMA UpdatesPublishKeeps == ASSUME UpdatesIInv, Updates!Publish PROVE UpdatesIInv'
<1>1. newest' \in UpdatesCommits
  BY DEF Updates!Publish, UpdatesIInv, UpdatesTyped, UpdatesCommits, Updates!None
<1> QED BY <1>1 DEF Updates!Publish, UpdatesIInv, UpdatesTyped, Updates!UnderWay,
           UpdatesPointIsHead, UpdatesOthersAsked, UpdatesOwnerKnown,
                    Updates!UndoIsKept

LEMMA UpdatesAskKeeps == ASSUME UpdatesIInv, NEW i \in Installation, Updates!Ask(i)
      PROVE UpdatesIInv'
<1>1. /\ undo = "idle" /\ step[i] = "new" /\ Updates!To(i, "asked")
      /\ version' = [version EXCEPT ![i] = newest]
      /\ UNCHANGED <<newest, head, point, undo, target, before, owner>>
  BY DEF Updates!Ask, Updates!commits
<1>2. /\ step' \in [Installation -> UpdatesSteps] /\ step'[i] = "asked"
      /\ \A j \in Installation : j # i => step'[j] = step[j]
      /\ Updates!UnderWay' \subseteq Updates!UnderWay \union {i}
  BY <1>1, UpdatesMoves DEF UpdatesIInv, UpdatesSteps
<1>3. UpdatesTyped'
  BY <1>1, <1>2 DEF UpdatesIInv, UpdatesTyped, UpdatesCommits, Updates!UnderWay
<1>4. CASE owner = Updates!Nobody
  BY <1>1, <1>3, <1>4, UpdatesNoOwner
<1>5. CASE owner # Updates!Nobody
  <2>1. owner \in Installation /\ owner # i
    BY <1>1, <1>5 DEF UpdatesIInv, UpdatesOwnerKnown
  <2>2. step'[owner] = step[owner]
    BY <1>2, <2>1
  <2> QED BY <1>1, <1>2, <1>3, <1>5, <2>1, <2>2
          DEF UpdatesIInv, UpdatesPointIsHead, UpdatesOthersAsked, UpdatesOwnerKnown,
              Updates!UndoIsKept, Updates!UnderWay
<1> QED BY <1>4, <1>5

LEMMA UpdatesSavePointKeeps == ASSUME UpdatesIInv, NEW i \in Installation,
      Updates!SavePoint(i) PROVE UpdatesIInv'
<1>1. /\ step[i] = "asked" /\ Updates!To(i, "pointed")
      /\ UNCHANGED <<newest, head, version, undo, target, before>>
      /\ point' = head \/ point' = point
  BY DEF Updates!SavePoint, Updates!commits
<1>2. /\ step' \in [Installation -> UpdatesSteps] /\ step'[i] = "pointed"
      /\ \A j \in Installation : j # i => step'[j] = step[j]
      /\ Updates!UnderWay' \subseteq Updates!UnderWay \union {i} /\ i \in Updates!UnderWay
  BY <1>1, UpdatesMoves DEF UpdatesIInv, UpdatesSteps, Updates!UnderWay
<1>3. UpdatesTyped'
  BY <1>1, <1>2 DEF UpdatesIInv, UpdatesTyped, UpdatesCommits
<1>4. CASE owner' = Updates!Nobody
  BY <1>3, <1>4, UpdatesNoOwner
<1>5. CASE owner' # Updates!Nobody
  <2>1. owner' = i /\ point' = head /\ Updates!Alone(i)
    BY <1>5 DEF Updates!SavePoint
  <2>2. undo' = "idle" /\ Updates!UnderWay' \subseteq {i}
    BY <1>1, <1>2, <2>1 DEF Updates!Alone
  <2> QED BY <1>1, <1>2, <1>3, <2>1, <2>2
          DEF UpdatesIInv, UpdatesPointIsHead, UpdatesOthersAsked, UpdatesOwnerKnown,
              Updates!UndoIsKept
<1> QED BY <1>4, <1>5

LEMMA UpdatesFetchKeeps == ASSUME UpdatesIInv, NEW i \in Installation,
      Updates!FetchOrigin(i) PROVE UpdatesIInv'
<1>1. PICK s \in {"fetched", "ended"} : Updates!To(i, s)
  BY DEF Updates!FetchOrigin
<1>2. /\ step[i] = "pointed"
      /\ UNCHANGED <<newest, head, point, version, undo, target, before, owner>>
  BY DEF Updates!FetchOrigin, Updates!commits
<1>3. /\ step' \in [Installation -> UpdatesSteps] /\ step'[i] = s
      /\ \A j \in Installation : j # i => step'[j] = step[j]
      /\ Updates!UnderWay' \subseteq Updates!UnderWay
  BY <1>1, <1>2, UpdatesMoves DEF UpdatesIInv, UpdatesSteps, Updates!UnderWay
<1>4. UpdatesTyped'
  BY <1>2, <1>3 DEF UpdatesIInv, UpdatesTyped
<1>5. CASE owner = Updates!Nobody
  BY <1>2, <1>4, <1>5, UpdatesNoOwner
<1>6. CASE owner # Updates!Nobody
  \* Another install that fetches has written the point: it would be the owner.
  <2>1. owner = i
    BY <1>2, <1>6 DEF UpdatesIInv, UpdatesOthersAsked, Updates!UnderWay
  <2> QED BY <1>1, <1>2, <1>3, <1>4, <2>1
          DEF UpdatesIInv, UpdatesPointIsHead, UpdatesOthersAsked, UpdatesOwnerKnown,
              Updates!UndoIsKept, Updates!UnderWay
<1> QED BY <1>5, <1>6

LEMMA UpdatesSwitchKeeps == ASSUME UpdatesIInv, NEW i \in Installation, Updates!Switch(i)
      PROVE UpdatesIInv'
<1>1. /\ step[i] = "fetched"
      /\ UNCHANGED <<newest, point, version, undo, target, owner>>
  BY DEF Updates!Switch, Updates!commits
<1>2. PICK s \in {"updated", "ended"} :
        /\ Updates!To(i, s)
        /\ \/ s = "updated" /\ head' \in {version[i], newest} /\ before' = head
           \/ s = "ended" /\ UNCHANGED <<head, before>>
  BY DEF Updates!Switch
<1>3. /\ step' \in [Installation -> UpdatesSteps] /\ step'[i] = s
      /\ \A j \in Installation : j # i => step'[j] = step[j]
      /\ Updates!UnderWay' \subseteq Updates!UnderWay /\ i \in Updates!UnderWay
  BY <1>1, <1>2, UpdatesMoves DEF UpdatesIInv, UpdatesSteps, Updates!UnderWay
<1>4. UpdatesTyped'
  BY <1>1, <1>2, <1>3 DEF UpdatesIInv, UpdatesTyped
<1>5. CASE owner = Updates!Nobody
  BY <1>1, <1>4, <1>5, UpdatesNoOwner
<1>6. CASE owner # Updates!Nobody
  <2>1. owner = i
    BY <1>1, <1>3, <1>6 DEF UpdatesIInv, UpdatesOthersAsked
  <2>2. point = head /\ head # Updates!None
    BY <1>1, <1>6, <2>1 DEF UpdatesIInv, UpdatesPointIsHead, UpdatesTyped, UpdatesCommits
  <2>3. s = "updated" => before' # Updates!None /\ point' = before'
    BY <1>1, <1>2, <2>2
  <2> QED BY <1>1, <1>2, <1>3, <1>4, <2>1, <2>3
          DEF UpdatesIInv, UpdatesPointIsHead, UpdatesOthersAsked, UpdatesOwnerKnown,
              Updates!UndoIsKept, Updates!UnderWay
<1> QED BY <1>5, <1>6

\* The steps of a rollback; the one that moves HEAD leaves no owner.
LEMMA UpdatesRollbackKeeps ==
    ASSUME UpdatesIInv, Updates!Rollback \/ Updates!CheckedOut \/ Updates!CheckoutFails
          \/ Updates!RolledBack
    PROVE  UpdatesIInv'
<1>1. UNCHANGED <<newest, step, version>>
  BY DEF Updates!Rollback, Updates!CheckedOut, Updates!CheckoutFails, Updates!RolledBack,
     Updates!commits
<1>2. CASE Updates!Rollback
  <2>1. /\ target' = point /\ point # Updates!None /\ undo' = "checkout"
        /\ UNCHANGED <<head, point, before>> /\ owner' \in {owner, Updates!Nobody}
    BY <1>2 DEF Updates!Rollback
  <2>2. UpdatesTyped'
    BY <1>1, <2>1 DEF UpdatesIInv, UpdatesTyped, UpdatesCommits, Updates!UnderWay
  <2>3. CASE owner' = Updates!Nobody
    BY <2>2, <2>3, UpdatesNoOwner
  <2>4. CASE owner' = owner
    BY <1>1, <2>1, <2>2, <2>4
       DEF UpdatesIInv, UpdatesPointIsHead, UpdatesOthersAsked, UpdatesOwnerKnown,
           Updates!UndoIsKept, Updates!UnderWay
  <2> QED BY <2>1, <2>3, <2>4
<1>3. CASE Updates!CheckedOut
  <2>1. /\ head' \in UpdatesCommits /\ point' = point /\ undo' = "installing"
        /\ owner' = Updates!Nobody
    BY <1>3 DEF Updates!CheckedOut, UpdatesIInv, UpdatesTyped
  <2>2. UpdatesTyped'
    BY <1>1, <2>1 DEF UpdatesIInv, UpdatesTyped, Updates!UnderWay
  <2> QED BY <2>1, <2>2, UpdatesNoOwner
<1>4. CASE Updates!CheckoutFails
  <2>1. undo' = "idle" /\ UNCHANGED <<head, point, target, before, owner>>
    BY <1>4 DEF Updates!CheckoutFails
  <2> QED BY <1>1, <2>1 DEF UpdatesIInv, UpdatesTyped, UpdatesPointIsHead,
             UpdatesOthersAsked, UpdatesOwnerKnown, Updates!UndoIsKept,
                            Updates!UnderWay
<1>5. CASE Updates!RolledBack
  <2>1. /\ undo = "installing" /\ undo' = "idle" /\ point' \in {Updates!None, point}
        /\ UNCHANGED <<head, owner>>
    BY <1>5 DEF Updates!RolledBack
  <2>2. owner' = Updates!Nobody
    BY <2>1 DEF UpdatesIInv, UpdatesOwnerKnown
  <2>3. UpdatesTyped'
    BY <1>1, <2>1 DEF UpdatesIInv, UpdatesTyped, Updates!UnderWay, Updates!None
  <2> QED BY <2>2, <2>3, UpdatesNoOwner
<1> QED BY <1>2, <1>3, <1>4, <1>5

\* A new process has no threads; the file may be empty, and then has no owner.
LEMMA UpdatesRestartKeeps == ASSUME UpdatesIInv, Updates!Restart PROVE UpdatesIInv'
<1>1. /\ step' = [i \in Installation |-> IF i \in Updates!UnderWay THEN "ended" ELSE step[i]]
      /\ undo' = "idle" /\ UNCHANGED <<newest, head, version, before>>
      /\ \/ UNCHANGED <<point, owner>>
         \/ point' = Updates!None /\ owner' = Updates!Nobody
  BY DEF Updates!Restart
<1>2. step' \in [Installation -> UpdatesSteps] /\ Updates!UnderWay' = {}
  BY <1>1 DEF UpdatesIInv, UpdatesTyped, UpdatesSteps, Updates!UnderWay
<1>3. UpdatesTyped'
  BY <1>1, <1>2 DEF UpdatesIInv, UpdatesTyped, Updates!None
<1>4. CASE owner' = Updates!Nobody
  BY <1>3, <1>4, UpdatesNoOwner
<1>5. CASE owner' # Updates!Nobody
  <2>1. owner \in Installation /\ UNCHANGED <<point, owner>>
    BY <1>1, <1>5 DEF UpdatesIInv, UpdatesOwnerKnown
  <2>2. step'[owner] = "updated" => step[owner] = "updated"
    BY <1>1, <2>1 DEF UpdatesIInv, UpdatesTyped
  <2>3. step'[owner] \notin {"new", "asked", "pointed", "fetched"}
    BY <1>1, <1>5, <2>1 DEF UpdatesIInv, UpdatesOwnerKnown, Updates!UnderWay
  <2> QED BY <1>1, <1>2, <1>3, <1>5, <2>1, <2>2, <2>3
          DEF UpdatesIInv, UpdatesPointIsHead, UpdatesOthersAsked, UpdatesOwnerKnown,
              Updates!UndoIsKept
<1> QED BY <1>4, <1>5

LEMMA UpdatesInductive == UpdatesIInv /\ [Updates!Next]_(Updates!vars) => UpdatesIInv'
<1> SUFFICES ASSUME UpdatesIInv, [Updates!Next]_(Updates!vars) PROVE UpdatesIInv'
  OBVIOUS
<1>1. CASE UNCHANGED Updates!vars
  BY <1>1 DEF Updates!vars, UpdatesIInv, UpdatesTyped, UpdatesPointIsHead,
     UpdatesOthersAsked, UpdatesOwnerKnown, Updates!UndoIsKept, Updates!UnderWay
<1> QED BY <1>1, UpdatesPublishKeeps, UpdatesAskKeeps, UpdatesSavePointKeeps,
           UpdatesFetchKeeps, UpdatesSwitchKeeps,
           UpdatesRollbackKeeps, UpdatesRestartKeeps DEF Updates!Next

\* After an update the way back is kept, through failed rollbacks and restarts, until it
\* is taken or another install is started (updater.py:181-220, 254-284).
THEOREM UpdatesUndoKept == Updates!Spec => []Updates!UndoIsKept
<1>1. UpdatesIInv => Updates!UndoIsKept
  BY DEF UpdatesIInv
<1> QED BY UpdatesInitially, UpdatesInductive, <1>1, PTL DEF Updates!Spec

-----------------------------------------------------------------------------
(* The scheduler *)

(* The inductive invariant. *)
JobsCalls == {"none", "gathering", "cancelling", "over"}
JobsPlaces == {"none", "begin", "waiting", "backoff", "ticking", "working", "leaving", "ended"}
JobsTyped ==
    /\ running \in BOOLEAN /\ asked \in BOOLEAN
    /\ call \in [Jobs!Start -> JobsCalls] /\ loop \in [Jobs!Start -> [Job -> JobsPlaces]]
    /\ status \in [Job -> {"idle", "running", "degraded", "abandoned", "stopped"}]
\* Whatever lives is the last start()'s, and that one is not over.
JobsLiveAreTasks == \A s \in Jobs!Start, j \in Job : loop[s][j] \notin Jobs!Over =>
                    tasks = s /\ call[s] \in {"gathering", "cancelling"}
\* While a start() owns the tasks, only stop() has cleared _running.
JobsRunsUnlessAsked == tasks # 0 /\ ~running => asked
\* The supervisor of a job given up goes nowhere but to its end.
JobsGivenUpLeaves == \A s \in Jobs!Start, j \in Job :
                     status[j] = "abandoned" => loop[s][j] \in Jobs!Over \union {"leaving"}
JobsIInv == JobsTyped /\ JobsLiveAreTasks /\ JobsRunsUnlessAsked /\ JobsGivenUpLeaves

LEMMA JobsInitially == Jobs!Init => JobsIInv
<1> SUFFICES ASSUME Jobs!Init PROVE JobsIInv
  OBVIOUS
<1>1. /\ call \in [Jobs!Start -> JobsCalls] /\ loop \in [Jobs!Start -> [Job -> JobsPlaces]]
      /\ \A s \in Jobs!Start, j \in Job : loop[s][j] = "none"
      /\ status \in [Job -> {"idle", "running", "degraded", "abandoned", "stopped"}]
  BY DEF Jobs!Init, JobsCalls, JobsPlaces
<1>2. running = FALSE /\ asked = FALSE /\ tasks = 0
  BY DEF Jobs!Init
<1> QED BY <1>1, <1>2 DEF JobsIInv, JobsTyped, JobsLiveAreTasks, JobsRunsUnlessAsked,
                          JobsGivenUpLeaves, Jobs!Over

\* A step of one supervisor that lives: its place and its job's status may change.
LEMMA JobsSupervisorMoves ==
    ASSUME JobsIInv, NEW s \in Jobs!Start, NEW j \in Job, NEW pc \in JobsPlaces,
           Jobs!To(s, j, pc),
           loop[s][j] \notin Jobs!Over, UNCHANGED Jobs!ours,
           status' \in [Job -> {"idle", "running", "degraded", "abandoned", "stopped"}],
           \A k \in Job : k # j => status'[k] = status[k],
           status'[j] = "abandoned" => pc \in Jobs!Over \union {"leaving"}
    PROVE  JobsIInv'
<1>1. /\ loop' \in [Jobs!Start -> [Job -> JobsPlaces]] /\ loop'[s][j] = pc
      /\ \A r \in Jobs!Start, k \in Job : r # s \/ k # j => loop'[r][k] = loop[r][k]
  BY DEF Jobs!To, JobsIInv, JobsTyped
<1>2. UNCHANGED <<running, tasks, call, asked>>
  BY DEF Jobs!ours
<1>3. JobsTyped' /\ JobsRunsUnlessAsked'
  BY <1>1, <1>2 DEF JobsIInv, JobsTyped, JobsRunsUnlessAsked
<1>4. JobsLiveAreTasks'
  BY <1>1, <1>2 DEF JobsIInv, JobsLiveAreTasks
<1>5. ASSUME NEW r \in Jobs!Start, NEW k \in Job, status'[k] = "abandoned"
      PROVE  loop'[r][k] \in Jobs!Over \union {"leaving"}
  <2>1. CASE k # j
    BY <1>1, <1>5, <2>1 DEF JobsIInv, JobsGivenUpLeaves
  <2>2. CASE k = j /\ r = s
    BY <1>1, <1>5, <2>2
  \* The supervisors of other calls are over.
  <2>3. CASE k = j /\ r # s
    BY <1>1, <2>3 DEF JobsIInv, JobsLiveAreTasks
  <2> QED BY <2>1, <2>2, <2>3
<1> QED BY <1>3, <1>4, <1>5 DEF JobsIInv, JobsGivenUpLeaves

\* The step keeps what was reported of a job given up.
JobsReported == \A j \in Job : status[j] = "abandoned" => status'[j] = "abandoned"

LEMMA JobsLoopKeeps ==
    ASSUME JobsIInv, NEW s \in Jobs!Start, NEW j \in Job,
           Jobs!Loop(s, j) \/ Jobs!Skip(s, j) \/ Jobs!Crash(s, j)
    PROVE  JobsIInv' /\ JobsReported
<1> USE DEF JobsIInv, JobsTyped
<1>0. /\ loop[s][j] \in JobsPlaces
      /\ status[j] = "abandoned" => loop[s][j] \in Jobs!Over \union {"leaving"}
  BY DEF JobsGivenUpLeaves
<1>1. ASSUME loop[s][j] \notin Jobs!Over, Jobs!End(s, j), UNCHANGED Jobs!ours
      PROVE  JobsIInv' /\ JobsReported
  <2>1. /\ Jobs!To(s, j, "ended") /\ "ended" \in JobsPlaces
        /\ status' \in [Job -> {"idle", "running", "degraded", "abandoned", "stopped"}]
        /\ \A k \in Job : k # j => status'[k] = status[k]
        /\ JobsReported
    BY <1>1 DEF Jobs!End, Jobs!Set, JobsPlaces, JobsReported
  <2> QED BY <1>1, <2>1, JobsSupervisorMoves DEF Jobs!Over
<1>2. ASSUME NEW pc \in JobsPlaces \ (Jobs!Over \union {"leaving"}), Jobs!To(s, j, pc),
             loop[s][j] \notin Jobs!Over \union {"leaving"}, UNCHANGED Jobs!ours,
             \/ UNCHANGED status
             \/ \E st \in {"idle", "running", "degraded"} : Jobs!Set(j, st)
      PROVE  JobsIInv' /\ JobsReported
  <2>1. status[j] # "abandoned"
    BY <1>0, <1>2
  <2>2. /\ status' \in [Job -> {"idle", "running", "degraded", "abandoned", "stopped"}]
        /\ \A k \in Job : k # j => status'[k] = status[k]
        /\ status'[j] # "abandoned"
    BY <1>2, <2>1 DEF Jobs!Set
  <2>3. JobsReported
    BY <2>1, <2>2 DEF JobsReported
  <2> QED BY <1>2, <2>2, <2>3, JobsSupervisorMoves
<1>3. CASE Jobs!Unwind(s, j)
  BY <1>1, <1>3 DEF Jobs!Unwind, Jobs!Live
<1>4. CASE Jobs!Enter(s, j)
  <2>1. loop[s][j] = "begin" /\ UNCHANGED Jobs!ours
    BY <1>4 DEF Jobs!Enter
  <2>2. CASE ~running
    BY <1>1, <1>4, <2>1, <2>2 DEF Jobs!Enter, Jobs!Over
  <2>3. CASE running
    <3>1. /\ \E pc \in {"ticking", "waiting"} : Jobs!To(s, j, pc)
          /\ UNCHANGED status \/ Jobs!Set(j, "degraded")
      BY <1>4, <2>3 DEF Jobs!Enter
    <3> QED BY <1>2, <2>1, <3>1 DEF JobsPlaces, Jobs!Over
  <2> QED BY <2>2, <2>3
<1>5. CASE Jobs!LeaveLoop(s, j)
  BY <1>1, <1>5 DEF Jobs!LeaveLoop, Jobs!Over
<1>6. CASE Jobs!WaitOver(s, j)
  BY <1>2, <1>6 DEF Jobs!WaitOver, JobsPlaces, Jobs!Over
<1>7. CASE Jobs!Work(s, j)
  <2>1. loop[s][j] = "ticking" /\ UNCHANGED Jobs!ours
    BY <1>7 DEF Jobs!Work
  <2>2. CASE running
    BY <1>2, <1>7, <2>1, <2>2 DEF Jobs!Work, JobsPlaces, Jobs!Over
  <2>3. CASE ~running
    BY <1>1, <1>7, <2>1, <2>3 DEF Jobs!Work, Jobs!Over
  <2> QED BY <2>2, <2>3
<1>8. CASE Jobs!WorkEnds(s, j)
  <2>1. loop[s][j] = "working" /\ UNCHANGED Jobs!ours
    BY <1>8 DEF Jobs!WorkEnds
  <2>2. PICK st \in {"idle", "degraded"} : Jobs!Set(j, st)
    BY <1>8 DEF Jobs!WorkEnds
  <2>3. CASE running
    BY <1>2, <1>8, <2>1, <2>2, <2>3 DEF Jobs!WorkEnds, JobsPlaces, Jobs!Over
  <2>4. CASE ~running
    <3>1. Jobs!To(s, j, "leaving") /\ "leaving" \in JobsPlaces
      BY <1>8, <2>4 DEF Jobs!WorkEnds, JobsPlaces
    <3>2. /\ status' \in [Job -> {"idle", "running", "degraded", "abandoned", "stopped"}]
          /\ \A k \in Job : k # j => status'[k] = status[k]
          /\ status[j] # "abandoned"
      BY <1>0, <2>1, <2>2 DEF Jobs!Set, Jobs!Over
    <3>3. JobsReported
      BY <3>2 DEF JobsReported
    <3> QED BY <2>1, <3>1, <3>2, <3>3, JobsSupervisorMoves DEF Jobs!Over
  <2> QED BY <2>3, <2>4
<1>9. CASE Jobs!Leave(s, j)
  BY <1>1, <1>9 DEF Jobs!Leave, Jobs!Over
<1>10. CASE Jobs!Skip(s, j)
  BY <1>2, <1>10 DEF Jobs!Skip, JobsPlaces, Jobs!Over
<1>11. CASE Jobs!Crash(s, j)
  <2>1. loop[s][j] = "waiting" /\ UNCHANGED Jobs!ours
    BY <1>11 DEF Jobs!Crash
  <2>2. \/ Jobs!To(s, j, "leaving") /\ Jobs!Set(j, "abandoned")
        \/ Jobs!To(s, j, "backoff") /\ UNCHANGED status
    BY <1>11 DEF Jobs!Crash
  <2>3. CASE Jobs!To(s, j, "leaving") /\ Jobs!Set(j, "abandoned")
    <3>1. /\ status' \in [Job -> {"idle", "running", "degraded", "abandoned", "stopped"}]
          /\ \A k \in Job : k # j => status'[k] = status[k]
          /\ status'[j] = "abandoned"
      BY <2>3 DEF Jobs!Set
    <3>2. JobsReported
      BY <3>1 DEF JobsReported
    <3> QED BY <2>1, <2>3, <3>1, <3>2, JobsSupervisorMoves DEF Jobs!Over, JobsPlaces
  <2>4. CASE Jobs!To(s, j, "backoff") /\ UNCHANGED status
    BY <1>2, <2>1, <2>4 DEF JobsPlaces, Jobs!Over
  <2> QED BY <2>2, <2>3, <2>4
<1> QED BY <1>3, <1>4, <1>5, <1>6, <1>7, <1>8, <1>9, <1>10, <1>11 DEF Jobs!Loop

\* A new start() finds nothing alive, and starts every job afresh.
LEMMA JobsStartKeeps ==
    ASSUME JobsIInv, NEW s \in Jobs!Start, Jobs!StartCall(s)
    PROVE  JobsIInv'
<1>1. \A r \in Jobs!Start, j \in Job : loop[r][j] \in Jobs!Over
  BY DEF Jobs!StartCall, Jobs!Live, JobsIInv, JobsLiveAreTasks, Jobs!Start
<1>2. /\ running' = TRUE /\ asked' = FALSE /\ tasks' = s
      /\ call' = [call EXCEPT ![s] = "gathering"]
      /\ loop' = [loop EXCEPT ![s] = [j \in Job |-> "begin"]]
      /\ status' = [j \in Job |-> "idle"]
  BY DEF Jobs!StartCall, Jobs!Begin
<1>3. /\ loop' \in [Jobs!Start -> [Job -> JobsPlaces]]
      /\ \A j \in Job : loop'[s][j] = "begin"
      /\ \A r \in Jobs!Start : r # s => loop'[r] = loop[r]
      /\ call' \in [Jobs!Start -> JobsCalls] /\ call'[s] = "gathering"
  BY <1>2 DEF JobsIInv, JobsTyped, JobsCalls, JobsPlaces
<1>4. JobsTyped'
  BY <1>2, <1>3 DEF JobsIInv, JobsTyped
<1>5. JobsLiveAreTasks'
  BY <1>1, <1>2, <1>3 DEF JobsLiveAreTasks
<1>6. JobsRunsUnlessAsked' /\ JobsGivenUpLeaves'
  BY <1>2 DEF JobsRunsUnlessAsked, JobsGivenUpLeaves
<1> QED BY <1>4, <1>5, <1>6 DEF JobsIInv

LEMMA JobsReturnsKeeps ==
    ASSUME JobsIInv, NEW s \in Jobs!Start, Jobs!StartReturns(s)
    PROVE  JobsIInv'
<1>1. /\ \A j \in Job : loop[s][j] \in Jobs!Over
      /\ call' = [call EXCEPT ![s] = "over"]
      /\ UNCHANGED <<stop, loop, status, asked>>
      /\ \/ tasks = s /\ tasks' = 0 /\ running' = FALSE
         \/ UNCHANGED <<tasks, running>>
  BY DEF Jobs!StartReturns, Jobs!Live, Jobs!CleanUp
<1>2. /\ call' \in [Jobs!Start -> JobsCalls]
      /\ \A r \in Jobs!Start : r # s => call'[r] = call[r]
  BY <1>1 DEF JobsIInv, JobsTyped, JobsCalls
<1>3. ASSUME NEW r \in Jobs!Start, NEW j \in Job, loop'[r][j] \notin Jobs!Over
      PROVE  tasks' = r /\ call'[r] \in {"gathering", "cancelling"}
  <2>1. r # s /\ tasks = r /\ call[r] \in {"gathering", "cancelling"}
    BY <1>1, <1>3 DEF JobsIInv, JobsLiveAreTasks
  <2> QED BY <1>1, <1>2, <2>1
<1>4. JobsTyped'
  BY <1>1, <1>2 DEF JobsIInv, JobsTyped
<1>5. JobsRunsUnlessAsked' /\ JobsGivenUpLeaves'
  BY <1>1 DEF JobsIInv, JobsRunsUnlessAsked, JobsGivenUpLeaves
<1> QED BY <1>3, <1>4, <1>5 DEF JobsIInv, JobsLiveAreTasks

LEMMA JobsCancelKeeps ==
    ASSUME JobsIInv, NEW s \in Jobs!Start, Jobs!CancelStart(s)
    PROVE  JobsIInv'
<1>1. /\ call' = [call EXCEPT ![s] = "cancelling"]
      /\ UNCHANGED <<running, stop, tasks, loop, status, asked>>
  BY DEF Jobs!CancelStart
<1>2. /\ call' \in [Jobs!Start -> JobsCalls] /\ call'[s] = "cancelling"
      /\ \A r \in Jobs!Start : r # s => call'[r] = call[r]
  BY <1>1 DEF JobsIInv, JobsTyped, JobsCalls
<1>3. \A r \in Jobs!Start : call[r] \in {"gathering", "cancelling"} =>
                            call'[r] \in {"gathering", "cancelling"}
  BY <1>2
<1>4. JobsTyped' /\ JobsRunsUnlessAsked' /\ JobsGivenUpLeaves'
  BY <1>1, <1>2 DEF JobsIInv, JobsTyped, JobsRunsUnlessAsked, JobsGivenUpLeaves
<1> QED BY <1>1, <1>3, <1>4 DEF JobsIInv, JobsLiveAreTasks

LEMMA JobsInductive == JobsIInv /\ [Jobs!Next]_(Jobs!vars) => JobsIInv'
<1> SUFFICES ASSUME JobsIInv, [Jobs!Next]_(Jobs!vars) PROVE JobsIInv'
  OBVIOUS
<1>1. CASE Jobs!Stop \/ UNCHANGED Jobs!vars
  BY <1>1 DEF Jobs!Stop, Jobs!vars, JobsIInv, JobsTyped, JobsLiveAreTasks,
              JobsRunsUnlessAsked, JobsGivenUpLeaves
<1> QED BY <1>1, JobsStartKeeps, JobsReturnsKeeps, JobsCancelKeeps, JobsLoopKeeps
           DEF Jobs!Next

\* A job given up is reported so until a start() begins.
LEMMA JobsAbandons ==
    JobsIInv /\ [Jobs!Next]_(Jobs!vars) =>
        [\A j \in Job : status[j] = "abandoned" /\ status'[j] # "abandoned"
                        => \E s \in Jobs!Start : call[s] = "none" /\ call'[s] = "gathering"]_(Jobs!vars)
<1> SUFFICES ASSUME JobsIInv, Jobs!Next, NEW j \in Job, status[j] = "abandoned",
                    status'[j] # "abandoned"
             PROVE  \E s \in Jobs!Start : call[s] = "none" /\ call'[s] = "gathering"
  OBVIOUS
<1>1. ~JobsReported
  BY DEF JobsReported
<1>2. PICK s \in Jobs!Start : Jobs!StartCall(s)
  BY <1>1, JobsLoopKeeps DEF Jobs!Next, Jobs!StartReturns, Jobs!CancelStart, Jobs!Stop
<1>3. call[s] = "none" /\ call' = [call EXCEPT ![s] = "gathering"]
  BY <1>2 DEF Jobs!StartCall, Jobs!Begin
<1> QED BY <1>3 DEF JobsIInv, JobsTyped

\* The invariant says what the two properties do.
LEMMA JobsOneLoop == JobsIInv => Jobs!OneLoopPerJob /\ Jobs!StoppedByStop
<1> SUFFICES ASSUME JobsIInv PROVE Jobs!OneLoopPerJob /\ Jobs!StoppedByStop
  OBVIOUS
<1>1. ASSUME NEW j \in Job
      PROVE  Cardinality({s \in Jobs!Start : loop[s][j] \notin Jobs!Over}) <= 1
  <2>1. {s \in Jobs!Start : loop[s][j] \notin Jobs!Over} \in SUBSET {tasks}
    BY DEF JobsIInv, JobsLiveAreTasks
  <2>2. IsFiniteSet({tasks}) /\ Cardinality({tasks}) = 1
    BY FS_Singleton
  <2> QED BY <2>1, <2>2, FS_Subset
<1>2. Jobs!StoppedByStop
  BY DEF JobsIInv, JobsLiveAreTasks, JobsRunsUnlessAsked, Jobs!StoppedByStop, Jobs!Live,
         Jobs!Start
<1> QED BY <1>1, <1>2 DEF Jobs!OneLoopPerJob, Jobs!Cardinality, Cardinality

-----------------------------------------------------------------------------
(* The weights of a module *)

(* The inductive invariant. *)
WeightsLoading == {"save", "saving", "swap", "install", "loaded"}
WeightsPhases == {"idle", "prepared", "training", "evaluating"} \union WeightsLoading
WeightsTyped ==
    /\ weightsOnDisk \in [Weights!Dir -> Int] /\ at \in [Weights!Trainer -> WeightsPhases]
    /\ mine \in [Weights!Trainer -> Int]
    /\ held \in Weights!Trainer \union {"nobody"}
    /\ trained \in Nat /\ mishaps \in Nat /\ installed \in BOOLEAN
\* Who trains or loads has the event loop.
WeightsHolding == \A t \in Weights!Trainer :
    /\ at[t] \in WeightsLoading \union {"training"} => held = t
    /\ held = t => at[t] \in WeightsLoading \union {"training", "prepared"}
\* Without an overlap nobody evaluates while another evaluates or loads.
WeightsOneLoads == mixed = {} => \A t, u \in Weights!Trainer :
    t # u /\ at[t] = "evaluating" => at[u] \notin WeightsLoading \union {"evaluating"}
\* While nothing has gone wrong, pending is cut off during a training only, and active, or
\* its copy while it is replaced, is whole.
WeightsCalm == mishaps = 0 =>
    /\ (\A t \in Weights!Trainer : at[t] # "training") => weightsOnDisk.pending >= 0
    /\ \A t \in Weights!Trainer : at[t] = "install" => weightsOnDisk.pending > 0
    /\ installed =>
         /\ (\A t \in Weights!Trainer : at[t] # "install") => weightsOnDisk.active > 0
         /\ \A t \in Weights!Trainer : at[t] \in {"swap", "install"} => weightsOnDisk.previous > 0
\* After one mishap, active or previous is whole, or pending is until it is installed.
WeightsHurt == mishaps = 1 /\ mixed = {} /\ installed =>
    /\ (\A t \in Weights!Trainer : at[t] \notin WeightsLoading \ {"loaded"})
         => weightsOnDisk.active > 0 \/ weightsOnDisk.previous > 0
    /\ \A t \in Weights!Trainer :
         /\ at[t] = "evaluating" =>
              weightsOnDisk.active > 0 \/ weightsOnDisk.pending > 0 \/ \E u \in Weights!Trainer : at[u] = "training"
         /\ at[t] \in {"save", "saving"} => weightsOnDisk.active > 0 \/ weightsOnDisk.pending > 0
         /\ at[t] \in {"swap", "install"} => weightsOnDisk.previous > 0 \/ weightsOnDisk.pending > 0
\* A whole pending set is the evaluated one, or trained while two trainings overlapped.
WeightsJudged == \A t \in Weights!Trainer : weightsOnDisk.pending > 0 =>
    /\ at[t] = "evaluating" => weightsOnDisk.pending \in {mine[t]} \union mixed
    /\ at[t] \in WeightsLoading \ {"loaded"} => weightsOnDisk.pending \in passed \union mixed
WeightsLoads == WeightsTyped /\ WeightsHolding /\ WeightsOneLoads
WeightsIInv == WeightsLoads /\ WeightsCalm /\ WeightsHurt /\ WeightsJudged /\ Weights!OnlyPassedServe

LEMMA WeightsInitially == Weights!Init => WeightsIInv
<1> SUFFICES ASSUME Weights!Init PROVE WeightsIInv
  OBVIOUS
<1>1. /\ weightsOnDisk \in [Weights!Dir -> Int] /\ weightsOnDisk.pending = 0
      /\ weightsOnDisk.active = 0
      /\ at \in [Weights!Trainer -> WeightsPhases]
      /\ \A t \in Weights!Trainer : at[t] = "idle"
      /\ mine \in [Weights!Trainer -> Int]
  BY DEF Weights!Init, Weights!Dir, WeightsPhases, Weights!Empty
<1>2. /\ held = "nobody" /\ "nobody" \notin Weights!Trainer /\ trained = 0 /\ mishaps = 0
      /\ installed = FALSE
  BY DEF Weights!Init, Weights!Trainer
<1>3. WeightsTyped
  BY <1>1, <1>2 DEF WeightsTyped
<1>4. WeightsHolding
  BY <1>1, <1>2 DEF WeightsHolding, WeightsLoading
<1> QED BY <1>1, <1>2, <1>3, <1>4 DEF WeightsIInv, WeightsLoads, WeightsOneLoads,
                                      WeightsCalm, WeightsHurt, WeightsJudged,
                                      Weights!OnlyPassedServe, WeightsLoading

\* A step that moves one trainer, and the other stays where it is.
LEMMA WeightsMoves ==
    ASSUME WeightsTyped, NEW t \in Weights!Trainer, NEW pc \in WeightsPhases,
           Weights!Goto(t, pc)
    PROVE  /\ at' \in [Weights!Trainer -> WeightsPhases] /\ at'[t] = pc
           /\ \A u \in Weights!Trainer : u # t => at'[u] = at[u]
BY DEF WeightsTyped, Weights!Goto

LEMMA WeightsPrepareKeeps ==
    ASSUME WeightsIInv, NEW t \in Weights!Trainer, Weights!Prepare(t)
    PROVE  WeightsIInv'
<1>1. /\ at' \in [Weights!Trainer -> WeightsPhases] /\ at'[t] = "prepared" /\ at[t] = "idle"
      /\ \A u \in Weights!Trainer : u # t => at'[u] = at[u]
  BY WeightsMoves DEF Weights!Prepare, WeightsPhases, WeightsIInv, WeightsLoads
<1>2. /\ held = "nobody" /\ held' \in {t, "nobody"}
      /\ UNCHANGED <<weightsOnDisk, mine, trained, passed, mixed, installed, mishaps>>
  BY DEF Weights!Prepare, Weights!Free
<1>3. "nobody" \notin Weights!Trainer
  BY DEF Weights!Trainer
<1>4. WeightsLoads'
  BY <1>1, <1>2, <1>3 DEF WeightsIInv, WeightsLoads, WeightsTyped, WeightsHolding,
                          WeightsOneLoads, WeightsLoading
<1> QED BY <1>1, <1>2, <1>4 DEF WeightsIInv, WeightsCalm, WeightsHurt, WeightsJudged,
                                Weights!OnlyPassedServe, WeightsLoading

LEMMA WeightsStartTrainingKeeps ==
    ASSUME WeightsIInv, NEW t \in Weights!Trainer, Weights!StartTraining(t)
    PROVE  WeightsIInv'
<1>1. /\ at' \in [Weights!Trainer -> WeightsPhases] /\ at'[t] = "training"
      /\ at[t] = "prepared"
      /\ \A u \in Weights!Trainer : u # t => at'[u] = at[u]
  BY WeightsMoves DEF Weights!StartTraining, WeightsPhases, WeightsIInv, WeightsLoads
<1>2. /\ held \in {"nobody", t} /\ held' = t
      /\ weightsOnDisk' = [weightsOnDisk EXCEPT !.pending = Weights!Part]
      /\ UNCHANGED <<mine, trained, passed, mixed, installed, mishaps>>
  BY DEF Weights!StartTraining
<1>3. /\ weightsOnDisk' \in [Weights!Dir -> Int] /\ weightsOnDisk'.pending = -1
      /\ weightsOnDisk'.active = weightsOnDisk.active
      /\ weightsOnDisk'.previous = weightsOnDisk.previous
  BY <1>2 DEF WeightsIInv, WeightsLoads, WeightsTyped, Weights!Dir, Weights!Part
<1>4. "nobody" \notin Weights!Trainer
  BY DEF Weights!Trainer
<1>5. \A u \in Weights!Trainer : at[u] \notin WeightsLoading \union {"training"}
  BY <1>1, <1>2, <1>4 DEF WeightsIInv, WeightsLoads, WeightsHolding, WeightsLoading
<1>6. WeightsLoads'
  BY <1>1, <1>2, <1>3, <1>4, <1>5 DEF WeightsIInv, WeightsLoads, WeightsTyped,
                                      WeightsHolding, WeightsOneLoads, WeightsLoading
<1> QED BY <1>1, <1>2, <1>3, <1>5, <1>6 DEF WeightsIInv, WeightsCalm, WeightsHurt,
                                            WeightsJudged, Weights!OnlyPassedServe,
                                            WeightsLoading

LEMMA WeightsTrainedKeeps ==
    ASSUME WeightsIInv, NEW t \in Weights!Trainer, Weights!Trained(t)
    PROVE  WeightsIInv'
<1>1. /\ at' \in [Weights!Trainer -> WeightsPhases] /\ at'[t] = "evaluating"
      /\ at[t] = "training"
      /\ \A u \in Weights!Trainer : u # t => at'[u] = at[u]
  BY WeightsMoves DEF Weights!Trained, WeightsPhases, WeightsIInv, WeightsLoads
<1>2. /\ held' = "nobody" /\ trained' = trained + 1
      /\ weightsOnDisk' = [weightsOnDisk EXCEPT !.pending = trained + 1]
      /\ mine' = [mine EXCEPT ![t] = trained + 1]
      /\ UNCHANGED <<passed, installed, mishaps>>
  BY DEF Weights!Trained
<1>3. /\ weightsOnDisk' \in [Weights!Dir -> Int] /\ weightsOnDisk'.pending = trained + 1
      /\ trained + 1 > 0
      /\ weightsOnDisk'.active = weightsOnDisk.active
      /\ weightsOnDisk'.previous = weightsOnDisk.previous
      /\ mine' \in [Weights!Trainer -> Int] /\ mine'[t] = trained + 1
      /\ \A u \in Weights!Trainer : u # t => mine'[u] = mine[u]
  BY <1>2 DEF WeightsIInv, WeightsLoads, WeightsTyped, Weights!Dir
<1>4. "nobody" \notin Weights!Trainer
  BY DEF Weights!Trainer
<1>5. \A u \in Weights!Trainer :
        /\ at[u] \notin WeightsLoading
        /\ u # t => at[u] # "training"
  BY <1>1, <1>2, <1>4 DEF WeightsIInv, WeightsLoads, WeightsHolding, WeightsLoading
<1>6. mixed \subseteq mixed'
  BY DEF Weights!Trained
<1>7. ASSUME NEW u \in Weights!Trainer, u # t, at[u] = "evaluating"
      PROVE  trained + 1 \in mixed'
  BY <1>7 DEF Weights!Trained, Weights!Others
<1>8. WeightsLoads'
  BY <1>1, <1>2, <1>3, <1>4, <1>5, <1>6, <1>7
     DEF WeightsIInv, WeightsLoads, WeightsTyped, WeightsHolding, WeightsOneLoads,
         WeightsLoading
<1>9. WeightsCalm' /\ WeightsHurt'
  BY <1>1, <1>2, <1>3, <1>5, <1>6 DEF WeightsIInv, WeightsCalm, WeightsHurt,
                                      WeightsLoading, Weights!Part
<1>10. WeightsJudged'
  BY <1>1, <1>2, <1>3, <1>5, <1>6, <1>7 DEF WeightsIInv, WeightsJudged, WeightsLoading
<1> QED BY <1>2, <1>3, <1>6, <1>8, <1>9, <1>10 DEF WeightsIInv, Weights!OnlyPassedServe

\* A step that only moves trainers, none of them into a training, an evaluation or a load.
LEMMA WeightsStopKeeps ==
    ASSUME WeightsIInv,
           UNCHANGED <<weightsOnDisk, mine, trained, passed, mixed, installed>>,
           held' = "nobody", at' \in [Weights!Trainer -> WeightsPhases], mishaps' \in Nat,
           \/ mishaps' = mishaps + 1
           \/ mishaps' = mishaps
              /\ \A t \in Weights!Trainer : at[t] \notin {"training", "install", "save", "saving", "swap"},
           \A t \in Weights!Trainer : 
               at'[t] = "idle" \/ (at'[t] = at[t] /\ at[t] \in {"idle", "prepared", "evaluating"})
    PROVE  WeightsIInv'
<1>1. "nobody" \notin Weights!Trainer
  BY DEF Weights!Trainer
<1>2. WeightsLoads'
  BY <1>1 DEF WeightsIInv, WeightsLoads, WeightsTyped, WeightsHolding, WeightsOneLoads,
              WeightsLoading
<1>3. \A t, u \in Weights!Trainer : at[t] = "install" /\ at[u] = "install" => t = u
  BY DEF WeightsIInv, WeightsLoads, WeightsHolding, WeightsLoading
<1>4. WeightsCalm'
  BY DEF WeightsIInv, WeightsLoads, WeightsTyped, WeightsCalm, WeightsLoading
<1>5. WeightsHurt'
  <2>1. CASE mishaps' = mishaps
    BY <2>1 DEF WeightsIInv, WeightsLoads, WeightsTyped, WeightsHurt, WeightsLoading
  <2>2. CASE mishaps' = mishaps + 1 /\ mishaps = 0 /\ mixed = {} /\ installed
    <3>1. CASE \A t \in Weights!Trainer : at[t] # "install"
      BY <2>2, <3>1 DEF WeightsIInv, WeightsLoads, WeightsTyped, WeightsHurt, WeightsCalm,
                        WeightsLoading
    <3>2. ASSUME NEW t \in Weights!Trainer, at[t] = "install" PROVE WeightsHurt'
      <4>1. weightsOnDisk.previous > 0 /\ weightsOnDisk.pending > 0
        BY <2>2, <3>2 DEF WeightsIInv, WeightsCalm
      <4> QED BY <2>2, <4>1 DEF WeightsHurt, WeightsLoading
    <3> QED BY <3>1, <3>2
  <2> QED BY <2>1, <2>2 DEF WeightsIInv, WeightsLoads, WeightsTyped, WeightsHurt
<1>6. WeightsJudged' /\ Weights!OnlyPassedServe'
  BY DEF WeightsIInv, WeightsJudged, Weights!OnlyPassedServe, WeightsLoading
<1> QED BY <1>2, <1>4, <1>5, <1>6 DEF WeightsIInv

LEMMA WeightsTrainingFailsKeeps ==
    ASSUME WeightsIInv, NEW t \in Weights!Trainer, Weights!TrainingFails(t)
    PROVE  WeightsIInv'
<1>1. /\ at' \in [Weights!Trainer -> WeightsPhases] /\ at'[t] = "idle" /\ at[t] = "training"
      /\ \A u \in Weights!Trainer : u # t => at'[u] = at[u]
  BY WeightsMoves DEF Weights!TrainingFails, WeightsPhases, WeightsIInv, WeightsLoads
<1>2. \A u \in Weights!Trainer : u # t => at[u] \in {"idle", "prepared", "evaluating"}
  BY <1>1 DEF WeightsIInv, WeightsLoads, WeightsTyped, WeightsPhases, WeightsHolding,
              WeightsLoading
<1> QED BY <1>1, <1>2, WeightsStopKeeps DEF Weights!TrainingFails, Weights!Mishap,
                                            WeightsIInv, WeightsLoads, WeightsTyped

LEMMA WeightsAnnounceKeeps ==
    ASSUME WeightsIInv, NEW t \in Weights!Trainer, Weights!Announce(t)
    PROVE  WeightsIInv'
<1>1. /\ at' \in [Weights!Trainer -> WeightsPhases] /\ at'[t] = "idle" /\ at[t] = "loaded"
      /\ \A u \in Weights!Trainer : u # t => at'[u] = at[u]
  BY WeightsMoves DEF Weights!Announce, WeightsPhases, WeightsIInv, WeightsLoads
<1>2. \A u \in Weights!Trainer : u # t => at[u] \in {"idle", "prepared", "evaluating"}
  BY <1>1 DEF WeightsIInv, WeightsLoads, WeightsTyped, WeightsPhases, WeightsHolding,
              WeightsLoading
<1> QED BY <1>1, <1>2, WeightsStopKeeps DEF Weights!Announce, WeightsIInv, WeightsLoads,
                                            WeightsTyped

LEMMA WeightsDieKeeps == ASSUME WeightsIInv, Weights!Die PROVE WeightsIInv'
<1>1. at' \in [Weights!Trainer -> WeightsPhases] /\ \A t \in Weights!Trainer : at'[t] = "idle"
  BY DEF Weights!Die, WeightsPhases
<1> QED BY <1>1, WeightsStopKeeps DEF Weights!Die, Weights!Mishap, WeightsIInv,
                                      WeightsLoads, WeightsTyped

LEMMA WeightsPassesKeeps ==
    ASSUME WeightsIInv, NEW t \in Weights!Trainer, Weights!Passes(t)
    PROVE  WeightsIInv'
<1>1. /\ at' \in [Weights!Trainer -> WeightsPhases] /\ at'[t] = "save"
      /\ at[t] = "evaluating"
      /\ \A u \in Weights!Trainer : u # t => at'[u] = at[u]
  BY WeightsMoves DEF Weights!Passes, WeightsPhases, WeightsLoading, WeightsIInv,
                      WeightsLoads
<1>2. /\ held = "nobody" /\ held' = t
      /\ passed' = passed \union {mine[t]}
      /\ UNCHANGED <<weightsOnDisk, mine, trained, mixed, installed, mishaps>>
  BY DEF Weights!Passes, Weights!Free
<1>3. "nobody" \notin Weights!Trainer
  BY DEF Weights!Trainer
<1>4. \A u \in Weights!Trainer : at[u] \notin WeightsLoading \union {"training"}
  BY <1>2, <1>3 DEF WeightsIInv, WeightsLoads, WeightsHolding
<1>5. WeightsLoads'
  BY <1>1, <1>2, <1>3, <1>4 DEF WeightsIInv, WeightsLoads, WeightsTyped, WeightsHolding,
                                WeightsOneLoads, WeightsLoading
<1>6. WeightsCalm' /\ WeightsHurt'
  BY <1>1, <1>2, <1>4 DEF WeightsIInv, WeightsLoads, WeightsTyped, WeightsOneLoads,
                          WeightsCalm, WeightsHurt, WeightsLoading
<1>7. WeightsJudged' /\ Weights!OnlyPassedServe'
  BY <1>1, <1>2, <1>4 DEF WeightsIInv, WeightsJudged, Weights!OnlyPassedServe,
                          WeightsLoading
<1> QED BY <1>5, <1>6, <1>7 DEF WeightsIInv

LEMMA WeightsFailsKeeps ==
    ASSUME WeightsIInv, NEW t \in Weights!Trainer, Weights!Fails(t)
    PROVE  WeightsIInv'
<1>1. /\ at' \in [Weights!Trainer -> WeightsPhases] /\ at'[t] = "idle"
      /\ at[t] = "evaluating"
      /\ \A u \in Weights!Trainer : u # t => at'[u] = at[u]
  BY WeightsMoves DEF Weights!Fails, WeightsPhases, WeightsIInv, WeightsLoads
<1>2. /\ held = "nobody"
      /\ weightsOnDisk' = [weightsOnDisk EXCEPT !.pending = Weights!Empty]
      /\ UNCHANGED <<mine, held, trained, passed, mixed, installed, mishaps>>
  BY DEF Weights!Fails, Weights!Free
<1>3. /\ weightsOnDisk' \in [Weights!Dir -> Int] /\ weightsOnDisk'.pending = 0
      /\ weightsOnDisk'.active = weightsOnDisk.active
      /\ weightsOnDisk'.previous = weightsOnDisk.previous
  BY <1>2 DEF WeightsIInv, WeightsLoads, WeightsTyped, Weights!Dir, Weights!Empty
<1>4. "nobody" \notin Weights!Trainer
  BY DEF Weights!Trainer
<1>5. \A u \in Weights!Trainer : at[u] \notin WeightsLoading \union {"training"}
  BY <1>2, <1>4 DEF WeightsIInv, WeightsLoads, WeightsHolding
<1>6. mixed = {} => \A u \in Weights!Trainer : at'[u] # "evaluating"
  BY <1>1 DEF WeightsIInv, WeightsLoads, WeightsOneLoads
<1>7. WeightsLoads'
  BY <1>1, <1>2, <1>3, <1>4, <1>5 DEF WeightsIInv, WeightsLoads, WeightsTyped,
                                      WeightsHolding, WeightsOneLoads, WeightsLoading
<1>8. WeightsCalm' /\ WeightsHurt'
  BY <1>1, <1>2, <1>3, <1>5, <1>6 DEF WeightsIInv, WeightsCalm, WeightsHurt,
                                      WeightsLoading, Weights!Part
<1>9. WeightsJudged' /\ Weights!OnlyPassedServe'
  BY <1>1, <1>2, <1>3, <1>5 DEF WeightsIInv, WeightsJudged, Weights!OnlyPassedServe,
                                WeightsLoading
<1> QED BY <1>7, <1>8, <1>9 DEF WeightsIInv

\* One that loads has the event loop, and without an overlap no other evaluates.
LEMMA WeightsLoadsAlone ==
    ASSUME WeightsIInv, NEW t \in Weights!Trainer, at[t] \in WeightsLoading
    PROVE  /\ held = t
           /\ \A u \in Weights!Trainer : u # t =>
                /\ at[u] \notin WeightsLoading \union {"training"}
                /\ mixed = {} => at[u] # "evaluating"
BY DEF WeightsIInv, WeightsLoads, WeightsHolding, WeightsOneLoads

\* A step of a load.
LEMMA WeightsLoadMoves ==
    ASSUME WeightsIInv, NEW t \in Weights!Trainer, NEW pc \in WeightsLoading,
           Weights!Goto(t, pc), at[t] \in WeightsLoading,
           weightsOnDisk' \in [Weights!Dir -> Int], installed' \in BOOLEAN, mishaps' \in Nat,
           UNCHANGED <<mine, held, trained, passed, mixed>>
    PROVE  /\ WeightsLoads'
           /\ at'[t] = pc /\ \A u \in Weights!Trainer : u # t => at'[u] = at[u]
<1>1. /\ at' \in [Weights!Trainer -> WeightsPhases] /\ at'[t] = pc
      /\ \A u \in Weights!Trainer : u # t => at'[u] = at[u]
  BY WeightsMoves DEF WeightsPhases, WeightsIInv, WeightsLoads
<1> QED BY <1>1, WeightsLoadsAlone DEF WeightsIInv, WeightsLoads, WeightsTyped,
                                       WeightsHolding, WeightsOneLoads, WeightsLoading

LEMMA WeightsSaveKeeps ==
    ASSUME WeightsIInv, NEW t \in Weights!Trainer, Weights!Save(t)
    PROVE  WeightsIInv'
<1>1. at[t] = "save" /\ UNCHANGED <<mine, held, trained, passed, mixed, installed, mishaps>>
  BY DEF Weights!Save
<1>2. \A u \in Weights!Trainer : u # t =>
        /\ at[u] \notin WeightsLoading \union {"training"}
        /\ mixed = {} => at[u] # "evaluating"
  BY <1>1, WeightsLoadsAlone DEF WeightsLoading
<1>3. CASE weightsOnDisk.active # Weights!Empty
  <2>1. PICK c \in {Weights!Empty, Weights!Part} : weightsOnDisk' = [weightsOnDisk EXCEPT !.previous = c]
    BY <1>3 DEF Weights!Save, Weights!Emptied
  <2>2. Weights!Goto(t, "saving")
    BY <1>3 DEF Weights!Save
  <2>3. /\ weightsOnDisk' \in [Weights!Dir -> Int]
        /\ weightsOnDisk'.active = weightsOnDisk.active
        /\ weightsOnDisk'.pending = weightsOnDisk.pending
    BY <2>1 DEF WeightsIInv, WeightsLoads, WeightsTyped, Weights!Dir, Weights!Empty,
                Weights!Part
  <2>4. /\ WeightsLoads' /\ at'[t] = "saving"
        /\ \A u \in Weights!Trainer : u # t => at'[u] = at[u]
    BY <1>1, <2>2, <2>3, WeightsLoadMoves DEF WeightsLoading, WeightsIInv, WeightsLoads,
       WeightsTyped
  <2>5. WeightsCalm' /\ WeightsHurt'
    BY <1>1, <1>2, <2>3, <2>4 DEF WeightsIInv, WeightsCalm, WeightsHurt, WeightsLoading
  <2> QED BY <1>1, <1>2, <2>3, <2>4, <2>5 DEF WeightsIInv, WeightsJudged,
             Weights!OnlyPassedServe, WeightsLoading
<1>4. CASE weightsOnDisk.active = Weights!Empty
  <2>1. weightsOnDisk' = weightsOnDisk /\ Weights!Goto(t, "swap")
    BY <1>4 DEF Weights!Save
  <2>2. /\ WeightsLoads' /\ at'[t] = "swap"
        /\ \A u \in Weights!Trainer : u # t => at'[u] = at[u]
    BY <1>1, <2>1, WeightsLoadMoves DEF WeightsLoading, WeightsIInv, WeightsLoads,
                                        WeightsTyped
  <2>3. \A u \in Weights!Trainer : at[u] # "install"
    BY <1>1, <1>2 DEF WeightsLoading
  <2>4. WeightsCalm' /\ WeightsHurt'
    BY <1>1, <1>2, <1>4, <2>1, <2>2, <2>3 DEF WeightsIInv, WeightsCalm, WeightsHurt,
       WeightsLoading, Weights!Empty
  <2> QED BY <1>1, <1>2, <2>1, <2>2, <2>4 DEF WeightsIInv, WeightsJudged,
             Weights!OnlyPassedServe, WeightsLoading
<1> QED BY <1>3, <1>4

LEMMA WeightsSavedKeeps ==
    ASSUME WeightsIInv, NEW t \in Weights!Trainer, Weights!Saved(t)
    PROVE  WeightsIInv'
<1>1. /\ at[t] = "saving"
      /\ UNCHANGED <<mine, held, trained, passed, mixed, installed, mishaps>>
      /\ weightsOnDisk' = [weightsOnDisk EXCEPT !.previous = weightsOnDisk.active]
      /\ Weights!Goto(t, "swap")
  BY DEF Weights!Saved
<1>2. \A u \in Weights!Trainer : u # t =>
        /\ at[u] \notin WeightsLoading \union {"training"}
        /\ mixed = {} => at[u] # "evaluating"
  BY <1>1, WeightsLoadsAlone DEF WeightsLoading
<1>3. /\ weightsOnDisk' \in [Weights!Dir -> Int]
      /\ weightsOnDisk'.previous = weightsOnDisk.active
      /\ weightsOnDisk'.active = weightsOnDisk.active
      /\ weightsOnDisk'.pending = weightsOnDisk.pending
  BY <1>1 DEF WeightsIInv, WeightsLoads, WeightsTyped, Weights!Dir
<1>4. /\ WeightsLoads' /\ at'[t] = "swap"
      /\ \A u \in Weights!Trainer : u # t => at'[u] = at[u]
  BY <1>1, <1>3, WeightsLoadMoves DEF WeightsLoading, WeightsIInv, WeightsLoads,
                                      WeightsTyped
<1>5. \A u \in Weights!Trainer : at[u] # "install"
  BY <1>1, <1>2 DEF WeightsLoading
<1>6. WeightsCalm' /\ WeightsHurt'
  BY <1>1, <1>2, <1>3, <1>4, <1>5 DEF WeightsIInv, WeightsCalm, WeightsHurt, WeightsLoading
<1> QED BY <1>1, <1>2, <1>3, <1>4, <1>6 DEF WeightsIInv, WeightsJudged,
                                            Weights!OnlyPassedServe, WeightsLoading

LEMMA WeightsSwapKeeps ==
    ASSUME WeightsIInv, NEW t \in Weights!Trainer, Weights!Swap(t)
    PROVE  WeightsIInv'
<1>1. at[t] = "swap" /\ UNCHANGED <<mine, held, trained, passed, mixed, installed, mishaps>>
  BY DEF Weights!Swap
<1>2. \A u \in Weights!Trainer : u # t =>
        /\ at[u] \notin WeightsLoading \union {"training"}
        /\ mixed = {} => at[u] # "evaluating"
  BY <1>1, WeightsLoadsAlone DEF WeightsLoading
<1>3. CASE weightsOnDisk.pending # Weights!Empty
  <2>1. PICK c \in {Weights!Empty, Weights!Part} : weightsOnDisk' = [weightsOnDisk EXCEPT !.active = c]
    BY <1>3 DEF Weights!Swap, Weights!Emptied
  <2>2. Weights!Goto(t, "install")
    BY <1>3 DEF Weights!Swap
  <2>3. /\ weightsOnDisk' \in [Weights!Dir -> Int] /\ weightsOnDisk'.active <= 0
        /\ weightsOnDisk'.previous = weightsOnDisk.previous
        /\ weightsOnDisk'.pending = weightsOnDisk.pending
    BY <2>1 DEF WeightsIInv, WeightsLoads, WeightsTyped, Weights!Dir, Weights!Empty,
                Weights!Part
  <2>4. /\ WeightsLoads' /\ at'[t] = "install"
        /\ \A u \in Weights!Trainer : u # t => at'[u] = at[u]
    BY <1>1, <2>2, <2>3, WeightsLoadMoves DEF WeightsLoading, WeightsIInv, WeightsLoads,
       WeightsTyped
  <2>5. weightsOnDisk.pending >= 0 => weightsOnDisk.pending > 0
    BY <1>3 DEF WeightsIInv, WeightsLoads, WeightsTyped, Weights!Dir, Weights!Empty
  <2>6. WeightsCalm'
    <3>1. \A u \in Weights!Trainer : at[u] # "training"
      BY <1>1, <1>2
    <3>2. SUFFICES ASSUME mishaps = 0 PROVE WeightsCalm'
      BY <1>1 DEF WeightsCalm
    <3>3. CASE weightsOnDisk.pending > 0
      BY <1>1, <1>2, <2>3, <2>4, <3>1, <3>3 DEF WeightsIInv, WeightsCalm, WeightsLoading,
         Weights!Part
    <3>4. weightsOnDisk.pending > 0
      BY <2>5, <3>1, <3>2 DEF WeightsIInv, WeightsCalm
    <3> QED BY <3>3, <3>4
  <2>7. WeightsHurt'
    BY <1>1, <1>2, <2>3, <2>4 DEF WeightsIInv, WeightsHurt, WeightsLoading
  <2>8. WeightsJudged' /\ Weights!OnlyPassedServe'
    BY <1>1, <1>2, <2>3, <2>4 DEF WeightsIInv, WeightsJudged, Weights!OnlyPassedServe,
                                  WeightsLoading, WeightsLoads, WeightsTyped, Weights!Dir
  <2> QED BY <2>4, <2>6, <2>7, <2>8 DEF WeightsIInv
<1>4. CASE weightsOnDisk.pending = Weights!Empty
  <2>1. weightsOnDisk' = weightsOnDisk /\ Weights!Goto(t, "loaded")
    BY <1>4 DEF Weights!Swap
  <2>2. /\ WeightsLoads' /\ at'[t] = "loaded"
        /\ \A u \in Weights!Trainer : u # t => at'[u] = at[u]
    BY <1>1, <2>1, WeightsLoadMoves DEF WeightsLoading, WeightsIInv, WeightsLoads,
                                        WeightsTyped
  <2>3. \A u \in Weights!Trainer : at[u] # "install"
    BY <1>1, <1>2 DEF WeightsLoading
  <2>4. WeightsCalm' /\ WeightsHurt'
    BY <1>1, <1>2, <1>4, <2>1, <2>2, <2>3 DEF WeightsIInv, WeightsCalm, WeightsHurt,
       WeightsLoading, Weights!Empty, Weights!Part
  <2> QED BY <1>1, <1>2, <2>1, <2>2, <2>4 DEF WeightsIInv, WeightsJudged,
             Weights!OnlyPassedServe, WeightsLoading
<1> QED BY <1>3, <1>4

LEMMA WeightsInstallKeeps ==
    ASSUME WeightsIInv, NEW t \in Weights!Trainer, Weights!Install(t)
    PROVE  WeightsIInv'
<1>1. /\ at[t] = "install" /\ UNCHANGED <<mine, held, trained, passed, mixed, mishaps>>
      /\ weightsOnDisk' = [weightsOnDisk EXCEPT !.active = weightsOnDisk.pending]
      /\ Weights!Goto(t, "loaded")
      /\ installed' = (installed \/ weightsOnDisk.pending > 0)
  BY DEF Weights!Install
<1>2. \A u \in Weights!Trainer : u # t =>
        /\ at[u] \notin WeightsLoading \union {"training"}
        /\ mixed = {} => at[u] # "evaluating"
  BY <1>1, WeightsLoadsAlone DEF WeightsLoading
<1>3. /\ weightsOnDisk' \in [Weights!Dir -> Int]
      /\ weightsOnDisk'.active = weightsOnDisk.pending
      /\ weightsOnDisk'.previous = weightsOnDisk.previous
      /\ weightsOnDisk'.pending = weightsOnDisk.pending
  BY <1>1 DEF WeightsIInv, WeightsLoads, WeightsTyped, Weights!Dir
<1>4. /\ WeightsLoads' /\ at'[t] = "loaded"
      /\ \A u \in Weights!Trainer : u # t => at'[u] = at[u]
  BY <1>1, <1>3, WeightsLoadMoves DEF WeightsLoading, WeightsIInv, WeightsLoads,
                                      WeightsTyped
<1>5. \A u \in Weights!Trainer : at'[u] \notin {"training", "save", "saving", "swap", "install"}
  BY <1>2, <1>4 DEF WeightsLoading
<1>6. WeightsCalm'
  BY <1>1, <1>2, <1>3, <1>4, <1>5 DEF WeightsIInv, WeightsCalm, Weights!Part
<1>7. WeightsHurt'
  <2>1. mixed = {} => \A u \in Weights!Trainer : at'[u] # "evaluating"
    BY <1>2, <1>4
  <2>2. mishaps = 1 /\ mixed = {} /\ installed' => weightsOnDisk'.active > 0 \/ weightsOnDisk'.previous > 0
    BY <1>1, <1>3 DEF WeightsIInv, WeightsHurt
  <2> QED BY <1>1, <1>5, <2>1, <2>2 DEF WeightsHurt, WeightsLoading
<1>8. WeightsJudged' /\ Weights!OnlyPassedServe'
  BY <1>1, <1>2, <1>3, <1>4 DEF WeightsIInv, WeightsJudged, Weights!OnlyPassedServe,
                                WeightsLoading
<1> QED BY <1>4, <1>6, <1>7, <1>8 DEF WeightsIInv

LEMMA WeightsLoadFailsKeeps ==
    ASSUME WeightsIInv, NEW t \in Weights!Trainer, Weights!LoadFails(t)
    PROVE  WeightsIInv'
<1>1. /\ at[t] \in {"saving", "install"}
      /\ UNCHANGED <<weightsOnDisk, mine, held, trained, passed, mixed, installed>>
      /\ mishaps' = mishaps + 1 /\ Weights!Goto(t, "loaded")
  BY DEF Weights!LoadFails, Weights!Mishap
<1>2. \A u \in Weights!Trainer : u # t =>
        /\ at[u] \notin WeightsLoading \union {"training"}
        /\ mixed = {} => at[u] # "evaluating"
  BY <1>1, WeightsLoadsAlone DEF WeightsLoading
<1>3. /\ WeightsLoads' /\ at'[t] = "loaded"
      /\ \A u \in Weights!Trainer : u # t => at'[u] = at[u]
  BY <1>1, WeightsLoadMoves DEF WeightsLoading, WeightsIInv, WeightsLoads, WeightsTyped
<1>4. mishaps \in Nat
  BY DEF WeightsIInv, WeightsLoads, WeightsTyped
<1>5. WeightsCalm'
  BY <1>1, <1>4 DEF WeightsCalm
<1>6. WeightsHurt'
  <2>1. mishaps = 0 /\ installed => weightsOnDisk.active > 0 \/ weightsOnDisk.previous > 0
    BY <1>1, <1>2 DEF WeightsIInv, WeightsCalm, WeightsLoading
  <2>2. mixed = {} => \A u \in Weights!Trainer : at'[u] # "evaluating"
    BY <1>2, <1>3
  <2>3. \A u \in Weights!Trainer : at'[u] \notin {"save", "saving", "swap", "install"}
    BY <1>2, <1>3 DEF WeightsLoading
  <2> QED BY <1>1, <1>4, <2>1, <2>2, <2>3 DEF WeightsHurt
<1>7. WeightsJudged' /\ Weights!OnlyPassedServe'
  BY <1>1, <1>2, <1>3 DEF WeightsIInv, WeightsJudged, Weights!OnlyPassedServe,
                          WeightsLoading
<1> QED BY <1>3, <1>5, <1>6, <1>7 DEF WeightsIInv

LEMMA WeightsInductive == WeightsIInv /\ [Weights!Next]_(Weights!vars) => WeightsIInv'
<1> SUFFICES ASSUME WeightsIInv, [Weights!Next]_(Weights!vars) PROVE WeightsIInv'
  OBVIOUS
<1>1. CASE Weights!Interaction \/ UNCHANGED Weights!vars
  BY <1>1 DEF Weights!Interaction, Weights!vars, Weights!weights, WeightsIInv,
              WeightsLoads, WeightsTyped, WeightsHolding, WeightsOneLoads, WeightsCalm,
              WeightsHurt,
              WeightsJudged, Weights!OnlyPassedServe
<1> QED BY <1>1, WeightsPrepareKeeps, WeightsStartTrainingKeeps, WeightsTrainedKeeps,
           WeightsTrainingFailsKeeps,
           WeightsPassesKeeps, WeightsFailsKeeps, WeightsSaveKeeps, WeightsSavedKeeps,
           WeightsSwapKeeps, WeightsInstallKeeps,
           WeightsLoadFailsKeeps, WeightsAnnounceKeeps, WeightsDieKeeps DEF Weights!Next,
           Weights!Training

\* The invariant says what the two properties do.
LEMMA WeightsSound == WeightsIInv => Weights!WeightsSurvive /\ Weights!OnlyPassedServe
<1> SUFFICES ASSUME WeightsIInv PROVE Weights!WeightsSurvive
  BY DEF WeightsIInv
<1>1. "active" \in Weights!Dir /\ "previous" \in Weights!Dir /\ "pending" \in Weights!Dir
  BY DEF Weights!Dir
<1>2. ASSUME mishaps = 0, installed PROVE Weights!Kept
  BY <1>1, <1>2 DEF WeightsIInv, WeightsCalm, Weights!Kept
<1>3. ASSUME mishaps = 1, mixed = {}, installed PROVE Weights!Kept
  BY <1>1, <1>3 DEF WeightsIInv, WeightsHurt, Weights!Kept, WeightsLoading
<1> QED BY <1>2, <1>3 DEF Weights!WeightsSurvive

-----------------------------------------------------------------------------
(* The queue of gaps *)

(* The inductive invariant: what a distillation has not got from the queue came later. *)
GapAccounted == distilling => gapQueue \subseteq left \union tried \union late
GapIInv == GapAccounted /\ deaths \in Nat

LEMMA GapInitially == Gap!Init => GapIInv
BY DEF Gap!Init, GapIInv, GapAccounted

LEMMA GapInductive == GapIInv /\ [Gap!Next]_(Gap!vars) => GapIInv'
<1> SUFFICES ASSUME GapIInv, [Gap!Next]_(Gap!vars) PROVE GapIInv'
  OBVIOUS
<1> USE DEF GapIInv, GapAccounted
<1>1. CASE Gap!Detect
  BY <1>1 DEF Gap!Detect
<1>2. CASE Gap!Queue
  BY <1>2 DEF Gap!Queue
<1>3. CASE Gap!ReadQueue
  BY <1>3 DEF Gap!ReadQueue
<1>4. ASSUME NEW topic \in Topic, Gap!Distill(topic) PROVE GapIInv'
  BY <1>4 DEF Gap!Distill
<1>5. CASE Gap!ClearQueue
  BY <1>5 DEF Gap!ClearQueue
<1>6. CASE Gap!Die
  BY <1>6 DEF Gap!Die
<1>7. CASE UNCHANGED Gap!vars
  BY <1>7 DEF Gap!vars
<1> QED BY <1>1, <1>2, <1>3, <1>4, <1>5, <1>6, <1>7 DEF Gap!Next, Gap!Distillation

\* A topic leaves the queue when it was tried, and with a death in a write.
LEMMA GapForgets ==
    GapIInv /\ [Gap!Next]_(Gap!vars) =>
        [\A topic \in gapQueue \ gapQueue' : topic \in known \union tried \union late \/ Gap!Torn]_(Gap!vars)
<1> SUFFICES ASSUME GapIInv, Gap!Next, NEW topic \in gapQueue \ gapQueue'
             PROVE  topic \in known \union tried \union late \/ Gap!Torn
  OBVIOUS
<1>1. CASE Gap!ClearQueue
  BY <1>1 DEF Gap!ClearQueue, GapIInv, GapAccounted
<1>2. CASE Gap!Die
  BY <1>2 DEF Gap!Die, Gap!Torn, GapIInv
<1> QED BY <1>1, <1>2 DEF Gap!Next, Gap!Detect, Gap!Queue, Gap!Distillation, Gap!ReadQueue,
                          Gap!Distill

-----------------------------------------------------------------------------
(* The event stream *)

(* The inductive invariant. *)
EventsMade == [by : Task, n : Nat, end : BOOLEAN]
EventsHanded == writing \union resumable
EventsTyped ==
    /\ log \in Seq(EventsMade) /\ waiting \in Seq(EventsMade)
    /\ delivered \in Seq(EventsMade)
    /\ writing \subseteq EventsMade /\ resumable \subseteq EventsMade
    /\ made \in [Task -> Nat] /\ got \in [Client -> Seq(EventsMade)]
\* A task awaits each append: it has one event on its way, its last.
EventsOneOnItsWay ==
    /\ \A e, f \in EventsHanded : e.by = f.by => e = f
    /\ writing \cap resumable = {}
    /\ \A e \in EventsHanded : e.n = made[e.by]
\* What is stored, and what was broadcast, is older than what is on its way.
EventsOlder(s, last, out) ==
    \A i \in DOMAIN s : s[i].n <= last[s[i].by] /\ \A e \in out : s[i].by = e.by => s[i].n < e.n
EventsStored == EventsOlder(log, made, writing) /\ Events!InOrder(log) /\ resumable \subseteq Events!ToSet(log)
EventsHeard == EventsOlder(delivered, made, EventsHanded) /\ Events!InOrder(delivered) /\ Events!ToSet(delivered) \subseteq Events!ToSet(log)
\* The queue is the end of what was broadcast; what was sent comes before it.
EventsEnds(w, d) ==
    Len(w) <= Len(d) /\ \A k \in 1..Len(w) : w[k] = d[(Len(d) - Len(w)) + k]
EventsSuffix == EventsEnds(waiting, delivered) /\ Len(waiting) <= Capacity
EventsRest == Len(delivered) - Len(waiting)
EventsSent == \A c \in Client :
    /\ \A k \in DOMAIN got[c] : \E i \in 1..EventsRest : got[c][k] = delivered[i]
    /\ Events!InOrder(got[c])
EventsIInv == EventsTyped /\ EventsOneOnItsWay /\ EventsStored /\ EventsHeard /\ EventsSuffix /\ EventsSent

\* An event at the end of a sequence.
LEMMA EventsAppended ==
    ASSUME NEW s \in Seq(EventsMade), NEW e \in EventsMade
    PROVE  /\ Append(s, e) \in Seq(EventsMade)
           /\ Len(s) \in Nat /\ Len(Append(s, e)) = Len(s) + 1
           /\ DOMAIN s = 1..Len(s) /\ DOMAIN Append(s, e) = 1..(Len(s) + 1)
           /\ \A i \in 1..Len(s) : Append(s, e)[i] = s[i]
           /\ Append(s, e)[Len(s) + 1] = e
           /\ Events!ToSet(Append(s, e)) = Events!ToSet(s) \union {e}
<1>1. /\ Append(s, e) \in Seq(EventsMade)
      /\ Len(s) \in Nat /\ Len(Append(s, e)) = Len(s) + 1
      /\ DOMAIN s = 1..Len(s) /\ DOMAIN Append(s, e) = 1..(Len(s) + 1)
      /\ \A i \in 1..Len(s) : Append(s, e)[i] = s[i]
      /\ Append(s, e)[Len(s) + 1] = e
  BY AppendProperties, LenProperties
<1> QED BY <1>1 DEF Events!ToSet

\* It keeps the order when what is there of its task is older.
LEMMA EventsOrderKept ==
    ASSUME NEW s \in Seq(EventsMade), NEW e \in EventsMade, Events!InOrder(s),
           \A i \in DOMAIN s : s[i].by = e.by => s[i].n < e.n
    PROVE  Events!InOrder(Append(s, e))
<1> SUFFICES ASSUME NEW i \in 1..(Len(s) + 1), NEW j \in 1..(Len(s) + 1), i < j,
                    Append(s, e)[i].by = Append(s, e)[j].by
             PROVE  Append(s, e)[i].n < Append(s, e)[j].n
  BY EventsAppended DEF Events!InOrder
<1>1. /\ Len(s) \in Nat /\ DOMAIN s = 1..Len(s) /\ i \in 1..Len(s)
      /\ Append(s, e)[i] = s[i]
  BY EventsAppended
<1>2. CASE j = Len(s) + 1
  BY <1>1, <1>2, EventsAppended
<1>3. CASE j \in 1..Len(s)
  BY <1>1, <1>3, EventsAppended DEF Events!InOrder
<1> QED BY <1>1, <1>2, <1>3

\* What is older than some events is older than fewer of them.
LEMMA EventsOlderAppended ==
    ASSUME NEW s \in Seq(EventsMade), NEW e \in EventsMade, NEW out,
           NEW rest \in SUBSET out, NEW last,
           EventsOlder(s, last, out), e.n <= last[e.by], \A f \in rest : f.by # e.by
    PROVE  EventsOlder(Append(s, e), last, rest)
<1> SUFFICES ASSUME NEW i \in 1..(Len(s) + 1)
             PROVE  /\ Append(s, e)[i].n <= last[Append(s, e)[i].by]
                    /\ \A f \in rest : Append(s, e)[i].by = f.by => Append(s, e)[i].n < f.n
  BY EventsAppended DEF EventsOlder
<1>1. CASE i = Len(s) + 1
  BY <1>1, EventsAppended
<1>2. CASE i \in 1..Len(s)
  BY <1>2, EventsAppended DEF EventsOlder
<1> QED BY <1>1, <1>2, EventsAppended

LEMMA EventsInitially == Events!Init => EventsIInv
<1> SUFFICES ASSUME Events!Init PROVE EventsIInv
  OBVIOUS
<1>1. <<>> \in Seq(EventsMade) /\ Len(<<>>) = 0 /\ DOMAIN <<>> = {}
  BY EmptySeq
<1>2. /\ log = <<>> /\ waiting = <<>> /\ delivered = <<>>
      /\ writing = {} /\ resumable = {}
      /\ made \in [Task -> Nat] /\ got = [c \in Client |-> <<>>]
  BY DEF Events!Init
<1>3. Capacity \in Nat
  BY CapacityAssumption
<1>4. EventsTyped
  BY <1>1, <1>2 DEF EventsTyped
<1>5. EventsOneOnItsWay /\ EventsStored /\ EventsHeard
  BY <1>1, <1>2 DEF EventsOneOnItsWay, EventsStored, EventsHeard, EventsOlder,
                    Events!InOrder, EventsHanded, Events!ToSet
<1>6. EventsSuffix /\ EventsSent
  BY <1>1, <1>2, <1>3 DEF EventsSuffix, EventsEnds, EventsSent, Events!InOrder
<1> QED BY <1>4, <1>5, <1>6 DEF EventsIInv

LEMMA EventsEmitKeeps == ASSUME EventsIInv, NEW t \in Task, Events!Emit(t) PROVE EventsIInv'
<1>1. /\ Events!Pending(t) = {} /\ made' = [made EXCEPT ![t] = made[t] + 1]
      /\ UNCHANGED <<log, resumable, waiting, got, delivered>>
  BY DEF Events!Emit
<1>2. PICK end \in BOOLEAN :
        writing' = writing \union {[by |-> t, n |-> made[t] + 1, end |-> end]}
  BY DEF Events!Emit
<1> DEFINE e == [by |-> t, n |-> made[t] + 1, end |-> end]
<1>3. e \in EventsMade /\ e.by = t /\ e.n = made[t] + 1 /\ made[t] \in Nat
  BY DEF EventsIInv, EventsTyped, EventsMade
<1> HIDE DEF e
<1>4. /\ writing' = writing \union {e} /\ EventsHanded' = EventsHanded \union {e}
      /\ made' \in [Task -> Nat] /\ made'[t] = made[t] + 1
      /\ \A u \in Task : u # t => made'[u] = made[u]
      /\ \A f \in EventsHanded : f \in EventsMade /\ f.by \in Task /\ f.by # t
  BY <1>1, <1>2, <1>3 DEF Events!Pending, EventsHanded, EventsIInv, EventsTyped,
                          EventsMade, e
<1>5. ASSUME NEW x \in EventsMade
      PROVE  x.by \in Task /\ x.n \in Nat /\ (x.n <= made[x.by] => x.n <= made'[x.by])
  <2>1. x.by \in Task /\ x.n \in Nat
    BY DEF EventsMade
  <2>2. CASE x.by = t
    BY <1>3, <1>4, <2>1, <2>2
  <2>3. CASE x.by # t
    BY <1>4, <2>1, <2>3
  <2> QED BY <2>1, <2>2, <2>3
<1>6. ASSUME NEW s \in Seq(EventsMade), NEW out, EventsOlder(s, made, out)
      PROVE  EventsOlder(s, made', out \union {e})
  <2>1. ASSUME NEW i \in DOMAIN s
        PROVE  /\ s[i].n <= made'[s[i].by]
               /\ \A f \in out \union {e} : s[i].by = f.by => s[i].n < f.n
    <3>1. s[i] \in EventsMade
      BY LenProperties, ElementOfSeq
    <3>2. s[i].n <= made[s[i].by] /\ \A f \in out : s[i].by = f.by => s[i].n < f.n
      BY <1>6 DEF EventsOlder
    <3>3. s[i].by = e.by => s[i].n < e.n
      BY <1>3, <1>5, <3>1, <3>2
    <3> QED BY <1>5, <3>1, <3>2, <3>3
  <2> QED BY <2>1 DEF EventsOlder
<1>7. EventsTyped' /\ EventsSuffix' /\ EventsSent'
  BY <1>1, <1>3, <1>4 DEF EventsIInv, EventsTyped, EventsSuffix, EventsSent, EventsRest
<1>8. EventsOneOnItsWay'
  <2>1. e \notin EventsHanded
    BY <1>3, <1>4
  <2> QED BY <1>1, <1>3, <1>4, <2>1 DEF EventsIInv, EventsOneOnItsWay, EventsHanded,
                                        EventsMade
<1>9. EventsOlder(log, made', writing \union {e}) /\ EventsOlder(delivered, made', EventsHanded \union {e})
  BY <1>6 DEF EventsIInv, EventsTyped, EventsStored, EventsHeard
<1>10. EventsStored' /\ EventsHeard'
  BY <1>1, <1>4, <1>9 DEF EventsIInv, EventsStored, EventsHeard, Events!InOrder
<1> QED BY <1>7, <1>8, <1>10 DEF EventsIInv

LEMMA EventsInsertKeeps ==
    ASSUME EventsIInv, NEW e \in writing, Events!Insert(e)
    PROVE  EventsIInv'
<1>1. /\ writing' = writing \ {e} /\ log' = Append(log, e)
      /\ resumable' = resumable \union {e}
      /\ UNCHANGED <<made, waiting, got, delivered>>
  BY DEF Events!Insert
<1>2. e \in EventsMade /\ e \in EventsHanded /\ EventsHanded' = EventsHanded
  BY <1>1 DEF EventsIInv, EventsTyped, EventsHanded
<1>3. e.n = made[e.by] /\ made[e.by] \in Nat /\ \A f \in writing' : f.by # e.by
  BY <1>1, <1>2 DEF EventsIInv, EventsOneOnItsWay, EventsHanded, EventsTyped, EventsMade
<1>4. log' \in Seq(EventsMade) /\ Events!ToSet(log') = Events!ToSet(log) \union {e}
  BY <1>1, <1>2, EventsAppended DEF EventsIInv, EventsTyped
<1>5. EventsTyped' /\ EventsSuffix' /\ EventsSent'
  BY <1>1, <1>2, <1>4 DEF EventsIInv, EventsTyped, EventsSuffix, EventsSent, EventsRest
<1>6. EventsOneOnItsWay'
  BY <1>1, <1>2 DEF EventsIInv, EventsOneOnItsWay
<1>7. EventsOlder(log', made, writing')
  <2>1. /\ log \in Seq(EventsMade) /\ writing' \in SUBSET writing
        /\ EventsOlder(log, made, writing)
        /\ e.n <= made[e.by]
    BY <1>1, <1>3 DEF EventsIInv, EventsTyped, EventsStored
  <2> QED BY <1>1, <1>2, <1>3, <2>1, EventsOlderAppended
<1>8. Events!InOrder(log')
  BY <1>1, <1>2, EventsOrderKept DEF EventsIInv, EventsTyped, EventsStored, EventsOlder
<1>9. EventsStored'
  BY <1>1, <1>4, <1>7, <1>8 DEF EventsIInv, EventsStored
<1>10. EventsHeard'
  BY <1>1, <1>2, <1>4 DEF EventsIInv, EventsHeard, Events!InOrder
<1> QED BY <1>5, <1>6, <1>9, <1>10 DEF EventsIInv

LEMMA EventsInsertFailsKeeps ==
    ASSUME EventsIInv, NEW e \in writing, Events!InsertFails(e)
    PROVE  EventsIInv'
<1>1. /\ writing' = writing \ {e}
      /\ UNCHANGED <<log, resumable, made, waiting, got, delivered>>
  BY DEF Events!InsertFails
<1>2. EventsHanded' \subseteq EventsHanded
  BY <1>1 DEF EventsHanded
<1>3. EventsTyped' /\ EventsSuffix' /\ EventsSent' /\ EventsOneOnItsWay'
  BY <1>1, <1>2 DEF EventsIInv, EventsTyped, EventsSuffix, EventsSent, EventsRest,
                    EventsOneOnItsWay
<1> QED BY <1>1, <1>2, <1>3 DEF EventsIInv, EventsStored, EventsHeard, EventsOlder,
                                Events!InOrder

\* The end of a sequence, after an event was put to both, or was taken from it.
LEMMA EventsEndsKept ==
    ASSUME NEW w \in Seq(EventsMade), NEW d \in Seq(EventsMade), NEW e \in EventsMade,
           EventsEnds(w, d)
    PROVE  /\ EventsEnds(Append(w, e), Append(d, e))
           /\ w # <<>> => EventsEnds(Tail(w), d)
<1>1. /\ Len(w) \in Nat /\ Len(d) \in Nat /\ Len(w) <= Len(d)
      /\ \A k \in 1..Len(w) : w[k] = d[(Len(d) - Len(w)) + k]
  BY LenProperties DEF EventsEnds
<1>2. EventsEnds(Append(w, e), Append(d, e))
  <2>1. /\ Len(Append(w, e)) = Len(w) + 1 /\ Len(Append(d, e)) = Len(d) + 1
        /\ \A k \in 1..Len(w) : Append(w, e)[k] = w[k]
        /\ \A k \in 1..Len(d) : Append(d, e)[k] = d[k]
        /\ Append(w, e)[Len(w) + 1] = e /\ Append(d, e)[Len(d) + 1] = e
    BY EventsAppended
  <2>2. ASSUME NEW k \in 1..(Len(w) + 1)
        PROVE  Append(w, e)[k] = Append(d, e)[(Len(d) - Len(w)) + k]
    <3>1. CASE k = Len(w) + 1
      <4>1. (Len(d) - Len(w)) + k = Len(d) + 1
        BY <1>1, <3>1
      <4> QED BY <2>1, <3>1, <4>1
    <3>2. CASE k \in 1..Len(w)
      <4>1. (Len(d) - Len(w)) + k \in 1..Len(d)
        BY <1>1, <3>2
      <4> QED BY <1>1, <2>1, <3>2, <4>1
    <3> QED BY <1>1, <3>1, <3>2
  <2>3. /\ Len(Append(d, e)) - Len(Append(w, e)) = Len(d) - Len(w)
        /\ Len(Append(w, e)) <= Len(Append(d, e))
    BY <1>1, <2>1
  <2>4. \A k \in 1..Len(Append(w, e)) :
          Append(w, e)[k] = Append(d, e)[(Len(Append(d, e)) - Len(Append(w, e))) + k]
    BY <2>1, <2>2, <2>3
  <2> QED BY <2>3, <2>4 DEF EventsEnds
<1>3. ASSUME w # <<>> PROVE EventsEnds(Tail(w), d)
  <2>1. /\ Tail(w) \in Seq(EventsMade) /\ Len(Tail(w)) = Len(w) - 1 /\ Len(w) >= 1
        /\ \A k \in 1..(Len(w) - 1) : Tail(w)[k] = w[k + 1]
    BY <1>1, <1>3, HeadTailProperties, EmptySeq
  <2>2. ASSUME NEW k \in 1..(Len(w) - 1) PROVE Tail(w)[k] = d[(Len(d) - (Len(w) - 1)) + k]
    <3>1. k + 1 \in 1..Len(w) /\ (Len(d) - Len(w)) + (k + 1) = (Len(d) - (Len(w) - 1)) + k
      BY <1>1
    <3>2. Tail(w)[k] = w[k + 1] /\ w[k + 1] = d[(Len(d) - Len(w)) + (k + 1)]
      BY <1>1, <2>1, <3>1
    <3> QED BY <3>1, <3>2
  <2> QED BY <1>1, <2>1, <2>2 DEF EventsEnds
<1> QED BY <1>2, <1>3

\* The end of what was broadcast stays in the queue, whatever the queue gives up.
LEMMA EventsPutKeeps ==
    ASSUME EventsIInv, NEW e \in EventsMade, Events!Put(e),
           delivered' = Append(delivered, e), got' = got
    PROVE  waiting' \in Seq(EventsMade) /\ delivered' \in Seq(EventsMade) /\ EventsSuffix' /\ EventsSent'
<1>1. /\ waiting \in Seq(EventsMade) /\ delivered \in Seq(EventsMade)
      /\ EventsEnds(waiting, delivered)
      /\ Len(waiting) \in Nat /\ Len(delivered) \in Nat
      /\ Len(waiting) <= Capacity /\ Capacity \in Nat /\ Capacity > 0
  BY LenProperties, CapacityAssumption DEF EventsIInv, EventsTyped, EventsSuffix
<1>2. /\ delivered' \in Seq(EventsMade) /\ Len(delivered') = Len(delivered) + 1
      /\ \A i \in 1..Len(delivered) : delivered'[i] = delivered[i]
  BY <1>1, EventsAppended
<1>3. /\ waiting' \in Seq(EventsMade) /\ EventsEnds(waiting', delivered')
      /\ Len(waiting') <= Capacity /\ Len(waiting') <= Len(waiting) + 1
      /\ Len(waiting') \in Nat
  <2>1. CASE Len(waiting) < Capacity
    <3>1. waiting' = Append(waiting, e)
      BY <2>1 DEF Events!Put
    <3>2. EventsEnds(waiting', delivered')
      BY <1>1, <3>1, EventsEndsKept
    <3>3. waiting' \in Seq(EventsMade) /\ Len(waiting') = Len(waiting) + 1
      BY <1>1, <3>1, EventsAppended
    <3> QED BY <1>1, <2>1, <3>2, <3>3
  <2>2. CASE ~(Len(waiting) < Capacity)
    <3>1. waiting' = Append(Tail(waiting), e) /\ Len(waiting) > 0
      BY <1>1, <2>2 DEF Events!Put
    <3>2. /\ Tail(waiting) \in Seq(EventsMade) /\ Len(Tail(waiting)) = Len(waiting) - 1
          /\ waiting # <<>>
      BY <1>1, <3>1, HeadTailProperties, EmptySeq
    <3>3. EventsEnds(Tail(waiting), delivered)
      BY <1>1, <3>2, EventsEndsKept
    <3>4. EventsEnds(waiting', delivered')
      BY <1>1, <3>1, <3>2, <3>3, EventsEndsKept
    <3>5. waiting' \in Seq(EventsMade) /\ Len(waiting') = Len(waiting)
      BY <1>1, <3>1, <3>2, EventsAppended
    <3> QED BY <1>1, <3>4, <3>5
  <2> QED BY <2>1, <2>2
<1>4. EventsSent'
  <2>1. /\ EventsRest = Len(delivered) - Len(waiting)
        /\ EventsRest' = Len(delivered') - Len(waiting')
    BY DEF EventsRest
  <2>2. ASSUME NEW i \in 1..EventsRest PROVE i \in 1..EventsRest' /\ delivered'[i] = delivered[i]
    BY <1>1, <1>2, <1>3, <2>1
  <2>3. ASSUME NEW c \in Client, NEW k \in DOMAIN got[c]
        PROVE  \E i \in 1..EventsRest' : got[c][k] = delivered'[i]
    <3>1. PICK i \in 1..EventsRest : got[c][k] = delivered[i]
      BY <2>3 DEF EventsIInv, EventsSent
    <3> QED BY <2>2, <3>1
  <2> QED BY <2>3 DEF EventsIInv, EventsSent, Events!InOrder
<1> QED BY <1>2, <1>3, <1>4 DEF EventsSuffix

LEMMA EventsNotifyKeeps ==
    ASSUME EventsIInv, NEW e \in resumable, Events!Notify(e)
    PROVE  EventsIInv'
<1>1. /\ resumable' = resumable \ {e} /\ delivered' = Append(delivered, e) /\ Events!Put(e)
      /\ UNCHANGED <<log, writing, made, got>>
  BY DEF Events!Notify
<1>2. e \in EventsMade /\ e \in EventsHanded /\ EventsHanded' \subseteq EventsHanded /\ e \notin EventsHanded'
  BY <1>1 DEF EventsIInv, EventsTyped, EventsHanded, EventsOneOnItsWay
<1>3. e.n = made[e.by] /\ made[e.by] \in Nat /\ \A f \in EventsHanded' : f.by # e.by
  BY <1>2 DEF EventsIInv, EventsOneOnItsWay, EventsTyped, EventsMade
<1>4. waiting' \in Seq(EventsMade) /\ delivered' \in Seq(EventsMade) /\ EventsSuffix' /\ EventsSent'
  BY <1>1, <1>2, EventsPutKeeps
<1>5. EventsTyped'
  BY <1>1, <1>4 DEF EventsIInv, EventsTyped
<1>6. EventsOneOnItsWay'
  BY <1>1, <1>2 DEF EventsIInv, EventsOneOnItsWay
<1>7. EventsStored'
  BY <1>1 DEF EventsIInv, EventsStored, EventsOlder, Events!InOrder
<1>8. EventsOlder(delivered', made, EventsHanded')
  <2>1. /\ delivered \in Seq(EventsMade) /\ EventsHanded' \in SUBSET EventsHanded
        /\ EventsOlder(delivered, made, EventsHanded) /\ e.n <= made[e.by]
    BY <1>2, <1>3 DEF EventsIInv, EventsTyped, EventsHeard
  <2> QED BY <1>1, <1>2, <1>3, <2>1, EventsOlderAppended
<1>9. Events!InOrder(delivered')
  BY <1>1, <1>2, EventsOrderKept DEF EventsIInv, EventsTyped, EventsHeard, EventsOlder
<1>10. Events!ToSet(delivered') \subseteq Events!ToSet(log)
  BY <1>1, <1>2, EventsAppended DEF EventsIInv, EventsTyped, EventsHeard, EventsStored
<1>11. EventsHeard'
  BY <1>1, <1>8, <1>9, <1>10 DEF EventsHeard
<1> QED BY <1>4, <1>5, <1>6, <1>7, <1>11 DEF EventsIInv

LEMMA EventsSendKeeps ==
    ASSUME EventsIInv, NEW c \in Client, Events!Send(c)
    PROVE  EventsIInv'
<1>1. /\ waiting # <<>> /\ waiting' = Tail(waiting)
      /\ got' = [got EXCEPT ![c] = Append(got[c], Head(waiting))]
      /\ UNCHANGED <<log, writing, resumable, made, delivered>>
  BY DEF Events!Send
<1>2. /\ waiting \in Seq(EventsMade) /\ delivered \in Seq(EventsMade)
      /\ got[c] \in Seq(EventsMade)
      /\ got \in [Client -> Seq(EventsMade)]
  BY DEF EventsIInv, EventsTyped
<1>3. /\ Head(waiting) \in EventsMade /\ Head(waiting) = waiting[1]
      /\ waiting' \in Seq(EventsMade) /\ Len(waiting') = Len(waiting) - 1
      /\ \A k \in 1..Len(waiting') : waiting'[k] = waiting[k + 1]
      /\ Len(waiting) \in Nat /\ Len(waiting) > 0 /\ Len(delivered) \in Nat
  BY <1>1, <1>2, HeadTailProperties, EmptySeq, LenProperties
<1>4. /\ EventsRest' = EventsRest + 1 /\ EventsRest \in Nat
      /\ EventsRest' \in 1..Len(delivered)
      /\ Capacity \in Nat
  BY <1>1, <1>3, CapacityAssumption DEF EventsRest, EventsIInv, EventsSuffix, EventsEnds
<1>5. Head(waiting) = delivered[EventsRest']
  BY <1>3, <1>4 DEF EventsIInv, EventsSuffix, EventsEnds, EventsRest
<1>6. EventsSuffix'
  <2>0. EventsEnds(waiting, delivered)
    BY DEF EventsIInv, EventsSuffix
  <2>1. EventsEnds(waiting', delivered)
    BY <1>1, <1>2, <1>3, <2>0, EventsEndsKept
  <2>2. Len(waiting) <= Capacity
    BY <1>3 DEF EventsIInv, EventsSuffix
  <2> QED BY <1>1, <1>3, <1>4, <2>1, <2>2 DEF EventsSuffix
<1>7. /\ got' \in [Client -> Seq(EventsMade)] /\ got'[c] = Append(got[c], Head(waiting))
      /\ \A d \in Client : d # c => got'[d] = got[d]
  BY <1>1, <1>2, <1>3, EventsAppended
<1>8. ASSUME NEW d \in Client
      PROVE  /\ \A k \in DOMAIN got'[d] : \E i \in 1..EventsRest' : got'[d][k] = delivered[i]
             /\ Events!InOrder(got'[d])
  <2>1. CASE d # c
    <3>1. /\ \A k \in DOMAIN got[d] : \E i \in 1..EventsRest : got[d][k] = delivered[i]
          /\ Events!InOrder(got[d]) /\ got'[d] = got[d]
      BY <1>7, <2>1 DEF EventsIInv, EventsSent
    <3>2. 1..EventsRest \subseteq 1..EventsRest'
      BY <1>4
    <3> QED BY <3>1, <3>2
  <2>2. CASE d = c
    <3>1. \A k \in DOMAIN got[c] : \E i \in 1..EventsRest : got[c][k] = delivered[i]
      BY DEF EventsIInv, EventsSent
    <3>2. \A k \in DOMAIN got'[c] : \E i \in 1..EventsRest' : got'[c][k] = delivered[i]
      <4> SUFFICES ASSUME NEW k \in 1..(Len(got[c]) + 1)
                   PROVE  \E i \in 1..EventsRest' : got'[c][k] = delivered[i]
        BY <1>2, <1>3, <1>7, EventsAppended
      <4>1. CASE k = Len(got[c]) + 1
        <5>1. got'[c][k] = delivered[EventsRest'] /\ EventsRest' \in 1..EventsRest'
          BY <1>2, <1>3, <1>4, <1>5, <1>7, <4>1, EventsAppended
        <5> QED BY <5>1
      <4>2. CASE k \in 1..Len(got[c])
        <5>1. got'[c][k] = got[c][k] /\ k \in DOMAIN got[c]
          BY <1>2, <1>3, <1>7, <4>2, EventsAppended
        <5> QED BY <1>4, <3>1, <5>1
      <4> QED BY <1>2, <4>1, <4>2, LenProperties
    <3>3. \A k \in DOMAIN got[c] : got[c][k].by = Head(waiting).by => got[c][k].n < Head(waiting).n
      <4> SUFFICES ASSUME NEW k \in DOMAIN got[c], got[c][k].by = Head(waiting).by
                   PROVE  got[c][k].n < Head(waiting).n
        OBVIOUS
      <4>1. PICK i \in 1..EventsRest : got[c][k] = delivered[i]
        BY <3>1
      <4>2. i < EventsRest' /\ i \in DOMAIN delivered /\ EventsRest' \in DOMAIN delivered
        BY <1>2, <1>4, LenProperties
      <4> QED BY <1>5, <4>1, <4>2 DEF EventsIInv, EventsHeard, Events!InOrder
    <3>4. Events!InOrder(got'[c])
      BY <1>2, <1>3, <1>7, <3>3, EventsOrderKept DEF EventsIInv, EventsSent
    <3> QED BY <2>2, <3>2, <3>4
  <2> QED BY <2>1, <2>2
<1>9. EventsSent'
  <2>1. delivered' = delivered
    BY <1>1
  <2>2. \A d \in Client : Events!InOrder(got[d])' <=> Events!InOrder(got'[d])
    BY DEF Events!InOrder
  <2> QED BY <1>8, <2>1, <2>2, Zenon DEF EventsSent
<1>10. EventsTyped'
  BY <1>1, <1>3, <1>7 DEF EventsIInv, EventsTyped
<1> QED BY <1>1, <1>6, <1>9, <1>10 DEF EventsIInv, EventsOneOnItsWay, EventsStored,
                                       EventsHeard, EventsOlder, Events!InOrder,
                                       EventsHanded

LEMMA EventsInductive == EventsIInv /\ [Events!Next]_(Events!vars) => EventsIInv'
<1> SUFFICES ASSUME EventsIInv, [Events!Next]_(Events!vars) PROVE EventsIInv'
  OBVIOUS
<1>1. ASSUME UNCHANGED <<log, writing, resumable, made, waiting, got, delivered>>
      PROVE  EventsIInv'
  BY <1>1 DEF EventsIInv, EventsTyped, EventsOneOnItsWay, EventsStored, EventsHeard,
              Events!InOrder, EventsSuffix, EventsSent, EventsHanded, EventsRest
<1>2. ASSUME NEW c \in Client, Events!Connect(c) \/ Events!Disconnect(c) PROVE EventsIInv'
  BY <1>1, <1>2 DEF Events!Connect, Events!Disconnect
<1>3. CASE UNCHANGED Events!vars
  BY <1>1, <1>3 DEF Events!vars
<1> QED BY <1>2, <1>3, EventsEmitKeeps, EventsInsertKeeps, EventsInsertFailsKeeps,
           EventsNotifyKeeps, EventsSendKeeps DEF Events!Next

\* What is not waiting was broadcast before what is.
LEMMA EventsNewest == EventsIInv => Events!NewestKept
<1> SUFFICES ASSUME EventsIInv, NEW i \in DOMAIN delivered,
                    delivered[i] \notin Events!ToSet(waiting),
                    NEW j \in DOMAIN delivered, delivered[j] \in Events!ToSet(waiting)
             PROVE  i < j
  BY DEF Events!NewestKept
<1>1. /\ DOMAIN delivered = 1..Len(delivered) /\ Len(delivered) \in Nat
      /\ DOMAIN waiting = 1..Len(waiting) /\ Len(waiting) \in Nat
      /\ Len(waiting) <= Len(delivered)
  BY LenProperties DEF EventsIInv, EventsTyped, EventsSuffix, EventsEnds
<1>2. ASSUME NEW m \in DOMAIN delivered, m > EventsRest
      PROVE  delivered[m] \in Events!ToSet(waiting)
  <2>1. m - EventsRest \in DOMAIN waiting /\ EventsRest + (m - EventsRest) = m
    BY <1>1, <1>2 DEF EventsRest
  <2>2. waiting[m - EventsRest] = delivered[m]
    BY <1>1, <2>1 DEF EventsIInv, EventsSuffix, EventsEnds, EventsRest
  <2> QED BY <2>1, <2>2 DEF Events!ToSet
<1>3. i <= EventsRest
  BY <1>1, <1>2 DEF EventsRest
<1>4. PICK k \in DOMAIN waiting : delivered[j] = waiting[k]
  BY DEF Events!ToSet
<1>5. delivered[j] = delivered[EventsRest + k] /\ EventsRest + k \in DOMAIN delivered /\ EventsRest + k > EventsRest
  BY <1>1, <1>4 DEF EventsIInv, EventsSuffix, EventsEnds, EventsRest
<1>6. \A m \in DOMAIN delivered : delivered[m].n \in Nat
  <2>1. \A m \in DOMAIN delivered : delivered[m] \in EventsMade
    BY <1>1, ElementOfSeq DEF EventsIInv, EventsTyped
  <2> QED BY <2>1 DEF EventsMade
<1>7. j = EventsRest + k
  <2>1. ~(j < EventsRest + k) /\ ~(EventsRest + k < j)
    BY <1>5, <1>6 DEF EventsIInv, EventsHeard, Events!InOrder
  <2> QED BY <1>1, <1>5, <2>1 DEF EventsRest
<1> QED BY <1>1, <1>3, <1>5, <1>7 DEF EventsRest

-----------------------------------------------------------------------------
(* The services together: each is one part of a behaviour of all of them. *)

\* A step of all the services is, to one of them, a step of its own or none.
LEMMA StepsAreParts ==
    ASSUME [ServicesNext]_allVars
    PROVE  /\ [Next]_vars /\ [Jobs!Next]_(Jobs!vars) /\ [Weights!Next]_(Weights!vars)
           /\ [Gap!Next]_(Gap!vars) /\ [Events!Next]_(Events!vars)
           /\ [Updates!Next]_(Updates!vars)
<1> USE DEF ServicesNext, storeOnly, schedulerOnly, trainingOnly, gapsOnly, eventsOnly,
        updatesOnly, storeVars, schedulerVars, trainingVars, gapsVars, eventsVars,
        updatesVars, allVars
<1>1. [Next]_vars
  OBVIOUS
<1>2. [Jobs!Next]_(Jobs!vars)
  BY DEF Jobs!vars
<1>3. [Weights!Next]_(Weights!vars)
  BY DEF Weights!vars, Weights!weights
<1>4. [Gap!Next]_(Gap!vars)
  BY DEF Gap!vars
<1>5. [Events!Next]_(Events!vars)
  BY DEF Events!vars
<1>6. [Updates!Next]_(Updates!vars)
  BY DEF Updates!vars
<1> QED BY <1>1, <1>2, <1>3, <1>4, <1>5, <1>6

\* A job has one loop at a time and the late end of an earlier start() stops nobody:
\* for any jobs, through stops, cancellations and new starts (scheduler.py:139-156).
THEOREM SchedulerIsOne == ServicesSpec => []OneScheduler
<1>1. ServicesInit => Jobs!Init
  BY DEF ServicesInit
<1>2. [ServicesNext]_allVars => [Jobs!Next]_(Jobs!vars)
  BY StepsAreParts
<1>3. JobsIInv => OneScheduler
  BY JobsOneLoop DEF OneScheduler
<1> QED BY <1>1, <1>2, <1>3, JobsInitially, JobsInductive, PTL DEF ServicesSpec

\* A module that has had a whole set of weights keeps one, and serves only weights that
\* passed, or that were trained while two trainings overlapped (base.py:155-174).
THEOREM WeightsKept == ServicesSpec => []WeightsAreSound
<1>1. ServicesInit => Weights!Init
  BY DEF ServicesInit
<1>2. [ServicesNext]_allVars => [Weights!Next]_(Weights!vars)
  BY StepsAreParts
<1>3. WeightsIInv => WeightsAreSound
  BY WeightsSound DEF WeightsAreSound
<1> QED BY <1>1, <1>2, <1>3, WeightsInitially, WeightsInductive, PTL DEF ServicesSpec

\* Each task's events are stored, broadcast and sent in its order, and none is heard of
\* that is not stored; a full queue gives up old events only (event_stream.py:16).
THEOREM EventsKept == ServicesSpec => []EventsInOrder
<1>1. ServicesInit => Events!Init
  BY DEF ServicesInit
<1>2. [ServicesNext]_allVars => [Events!Next]_(Events!vars)
  BY StepsAreParts
<1>3. EventsIInv => EventsInOrder
  BY EventsNewest DEF EventsInOrder, EventsIInv, EventsStored, EventsHeard, EventsSent,
     Events!TaskOrder, Events!HeardIsStored
<1> QED BY <1>1, <1>2, <1>3, EventsInitially, EventsInductive, PTL DEF ServicesSpec

\* No step of any service goes back: no topic leaves the queue untried, no score in the
\* table is overwritten by an older one, a job given up stays so until the next start(),
\* and the way back from an update is kept (gap_detector.py, state.py:166, scheduler.py,
\* updater.py:181-284).
THEOREM NothingGoesBack == ServicesSpec => NoStepBack
<1>1. ServicesInit => Init /\ Jobs!Init /\ Gap!Init /\ Updates!Init
  BY DEF ServicesInit
<1>2. [ServicesNext]_allVars => /\ [Next]_vars /\ [Jobs!Next]_(Jobs!vars)
                                /\ [Gap!Next]_(Gap!vars) /\ [Updates!Next]_(Updates!vars)
  BY StepsAreParts
<1>3. ServicesSpec => NeverOlder
  <2>1. [NoneOlder]_vars => [\A m \in Module : db'[m] >= db[m]]_vars
    BY DEF NoneOlder
  <2> QED BY <1>1, <1>2, <2>1, Initially, TurnsInitially, TurnsInductive, PTL
          DEF ServicesSpec, Stored, NeverOlder
<1>4. ServicesSpec => Jobs!AbandonedStays
  BY <1>1, <1>2, JobsInitially, JobsInductive, JobsAbandons, PTL
     DEF ServicesSpec, Jobs!AbandonedStays
<1>5. ServicesSpec => Gap!NoGapForgotten
  BY <1>1, <1>2, GapInitially, GapInductive, GapForgets, PTL
     DEF ServicesSpec, Gap!NoGapForgotten
<1>6. ServicesSpec => []Updates!UndoIsKept
  <2>1. UpdatesIInv => Updates!UndoIsKept
    BY DEF UpdatesIInv
  <2> QED BY <1>1, <1>2, <2>1, UpdatesInitially, UpdatesInductive, PTL DEF ServicesSpec
<1> QED BY <1>3, <1>4, <1>5, <1>6 DEF NoStepBack

\* While the store of the services runs it loses no training pair, and its table is
\* current when its queue is drained.
THEOREM StoreIsConserved == ServicesSpec => [](PairsConserved /\ DrainedIsCurrent)
<1>1. ServicesInit => Init
  BY DEF ServicesInit
<1>2. [ServicesNext]_allVars => [Next]_vars
  BY StepsAreParts
<1>3. IInv => PairsConserved /\ DrainedIsCurrent
  BY Conserved, Drained
<1> QED BY <1>1, <1>2, <1>3, Initially, Inductive, PTL DEF ServicesSpec
=============================================================================
