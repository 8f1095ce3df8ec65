---------------------------- MODULE Retrieval_proofs ----------------------------
(***************************************************************************)
(* What the retrieval promises a prompt, for any entries, graph, limits    *)
(* and budgets (Limited), and any number of failures and deletions; and    *)
(* what the chunker keeps of a text, for any windows that overlap by at    *)
(* least a short chunk (Windows).  The module of the whole request makes   *)
(* an instance of this one: here the two are proved about as they stand.   *)
(***************************************************************************)
EXTENDS Retrieval, Chunker,
        SequenceTheorems, FiniteSetTheorems, WellFoundedInduction, TLAPS

\* There is a least of any numbers.
Less == {p \in Nat \X Nat : p[1] < p[2]}
LEMMA LeastOf == ASSUME NEW T, T \subseteq Nat, T # {}
                 PROVE  \E m \in T : \A n \in T : m <= n
<1>1. IsWellFoundedOn(Less, Nat)
  BY NatLessThanWellFounded DEF OpToRel, Less
<1>2. PICK m \in T : \A n \in T : ~(<<n, m>> \in Less)
  BY <1>1, WFMin
<1>3. ASSUME NEW n \in T PROVE m <= n
  <2>1. m \in Nat /\ n \in Nat /\ ~(<<n, m>> \in Less)
    BY <1>2
  <2>2. ~(n < m)
    BY <2>1 DEF Less
  <2> QED BY <2>1, <2>2
<1> QED BY <1>3

\* Of some numbers up to n one is the greatest.
LEMMA Greatest ==
    ASSUME NEW n \in Nat, NEW T, T \subseteq 0..n, T # {}
    PROVE  \E m \in T : \A k \in T : k <= m
<1> DEFINE far == {n - k : k \in T}
<1>1. far \subseteq Nat /\ far # {}
  <2>1. \A k \in 0..n : n - k \in Nat
    OBVIOUS
  <2> QED BY <2>1
<1>2. PICK f \in far : \A g \in far : f <= g
  <2> HIDE DEF far
  <2> QED BY <1>1, LeastOf
<1>3. PICK m \in T : f = n - m
  OBVIOUS
<1>4. \A k \in T : n - m <= n - k
  BY <1>2, <1>3
<1> QED BY <1>4

\* What holds of 0, and of n + 1 if of n, holds of every number.
LEMMA Induction ==
    ASSUME NEW T, 0 \in T, \A n \in Nat : n \in T => n + 1 \in T PROVE Nat \subseteq T
<1> SUFFICES ASSUME Nat \ T # {} PROVE FALSE
  OBVIOUS
<1>1. PICK m \in Nat \ T : \A n \in Nat \ T : m <= n
  BY LeastOf
<1>2. m - 1 \in Nat /\ (m - 1) + 1 = m
  BY <1>1
<1>3. m - 1 \in T
  BY <1>1, <1>2
<1> QED BY <1>1, <1>2, <1>3

\* The same of the numbers up to N.
LEMMA UpToAll ==
    ASSUME NEW N \in Nat, NEW T, 0 \in T, \A n \in 1..N : n - 1 \in T => n \in T
    PROVE  0..N \subseteq T
<1> DEFINE U == {n \in Nat : n <= N => n \in T}
<1>1. 0 \in U
  OBVIOUS
<1>2. ASSUME NEW n \in Nat, n \in U PROVE n + 1 \in U
  <2>1. CASE n + 1 <= N
    <3>1. n + 1 \in 1..N /\ (n + 1) - 1 = n /\ n <= N
      BY <2>1
    <3> QED BY <1>2, <3>1
  <2> QED BY <2>1
<1> HIDE DEF U
<1>3. Nat \subseteq U
  BY <1>1, <1>2, Induction
<1> QED BY <1>3 DEF U

\* There is a function defined by recursion over the numbers up to N.
Follows(f, N, S, base, step) ==
    f \in [0..N -> S] /\ f[0] = base /\ \A n \in 1..N : f[n] = step[n, f[n - 1]]
LEMMA Recursion ==
    ASSUME NEW N \in Nat, NEW S, NEW base \in S, NEW step \in [(1..N) \X S -> S]
    PROVE  \E f : Follows(f, N, S, base, step)
<1> DEFINE Good(k, f) == f[0] = base /\ \A n \in 1..k : f[n] = step[n, f[n - 1]]
           T == {k \in 0..N : \E f \in [0..k -> S] : Good(k, f)}
<1>1. 0 \in T
  <2> DEFINE f == [n \in 0..0 |-> base]
  <2>1. f \in [0..0 -> S] /\ Good(0, f)
    OBVIOUS
  <2> HIDE DEF f, Good
  <2>2. 0 \in 0..N
    OBVIOUS
  <2> QED BY <2>1, <2>2
<1>2. ASSUME NEW k \in 1..N, k - 1 \in T PROVE k \in T
  <2>1. PICK f \in [0..(k - 1) -> S] : Good(k - 1, f)
    BY <1>2
  <2> DEFINE g == [n \in 0..k |-> IF n = k THEN step[k, f[k - 1]] ELSE f[n]]
  <2>2. k \in 0..N /\ k - 1 \in 0..(k - 1) /\ \A n \in 0..k : n = k \/ n \in 0..(k - 1)
    OBVIOUS
  <2>3. step[k, f[k - 1]] \in S
    BY <2>1, <2>2
  <2>4. g \in [0..k -> S]
    BY <2>1, <2>2, <2>3
  <2>5. g[0] = base /\ g[k] = step[k, f[k - 1]] /\ \A n \in 0..(k - 1) : g[n] = f[n]
    <3>1. \A n \in 0..(k - 1) : n \in 0..k /\ n # k
      OBVIOUS
    <3>2. 0 \in 0..(k - 1) /\ k \in 0..k
      OBVIOUS
    <3> QED BY <2>1, <3>1, <3>2
  <2> HIDE DEF g
  <2>6. ASSUME NEW n \in 1..k PROVE g[n] = step[n, g[n - 1]]
    <3>1. n = k \/ (n \in 1..(k - 1) /\ n \in 0..(k - 1))
      OBVIOUS
    <3>2. n - 1 \in 0..(k - 1)
      OBVIOUS
    <3>3. g[n - 1] = f[n - 1]
      BY <2>5, <3>2
    <3> QED BY <2>1, <2>5, <3>1, <3>3
  <2>7. Good(k, g)
    BY <2>5, <2>6
  <2> QED BY <2>2, <2>4, <2>7
<1> HIDE DEF T
<1>3. N \in T
  BY <1>1, <1>2, UpToAll
<1> QED BY <1>3 DEF T, Follows

\* In a strict total order of a finite set there is one element with each rank.
LEMMA Ranking ==
    ASSUME NEW S, IsFiniteSet(S), NEW R,
           \A x \in S : <<x, x>> \notin R,
           \A x, y, z \in S : <<x, y>> \in R /\ <<y, z>> \in R => <<x, z>> \in R,
           \A x, y \in S : x # y => <<x, y>> \in R \/ <<y, x>> \in R
    PROVE  \A k \in 1..Cardinality(S) :
              \E x \in S : /\ Cardinality({y \in S : <<y, x>> \in R}) = k - 1
                         /\ \A z \in S : Cardinality({y \in S : <<y, z>> \in R}) = k - 1 => z = x
<1> DEFINE n == Cardinality(S)
           below(x) == {y \in S : <<y, x>> \in R}
           rank == [x \in S |-> Cardinality(below(x)) + 1]
<1>1. n \in Nat
  BY FS_CardinalityType
<1>2. ASSUME NEW x \in S PROVE IsFiniteSet(below(x)) /\ Cardinality(below(x)) \in 0..(n - 1)
  <2>1. below(x) \subseteq S \ {x}
    OBVIOUS
  <2>2. IsFiniteSet(S \ {x}) /\ Cardinality(S \ {x}) = n - 1
    BY FS_RemoveElement
  <2> HIDE DEF below, n
  <2>3. IsFiniteSet(below(x)) /\ Cardinality(below(x)) <= n - 1
    BY <2>1, <2>2, FS_Subset
  <2>4. Cardinality(below(x)) \in Nat
    BY <2>3, FS_CardinalityType
  <2> QED BY <1>1, <2>3, <2>4
<1>3. ASSUME NEW x \in S, NEW y \in S, <<x, y>> \in R PROVE rank[x] < rank[y]
  <2>1. below(x) \union {x} \subseteq below(y) /\ x \notin below(x)
    BY <1>3
  <2>2. Cardinality(below(x) \union {x}) = Cardinality(below(x)) + 1
    BY <1>2, <2>1, FS_AddElement
  <2>3. Cardinality(below(x) \union {x}) <= Cardinality(below(y))
    BY <1>2, <2>1, FS_Subset
  <2>4. Cardinality(below(x)) \in Nat /\ Cardinality(below(y)) \in Nat
    BY <1>2
  <2> HIDE DEF below
  <2> QED BY <2>2, <2>3, <2>4
<1>4. rank \in [S -> 1..n]
  <2>1. ASSUME NEW x \in S PROVE Cardinality(below(x)) + 1 \in 1..n
    <3>1. Cardinality(below(x)) \in 0..(n - 1)
      BY <1>2
    <3> HIDE DEF below, n
    <3> QED BY <1>1, <3>1
  <2> QED BY <2>1
<1>5. \A x, y \in S : rank[x] = rank[y] => x = y
  <2> SUFFICES ASSUME NEW x \in S, NEW y \in S, x # y PROVE rank[x] # rank[y]
    OBVIOUS
  <2>1. rank[x] < rank[y] \/ rank[y] < rank[x]
    BY <1>3
  <2>2. rank[x] \in Nat /\ rank[y] \in Nat
    BY <1>4
  <2> HIDE DEF rank
  <2> QED BY <2>1, <2>2
<1> HIDE DEF rank
<1>6. rank \in Injection(S, 1..n)
  BY <1>4, <1>5 DEF Injection, IsInjective
<1>7. IsFiniteSet(1..n) /\ Cardinality(1..n) = n
  BY <1>1, FS_Interval
<1>8. rank \in Surjection(S, 1..n)
  BY <1>6, <1>7, FS_Injection
<1> SUFFICES ASSUME NEW k \in 1..n
             PROVE  \E x \in S : /\ Cardinality(below(x)) = k - 1
                                /\ \A z \in S : Cardinality(below(z)) = k - 1 => z = x
  OBVIOUS
<1>9. PICK x \in S : rank[x] = k
  BY <1>8 DEF Surjection
<1>a. \A z \in S : Cardinality(below(z)) \in Nat
  <2> HIDE DEF below, n
  <2> QED BY <1>1, <1>2
<1>b. \A z \in S : rank[z] = Cardinality(below(z)) + 1
  BY DEF rank
<1> HIDE DEF below
<1>10. \A z \in S : rank[z] = Cardinality(below(z)) + 1 /\ Cardinality(below(z)) \in Nat
  BY <1>a, <1>b
<1>11. Cardinality(below(x)) = k - 1
  BY <1>9, <1>10
<1>12. ASSUME NEW z \in S, Cardinality(below(z)) = k - 1 PROVE z = x
  <2>1. rank[z] = k
    BY <1>10, <1>12
  <2> QED BY <1>5, <1>9, <2>1
<1> QED BY <1>11, <1>12

\* What is assumed of the constants.
LEMMA Limits ==
    ASSUME Limited
    PROVE  /\ Entry \subseteq Nat /\ IsFiniteSet(Entry) /\ Budgets \subseteq Nat
           /\ Limit \in Nat /\ MaxHops \in Nat \ {0} /\ MaxNodes \in Nat \ {0}
BY DEF Limited

Block == [primary : Entry, merged : Seq(Entry)]
\* An entry is at a place of the blocks.
At(blocks, k, i, x) ==
    k \in 1..Len(blocks) /\ i \in 1..Len(AllOf(blocks[k])) /\ AllOf(blocks[k])[i] = x
\* No entry is at two places; those that are at one are these.
Apart(blocks) ==
    \A k, l, i, j, x : At(blocks, k, i, x) /\ At(blocks, l, j, x) => k = l /\ i = j
Cover(blocks, E) == \A x : (\E k, i : At(blocks, k, i, x)) <=> x \in E

LEMMA InBlock ==
    ASSUME Limited, NEW b \in Block
    PROVE  /\ AllOf(b) \in Seq(Entry) /\ Len(AllOf(b)) = Len(b.merged) + 1
           /\ AllOf(b)[1] = b.primary /\ DOMAIN AllOf(b) = 1..Len(AllOf(b))
           /\ Len(AllOf(b)) \in Nat
           /\ \A i \in 1..Len(b.merged) : AllOf(b)[i + 1] = b.merged[i]
           /\ \A i \in 2..Len(AllOf(b)) : AllOf(b)[i] = b.merged[i - 1]
<1>1. <<b.primary>> \in Seq(Entry) /\ b.merged \in Seq(Entry) /\ Len(<<b.primary>>) = 1
      /\ Len(b.merged) \in Nat /\ <<b.primary>>[1] = b.primary
  BY LenProperties DEF Block
<1> DEFINE s == <<b.primary>>
<1>2. s \in Seq(Entry) /\ Len(s) = 1 /\ s[1] = b.primary /\ AllOf(b) = s \o b.merged
  BY <1>1 DEF AllOf
<1> HIDE DEF s
<1> DEFINE t == b.merged
<1>4. s \in Seq(Entry) /\ t \in Seq(Entry)
  BY <1>1, <1>2
<1> HIDE DEF t
<1>5. /\ s \o t \in Seq(Entry) /\ Len(s \o t) = Len(s) + Len(t)
      /\ \A i \in 1..(Len(s) + Len(t)) : (s \o t)[i] = IF i <= Len(s) THEN s[i] ELSE t[i - Len(s)]
  BY <1>4, ConcatProperties
<1>3. /\ AllOf(b) \in Seq(Entry) /\ Len(AllOf(b)) = 1 + Len(b.merged)
      /\ \A i \in 1..(1 + Len(b.merged)) : AllOf(b)[i] = IF i <= 1 THEN s[i] ELSE b.merged[i - 1]
  BY <1>2, <1>5 DEF t
<1> QED BY <1>1, <1>2, <1>3, LenProperties

\* An entry appended to a block.
LEMMA Grown ==
    ASSUME Limited, NEW b \in Block, NEW e \in Entry
    PROVE  LET c == [b EXCEPT !.merged = Append(@, e)]
           IN  /\ c \in Block /\ c.primary = b.primary /\ Len(AllOf(c)) = Len(AllOf(b)) + 1
               /\ \A i \in 1..Len(AllOf(b)) : AllOf(c)[i] = AllOf(b)[i]
               /\ AllOf(c)[Len(AllOf(b)) + 1] = e
<1> DEFINE c == [b EXCEPT !.merged = Append(@, e)]
<1>1. b.merged \in Seq(Entry) /\ b.primary \in Entry
  BY DEF Block
<1>2. c.merged = Append(b.merged, e) /\ c.primary = b.primary /\ c \in Block
  BY <1>1, AppendProperties DEF Block
<1> HIDE DEF c
<1>3. /\ Len(c.merged) = Len(b.merged) + 1 /\ Len(b.merged) \in Nat
      /\ \A i \in 1..Len(b.merged) : c.merged[i] = b.merged[i]
      /\ c.merged[Len(b.merged) + 1] = e
  BY <1>1, <1>2, AppendProperties, LenProperties
<1>4. Len(AllOf(c)) = Len(AllOf(b)) + 1 /\ Len(AllOf(b)) = Len(b.merged) + 1
  BY <1>2, <1>3, InBlock
<1>5. AllOf(c)[Len(AllOf(b)) + 1] = e
  <2>1. AllOf(c)[(Len(b.merged) + 1) + 1] = c.merged[Len(b.merged) + 1]
    BY <1>2, <1>3, InBlock, SMTT(30)
  <2> QED BY <1>3, <1>4, <2>1
<1>6. ASSUME NEW i \in 1..Len(AllOf(b)) PROVE AllOf(c)[i] = AllOf(b)[i]
  <2>1. CASE i = 1
    BY <1>2, <2>1, InBlock
  <2>2. CASE i # 1
    <3>1. i - 1 \in 1..Len(b.merged) /\ (i - 1) + 1 = i /\ i - 1 \in 1..Len(c.merged)
      BY <1>3, <1>4, <2>2
    <3>2. AllOf(b)[(i - 1) + 1] = b.merged[i - 1]
      BY <3>1, InBlock
    <3>3. AllOf(c)[(i - 1) + 1] = c.merged[i - 1]
      BY <1>2, <3>1, InBlock
    <3> QED BY <1>3, <3>1, <3>2, <3>3
  <2> QED BY <2>1, <2>2
<1> QED BY <1>2, <1>4, <1>5, <1>6 DEF c

\* An entry that is nowhere joins the block of its contents, or gets one of its own.
OfContents(blocks, same) ==
    \A k, l \in 1..Len(blocks) : same[blocks[k].primary] = same[blocks[l].primary] => k = l
LEMMA Joined ==
    ASSUME Limited, NEW B \in Seq(Block), NEW same, NEW e \in Entry, NEW E, e \notin E,
           Apart(B), Cover(B, E), OfContents(B, same)
    PROVE  LET J == Join(B, e, same)
           IN  /\ J \in Seq(Block) /\ Apart(J) /\ Cover(J, E \union {e})
               /\ OfContents(J, same)
<1> DEFINE J == Join(B, e, same)
<1>1. Len(B) \in Nat /\ DOMAIN B = 1..Len(B) /\ \A k \in 1..Len(B) : B[k] \in Block
  BY LenProperties
<1> DEFINE Adds(C, K, I) ==
             \A k, i, x : At(C, k, i, x) <=> At(B, k, i, x) \/ (k = K /\ i = I /\ x = e)
<1>2. ASSUME NEW K, NEW I, NEW C, Adds(C, K, I)
      PROVE  Apart(C) /\ Cover(C, E \union {e})
  <2>1. \A k, i : ~At(B, k, i, e)
    BY DEF Cover
  <2>2. Apart(C)
    BY <1>2, <2>1 DEF Apart
  <2>3. Cover(C, E \union {e})
    BY <1>2 DEF Cover
  <2> QED BY <2>2, <2>3
<1> HIDE DEF Adds
<1>3. CASE \E k \in 1..Len(B) : same[B[k].primary] = same[e]
  <2>1. PICK K \in 1..Len(B) : same[B[K].primary] = same[e]
    BY <1>3
  <2>2. \A k \in 1..Len(B) : same[B[k].primary] = same[e] <=> k = K
    BY <2>1 DEF OfContents
  <2> DEFINE c == [B[K] EXCEPT !.merged = Append(@, e)]
             I == Len(AllOf(B[K])) + 1
  <2>3. J = [k \in 1..Len(B) |-> IF k = K THEN c ELSE B[k]]
    BY <1>1, <1>3, <2>2 DEF Join
  <2>4. /\ c \in Block /\ c.primary = B[K].primary /\ Len(AllOf(c)) = I
        /\ \A i \in 1..Len(AllOf(B[K])) : AllOf(c)[i] = AllOf(B[K])[i]
        /\ AllOf(c)[I] = e
    BY <1>1, Grown
  <2>5. Len(AllOf(B[K])) \in Nat
    BY <1>1, InBlock
  <2> HIDE DEF J, c
  <2>6. J \in [1..Len(B) -> Block] /\ J[K] = c /\ \A k \in 1..Len(B) : k # K => J[k] = B[k]
    BY <1>1, <2>3, <2>4
  <2>7. J \in Seq(Block) /\ Len(J) = Len(B)
    <3>1. J \in Seq(Block)
      BY <1>1, <2>6, SeqDef
    <3>2. DOMAIN J = 1..Len(B)
      BY <2>3
    <3> QED BY <1>1, <3>1, <3>2, LenProperties
  <2>8. \A k, i, x : At(J, k, i, x) <=> At(B, k, i, x) \/ (k = K /\ i = I /\ x = e)
    <3> SUFFICES ASSUME NEW k \in 1..Len(B), NEW i, NEW x
                 PROVE  At(J, k, i, x) <=> At(B, k, i, x) \/ (k = K /\ i = I /\ x = e)
      <4> HIDE DEF I
      <4> QED BY <2>1, <2>7, ZenonT(30) DEF At
    <3>1. CASE k # K
      BY <2>6, <2>7, <3>1 DEF At
    <3>2. CASE k = K
      <4>1. i \in 1..I <=> i \in 1..Len(AllOf(B[K])) \/ i = I
        BY <2>5
      <4>2. I \notin 1..Len(AllOf(B[K]))
        BY <2>5
      <4> QED BY <2>4, <2>6, <2>7, <3>2, <4>1, <4>2 DEF At
    <3> QED BY <3>1, <3>2
  <2>9. OfContents(J, same)
    <3>1. \A k \in 1..Len(B) : J[k].primary = B[k].primary
      BY <2>4, <2>6
    <3> QED BY <2>7, <3>1 DEF OfContents
  <2>10. Apart(J) /\ Cover(J, E \union {e})
    <3>1. Adds(J, K, I)
      BY <2>8 DEF Adds
    <3> HIDE DEF I
    <3> QED BY <1>2, <3>1
  <2> QED BY <2>7, <2>9, <2>10 DEF J
<1>4. CASE \A k \in 1..Len(B) : same[B[k].primary] # same[e]
  <2> DEFINE c == [primary |-> e, merged |-> <<>>]
             K == Len(B) + 1
  <2>1. J = Append(B, c)
    BY <1>1, <1>4 DEF Join
  <2>2. c \in Block /\ c.primary = e /\ AllOf(c)[1] = e /\ Len(AllOf(c)) = 1
    <3>1. c \in Block /\ c.primary = e /\ Len(c.merged) = 0
      BY DEF Block
    <3> HIDE DEF c
    <3>2. AllOf(c)[1] = c.primary /\ Len(AllOf(c)) = Len(c.merged) + 1
      BY <3>1, InBlock
    <3> QED BY <3>1, <3>2
  <2> HIDE DEF J, c
  <2>3. /\ J \in Seq(Block) /\ Len(J) = K /\ J[K] = c
        /\ \A k \in 1..Len(B) : J[k] = B[k]
    BY <2>1, <2>2, AppendProperties
  <2>4. /\ \A k : k \in 1..K <=> k \in 1..Len(B) \/ k = K
        /\ K \notin 1..Len(B) /\ \A i : i \in 1..1 <=> i = 1
    BY <1>1
  <2> HIDE DEF K
  <2>5. \A k, i, x : At(J, k, i, x) <=> At(B, k, i, x) \/ (k = K /\ i = 1 /\ x = e)
    <3> SUFFICES ASSUME NEW k \in 1..K, NEW i, NEW x
                 PROVE  At(J, k, i, x) <=> At(B, k, i, x) \/ (k = K /\ i = 1 /\ x = e)
      BY <2>3, <2>4 DEF At
    <3>1. CASE k \in 1..Len(B)
      BY <2>3, <2>4, <3>1 DEF At
    <3>2. CASE k = K
      BY <2>2, <2>3, <2>4, <3>2 DEF At
    <3> QED BY <2>4, <3>1, <3>2
  <2>6. OfContents(J, same)
    BY <1>4, <2>2, <2>3, <2>4 DEF OfContents
  <2>7. Apart(J) /\ Cover(J, E \union {e})
    <3>1. Adds(J, K, 1)
      BY <2>5 DEF Adds
    <3> QED BY <1>2, <3>1
  <2> QED BY <2>3, <2>6, <2>7 DEF J
<1> QED BY <1>3, <1>4

\* The blocks of the evidence: every item is at one place of one block.
Injective(s) == \A i, j \in 1..Len(s) : s[i] = s[j] => i = j
LEMMA Consolidated ==
    ASSUME Limited, evidence \in Seq(Entry), Injective(evidence), NEW same
    PROVE  LET B == Consolidate(same)
           IN  /\ B \in Seq(Block) /\ Apart(B) /\ Cover(B, ToSet(evidence))
               /\ OfContents(B, same)
<1> DEFINE N == Len(evidence)
           V == Seq(Block)
           P(f) == [n \in 0..N |-> IF n = 0 THEN <<>> ELSE Join(f[n - 1], evidence[n], same)]
           blocks == CHOOSE f : f = P(f)
           E(n) == {evidence[i] : i \in 1..n}
           Good(n, B) == B \in V /\ Apart(B) /\ Cover(B, E(n)) /\ OfContents(B, same)
<1>1. N \in Nat /\ DOMAIN evidence = 1..N /\ \A n \in 1..N : evidence[n] \in Entry
  BY LenProperties
<1>2. Consolidate(same) = blocks[N]
  BY DEF Consolidate
<1> HIDE DEF V, N
<1>3. \A B \in V, n \in 1..N : Join(B, evidence[n], same) \in V
  <2> SUFFICES ASSUME NEW B \in V, NEW n \in 1..N PROVE Join(B, evidence[n], same) \in V
    OBVIOUS
  <2> DEFINE e == evidence[n]
  <2>1. e \in Entry /\ B \in Seq(Block) /\ [primary |-> e, merged |-> <<>>] \in Block
    BY <1>1 DEF V, Block
  <2> HIDE DEF e
  <2>2. CASE \E i \in DOMAIN B : same[B[i].primary] = same[e]
    <3> DEFINE C == [i \in DOMAIN B |->
                       IF same[B[i].primary] = same[e]
                       THEN [B[i] EXCEPT !.merged = Append(@, e)] ELSE B[i]]
    <3>1. Join(B, e, same) = C
      BY <2>2 DEF Join
    <3>2. Len(B) \in Nat /\ DOMAIN B = 1..Len(B) /\ \A i \in DOMAIN B : B[i] \in Block
      BY <2>1, LenProperties
    <3>3. \A i \in DOMAIN B : [B[i] EXCEPT !.merged = Append(@, e)] \in Block
      BY <2>1, <3>2, Grown
    <3>4. C \in [1..Len(B) -> Block]
      BY <3>2, <3>3
    <3> HIDE DEF C
    <3>5. C \in Seq(Block)
      BY <3>2, <3>4, SeqDef
    <3> QED BY <3>1, <3>5 DEF V, e
  <2>3. CASE ~\E i \in DOMAIN B : same[B[i].primary] = same[e]
    BY <2>1, <2>3, AppendProperties DEF Join, V, e
  <2> QED BY <2>2, <2>3
<1>4. <<>> \in V
  BY DEF V
<1> DEFINE step == [x \in (1..N) \X V |-> Join(x[2], evidence[x[1]], same)]
<1>5. \E f : f = P(f)
  <2>1. step \in [(1..N) \X V -> V]
    BY <1>3
  <2>2. PICK f : Follows(f, N, V, <<>>, step)
    <3> HIDE DEF step
    <3> QED BY <1>1, <1>4, <2>1, Recursion
  <2>3. f \in [0..N -> V] /\ f[0] = <<>>
    BY <2>2 DEF Follows
  <2>4. \A n \in 1..N : f[n] = Join(f[n - 1], evidence[n], same)
    <3> SUFFICES ASSUME NEW n \in 1..N PROVE f[n] = Join(f[n - 1], evidence[n], same)
      OBVIOUS
    <3>1. f[n - 1] \in V
      BY <1>1, <2>3
    <3> QED BY <2>2, <3>1 DEF Follows
  <2>5. \A n \in 0..N : f[n] = IF n = 0 THEN <<>> ELSE Join(f[n - 1], evidence[n], same)
    <3>1. \A n \in 0..N : n = 0 \/ n \in 1..N
      BY <1>1
    <3> QED BY <2>3, <2>4, <3>1
  <2>6. f = [n \in 0..N |-> f[n]]
    BY <2>3
  <2> QED BY <2>5, <2>6
<1>6. blocks = P(blocks)
  <2> HIDE DEF P
  <2> QED BY <1>5, Zenon
<1> HIDE DEF blocks
<1>7. blocks[0] = <<>> /\ \A n \in 1..N : blocks[n] = Join(blocks[n - 1], evidence[n], same)
  <2>1. P(blocks)[0] = <<>>
        /\ \A n \in 1..N : P(blocks)[n] = Join(blocks[n - 1], evidence[n], same)
    BY <1>1
  <2> HIDE DEF P
  <2> QED BY <1>6, <2>1
<1> HIDE DEF P, step
<1> DEFINE T == {n \in 0..N : Good(n, blocks[n])}
<1>8. 0 \in T
  <2>1. Apart(<<>>) /\ Cover(<<>>, {}) /\ OfContents(<<>>, same)
    BY DEF Apart, Cover, OfContents, At
  <2>2. E(0) = {}
    OBVIOUS
  <2>3. Good(0, blocks[0])
    BY <1>4, <1>7, <2>1, <2>2
  <2> HIDE DEF Good
  <2> QED BY <1>1, <2>3
<1>9. ASSUME NEW n \in 1..N, n - 1 \in T PROVE n \in T
  <2> DEFINE B == blocks[n - 1]
             e == evidence[n]
  <2>1. B \in Seq(Block) /\ Apart(B) /\ Cover(B, E(n - 1)) /\ OfContents(B, same)
    BY <1>9 DEF V
  <2>2. e \in Entry /\ blocks[n] = Join(B, e, same)
    BY <1>1, <1>7
  <2>3. e \notin E(n - 1)
    <3> SUFFICES ASSUME NEW i \in 1..(n - 1) PROVE evidence[i] # evidence[n]
      OBVIOUS
    <3>1. i \in 1..N /\ i # n
      BY <1>1
    <3> QED BY <3>1 DEF Injective, N
  <2>4. E(n) = E(n - 1) \union {e}
    <3>1. \A i : i \in 1..n <=> i \in 1..(n - 1) \/ i = n
      BY <1>1
    <3> QED BY <3>1
  <2> HIDE DEF B, e, E
  <2>5. LET J == Join(B, e, same)
        IN  /\ J \in Seq(Block) /\ Apart(J) /\ Cover(J, E(n - 1) \union {e})
            /\ OfContents(J, same)
    BY <2>1, <2>2, <2>3, Joined
  <2>6. Good(n, blocks[n])
    BY <2>2, <2>4, <2>5 DEF V
  <2> QED BY <2>6
<1> HIDE DEF T
<1>10. N \in T
  BY <1>1, <1>8, <1>9, UpToAll
<1>11. E(N) = ToSet(evidence)
  BY <1>1 DEF ToSet, N
<1> HIDE DEF E
<1> QED BY <1>2, <1>10, <1>11 DEF T, V

\* A place of what a context keeps or drops.
In(c, k, i, x) ==
    \/ At(c.blocks, k, i, x)
    \/ k = 0 /\ i \in 1..Len(c.dropped) /\ c.dropped[i] = x
Separate(c) == \A k, l, i, j, x : In(c, k, i, x) /\ In(c, l, j, x) => k = l /\ i = j
Whole(c, E) == \A x : (\E k, i : In(c, k, i, x)) <=> x \in E
Budgeting == [blocks : Seq(Block), groups : {{}}, dropped : Seq(Entry), tokens : Nat]

Entries(b) == {AllOf(b)[i] : i \in 1..Len(AllOf(b))}

Simple(b) == \A i, j \in 1..Len(AllOf(b)) : AllOf(b)[i] = AllOf(b)[j] => i = j
Sound(c, E, budget) ==
    /\ c \in Budgeting /\ Separate(c) /\ Whole(c, E)
    /\ budget # Unlimited => c.tokens <= budget

\* A block is kept or dropped, each of its entries once.
LEMMA Placed ==
    ASSUME Limited, NEW c, NEW b \in Block, NEW budget \in Nat, NEW E, Simple(b),
           E \intersect Entries(b) = {}, Sound(c, E, budget)
    PROVE  Sound(Place(c, b, budget), E \union Entries(b), budget)
<1> USE DEF Sound, Simple
<1> DEFINE d == Place(c, b, budget)
           F == Entries(b)
           L == Len(AllOf(b))
<1>1. /\ c.blocks \in Seq(Block) /\ c.dropped \in Seq(Entry) /\ c.tokens \in Nat
      /\ Len(c.blocks) \in Nat /\ Len(c.dropped) \in Nat /\ b.primary \in Nat
      /\ AllOf(b) \in Seq(Entry) /\ L \in Nat /\ c.groups = {}
  BY LenProperties, InBlock, Limits DEF Budgeting, Block
<1> DEFINE Adds(K, o) == \A k, i, x : In(d, k, i, x) <=>
                            \/ In(c, k, i, x)
                            \/ k = K /\ i - o \in 1..L /\ i \in Int /\ AllOf(b)[i - o] = x
<1>2. ASSUME NEW K, NEW o \in Nat, Adds(K, o) PROVE Separate(d) /\ Whole(d, E \union F)
  <2>1. \A k, i, x : In(c, k, i, x) => x \in E /\ x \notin F
    BY DEF Whole
  <2>2. \A i, j \in Int : i - o \in 1..L /\ j - o \in 1..L /\ AllOf(b)[i - o] = AllOf(b)[j - o]
           => i = j
    <3> SUFFICES ASSUME NEW i \in Int, NEW j \in Int, i - o \in 1..L, j - o \in 1..L,
                        AllOf(b)[i - o] = AllOf(b)[j - o]
                 PROVE  i = j
      OBVIOUS
    <3>1. i - o = j - o
      OBVIOUS
    <3> QED BY <3>1
  <2>3. \A i \in Int : i - o \in 1..L => AllOf(b)[i - o] \in F
    BY DEF Entries
  <2>4. \A x \in F : \E i \in Int : i - o \in 1..L /\ AllOf(b)[i - o] = x
    <3> SUFFICES ASSUME NEW h \in 1..L
                 PROVE  \E i \in Int : i - o \in 1..L /\ AllOf(b)[i - o] = AllOf(b)[h]
      BY DEF Entries
    <3>1. h + o \in Int /\ (h + o) - o = h
      BY <1>1
    <3> QED BY <3>1
  <2> HIDE DEF d, L
  <2>5. Separate(d)
    <3> SUFFICES ASSUME NEW k, NEW l, NEW i, NEW j, NEW x, In(d, k, i, x), In(d, l, j, x)
                 PROVE  k = l /\ i = j
      BY DEF Separate
    <3>1. \/ In(c, k, i, x)
          \/ k = K /\ i - o \in 1..L /\ i \in Int /\ AllOf(b)[i - o] = x
      BY <1>2
    <3>2. \/ In(c, l, j, x)
          \/ l = K /\ j - o \in 1..L /\ j \in Int /\ AllOf(b)[j - o] = x
      BY <1>2
    <3>3. CASE In(c, k, i, x) /\ In(c, l, j, x)
      BY <3>3 DEF Separate
    <3>4. CASE x \in F
      BY <2>1, <2>2, <3>1, <3>2, <3>4
    <3> QED BY <2>1, <2>3, <3>1, <3>2, <3>3, <3>4
  <2>6. Whole(d, E \union F)
    <3> SUFFICES ASSUME NEW x PROVE (\E k, i : In(d, k, i, x)) <=> x \in E \union F
      BY DEF Whole
    <3>1. ASSUME NEW k, NEW i, In(d, k, i, x) PROVE x \in E \union F
      BY <1>2, <2>1, <2>3, <3>1
    <3>2. ASSUME x \in E PROVE \E k, i : In(d, k, i, x)
      <4>1. PICK k, i : In(c, k, i, x)
        BY <3>2 DEF Whole
      <4>2. In(d, k, i, x)
        BY <1>2, <4>1
      <4> QED BY <4>2
    <3>3. ASSUME x \in F PROVE \E k, i : In(d, k, i, x)
      <4>1. PICK i \in Int : i - o \in 1..L /\ AllOf(b)[i - o] = x
        BY <2>4, <3>3
      <4>2. In(d, K, i, x)
        BY <1>2, <4>1
      <4> QED BY <4>2
    <3> QED BY <3>1, <3>2, <3>3
  <2> QED BY <2>5, <2>6
<1>3. CASE budget # Unlimited /\ c.tokens + b.primary > budget
  <2>1. d = [c EXCEPT !.dropped = @ \o AllOf(b)]
    BY <1>3 DEF Place, Drop
  <2> DEFINE s == c.dropped
             t == AllOf(b)
  <2>2. s \in Seq(Entry) /\ t \in Seq(Entry)
    BY <1>1
  <2>3. /\ d.dropped = s \o t /\ d.blocks = c.blocks /\ d.tokens = c.tokens
        /\ d.groups = c.groups
        /\ d \in Budgeting
    <3>1. s \o t \in Seq(Entry)
      <4> HIDE DEF s, t
      <4> QED BY <2>2, ConcatProperties
    <3> QED BY <2>1, <3>1 DEF Budgeting
  <2> HIDE DEF d
  <2>4. /\ Len(s \o t) = Len(s) + L /\ Len(s) \in Nat
        /\ \A i \in 1..(Len(s) + L) : (s \o t)[i] = IF i <= Len(s) THEN s[i] ELSE t[i - Len(s)]
    <3> HIDE DEF s, t
    <3>1. Len(s \o t) = Len(s) + Len(t) /\ Len(s) \in Nat
        /\ \A i \in 1..(Len(s) + Len(t)) : (s \o t)[i] = IF i <= Len(s) THEN s[i] ELSE t[i - Len(s)]
      BY <2>2, ConcatProperties, LenProperties
    <3> QED BY <3>1 DEF t
  <2> DEFINE o == Len(s)
  <2>5. \A i : i \in 1..(o + L) <=> i \in 1..o \/ (i \in Int /\ i - o \in 1..L)
    BY <1>1
  <2>6. \A i \in 1..(o + L) : i <= o <=> i \in 1..o
    BY <1>1
  <2>7. \A i \in Int : i - o \in 1..L => i \in 1..(o + L) /\ ~(i <= o)
    BY <1>1
  <2> HIDE DEF t, o
  <2>8. \A i : i \in 1..Len(d.dropped) <=> i \in 1..o \/ (i \in Int /\ i - o \in 1..L)
    BY <2>3, <2>4, <2>5 DEF o
  <2>9. \A i : i \in 1..o => d.dropped[i] = s[i]
    <3>1. \A i : i \in 1..o => i \in 1..(o + L) /\ i <= o
      BY <1>1, <2>4 DEF o
    <3> QED BY <2>3, <2>4, <3>1 DEF o
  <2>10. \A i : i \in Int /\ i - o \in 1..L => d.dropped[i] = t[i - o]
    BY <2>3, <2>4, <2>7 DEF o
  <2>11. Adds(0, o)
    <3> HIDE DEF L
    <3> SUFFICES ASSUME NEW k, NEW i, NEW x
                 PROVE  In(d, k, i, x) <=>
                            \/ In(c, k, i, x)
                            \/ k = 0 /\ i - o \in 1..L /\ i \in Int /\ AllOf(b)[i - o] = x
      OBVIOUS
    <3>1. i \in 1..Len(d.dropped) /\ d.dropped[i] = x <=>
             \/ i \in 1..o /\ s[i] = x
             \/ i \in Int /\ i - o \in 1..L /\ t[i - o] = x
      BY <2>8, <2>9, <2>10
    <3> QED BY <2>3, <3>1 DEF In, o, t
  <2>12. o \in Nat
    BY <2>4 DEF o
  <2> HIDE DEF Adds
  <2> QED BY <1>2, <2>3, <2>11, <2>12 DEF d
<1>4. CASE ~(budget # Unlimited /\ c.tokens + b.primary > budget)
  <2> DEFINE K == Len(c.blocks) + 1
  <2>1. d = [c EXCEPT !.blocks = Append(@, b), !.tokens = @ + b.primary]
    BY <1>4 DEF Place
  <2>2. /\ d.blocks = Append(c.blocks, b) /\ d.tokens = c.tokens + b.primary
        /\ d.dropped = c.dropped /\ d \in Budgeting
    <3>1. Append(c.blocks, b) \in Seq(Block) /\ c.tokens + b.primary \in Nat
      BY <1>1, AppendProperties
    <3> QED BY <2>1, <3>1 DEF Budgeting
  <2>3. budget # Unlimited => d.tokens <= budget
    BY <1>1, <1>4, <2>2
  <2> HIDE DEF d
  <2>4. /\ Len(d.blocks) = K /\ d.blocks[K] = b
        /\ \A k \in 1..Len(c.blocks) : d.blocks[k] = c.blocks[k]
    BY <1>1, <2>2, AppendProperties
  <2>5. /\ \A k : k \in 1..K <=> k \in 1..Len(c.blocks) \/ k = K
        /\ K \notin 1..Len(c.blocks) /\ K # 0
        /\ \A i : i \in 1..L <=> i \in Int /\ i - 0 \in 1..L
        /\ \A i \in 1..L : i - 0 = i
    BY <1>1
  <2>6. Adds(K, 0)
    <3> HIDE DEF L, K
    <3> SUFFICES ASSUME NEW k, NEW i, NEW x
                 PROVE  In(d, k, i, x) <=>
                            \/ In(c, k, i, x)
                            \/ k = K /\ i - 0 \in 1..L /\ i \in Int /\ AllOf(b)[i - 0] = x
      OBVIOUS
    <3>1. At(d.blocks, k, i, x) <=>
             At(c.blocks, k, i, x) \/ (k = K /\ i \in 1..L /\ AllOf(b)[i] = x)
      BY <2>4, <2>5 DEF At, L
    <3> QED BY <2>2, <2>5, <3>1 DEF In
  <2> HIDE DEF Adds, K
  <2> QED BY <1>2, <2>2, <2>3, <2>6 DEF d
<1> QED BY <1>3, <1>4

LEMMA PlacedTyped ==
    ASSUME Limited, NEW c \in Budgeting, NEW b \in Block, NEW budget
    PROVE  Place(c, b, budget) \in Budgeting
<1>1. /\ c.blocks \in Seq(Block) /\ c.dropped \in Seq(Entry) /\ c.tokens \in Nat
      /\ b.primary \in Nat /\ AllOf(b) \in Seq(Entry)
  BY InBlock, Limits DEF Budgeting, Block
<1>2. Append(c.blocks, b) \in Seq(Block) /\ c.tokens + b.primary \in Nat
  BY <1>1, AppendProperties
<1> DEFINE s == c.dropped
           t == AllOf(b)
<1>3. s \o t \in Seq(Entry)
  <2>1. s \in Seq(Entry) /\ t \in Seq(Entry)
    BY <1>1
  <2> HIDE DEF s, t
  <2> QED BY <2>1, ConcatProperties
<1> QED BY <1>2, <1>3 DEF Place, Drop, Budgeting

\* All the blocks, kept or dropped.
LEMMA BudgetedAll ==
    ASSUME Limited, NEW B \in Seq(Block), Apart(B), NEW E, Cover(B, E), NEW budget \in Nat
    PROVE  LET c == Budgeted(B, budget)
           IN  /\ c \in Budgeting /\ Separate(c) /\ Whole(c, E)
               /\ budget # Unlimited => c.tokens <= budget
<1> DEFINE N == Len(B)
           V == Budgeting
           P(f) == [n \in 0..N |-> IF n = 0 THEN NoContext ELSE Place(f[n - 1], B[n], budget)]
           placed == CHOOSE f : f = P(f)
           F(n) == Entries(B[n])
           D(n) == UNION {F(k) : k \in 1..n}
           Good(n, c) == /\ c \in V /\ Separate(c) /\ Whole(c, D(n))
                         /\ budget # Unlimited => c.tokens <= budget
<1>1. N \in Nat /\ DOMAIN B = 1..N /\ \A n \in 1..N : B[n] \in Block
  BY LenProperties
<1>2. Budgeted(B, budget) = placed[N]
  BY DEF Budgeted
<1> HIDE DEF V, N
<1>3. \A c \in V, n \in 1..N : Place(c, B[n], budget) \in V
  BY <1>1, PlacedTyped DEF V
<1>4. NoContext \in V
  BY DEF V, NoContext, Budgeting
<1> DEFINE step == [x \in (1..N) \X V |-> Place(x[2], B[x[1]], budget)]
<1>5. \E f : f = P(f)
  <2>1. step \in [(1..N) \X V -> V]
    BY <1>3
  <2>2. PICK f : Follows(f, N, V, NoContext, step)
    <3> HIDE DEF step
    <3> QED BY <1>1, <1>4, <2>1, Recursion
  <2>3. f \in [0..N -> V] /\ f[0] = NoContext
    BY <2>2 DEF Follows
  <2>4. \A n \in 1..N : f[n] = Place(f[n - 1], B[n], budget)
    <3> SUFFICES ASSUME NEW n \in 1..N PROVE f[n] = Place(f[n - 1], B[n], budget)
      OBVIOUS
    <3>1. f[n - 1] \in V
      BY <1>1, <2>3
    <3> QED BY <2>2, <3>1 DEF Follows
  <2>5. \A n \in 0..N : f[n] = IF n = 0 THEN NoContext ELSE Place(f[n - 1], B[n], budget)
    <3>1. \A n \in 0..N : n = 0 \/ n \in 1..N
      BY <1>1
    <3> QED BY <2>3, <2>4, <3>1
  <2>6. f = [n \in 0..N |-> f[n]]
    BY <2>3
  <2> QED BY <2>5, <2>6
<1>6. placed = P(placed)
  <2> HIDE DEF P
  <2> QED BY <1>5, Zenon
<1> HIDE DEF placed
<1>7. /\ placed[0] = NoContext
      /\ \A n \in 1..N : placed[n] = Place(placed[n - 1], B[n], budget)
  <2>1. P(placed)[0] = NoContext
        /\ \A n \in 1..N : P(placed)[n] = Place(placed[n - 1], B[n], budget)
    BY <1>1
  <2> HIDE DEF P
  <2> QED BY <1>6, <2>1
<1> HIDE DEF P, step
<1> DEFINE T == {n \in 0..N : Good(n, placed[n])}
<1>8. 0 \in T
  <2>1. D(0) = {}
    OBVIOUS
  <2>2. Separate(NoContext) /\ Whole(NoContext, {}) /\ NoContext.tokens = 0
    BY DEF Separate, Whole, In, At, NoContext
  <2> HIDE DEF D
  <2>3. Good(0, NoContext)
    <3>1. budget # Unlimited => NoContext.tokens <= budget
      BY <2>2
    <3> QED BY <1>4, <2>1, <2>2, <3>1, Zenon
  <2>4. Good(0, placed[0])
    BY <1>7, <2>3, Zenon
  <2> HIDE DEF Good
  <2> QED BY <1>1, <2>4
<1>9. ASSUME NEW n \in 1..N, n - 1 \in T PROVE n \in T
  <2> DEFINE c == placed[n - 1]
             b == B[n]
  <2>1. /\ c \in Budgeting /\ Separate(c) /\ Whole(c, D(n - 1))
        /\ budget # Unlimited => c.tokens <= budget
    BY <1>9 DEF V
  <2>2. b \in Block /\ placed[n] = Place(c, b, budget)
    BY <1>1, <1>7
  <2>3. D(n - 1) \intersect F(n) = {}
    <3> SUFFICES ASSUME NEW k \in 1..(n - 1), NEW i \in 1..Len(AllOf(B[k])),
                        NEW j \in 1..Len(AllOf(B[n])),
                        AllOf(B[k])[i] = AllOf(B[n])[j]
                 PROVE  FALSE
      BY DEF Entries
    <3>1. k \in 1..N /\ k # n
      BY <1>1
    <3>2. At(B, k, i, AllOf(B[k])[i]) /\ At(B, n, j, AllOf(B[k])[i])
      BY <3>1 DEF At, N
    <3> QED BY <3>1, <3>2 DEF Apart
  <2>4. D(n) = D(n - 1) \union F(n)
    <3>1. \A k : k \in 1..n <=> k \in 1..(n - 1) \/ k = n
      BY <1>1
    <3> HIDE DEF F
    <3> QED BY <3>1
  <2>5. \A i, j \in 1..Len(AllOf(b)) : AllOf(b)[i] = AllOf(b)[j] => i = j
    <3> SUFFICES ASSUME NEW i \in 1..Len(AllOf(b)), NEW j \in 1..Len(AllOf(b)),
                        AllOf(b)[i] = AllOf(b)[j]
                 PROVE  i = j
      OBVIOUS
    <3>1. At(B, n, i, AllOf(b)[i]) /\ At(B, n, j, AllOf(b)[i])
      BY DEF At, N
    <3> QED BY <3>1 DEF Apart
  <2>6. D(n - 1) \intersect Entries(b) = {} /\ D(n) = D(n - 1) \union Entries(b)
    BY <2>3, <2>4
  <2> HIDE DEF c, b, D
  <2>7. Sound(c, D(n - 1), budget)
    BY <2>1 DEF Sound
  <2>8. Sound(Place(c, b, budget), D(n - 1) \union Entries(b), budget)
    BY <2>2, <2>5, <2>6, <2>7, Placed DEF Simple
  <2>9. Good(n, placed[n])
    BY <2>2, <2>6, <2>8 DEF V, Sound
  <2> QED BY <2>9
<1> HIDE DEF T
<1>10. N \in T
  BY <1>1, <1>8, <1>9, UpToAll
<1>11. \A x : x \in D(N) <=> x \in E
  <2>1. \A x : x \in D(N) <=> \E k \in 1..N : x \in F(k)
    OBVIOUS
  <2>2. \A x : \A k \in 1..N : x \in F(k) <=> \E i : At(B, k, i, x)
    BY DEF At, N, Entries
  <2>3. \A x : (\E k, i : At(B, k, i, x)) <=> \E k \in 1..N : \E i : At(B, k, i, x)
    BY DEF At, N
  <2> HIDE DEF D, F
  <2> QED BY <2>1, <2>2, <2>3 DEF Cover
<1>12. D(N) = E
  BY <1>11
<1> HIDE DEF D
<1> QED BY <1>2, <1>10, <1>12 DEF T, V

Edge == {p \in Entry \X Node : p[1] # p[2]}
Todo == [node : Node, seed : Node]
Result == [node : Node, seed : Node, distance : Nat]
TravTyped ==
    /\ stage \in {"asked", "expanding", "reading", "ranked", "built"}
    /\ edges \in Seq(Edge) /\ IsInjective(edges)
    /\ hits \in Seq(Entry) /\ level \in Seq(Todo) /\ next \in Seq(Todo)
    /\ depth \in Nat /\ results \in Seq(Result) /\ changes \in Nat

Nodes(s) == {x.node : x \in ToSet(s)}

LEMMA InSeq ==
    ASSUME Limited, NEW S, NEW s \in Seq(S)
    PROVE  /\ ToSet(s) = {s[i] : i \in 1..Len(s)} /\ ToSet(s) \subseteq S /\ Len(s) \in Nat
           /\ DOMAIN s = 1..Len(s) /\ \A i \in 1..Len(s) : s[i] \in S
BY LenProperties DEF ToSet

LEMMA InAppend ==
    ASSUME Limited, NEW S, NEW s \in Seq(S), NEW x \in S
    PROVE  /\ Append(s, x) \in Seq(S) /\ Len(Append(s, x)) = Len(s) + 1
           /\ ToSet(Append(s, x)) = ToSet(s) \union {x}
<1> DEFINE t == Append(s, x)
<1>1. /\ t \in Seq(S) /\ Len(t) = Len(s) + 1 /\ \A i \in 1..Len(s) : t[i] = s[i]
      /\ t[Len(s) + 1] = x
  BY AppendProperties
<1> HIDE DEF t
<1>2. /\ ToSet(t) = {t[i] : i \in 1..Len(t)} /\ ToSet(s) = {s[i] : i \in 1..Len(s)}
      /\ Len(s) \in Nat
  BY <1>1, InSeq
<1>3. \A i : i \in 1..Len(t) <=> i \in 1..Len(s) \/ i = Len(s) + 1
  BY <1>1, <1>2
<1>4. ToSet(t) = ToSet(s) \union {x}
  BY <1>1, <1>2, <1>3
<1> QED BY <1>1, <1>4 DEF t

LEMMA InTail ==
    ASSUME Limited, NEW S, NEW s \in Seq(S), s # <<>>
    PROVE  /\ Head(s) \in S /\ Tail(s) \in Seq(S)
           /\ ToSet(s) = {Head(s)} \union ToSet(Tail(s))
           /\ Head(s) = s[1] /\ Len(Tail(s)) = Len(s) - 1
<1> DEFINE t == Tail(s)
           h == Head(s)
<1>1. /\ h \in S /\ t \in Seq(S) /\ Len(t) = Len(s) - 1 /\ h = s[1]
      /\ \A i \in 1..Len(t) : t[i] = s[i + 1]
  BY HeadTailProperties
<1>2. Len(s) \in Nat /\ Len(s) # 0
  BY EmptySeq, LenProperties
<1> HIDE DEF t, h
<1>3. ToSet(s) = {s[i] : i \in 1..Len(s)} /\ ToSet(t) = {t[i] : i \in 1..Len(t)}
  BY <1>1, InSeq
<1>4. \A i \in 1..Len(t) : i + 1 \in 1..Len(s)
  BY <1>1, <1>2
<1>5. \A i \in 1..Len(s) : i = 1 \/ (i - 1 \in 1..Len(t) /\ (i - 1) + 1 = i)
  BY <1>1, <1>2
<1>6. ToSet(s) \subseteq {h} \union ToSet(t)
  <2> SUFFICES ASSUME NEW i \in 1..Len(s) PROVE s[i] \in {h} \union ToSet(t)
    BY <1>3
  <2>1. CASE i = 1
    BY <1>1, <2>1
  <2>2. CASE i - 1 \in 1..Len(t) /\ (i - 1) + 1 = i
    <3>1. t[i - 1] = s[i]
      BY <1>1, <2>2
    <3> QED BY <1>3, <2>2, <3>1
  <2> QED BY <1>5, <2>1, <2>2
<1>7. 1 \in 1..Len(s)
  BY <1>2
<1>8. {h} \union ToSet(t) \subseteq ToSet(s)
  BY <1>1, <1>3, <1>4, <1>7
<1> QED BY <1>1, <1>6, <1>8 DEF t, h

LEMMA InConcat ==
    ASSUME Limited, NEW S, NEW s \in Seq(S), NEW t \in Seq(S)
    PROVE  s \o t \in Seq(S) /\ ToSet(s \o t) = ToSet(s) \union ToSet(t)
<1> DEFINE u == s \o t
<1>1. /\ u \in Seq(S) /\ Len(u) = Len(s) + Len(t)
      /\ \A i \in 1..(Len(s) + Len(t)) : u[i] = IF i <= Len(s) THEN s[i] ELSE t[i - Len(s)]
  BY ConcatProperties
<1> HIDE DEF u
<1>2. /\ ToSet(s) = {s[i] : i \in 1..Len(s)} /\ ToSet(t) = {t[i] : i \in 1..Len(t)}
      /\ ToSet(u) = {u[i] : i \in 1..Len(u)} /\ Len(s) \in Nat /\ Len(t) \in Nat
  BY <1>1, InSeq
<1>3. ToSet(u) \subseteq ToSet(s) \union ToSet(t)
  <2> SUFFICES ASSUME NEW i \in 1..Len(u) PROVE u[i] \in ToSet(s) \union ToSet(t)
    BY <1>2
  <2>1. CASE i <= Len(s)
    <3>1. i \in 1..Len(s)
      BY <1>2, <2>1
    <3> QED BY <1>1, <1>2, <2>1, <3>1
  <2>2. CASE ~(i <= Len(s))
    <3>1. i - Len(s) \in 1..Len(t)
      BY <1>1, <1>2, <2>2
    <3> QED BY <1>1, <1>2, <2>2, <3>1
  <2> QED BY <2>1, <2>2
<1>4. ToSet(s) \subseteq ToSet(u)
  <2> SUFFICES ASSUME NEW i \in 1..Len(s) PROVE s[i] \in ToSet(u)
    BY <1>2
  <2>1. i \in 1..Len(u) /\ i <= Len(s)
    BY <1>1, <1>2
  <2> QED BY <1>1, <1>2, <2>1
<1>5. ToSet(t) \subseteq ToSet(u)
  <2> SUFFICES ASSUME NEW i \in 1..Len(t) PROVE t[i] \in ToSet(u)
    BY <1>2
  <2>1. i + Len(s) \in 1..Len(u) /\ ~(i + Len(s) <= Len(s)) /\ (i + Len(s)) - Len(s) = i
    BY <1>1, <1>2
  <2> QED BY <1>1, <1>2, <2>1
<1> QED BY <1>1, <1>3, <1>4, <1>5 DEF u

\* What is found of one neighbour.
Finds == [results : Seq(Result), new : Seq(Todo)]
LEMMA FoundOne ==
    ASSUME Limited, NEW at \in Todo, NEW found \in Finds, NEW target \in Node, depth \in Nat
    PROVE  LET g == Found(at, found, target)
           IN  /\ g \in Finds
               /\ \/ /\ g = found
                     /\ \/ target \in Nodes(found.results) \/ target = at.seed
                        \/ Len(found.results) >= MaxNodes
                  \/ /\ target \notin Nodes(found.results) /\ target # at.seed
                     /\ Len(found.results) < MaxNodes
                     /\ Len(g.results) = Len(found.results) + 1
                     /\ ToSet(g.results) = ToSet(found.results)
                          \union {[node |-> target, seed |-> at.seed, distance |-> depth]}
                     /\ ToSet(g.new) = ToSet(found.new)
                          \union IF target \in ToSet(hits) THEN {}
                                 ELSE {[node |-> target, seed |-> at.seed]}
<1> DEFINE r == [node |-> target, seed |-> at.seed, distance |-> depth]
           y == [node |-> target, seed |-> at.seed]
           g == Found(at, found, target)
<1>1. r \in Result /\ y \in Todo /\ found.results \in Seq(Result) /\ found.new \in Seq(Todo)
  BY DEF Result, Todo, Finds
<1>2. Len(found.results) \in Nat /\ MaxNodes \in Nat
  BY <1>1, LenProperties, Limits
<1>3. CASE target \in Nodes(found.results) \/ target = at.seed \/ Len(found.results) >= MaxNodes
  BY <1>3 DEF Found, Nodes
<1>4. CASE ~(target \in Nodes(found.results) \/ target = at.seed \/ Len(found.results) >= MaxNodes)
  <2>1. g = [results |-> Append(found.results, r),
             new |-> IF target \in ToSet(hits) THEN found.new ELSE Append(found.new, y)]
    BY <1>4 DEF Found, Nodes
  <2> HIDE DEF g, r, y
  <2>2. /\ Append(found.results, r) \in Seq(Result) /\ Append(found.new, y) \in Seq(Todo)
        /\ Len(Append(found.results, r)) = Len(found.results) + 1
        /\ ToSet(Append(found.results, r)) = ToSet(found.results) \union {r}
        /\ ToSet(Append(found.new, y)) = ToSet(found.new) \union {y}
    BY <1>1, InAppend
  <2>3. g \in Finds
    BY <1>1, <2>1, <2>2 DEF Finds
  <2> QED BY <1>2, <1>4, <2>1, <2>2, <2>3 DEF g, r, y
<1> QED BY <1>3, <1>4

\* What an expansion finds.
LEMMA VisitedFinds ==
    ASSUME Limited, TravTyped, NEW at \in Todo
    PROVE  LET all == Visited(at)
           IN  /\ all \in Finds /\ ToSet(results) \subseteq ToSet(all.results)
               /\ Len(results) <= Len(all.results)
               /\ \A r \in ToSet(all.results) \ ToSet(results) :
                     /\ r.distance = depth /\ r.node \notin Nodes(results)
                     /\ Len(results) < MaxNodes
                     /\ r.node \in ToSet(hits) \/ r.node \in Nodes(all.new)
                     /\ \E i \in Neighbors(at.node) : edges[i][2] = r.node
               /\ \A y \in ToSet(all.new) :
                     /\ y.seed = at.seed /\ y.node \notin ToSet(hits)
                     /\ y.node \in Nodes(all.results)
                     /\ \E i \in Neighbors(at.node) : edges[i][2] = y.node
               /\ Len(all.results) < MaxNodes =>
                     \A i \in Neighbors(at.node) :
                        edges[i][2] = at.seed \/ edges[i][2] \in Nodes(all.results)
<1> DEFINE N == Len(edges)
           V == Finds
           first == [results |-> results, new |-> <<>>]
           More(f, n) == IF n \in Neighbors(at.node) THEN Found(at, f, edges[n][2]) ELSE f
           P(f) == [n \in 0..N |->
                      IF n = 0 THEN [results |-> results, new |-> <<>>]
                      ELSE IF n \in Neighbors(at.node) THEN Found(at, f[n - 1], edges[n][2])
                      ELSE f[n - 1]]
           found == CHOOSE f : f = P(f)
<1>1. N \in Nat /\ DOMAIN edges = 1..N /\ \A n \in 1..N : edges[n][2] \in Node
  <2>1. edges \in Seq(Edge)
    BY DEF TravTyped
  <2>2. \A n \in 1..N : edges[n] \in Edge
    BY <2>1, LenProperties
  <2> QED BY <2>1, <2>2, LenProperties DEF Edge
<1>2. Visited(at) = found[N]
  BY DEF Visited
<1> HIDE DEF V, N
<1>3. \A f \in V, n \in 1..N : More(f, n) \in V
  <2> SUFFICES ASSUME NEW f \in V, NEW n \in 1..N PROVE More(f, n) \in V
    OBVIOUS
  <2>1. Found(at, f, edges[n][2]) \in V
    BY <1>1, FoundOne DEF V, TravTyped
  <2> QED BY <2>1
<1>4. first \in V
  BY DEF V, Finds, TravTyped
<1> DEFINE step == [x \in (1..N) \X V |-> More(x[2], x[1])]
<1>5. \E f : f = P(f)
  <2>1. step \in [(1..N) \X V -> V]
    BY <1>3
  <2>2. PICK f : Follows(f, N, V, first, step)
    <3> HIDE DEF step, first
    <3> QED BY <1>1, <1>4, <2>1, Recursion
  <2>3. f \in [0..N -> V] /\ f[0] = first
    BY <2>2 DEF Follows
  <2>4. \A n \in 1..N : f[n] = More(f[n - 1], n)
    <3> SUFFICES ASSUME NEW n \in 1..N PROVE f[n] = More(f[n - 1], n)
      OBVIOUS
    <3>1. f[n - 1] \in V
      BY <1>1, <2>3
    <3> HIDE DEF More
    <3> QED BY <2>2, <3>1 DEF Follows
  <2>5. \A n \in 0..N : f[n] = IF n = 0 THEN first ELSE More(f[n - 1], n)
    <3>1. \A n \in 0..N : n = 0 \/ n \in 1..N
      BY <1>1
    <3> HIDE DEF More, first
    <3> QED BY <2>3, <2>4, <3>1
  <2>6. f = [n \in 0..N |-> f[n]]
    BY <2>3
  <2> QED BY <2>5, <2>6
<1>6. found = P(found)
  <2> HIDE DEF P
  <2> QED BY <1>5, Zenon
<1> HIDE DEF found
<1>7. found[0] = first /\ \A n \in 1..N : found[n] = More(found[n - 1], n)
  <2>1. P(found)[0] = first /\ \A n \in 1..N : P(found)[n] = More(found[n - 1], n)
    BY <1>1
  <2> HIDE DEF P
  <2> QED BY <1>6, <2>1
<1> HIDE DEF P, step
<1> DEFINE Good(n, f) ==
             /\ f \in V /\ ToSet(results) \subseteq ToSet(f.results)
             /\ Len(results) <= Len(f.results)
             /\ \A r \in ToSet(f.results) \ ToSet(results) :
                   /\ r.distance = depth /\ r.node \notin Nodes(results)
                   /\ Len(results) < MaxNodes
                   /\ r.node \in ToSet(hits) \/ r.node \in Nodes(f.new)
                   /\ \E i \in Neighbors(at.node) : edges[i][2] = r.node
             /\ \A y \in ToSet(f.new) :
                   /\ y.seed = at.seed /\ y.node \notin ToSet(hits)
                   /\ y.node \in Nodes(f.results)
                   /\ \E i \in Neighbors(at.node) : edges[i][2] = y.node
             /\ Len(f.results) < MaxNodes =>
                   \A i \in Neighbors(at.node) : i <= n =>
                      edges[i][2] = at.seed \/ edges[i][2] \in Nodes(f.results)
           T == {n \in 0..N : Good(n, found[n])}
<1>8. Neighbors(at.node) \subseteq 1..N
  BY <1>1 DEF Neighbors, From
<1>9. 0 \in T
  <2>1. Good(0, first)
    <3>1. ToSet(<<>>) = {} /\ first.results = results /\ first.new = <<>>
      BY DEF ToSet
    <3>2. Len(results) \in Nat
      BY LenProperties DEF TravTyped
    <3>3. \A i \in 1..N : ~(i <= 0)
      BY <1>1
    <3> HIDE DEF first
    <3> QED BY <1>4, <1>8, <3>1, <3>2, <3>3
  <2> HIDE DEF Good, first
  <2>2. Good(0, found[0])
    BY <1>7, <2>1
  <2> QED BY <1>1, <2>2
<1>10. ASSUME NEW n \in 1..N, n - 1 \in T PROVE n \in T
  <2> DEFINE f == found[n - 1]
             t == edges[n][2]
  <2>1. Good(n - 1, f)
    BY <1>10
  <2>2. found[n] = More(f, n) /\ t \in Node /\ f \in V
    BY <1>1, <1>7, <2>1
  <2>3. \A i \in Neighbors(at.node) : i <= n => i = n \/ i <= n - 1
    BY <1>1, <1>8
  <2> HIDE DEF f, first
  <2>4. CASE n \notin Neighbors(at.node)
    <3>1. found[n] = f
      BY <2>2, <2>4
    <3>2. Good(n, f)
      BY <2>1, <2>3, <2>4
    <3> HIDE DEF Good
    <3> QED BY <3>1, <3>2
  <2>5. CASE n \in Neighbors(at.node)
    <3> DEFINE g == Found(at, f, t)
    <3>1. found[n] = g
      BY <2>2, <2>5
    <3>2. /\ g \in V
          /\ \/ /\ g = f
                /\ t \in Nodes(f.results) \/ t = at.seed \/ Len(f.results) >= MaxNodes
             \/ /\ t \notin Nodes(f.results) /\ t # at.seed
                /\ Len(f.results) < MaxNodes /\ Len(g.results) = Len(f.results) + 1
                /\ ToSet(g.results) = ToSet(f.results)
                          \union {[node |-> t, seed |-> at.seed, distance |-> depth]}
                /\ ToSet(g.new) = ToSet(f.new)
                          \union IF t \in ToSet(hits) THEN {} ELSE {[node |-> t, seed |-> at.seed]}
      <4> HIDE DEF t
      <4> QED BY <2>2, FoundOne DEF V, TravTyped
    <3>3. Len(f.results) \in Nat /\ Len(results) \in Nat /\ MaxNodes \in Nat
      <4>1. f.results \in Seq(Result) /\ results \in Seq(Result)
        BY <2>2 DEF V, Finds, TravTyped
      <4> QED BY <4>1, LenProperties, Limits
    <3>4. Good(n, g)
      <4> HIDE DEF g
      <4>1. CASE g = f
        <5>1. Len(f.results) < MaxNodes => t = at.seed \/ t \in Nodes(f.results)
          BY <3>2, <3>3, <4>1
        <5> QED BY <2>1, <2>3, <4>1, <5>1
      <4>2. CASE g # f
        <5> DEFINE r == [node |-> t, seed |-> at.seed, distance |-> depth]
                   y == [node |-> t, seed |-> at.seed]
        <5>1. /\ t \notin Nodes(f.results) /\ t # at.seed
              /\ Len(f.results) < MaxNodes /\ Len(g.results) = Len(f.results) + 1
              /\ ToSet(g.results) = ToSet(f.results) \union {r}
              /\ ToSet(g.new) = ToSet(f.new) \union IF t \in ToSet(hits) THEN {} ELSE {y}
          BY <3>2, <4>2
        <5>2. r.node = t /\ r.distance = depth /\ y.node = t /\ y.seed = at.seed
          OBVIOUS
        <5>3. edges[n][2] = t
          OBVIOUS
        <5> HIDE DEF r, y, t
        <5>4. /\ Nodes(g.results) = Nodes(f.results) \union {t}
              /\ Nodes(f.new) \subseteq Nodes(g.new)
              /\ t \in ToSet(hits) \/ t \in Nodes(g.new)
          BY <5>1, <5>2 DEF Nodes
        <5>5. t \notin Nodes(results) /\ Len(results) < MaxNodes
          <6>1. ToSet(results) \subseteq ToSet(f.results) /\ Len(results) <= Len(f.results)
            BY <2>1
          <6> QED BY <3>3, <5>1, <6>1 DEF Nodes
        <5>6. \A x \in ToSet(g.results) \ ToSet(results) :
                   /\ x.distance = depth /\ x.node \notin Nodes(results)
                   /\ Len(results) < MaxNodes
                   /\ x.node \in ToSet(hits) \/ x.node \in Nodes(g.new)
                   /\ \E i \in Neighbors(at.node) : edges[i][2] = x.node
          BY <2>1, <2>5, <5>1, <5>2, <5>3, <5>4, <5>5
        <5>7. \A x \in ToSet(g.new) :
                   /\ x.seed = at.seed /\ x.node \notin ToSet(hits)
                   /\ x.node \in Nodes(g.results)
                   /\ \E i \in Neighbors(at.node) : edges[i][2] = x.node
          BY <2>1, <2>5, <5>1, <5>2, <5>3, <5>4
        <5>8. \A i \in Neighbors(at.node) : i <= n =>
                  edges[i][2] = at.seed \/ edges[i][2] \in Nodes(g.results)
          BY <2>1, <2>3, <5>1, <5>3, <5>4
        <5>9. ToSet(results) \subseteq ToSet(g.results) /\ Len(results) <= Len(g.results)
          BY <2>1, <3>3, <5>1
        <5> QED BY <3>2, <5>6, <5>7, <5>8, <5>9
      <4> QED BY <4>1, <4>2
    <3> HIDE DEF Good, g
    <3> QED BY <3>1, <3>4
  <2> QED BY <2>4, <2>5
<1> HIDE DEF T
<1>11. N \in T
  <2>1. N \in Nat
    BY <1>1
  <2>2. \A n \in 1..N : n - 1 \in T => n \in T
    BY <1>10
  <2>3. 0..N \subseteq T
    BY <1>9, <2>1, <2>2, UpToAll
  <2>4. N \in 0..N
    BY <2>1
  <2> QED BY <2>3, <2>4
<1>12. Good(N, found[N])
  BY <1>11 DEF T
<1>13. \A i \in Neighbors(at.node) : i <= N
  BY <1>1, <1>8
<1> QED BY <1>2, <1>12, <1>13 DEF V

\* There are no more nodes than results.
LEMMA NodesBounded ==
    ASSUME Limited, NEW s \in Seq(Result)
    PROVE  IsFiniteSet(Nodes(s)) /\ Cardinality(Nodes(s)) <= Len(s)
<1>1. ToSet(s) = {s[i] : i \in 1..Len(s)} /\ Len(s) \in Nat
  BY InSeq
<1> DEFINE f == [i \in 1..Len(s) |-> s[i].node]
           S == 1..Len(s)
           T == Nodes(s)
<1>2. f \in Surjection(S, T)
  BY <1>1 DEF Nodes, Surjection
<1>3. IsFiniteSet(S) /\ Cardinality(S) = Len(s)
  BY <1>1, FS_Interval
<1> HIDE DEF f, S, T
<1>4. IsFiniteSet(T) /\ Cardinality(T) <= Cardinality(S)
  BY <1>2, <1>3, FS_Surjection
<1> QED BY <1>3, <1>4 DEF T

\* If an edge is left out, the neighbours are as many as may be.
LEMMA EnoughNeighbors ==
    ASSUME Limited, edges \in Seq(Edge), IsInjective(edges), NEW node, NEW i \in From(node),
           i \notin Neighbors(node)
    PROVE  LET T == {edges[j][2] : j \in Neighbors(node)}
           IN  IsFiniteSet(T) /\ MaxNodes <= Cardinality(T)
<1> DEFINE F == From(node)
           Upto(k) == {j \in F : j <= k}
           B == Neighbors(node)
           Beyond == F \ B
<1>1. DOMAIN edges = 1..Len(edges) /\ Len(edges) \in Nat
      /\ \A j \in 1..Len(edges) : edges[j] \in Edge
  BY LenProperties
<1>2. F \subseteq 1..Len(edges) /\ B \subseteq F /\ \A j \in F : edges[j][1] = node
  BY <1>1 DEF From, Neighbors
<1>3. IsFiniteSet(F) /\ IsFiniteSet(B)
  <2>1. IsFiniteSet(1..Len(edges))
    BY <1>1, FS_Interval
  <2> HIDE DEF F, B
  <2>2. IsFiniteSet(F)
    BY <1>2, <2>1, FS_Subset
  <2> QED BY <1>2, <2>2, FS_Subset
<1>4. PICK m \in Beyond : \A j \in Beyond : m <= j
  <2>1. Beyond \subseteq Nat /\ Beyond # {}
    BY <1>2
  <2> HIDE DEF Beyond
  <2> QED BY <2>1, LeastOf
<1>5. Cardinality(Upto(m)) > MaxNodes
  <2>1. m \in F /\ ~(Cardinality(Upto(m)) <= MaxNodes)
    BY <1>4 DEF Neighbors
  <2>2. IsFiniteSet(Upto(m))
    <3>1. Upto(m) \subseteq F
      OBVIOUS
    <3> HIDE DEF Upto, F
    <3> QED BY <1>3, <3>1, FS_Subset
  <2>3. Cardinality(Upto(m)) \in Nat
    <3> HIDE DEF Upto
    <3> QED BY <2>2, FS_CardinalityType
  <2> HIDE DEF Upto
  <2> QED BY <2>1, <2>3, Limits
<1>6. Upto(m) \ {m} \subseteq B /\ m \in Upto(m)
  <2>1. \A j \in F : j <= m /\ j # m => j \notin Beyond
    BY <1>2, <1>4
  <2> QED BY <1>2, <1>4, <2>1
<1>7. Cardinality(B) >= MaxNodes
  <2> DEFINE U == Upto(m)
  <2>1. U \subseteq F /\ U \ {m} \subseteq B /\ m \in U /\ Cardinality(U) > MaxNodes
    BY <1>5, <1>6
  <2> HIDE DEF U, F, B
  <2>2. IsFiniteSet(U)
    BY <1>3, <2>1, FS_Subset
  <2>3. IsFiniteSet(U \ {m}) /\ Cardinality(U \ {m}) = Cardinality(U) - 1
    BY <2>1, <2>2, FS_RemoveElement
  <2>4. Cardinality(U \ {m}) <= Cardinality(B)
    BY <1>3, <2>1, FS_Subset
  <2>5. Cardinality(U) \in Nat /\ Cardinality(B) \in Nat
    BY <1>3, <2>2, FS_CardinalityType
  <2> QED BY <2>1, <2>3, <2>4, <2>5, Limits
<1> DEFINE T == {edges[j][2] : j \in B}
           f == [j \in B |-> edges[j][2]]
<1>8. f \in Bijection(B, T)
  <2>1. f \in Surjection(B, T)
    <3> HIDE DEF B
    <3> QED BY DEF Surjection
  <2>2. \A j, k \in B : edges[j][2] = edges[k][2] => j = k
    <3> SUFFICES ASSUME NEW j \in B, NEW k \in B, edges[j][2] = edges[k][2] PROVE j = k
      OBVIOUS
    <3>1. /\ j \in 1..Len(edges) /\ k \in 1..Len(edges) /\ edges[j][1] = node
          /\ edges[k][1] = node
      BY <1>2
    <3>2. edges[j] \in Edge /\ edges[k] \in Edge
      BY <1>1, <3>1
    <3>3. edges[j] = edges[k]
      BY <3>1, <3>2 DEF Edge
    <3> QED BY <1>1, <3>1, <3>3 DEF IsInjective
  <2> HIDE DEF B
  <2>3. f \in Injection(B, T)
    BY <2>2 DEF Injection, IsInjective
  <2> QED BY <2>1, <2>3 DEF Bijection
<1> HIDE DEF T, f, B
<1>9. IsFiniteSet(T) /\ Cardinality(T) = Cardinality(B)
  BY <1>3, <1>8, FS_Bijection DEF ExistsBijection
<1> QED BY <1>7, <1>9 DEF T, B

\* What is within some edges of the seeds.
WithinOf(E, H) ==
    CHOOSE f : f = [n \in 0..MaxHops |->
                      IF n = 0 THEN ToSet(H)
                      ELSE f[n - 1] \union {p[2] : p \in {q \in ToSet(E) : q[1] \in f[n - 1]}}]
LEMMA Nearby ==
    ASSUME Limited, NEW E \in Seq(Edge), NEW H \in Seq(Entry), NEW W, W = WithinOf(E, H)
    PROVE  /\ W[0] = ToSet(H)
           /\ \A n \in 1..MaxHops :
                 W[n] = W[n - 1]
                   \union {p[2] : p \in {q \in ToSet(E) : q[1] \in W[n - 1]}}
<1> DEFINE N == MaxHops
           V == SUBSET Node
           More(w) == w \union {p[2] : p \in {q \in ToSet(E) : q[1] \in w}}
           P(f) == [n \in 0..N |->
                      IF n = 0 THEN ToSet(H)
                      ELSE f[n - 1] \union {p[2] : p \in {q \in ToSet(E) : q[1] \in f[n - 1]}}]
           step == [x \in (1..N) \X V |-> More(x[2])]
<1>1. N \in Nat
  BY Limits
<1>2. ToSet(H) \in V
  BY InSeq DEF Node
<1>3. \A w \in V : More(w) \in V
  <2>1. \A q \in ToSet(E) : q \in Edge
    BY InSeq
  <2> QED BY <2>1 DEF Edge
<1>4. W = CHOOSE f : f = P(f)
  BY DEF WithinOf
<1> HIDE DEF N, V
<1>5. \E f : f = P(f)
  <2>1. step \in [(1..N) \X V -> V]
    BY <1>3
  <2> DEFINE first == ToSet(H)
  <2>2. PICK f : Follows(f, N, V, first, step)
    <3> HIDE DEF step, first
    <3>1. first \in V
      BY <1>2 DEF first
    <3> QED BY <1>1, <2>1, <3>1, Recursion
  <2>3. f \in [0..N -> V] /\ f[0] = first
    BY <2>2 DEF Follows
  <2>4. \A n \in 1..N : f[n] = More(f[n - 1])
    <3> SUFFICES ASSUME NEW n \in 1..N PROVE f[n] = More(f[n - 1])
      OBVIOUS
    <3>1. f[n - 1] \in V
      BY <1>1, <2>3
    <3> HIDE DEF More
    <3> QED BY <2>2, <3>1 DEF Follows
  <2>5. \A n \in 0..N : f[n] = IF n = 0 THEN first ELSE More(f[n - 1])
    <3>1. \A n \in 0..N : n = 0 \/ n \in 1..N
      BY <1>1
    <3> HIDE DEF More, first
    <3> QED BY <2>3, <2>4, <3>1
  <2>6. f = [n \in 0..N |-> f[n]]
    BY <2>3
  <2>7. P(f) = [n \in 0..N |-> IF n = 0 THEN first ELSE More(f[n - 1])]
    OBVIOUS
  <2> HIDE DEF P, More, first
  <2> QED BY <2>5, <2>6, <2>7
<1>6. W = P(W)
  <2> HIDE DEF P
  <2> QED BY <1>4, <1>5, Zenon
<1>7. P(W)[0] = ToSet(H) /\ \A n \in 1..N : P(W)[n] = More(W[n - 1])
  BY <1>1
<1> HIDE DEF P
<1> QED BY <1>6, <1>7 DEF N

LEMMA WithinIs == Within = WithinOf(edges, hits) /\ Within' = WithinOf(edges', hits')
BY DEF Within, WithinOf

Calm == ~failed /\ changes = 0
\* How far what is found is, and what a level and the next one hold.
Placing ==
    /\ \A r \in ToSet(results) :
          /\ r.distance \in 1..depth
          /\ \/ r.node \in ToSet(hits)
             \/ r.node \in Within[r.distance] /\ r.node \notin Within[r.distance - 1]
    /\ \A x \in ToSet(level) :
          /\ x.node \in Within[depth - 1] /\ x.seed \in ToSet(hits)
          /\ x.node = x.seed \/ x.node \in Nodes(results)
          /\ depth = 1 => x.node = x.seed
    /\ \A x \in ToSet(next) :
          x.node \in Within[depth] /\ x.node \in Nodes(results) /\ x.seed \in ToSet(hits)
\* While there is room nothing is left out.
Covering ==
    /\ Within[depth - 1] \ ToSet(hits) \subseteq Nodes(results)
    /\ \A v \in Within[depth - 1] :
          \/ v \in Nodes(level)
          \/ \A p \in ToSet(edges) : p[1] = v => p[2] \in ToSet(hits) \union Nodes(results)
    /\ \A p \in ToSet(edges) : {p[1], p[2]} \subseteq ToSet(hits) =>
          \/ depth = 1 /\ p[1] \in Nodes(level)
          \/ \E r \in ToSet(results) : r.node = p[2] /\ r.distance = 1
    /\ \A r \in ToSet(results) :
          r.distance = depth /\ r.node \notin ToSet(hits) => r.node \in Nodes(next)
Searching ==
    /\ depth \in 1..MaxHops
    /\ Calm => Placing /\ (Len(results) < MaxNodes => Covering)
TravIInv ==
    /\ TravTyped
    /\ stage = "asked" => results = <<>> /\ next = <<>>
    /\ changes = 0 => \A e \in Entry : truth[e] = "verified"
    /\ stage = "expanding" => Searching

LEMMA TravInitially == ASSUME Init PROVE TravIInv
<1>1. edges \in Seq(Edge) /\ IsInjective(edges)
  <2>1. edges \in BoundedSeq(Edge, MaxEdges) /\ IsInjective(edges)
    BY DEF Init, Edge
  <2>2. PICK m \in 0..MaxEdges : edges \in [1..m -> Edge]
    BY <2>1, Zenon DEF BoundedSeq, SeqOf
  <2> QED BY <2>1, <2>2, SeqDef
<1>2. TravTyped
  BY <1>1 DEF Init, TravTyped
<1> QED BY <1>2 DEF Init, TravIInv

\* With the nodes goes nothing else.
LEMMA ForgetTyped ==
    ASSUME Limited, TravTyped, Forget, results' \in Seq(Result), changes' \in Nat
    PROVE  TravTyped'
<1>1. IsInjective(<<>>)
  BY DEF IsInjective
<1> QED BY <1>1 DEF Forget, TravTyped, Edge, Todo, Result, Node

LEMMA SearchKeeps == ASSUME Limited, TravIInv, NEW graph \in BOOLEAN, Search(graph)
                     PROVE  TravIInv'
<1>1. PICK found \in {s \in BoundedSeq({e \in There : truth[e] # "deprecated"}, VectorLimit) :
                     IsInjective(s)} :
         IF graph /\ found # <<>>
            THEN /\ stage' = "expanding" /\ hits' = found /\ depth' = 1
                 /\ level' = [i \in DOMAIN found |-> [node |-> found[i], seed |-> found[i]]]
                 /\ UNCHANGED <<edges, next>>
            ELSE Forget
  BY DEF Search
<1>2. UNCHANGED <<truth, results, context, changes, failed>> /\ stage = "asked"
      /\ results = <<>> /\ next = <<>>
  BY DEF Search, TravIInv
<1>3. found \in Seq(Entry)
  <2>1. PICK m \in 0..VectorLimit : found \in [1..m -> {e \in There : truth[e] # "deprecated"}]
    BY Zenon DEF BoundedSeq, SeqOf
  <2>2. found \in [1..m -> Entry]
    BY <2>1 DEF There
  <2> QED BY <2>2, SeqDef
<1>4. CASE graph /\ found # <<>>
  <2>1. /\ stage' = "expanding" /\ hits' = found /\ depth' = 1
        /\ level' = [i \in DOMAIN found |-> [node |-> found[i], seed |-> found[i]]]
        /\ edges' = edges /\ next' = <<>> /\ results' = <<>>
    BY <1>1, <1>2, <1>4
  <2>2. /\ Len(found) \in Nat /\ DOMAIN found = 1..Len(found)
        /\ \A i \in DOMAIN found : found[i] \in Entry
    BY <1>3, LenProperties
  <2>3. level' \in Seq(Todo) /\ Len(level') = Len(found)
    <3>1. level' \in [1..Len(found) -> Todo]
      BY <2>1, <2>2 DEF Todo, Node
    <3>2. level' \in Seq(Todo)
      BY <2>2, <3>1, SeqDef
    <3> QED BY <2>2, <3>1, <3>2, LenProperties
  <2>4. TravTyped'
    BY <1>2, <1>3, <2>1, <2>3 DEF TravIInv, TravTyped, Edge, Todo, Result, Node
  <2>5. Within[0]' = ToSet(found)
    <3>1. edges' \in Seq(Edge) /\ hits' \in Seq(Entry)
      BY <2>4 DEF TravTyped, Edge, Node
    <3>2. Within'[0] = ToSet(hits')
      BY <3>1, WithinIs, Nearby
    <3> QED BY <2>1, <3>2
  <2>6. ToSet(level') = {[node |-> v, seed |-> v] : v \in ToSet(found)}
    <3>1. /\ ToSet(level') = {level'[k] : k \in 1..Len(found)}
          /\ ToSet(found) = {found[k] : k \in 1..Len(found)}
      BY <1>3, <2>3, InSeq
    <3> QED BY <2>1, <2>2, <3>1
  <2>7. ToSet(results') = {} /\ ToSet(next') = {} /\ 1 - 1 = 0
    BY <2>1 DEF ToSet
  <2> DEFINE w == Within'
             now == ToSet(level')
  <2>8. w[0] = ToSet(hits') /\ now = {[node |-> v, seed |-> v] : v \in ToSet(hits')}
    BY <2>1, <2>5, <2>6
  <2>9. /\ {x.node : x \in now} = ToSet(hits')
        /\ \A x \in now : x.node = x.seed /\ x.node \in ToSet(hits')
    <3> DEFINE H == ToSet(hits')
    <3>1. now = {[node |-> v, seed |-> v] : v \in H}
      BY <2>8
    <3> HIDE DEF now, H
    <3>2. \A x \in now : x.node = x.seed /\ x.node \in H
      BY <3>1
    <3>3. \A v \in H : [node |-> v, seed |-> v] \in now /\ [node |-> v, seed |-> v].node = v
      BY <3>1
    <3> QED BY <3>2, <3>3 DEF H
  <2>10. Placing'
    <3> HIDE DEF w, now
    <3>1. /\ \A x \in now :
               /\ x.node \in w[depth' - 1] /\ x.seed \in ToSet(hits')
               /\ x.node = x.seed
      BY <2>1, <2>7, <2>8, <2>9
    <3> QED BY <2>7, <3>1 DEF Placing, w, now
  <2>11. Covering'
    <3> HIDE DEF w, now
    <3>1. w[depth' - 1] = ToSet(hits')
      BY <2>1, <2>7, <2>8
    <3>2. Nodes(level)' = ToSet(hits')
      BY <2>9 DEF Nodes, now
    <3> QED BY <2>1, <2>7, <3>1, <3>2 DEF Covering, w
  <2>12. depth' \in 1..MaxHops
    BY <2>1, Limits
  <2> QED BY <1>2, <2>1, <2>4, <2>10, <2>11, <2>12 DEF TravIInv, Searching
<1>5. CASE ~(graph /\ found # <<>>)
  <2>1. Forget
    BY <1>1, <1>5
  <2>2. TravTyped'
    BY <1>2, <2>1, ForgetTyped DEF TravIInv, TravTyped
  <2> QED BY <1>2, <2>1, <2>2 DEF TravIInv, Forget
<1> QED BY <1>4, <1>5

\* What is expanded while there is room leaves no neighbour out.
LEMMA ExpandedAll ==
    ASSUME Limited, TravIInv, NEW at \in Todo, \A e \in Entry : truth[e] = "verified",
           at.node = at.seed \/ at.node \in Nodes(results),
           NEW found, found = Visited(at), Len(found.results) < MaxNodes,
           NEW p \in ToSet(edges), p[1] = at.node
    PROVE  p[2] = at.seed \/ p[2] \in Nodes(found.results)
<1>1. PICK i \in 1..Len(edges) : p = edges[i]
  BY InSeq DEF TravIInv, TravTyped
<1>2. i \in From(at.node)
  <2>1. DOMAIN edges = 1..Len(edges)
    BY LenProperties DEF TravIInv, TravTyped
  <2> QED BY <1>1, <2>1 DEF From
<1>3. /\ found \in Finds /\ ToSet(results) \subseteq ToSet(found.results)
      /\ \A j \in Neighbors(at.node) :
            edges[j][2] = at.seed \/ edges[j][2] \in Nodes(found.results)
  BY VisitedFinds DEF TravIInv
<1>4. CASE i \in Neighbors(at.node)
  BY <1>1, <1>3, <1>4
<1>5. CASE i \notin Neighbors(at.node)
  <2> DEFINE T == {edges[j][2] : j \in Neighbors(at.node)}
             S == Nodes(found.results)
             U == (T \ {at.seed}) \union {at.node}
  <2>1. IsFiniteSet(T) /\ MaxNodes <= Cardinality(T)
    BY <1>2, <1>5, EnoughNeighbors DEF TravIInv, TravTyped
  <2>2. IsFiniteSet(S) /\ Cardinality(S) <= Len(found.results) /\ Len(found.results) \in Nat
    <3>1. found.results \in Seq(Result)
      BY <1>3 DEF Finds
    <3> QED BY <3>1, NodesBounded, LenProperties
  <2>3. T \subseteq S \union {at.seed}
    BY <1>3
  <2>4. at.node \notin T
    <3>1. \A j \in 1..Len(edges) : edges[j] \in Edge
      BY LenProperties DEF TravIInv, TravTyped
    <3>2. \A j \in Neighbors(at.node) : j \in 1..Len(edges) /\ edges[j][1] = at.node
      BY LenProperties DEF TravIInv, TravTyped, Neighbors, From
    <3> QED BY <3>1, <3>2 DEF Edge
  <2>5. Nodes(results) \subseteq S
    BY <1>3 DEF Nodes
  <2> HIDE DEF T, S
  <2>6. Cardinality(T) <= Cardinality(S)
    <3>1. CASE at.node = at.seed
      <4>1. T \subseteq S
        BY <2>3, <2>4, <3>1
      <4> QED BY <2>2, <4>1, FS_Subset
    <3>2. CASE at.node \in Nodes(results)
      <4>1. U \subseteq S
        BY <2>3, <2>5, <3>2
      <4>2. IsFiniteSet(T \ {at.seed}) /\ Cardinality(T \ {at.seed}) >= Cardinality(T) - 1
            /\ Cardinality(T \ {at.seed}) \in Nat /\ Cardinality(T) \in Nat
        <5>1. /\ IsFiniteSet(T \ {at.seed})
              /\ Cardinality(T \ {at.seed})
                   = IF at.seed \in T THEN Cardinality(T) - 1 ELSE Cardinality(T)
          BY <2>1, FS_RemoveElement
        <5>2. Cardinality(T \ {at.seed}) \in Nat /\ Cardinality(T) \in Nat
          BY <2>1, <5>1, FS_CardinalityType
        <5> QED BY <5>1, <5>2
      <4>3. at.node \notin T \ {at.seed}
        BY <2>4
      <4>4. Cardinality(U) = Cardinality(T \ {at.seed}) + 1
        BY <4>2, <4>3, FS_AddElement
      <4> HIDE DEF U
      <4>5. Cardinality(U) <= Cardinality(S)
        BY <2>2, <4>1, FS_Subset
      <4>6. Cardinality(S) \in Nat
        BY <2>2, FS_CardinalityType
      <4> QED BY <4>2, <4>4, <4>5, <4>6
    <3> QED BY <3>1, <3>2
  <2>7. Cardinality(S) \in Nat /\ Cardinality(T) \in Nat
    BY <2>1, <2>2, FS_CardinalityType
  <2> QED BY <2>1, <2>2, <2>6, <2>7, Limits
<1> QED BY <1>4, <1>5

FindsNear(at, all) ==
               /\ ToSet(results) \subseteq ToSet(all.results)
               /\ Len(results) <= Len(all.results)
               /\ \A r \in ToSet(all.results) \ ToSet(results) :
                     /\ r.distance = depth /\ r.node \notin Nodes(results)
                     /\ Len(results) < MaxNodes
                     /\ r.node \in ToSet(hits) \/ r.node \in Nodes(all.new)
                     /\ \E i \in Neighbors(at.node) : edges[i][2] = r.node
               /\ \A y \in ToSet(all.new) :
                     /\ y.seed = at.seed /\ y.node \notin ToSet(hits)
                     /\ y.node \in Nodes(all.results)
                     /\ \E i \in Neighbors(at.node) : edges[i][2] = y.node
LEMMA ExpandKeeps == ASSUME Limited, TravIInv, NEW fails \in BOOLEAN, Expand(fails)
                     PROVE  TravIInv'
<1> DEFINE at == Head(level)
           found == IF fails THEN [results |-> results, new |-> <<>>] ELSE Visited(at)
           rest == Tail(level)
<1>1. /\ stage = "expanding" /\ level # <<>> /\ results' = found.results
      /\ level' = rest /\ next' = next \o found.new /\ failed' = (failed \/ fails)
      /\ UNCHANGED <<edges, truth, stage, hits, depth, evidence, context, changes>>
  BY DEF Expand, OnNextLevel
<1>2. /\ level \in Seq(Todo) /\ next \in Seq(Todo) /\ results \in Seq(Result) /\ TravTyped
      /\ edges \in Seq(Edge) /\ hits \in Seq(Entry) /\ depth \in 1..MaxHops
  BY <1>1 DEF TravIInv, TravTyped, Searching
<1>3. /\ at \in Todo /\ rest \in Seq(Todo) /\ ToSet(level) = {at} \union ToSet(rest)
  BY <1>1, <1>2, InTail
<1> HIDE DEF at, rest
<1>4. found \in Finds
  <2>1. [results |-> results, new |-> <<>>] \in Finds
    BY <1>2 DEF Finds
  <2>2. Visited(at) \in Finds
    BY <1>2, <1>3, VisitedFinds
  <2> QED BY <2>1, <2>2
<1>5. found.results \in Seq(Result) /\ found.new \in Seq(Todo)
  BY <1>4 DEF Finds
<1>6. /\ next' \in Seq(Todo) /\ ToSet(next') = ToSet(next) \union ToSet(found.new)
  <2> DEFINE new == found.new
  <2>1. new \in Seq(Todo) /\ next' = next \o new
    BY <1>1, <1>5
  <2> HIDE DEF new
  <2>2. next' \in Seq(Todo) /\ ToSet(next') = ToSet(next) \union ToSet(new)
    BY <1>2, <2>1, InConcat
  <2> QED BY <2>2 DEF new
<1>7. TravTyped'
  BY <1>1, <1>2, <1>3, <1>5, <1>6 DEF TravTyped, Edge, Todo, Result, Node
<1> SUFFICES ASSUME Calm' PROVE Placing' /\ (Len(results') < MaxNodes => Covering')
  BY <1>1, <1>2, <1>7 DEF TravIInv, Searching
<1>8. /\ Calm /\ ~fails /\ found = Visited(at) /\ \A e \in Entry : truth[e] = "verified"
      /\ Placing /\ (Len(results) < MaxNodes => Covering)
  BY <1>1 DEF Calm, TravIInv, Searching
<1> DEFINE R == ToSet(results')
           H == ToSet(hits)
           W == Within
           d == depth
<1>9. /\ ToSet(results) \subseteq R /\ Len(results) <= Len(results')
      /\ \A r \in R \ ToSet(results) :
                     /\ r.distance = d /\ r.node \notin Nodes(results)
                     /\ Len(results) < MaxNodes
                     /\ r.node \in H \/ r.node \in Nodes(found.new)
                     /\ \E i \in Neighbors(at.node) : edges[i][2] = r.node
      /\ \A y \in ToSet(found.new) :
                     /\ y.seed = at.seed /\ y.node \notin H
                     /\ y.node \in Nodes(results')
                     /\ \E i \in Neighbors(at.node) : edges[i][2] = y.node
  <2>1. FindsNear(at, Visited(at))
    BY <1>2, <1>3, VisitedFinds DEF FindsNear
  <2>2. FindsNear(at, found)
    BY <1>8, <2>1
  <2>3. results' = found.results
    BY <1>1
  <2> HIDE DEF found
  <2> QED BY <2>2, <2>3 DEF FindsNear
<1> HIDE DEF found
<1>10. W' = W /\ W[d] = W[d - 1] \union {p[2] : p \in {q \in ToSet(edges) : q[1] \in W[d - 1]}}
       /\ W[0] = H
  BY <1>1, <1>2, WithinIs, Nearby
<1>11. at.node \in W[d - 1] /\ at.seed \in H /\ (at.node = at.seed \/ at.node \in Nodes(results))
       /\ (d = 1 => at.node = at.seed)
  BY <1>3, <1>8 DEF Placing
<1>12. \A i \in Neighbors(at.node) : edges[i][2] \in W[d]
  <2> SUFFICES ASSUME NEW i \in Neighbors(at.node) PROVE edges[i][2] \in W[d]
    OBVIOUS
  <2>1. i \in 1..Len(edges) /\ edges[i][1] = at.node
    BY <1>2, LenProperties DEF Neighbors, From
  <2>2. edges[i] \in ToSet(edges)
    BY <1>2, <2>1, InSeq
  <2> HIDE DEF W
  <2> QED BY <1>10, <1>11, <2>1, <2>2
<1>13. Nodes(results) \subseteq Nodes(results')
  BY <1>9 DEF Nodes
<1>14. d \in 1..MaxHops /\ d' = d /\ hits' = hits /\ edges' = edges
  BY <1>1, <1>2
<1> HIDE DEF W, d
<1>15. Placing'
  <2>1. ASSUME NEW r \in R
        PROVE  /\ r.distance \in 1..d
               /\ (r.node \in H \/ (r.node \in W[r.distance] /\ r.node \notin W[r.distance - 1]))
    <3>1. CASE r \in ToSet(results)
      BY <1>8, <3>1 DEF Placing, W, d
    <3>2. CASE r \notin ToSet(results)
      <4>1. /\ r.distance = d /\ r.node \notin Nodes(results) /\ Len(results) < MaxNodes
            /\ r.node \in W[d]
        BY <1>9, <1>12, <3>2
      <4>2. W[d - 1] \ H \subseteq Nodes(results)
        BY <1>8, <4>1 DEF Covering, W, d
      <4> QED BY <1>14, <4>1, <4>2
    <3> QED BY <3>1, <3>2
  <2>2. ASSUME NEW x \in ToSet(level')
        PROVE  x.node \in W[d - 1] /\ x.seed \in H /\
                (x.node = x.seed \/ x.node \in Nodes(results'))
               /\ (d = 1 => x.node = x.seed)
    <3>1. x \in ToSet(level)
      BY <1>1, <1>3
    <3> QED BY <1>8, <1>13, <3>1 DEF Placing, W, d
  <2>3. ASSUME NEW x \in ToSet(next')
        PROVE  x.node \in W[d] /\ x.node \in Nodes(results') /\ x.seed \in H
    <3>1. CASE x \in ToSet(next)
      BY <1>8, <1>13, <3>1 DEF Placing, W, d
    <3>2. CASE x \in ToSet(found.new)
      BY <1>9, <1>11, <1>12, <3>2
    <3> QED BY <1>6, <3>1, <3>2
  <2>4. d' = depth' /\ W' = Within' /\ H = ToSet(hits') /\ R = ToSet(results')
        /\ Nodes(results)' = Nodes(results')
    BY <1>14 DEF d, W, Nodes
  <2> HIDE DEF R, H
  <2> QED BY <1>10, <1>14, <2>1, <2>2, <2>3, <2>4 DEF Placing
<1>16. ASSUME Len(results') < MaxNodes PROVE Covering'
  <2>1. Len(results) < MaxNodes
    <3>1. Len(results) \in Nat /\ Len(results') \in Nat
      BY <1>1, <1>2, <1>5, LenProperties
    <3> QED BY <1>9, <1>16, <3>1, Limits
  <2>2. Covering
    BY <1>8, <2>1
  <2>3. W[d - 1] \ H \subseteq Nodes(results')
    BY <1>13, <2>2 DEF Covering, W, d
  <2>4. \A p \in ToSet(edges) : p[1] = at.node => p[2] = at.seed \/ p[2] \in Nodes(results')
    <3>1. results' = found.results
      BY <1>1 DEF found
    <3> QED BY <1>3, <1>8, <1>11, <1>16, <3>1, ExpandedAll
  <2>5. Nodes(level) = {at.node} \union Nodes(level')
    BY <1>1, <1>3 DEF Nodes
  <2>6. ASSUME NEW v \in W[d - 1], v \notin Nodes(level'), NEW p \in ToSet(edges), p[1] = v
        PROVE  p[2] \in H \union Nodes(results')
    <3>1. CASE v = at.node
      BY <1>11, <2>4, <2>6, <3>1
    <3>2. CASE v # at.node
      <4>1. v \notin Nodes(level)
        BY <2>5, <2>6, <3>2
      <4> QED BY <1>13, <2>2, <2>6, <4>1 DEF Covering, W, d
    <3> QED BY <3>1, <3>2
  <2>7. ASSUME NEW p \in ToSet(edges), {p[1], p[2]} \subseteq H,
               ~(d = 1 /\ p[1] \in Nodes(level'))
        PROVE  \E r \in R : r.node = p[2] /\ r.distance = 1
    <3>1. CASE \E r \in ToSet(results) : r.node = p[2] /\ r.distance = 1
      BY <1>9, <3>1
    <3>2. CASE d = 1 /\ p[1] = at.node
      <4>1. at.seed = p[1] /\ p[1] # p[2]
        <5>1. p \in Edge
          BY <1>2, InSeq
        <5> QED BY <1>11, <3>2, <5>1 DEF Edge
      <4>2. p[2] \in Nodes(results')
        BY <2>4, <3>2, <4>1
      <4>3. PICK r \in R : r.node = p[2]
        BY <4>2 DEF Nodes
      <4>4. r.distance \in 1..d
        <5>1. Placing' /\ depth' = d
          BY <1>14, <1>15 DEF d
        <5> QED BY <5>1 DEF Placing
      <4> QED BY <3>2, <4>3, <4>4
    <3>3. \/ \E r \in ToSet(results) : r.node = p[2] /\ r.distance = 1
          \/ d = 1 /\ p[1] \in Nodes(level)
      BY <2>2, <2>7 DEF Covering, d
    <3> QED BY <2>5, <2>7, <3>1, <3>2, <3>3
  <2>8. ASSUME NEW r \in R, r.distance = d, r.node \notin H PROVE r.node \in Nodes(next')
    <3>1. Nodes(next') = Nodes(next) \union Nodes(found.new)
      BY <1>6 DEF Nodes
    <3>2. CASE r \in ToSet(results)
      BY <2>2, <2>8, <3>1, <3>2 DEF Covering, d
    <3>3. CASE r \notin ToSet(results)
      BY <1>9, <2>8, <3>1, <3>3
    <3> QED BY <3>2, <3>3
  <2>9. d' = depth' /\ W' = Within' /\ H = ToSet(hits') /\ R = ToSet(results')
        /\ Nodes(results)' = Nodes(results') /\ Nodes(level)' = Nodes(level')
        /\ Nodes(next)' = Nodes(next')
    BY <1>14 DEF d, W, Nodes
  <2> HIDE DEF R, H
  <2> QED BY <1>10, <1>14, <2>3, <2>6, <2>7, <2>8, <2>9 DEF Covering
<1> QED BY <1>15, <1>16

LEMMA WithinGrows ==
    ASSUME Limited, edges \in Seq(Edge), hits \in Seq(Entry), NEW n \in 0..MaxHops,
           NEW m \in 0..n
    PROVE  Within[m] \subseteq Within[n]
<1> DEFINE T == {k \in 0..MaxHops : \A l \in 0..k : Within[l] \subseteq Within[k]}
<1>1. MaxHops \in Nat
  BY Limits
<1>2. 0 \in T
  <2>1. \A l \in 0..0 : l = 0
    OBVIOUS
  <2> QED BY <1>1, <2>1
<1>3. ASSUME NEW k \in 1..MaxHops, k - 1 \in T PROVE k \in T
  <2>1. Within[k - 1] \subseteq Within[k]
    BY WithinIs, Nearby
  <2>2. \A l \in 0..k : l = k \/ l \in 0..(k - 1)
    BY <1>1
  <2>3. k \in 0..MaxHops
    BY <1>1
  <2> QED BY <1>3, <2>1, <2>2, <2>3
<1> HIDE DEF T
<1>4. 0..MaxHops \subseteq T
  BY <1>1, <1>2, <1>3, UpToAll
<1> QED BY <1>4 DEF T

LEMMA DeeperKeeps == ASSUME Limited, TravIInv, Deeper PROVE TravIInv'
<1>1. /\ stage = "expanding" /\ level = <<>>
      /\ UNCHANGED <<truth, results, evidence, context, changes, failed>>
      /\ TravTyped /\ edges \in Seq(Edge) /\ hits \in Seq(Entry) /\ depth \in 1..MaxHops
      /\ results \in Seq(Result)
  BY DEF Deeper, TravIInv, TravTyped, Searching
<1>2. CASE Forget
  <2>1. TravTyped'
    BY <1>1, <1>2, ForgetTyped DEF TravTyped
  <2> QED BY <1>1, <1>2, <2>1 DEF TravIInv, Forget
<1>3. CASE ~Forget
  <2>1. /\ next # <<>> /\ depth < MaxHops /\ Len(results) < MaxNodes
        /\ level' = next /\ next' = <<>> /\ depth' = depth + 1
        /\ UNCHANGED <<stage, edges, hits>>
    BY <1>3 DEF Deeper
  <2>2. TravTyped'
    BY <1>1, <2>1 DEF TravTyped, Edge, Todo, Result, Node
  <2>3. depth' \in 1..MaxHops /\ (depth + 1) - 1 = depth /\ depth + 1 # 1
    BY <1>1, <2>1, Limits
  <2> SUFFICES ASSUME Calm' PROVE Placing' /\ (Len(results') < MaxNodes => Covering')
    BY <1>1, <2>1, <2>2, <2>3 DEF TravIInv, Searching
  <2>4. Placing /\ Covering
    BY <1>1, <2>1 DEF TravIInv, Searching, Calm
  <2>5. ToSet(level) = {} /\ ToSet(next') = {}
    BY <1>1, <2>1 DEF ToSet
  <2> DEFINE W == Within
             d == depth
             H == ToSet(hits)
  <2>6. W' = W /\ W[d] = W[d - 1] \union {p[2] : p \in {q \in ToSet(edges) : q[1] \in W[d - 1]}}
        /\ H \subseteq W[d - 1] /\ d \in 1..MaxHops
        /\ \A k \in 1..(d - 1) : W[k] \subseteq W[d - 1]
    <3>1. W' = W
      BY <2>1, WithinIs
    <3>2. /\ W[0] = H
          /\ W[d] = W[d - 1] \union {p[2] : p \in {q \in ToSet(edges) : q[1] \in W[d - 1]}}
      BY <1>1, WithinIs, Nearby
    <3>3. d - 1 \in 0..MaxHops /\ \A k \in 0..(d - 1) : W[k] \subseteq W[d - 1]
      <4>1. d - 1 \in 0..MaxHops
        BY <1>1, Limits
      <4> QED BY <1>1, <4>1, WithinGrows
    <3>4. 0 \in 0..(d - 1) /\ \A k \in 1..(d - 1) : k \in 0..(d - 1)
      BY <1>1, Limits
    <3> QED BY <1>1, <3>1, <3>2, <3>3, <3>4
  <2> HIDE DEF W, d
  <2>7. W[d] \ H \subseteq Nodes(results)
    <3>1. \A v \in W[d - 1], p \in ToSet(edges) : p[1] = v => p[2] \in H \union Nodes(results)
      BY <2>4, <2>5 DEF Covering, W, d, Nodes
    <3>2. W[d - 1] \ H \subseteq Nodes(results)
      BY <2>4 DEF Covering, W, d
    <3> QED BY <2>6, <3>1, <3>2
  <2>8. Placing'
    <3>1. \A r \in ToSet(results) :
            /\ r.distance \in 1..(d + 1)
            /\ r.node \in H \/ (r.node \in W[r.distance] /\ r.node \notin W[r.distance - 1])
      <4>1. \A k \in 1..d : k \in 1..(d + 1)
        BY <2>6
      <4> QED BY <2>4, <4>1 DEF Placing, W, d
    <3>2. \A x \in ToSet(level') :
            x.node \in W[d] /\ x.node \in Nodes(results) /\ x.seed \in H
      BY <2>1, <2>4 DEF Placing, W, d
    <3>3. depth' = d + 1 /\ (d + 1) - 1 = d /\ d + 1 # 1 /\ Nodes(results)' = Nodes(results)
          /\ ToSet(results') = ToSet(results) /\ ToSet(hits') = H /\ Within' = W
      BY <1>1, <2>1, <2>3, <2>6 DEF d, Nodes, W
    <3> HIDE DEF H
    <3> QED BY <2>5, <3>1, <3>2, <3>3 DEF Placing
  <2>9. Covering'
    <3>1. ASSUME NEW v \in W[d], v \notin Nodes(level'), NEW p \in ToSet(edges), p[1] = v
          PROVE  p[2] \in H \union Nodes(results)
      <4>1. CASE v \in W[d - 1]
        BY <2>4, <2>5, <3>1, <4>1 DEF Covering, W, d, Nodes
      <4>2. CASE v \notin W[d - 1]
        <5>1. v \in Nodes(results) /\ v \notin H
          BY <2>6, <2>7, <4>2
        <5>2. PICK r \in ToSet(results) : r.node = v
          BY <5>1 DEF Nodes
        <5>3. r.distance \in 1..d /\ v \in W[r.distance]
          BY <2>4, <5>1, <5>2 DEF Placing, W, d
        <5>4. r.distance = d
          <6>1. r.distance = d \/ r.distance \in 1..(d - 1)
            BY <2>6, <5>3
          <6> QED BY <2>6, <4>2, <5>3, <6>1
        <5>5. v \in Nodes(next)
          BY <2>4, <5>1, <5>2, <5>4 DEF Covering, d
        <5> QED BY <2>1, <3>1, <5>5
      <4> QED BY <4>1, <4>2
    <3>2. \A p \in ToSet(edges) : {p[1], p[2]} \subseteq H =>
             \E r \in ToSet(results) : r.node = p[2] /\ r.distance = 1
      BY <2>4, <2>5 DEF Covering, Nodes
    <3>3. \A r \in ToSet(results) : r.distance # d + 1
      <4>1. \A r \in ToSet(results) : r.distance \in 1..d
        BY <2>4 DEF Placing, d
      <4> QED BY <2>6, <4>1
    <3>4. depth' = d + 1 /\ (d + 1) - 1 = d /\ Nodes(results)' = Nodes(results)
          /\ Nodes(level)' = Nodes(level')
          /\ ToSet(results') = ToSet(results) /\ ToSet(hits') = H /\ Within' = W
          /\ edges' = edges
      BY <1>1, <2>1, <2>3, <2>6 DEF d, Nodes, W
    <3> HIDE DEF H
    <3> QED BY <2>7, <3>1, <3>2, <3>3, <3>4 DEF Covering
  <2> QED BY <2>8, <2>9
<1> QED BY <1>2, <1>3

\* The search found what is near.
LEMMA NearKept == ASSUME Limited, TravIInv PROVE NearestSeed
<1> SUFFICES ASSUME Calm, stage = "expanding"
             PROVE  /\ \A r \in ToSet(results) :
                          r.node \in ToSet(hits) \/ (/\ r.node \in Within[r.distance]
                                                     /\ r.node \notin Within[r.distance - 1])
                    /\ level = <<>> /\ Len(results) < MaxNodes =>
                         /\ Within[depth] \ ToSet(hits) \subseteq Nodes(results)
                         /\ \A p \in ToSet(edges) :
                              {p[1], p[2]} \subseteq ToSet(hits) =>
                                \E r \in ToSet(results) : r.node = p[2] /\ r.distance = 1
  BY DEF NearestSeed, LevelDone, Calm, Nodes
<1>1. Placing /\ (Len(results) < MaxNodes => Covering) /\ depth \in 1..MaxHops
      /\ edges \in Seq(Edge) /\ hits \in Seq(Entry)
  BY DEF TravIInv, Searching, TravTyped
<1>2. ASSUME level = <<>>, Len(results) < MaxNodes
      PROVE  /\ Within[depth] \ ToSet(hits) \subseteq Nodes(results)
             /\ \A p \in ToSet(edges) : {p[1], p[2]} \subseteq ToSet(hits) =>
                    \E r \in ToSet(results) : r.node = p[2] /\ r.distance = 1
  <2>1. Nodes(level) = {}
    BY <1>2 DEF Nodes, ToSet
  <2>2. Within[depth] = Within[depth - 1]
               \union {p[2] : p \in {q \in ToSet(edges) : q[1] \in Within[depth - 1]}}
    BY <1>1, WithinIs, Nearby
  <2>3. Covering
    BY <1>1, <1>2
  <2> QED BY <2>1, <2>2, <2>3 DEF Covering
<1> QED BY <1>1, <1>2 DEF Placing

Truth == {"verified", "gone", "deprecated"}
Piece == [entry : Entry, base : Int, truth : Truth, distance : Nat \union {Nowhere}]
Items ==
    /\ truth \in [Entry -> Truth]
    /\ stage = "asked" => evidence = <<>>
    /\ stage \in {"expanding", "reading"} =>
         /\ evidence \in Seq(Piece)
         /\ \A i, j \in 1..Len(evidence) : evidence[i].entry = evidence[j].entry => i = j
    /\ stage \in {"ranked", "built"} => evidence \in Seq(Entry) /\ Injective(evidence)

LEMMA ItemsInitially == ASSUME Init PROVE Items
BY DEF Init, Items, Truth

LEMMA ItemsSearch == ASSUME Limited, TravIInv, Items, NEW graph \in BOOLEAN, Search(graph)
                     PROVE  Items'
<1>1. PICK found \in {s \in BoundedSeq({e \in There : truth[e] # "deprecated"}, VectorLimit) :
                     IsInjective(s)} :
         /\ evidence' = [i \in DOMAIN found |->
                           [entry |-> found[i], base |-> 600 - 100 * i,
                            truth |-> truth[found[i]], distance |-> Nowhere]]
         /\ stage' \in {"expanding", "reading"}
  BY DEF Search, Forget
<1>2. PICK m \in 0..VectorLimit : found \in [1..m -> {e \in There : truth[e] # "deprecated"}]
  BY Zenon DEF BoundedSeq, SeqOf
<1>3. found \in [1..m -> Entry] /\ m \in Nat
  BY <1>2 DEF There
<1>4. \A i \in 1..m : /\ evidence'[i] = [entry |-> found[i], base |-> 600 - 100 * i,
                                         truth |-> truth[found[i]], distance |-> Nowhere]
                      /\ evidence'[i] \in Piece
  <2> SUFFICES ASSUME NEW i \in 1..m
               PROVE  /\ evidence'[i] = [entry |-> found[i], base |-> 600 - 100 * i,
                                         truth |-> truth[found[i]], distance |-> Nowhere]
                      /\ evidence'[i] \in Piece
    OBVIOUS
  <2>1. found[i] \in Entry /\ truth[found[i]] \in Truth /\ 600 - 100 * i \in Int
    BY <1>3 DEF Items
  <2> QED BY <1>1, <1>3, <2>1 DEF Piece
<1>5. evidence' \in [1..m -> Piece]
  BY <1>1, <1>3, <1>4
<1>6. evidence' \in Seq(Piece) /\ Len(evidence') = m
  <2>1. evidence' \in Seq(Piece)
    BY <1>3, <1>5, SeqDef
  <2> QED BY <1>3, <1>5, <2>1, LenProperties
<1>7. \A i, j \in 1..m : found[i] = found[j] => i = j
  BY <1>1, <1>3 DEF IsInjective
<1>8. \A i, j \in 1..Len(evidence') : evidence'[i].entry = evidence'[j].entry => i = j
  BY <1>4, <1>6, <1>7
<1>9. truth' = truth
  BY DEF Search
<1> QED BY <1>1, <1>6, <1>8, <1>9 DEF Items

LEMMA ItemsRead == ASSUME Limited, TravIInv, Items, NEW fails \in BOOLEAN, Read(fails)
                   PROVE  Items' /\ TravIInv'
<1> DEFINE r == Head(results)
           known == {i \in DOMAIN evidence : evidence[i].entry = r.node}
<1>1. /\ stage = "reading" /\ results # <<>> /\ results' = Tail(results)
      /\ UNCHANGED <<edges, truth, stage, hits, level, next, depth, context, changes>>
      /\ results \in Seq(Result)
  BY DEF Read, TravIInv, TravTyped
<1>2. r \in Result /\ Tail(results) \in Seq(Result)
  BY <1>1, InTail
<1>3. TravIInv'
  <2>1. TravTyped'
    BY <1>1, <1>2 DEF TravIInv, TravTyped, Edge, Todo, Result, Node
  <2> QED BY <1>1, <2>1 DEF TravIInv
<1>4. /\ evidence \in Seq(Piece)
      /\ (\A i, j \in 1..Len(evidence) : evidence[i].entry = evidence[j].entry => i = j)
  BY <1>1 DEF Items
<1>5. DOMAIN evidence = 1..Len(evidence) /\ Len(evidence) \in Nat
      /\ \A i \in 1..Len(evidence) : evidence[i] \in Piece
  BY <1>4, LenProperties
<1>6. \/ evidence' = evidence
      \/ evidence' = [i \in DOMAIN evidence |->
                     IF i \in known THEN [evidence[i] EXCEPT !.distance = r.distance]
                     ELSE evidence[i]]
      \/ /\ known = {} /\ r.node \in There
         /\ evidence' = Append(evidence, [entry |-> r.node, base |-> 250,
                                    truth |-> truth[r.node], distance |-> r.distance])
  BY DEF Read
<1>7. /\ evidence' \in Seq(Piece)
      /\ \A i, j \in 1..Len(evidence') : evidence'[i].entry = evidence'[j].entry => i = j
  <2>1. CASE evidence' = evidence
    BY <1>4, <2>1
  <2>2. CASE evidence' = [i \in DOMAIN evidence |->
                     IF i \in known THEN [evidence[i] EXCEPT !.distance = r.distance]
                     ELSE evidence[i]]
    <3>1. \A i \in 1..Len(evidence) :
               evidence'[i] \in Piece /\ evidence'[i].entry = evidence[i].entry
      <4> SUFFICES ASSUME NEW i \in 1..Len(evidence)
                   PROVE  evidence'[i] \in Piece /\ evidence'[i].entry = evidence[i].entry
        OBVIOUS
      <4>1. r.distance \in Nat /\ evidence[i] \in Piece
        BY <1>2, <1>5 DEF Result
      <4>2. \/ evidence'[i] = evidence[i]
            \/ evidence'[i] = [evidence[i] EXCEPT !.distance = r.distance]
        BY <1>5, <2>2
      <4> HIDE DEF r
      <4> QED BY <4>1, <4>2 DEF Piece
    <3>2. DOMAIN evidence' = 1..Len(evidence)
      BY <1>5, <2>2
    <3>3. evidence' \in [1..Len(evidence) -> Piece]
      BY <1>5, <2>2, <3>1
    <3>4. evidence' \in Seq(Piece) /\ Len(evidence') = Len(evidence)
      <4>1. evidence' \in Seq(Piece)
        BY <1>5, <3>3, SeqDef
      <4> QED BY <1>5, <3>2, <4>1, LenProperties
    <3> QED BY <1>4, <3>1, <3>4
  <2>3. CASE /\ known = {} /\ r.node \in There
         /\ evidence' = Append(evidence, [entry |-> r.node, base |-> 250,
                                    truth |-> truth[r.node], distance |-> r.distance])
    <3> DEFINE x == [entry |-> r.node, base |-> 250, truth |-> truth[r.node],
                   distance |-> r.distance]
    <3>1. x \in Piece /\ x.entry = r.node
      <4>1. r.node \in Entry /\ r.distance \in Nat
        BY <1>2, <2>3 DEF Result, There
      <4> HIDE DEF r
      <4> QED BY <4>1 DEF Piece, Items
    <3>2. \A i \in 1..Len(evidence) : evidence[i].entry # r.node
      BY <1>5, <2>3
    <3> HIDE DEF x, r
    <3>3. /\ evidence' \in Seq(Piece) /\ Len(evidence') = Len(evidence) + 1
          /\ evidence'[Len(evidence) + 1] = x
          /\ \A i \in 1..Len(evidence) : evidence'[i] = evidence[i]
      BY <1>4, <2>3, <3>1, AppendProperties DEF x, r
    <3>4. \A i \in 1..Len(evidence') : i \in 1..Len(evidence) \/ i = Len(evidence) + 1
      BY <1>5, <3>3
    <3> QED BY <1>4, <3>1, <3>2, <3>3, <3>4
  <2> QED BY <1>6, <2>1, <2>2, <2>3
<1> QED BY <1>1, <1>3, <1>7 DEF Items

\* Nothing is before itself.
LEMMA BeforeItself == ASSUME Limited, NEW v \in Piece PROVE ~Before(v, v)
<1>1. v.base \in Int /\ v.distance \in Nat \union {-1} /\ v.entry \in Nat
  BY Limits DEF Piece, Nowhere
<1>2. Bonus(v) \in Int
  BY DEF Bonus
<1>3. v.distance # Nowhere => 150 \div (1 + v.distance) \in Int
  BY <1>1 DEF Nowhere
<1>4. Score(v) \in Int
  BY <1>1, <1>2, <1>3 DEF Score
<1> QED BY <1>1, <1>4 DEF Before

LEMMA ItemsRank == ASSUME Limited, TravIInv, Items, Rank PROVE Items' /\ TravIInv'
<1>1. /\ stage = "reading" /\ stage' = "ranked" /\ truth' = truth
      /\ UNCHANGED <<edges, truth, hits, traversal, context, changes, failed>>
  BY DEF Rank
<1>2. TravIInv'
  <2>1. TravTyped'
    BY <1>1 DEF traversal, TravIInv, TravTyped, Edge, Todo, Result, Node
  <2> QED BY <1>1, <2>1 DEF TravIInv
<1>3. /\ evidence \in Seq(Piece)
      /\ \A i, j \in 1..Len(evidence) : evidence[i].entry = evidence[j].entry => i = j
  BY <1>1 DEF Items
<1> DEFINE N == Len(evidence)
<1>4. N \in Nat /\ DOMAIN evidence = 1..N /\ ToSet(evidence) = {evidence[i] : i \in 1..N}
      /\ ToSet(evidence) \subseteq Piece
  BY <1>3, InSeq
<1>5. PICK q \in Ranked : evidence' = [i \in 1 .. Min({Limit, Len(q)}) |-> q[i].entry]
  BY DEF Rank
<1>6. /\ q \in [1..N -> Piece] /\ \A i \in 1..N : q[i] \in ToSet(evidence)
      /\ \A i, j \in 1..N : i < j => Before(q[i], q[j])
  BY <1>4, <1>5 DEF Ranked
<1>7. Len(q) = N
  <2>1. q \in Seq(Piece)
    BY <1>4, <1>6, SeqDef
  <2> QED BY <1>4, <1>6, <2>1, LenProperties
<1> HIDE DEF N
<1> DEFINE M == Min({Limit, Len(q)})
<1>8. M \in Nat /\ M <= N
  <2>1. {Limit, Len(q)} \subseteq Nat /\ {Limit, Len(q)} # {}
    BY <1>4, <1>7, Limits
  <2>2. \E m \in {Limit, Len(q)} : \A k \in {Limit, Len(q)} : m <= k
    BY <2>1, LeastOf
  <2>3. M \in {Limit, Len(q)} /\ \A k \in {Limit, Len(q)} : M <= k
    BY <2>2 DEF Min
  <2> QED BY <1>7, <2>1, <2>3
<1> HIDE DEF M
<1>9. /\ evidence' \in [1..M -> Entry]
      /\ \A i \in 1..M : evidence'[i] = q[i].entry /\ i \in 1..N
  <2>1. evidence' = [i \in 1..M |-> q[i].entry]
    BY <1>5 DEF M
  <2>2. \A i \in 1..M : i \in 1..N
    BY <1>4, <1>8
  <2>3. \A i \in 1..M : q[i].entry \in Entry
    BY <1>6, <2>2 DEF Piece
  <2> QED BY <2>1, <2>2, <2>3
<1>10. evidence' \in Seq(Entry) /\ Len(evidence') = M
  <2>1. evidence' \in Seq(Entry)
    BY <1>8, <1>9, SeqDef
  <2> QED BY <1>8, <1>9, <2>1, LenProperties
<1>11. \A i, j \in 1..M : evidence'[i] = evidence'[j] => i = j
  <2> SUFFICES ASSUME NEW i \in 1..M, NEW j \in 1..M, evidence'[i] = evidence'[j], i # j
               PROVE  FALSE
    OBVIOUS
  <2>1. q[i].entry = q[j].entry /\ i \in 1..N /\ j \in 1..N
    BY <1>9
  <2>2. PICK k \in 1..N : q[i] = evidence[k]
    BY <1>4, <1>6, <2>1
  <2>3. PICK l \in 1..N : q[j] = evidence[l]
    BY <1>4, <1>6, <2>1
  <2>4. q[i] = q[j]
    BY <1>3, <2>1, <2>2, <2>3 DEF N
  <2>5. i < j \/ j < i
    BY <1>8
  <2>6. Before(q[i], q[i])
    BY <1>6, <2>1, <2>4, <2>5
  <2> QED BY <1>6, <2>1, <2>6, BeforeItself
<1> QED BY <1>1, <1>2, <1>10, <1>11 DEF Items, Injective

LEMMA ItemsExpand ==
    ASSUME Limited, TravIInv, Items, NEW fails \in BOOLEAN, Expand(fails) PROVE Items'
<1>1. UNCHANGED <<truth, stage, evidence>>
  BY DEF Expand
<1> QED BY <1>1 DEF Items

LEMMA ItemsDeeper == ASSUME Limited, TravIInv, Items, Deeper PROVE Items'
<1>1. /\ stage = "expanding" /\ stage' \in {"expanding", "reading"}
      /\ UNCHANGED <<truth, evidence>>
  BY DEF Deeper, Forget
<1> QED BY <1>1 DEF Items

LEMMA ItemsChange ==
    ASSUME Limited, TravIInv, Items, NEW e \in Entry, NEW to \in {"gone", "deprecated"},
           Change(e, to)
    PROVE  Items' /\ TravIInv'
<1>1. /\ stage \in {"expanding", "reading"} /\ changes' = changes + 1
      /\ truth' = [truth EXCEPT ![e] = to]
      /\ UNCHANGED <<edges, stage, hits, level, next, depth, results, evidence, context, failed>>
  BY DEF Change, traversal
<1>2. Items'
  <2>1. truth' \in [Entry -> Truth]
    BY <1>1 DEF Items, Truth
  <2> QED BY <1>1, <2>1 DEF Items
<1>3. changes \in Nat
  BY DEF TravIInv, TravTyped
<1>4. TravTyped' /\ changes' # 0
  BY <1>1, <1>3 DEF TravIInv, TravTyped, Edge, Todo, Result, Node
<1>5. Searching' \/ stage # "expanding"
  BY <1>1, <1>4 DEF TravIInv, Searching, Calm
<1> QED BY <1>1, <1>2, <1>4, <1>5 DEF TravIInv

LEMMA ItemsBuild == ASSUME Limited, TravIInv, Items, Build PROVE Items' /\ TravIInv'
<1>1. /\ stage = "ranked" /\ stage' = "built"
      /\ UNCHANGED <<edges, truth, hits, level, next, depth, results, evidence, changes, failed>>
  BY DEF Build, traversal
<1>2. Items'
  BY <1>1 DEF Items
<1>3. TravTyped'
  BY <1>1 DEF TravIInv, TravTyped, Edge, Todo, Result, Node
<1> QED BY <1>1, <1>2, <1>3 DEF TravIInv

\* The context that is built holds every item of evidence, once.
LEMMA BuildPlaces == ASSUME Limited, TravIInv, Items, Build PROVE EveryItemPlaced'
<1>1. PICK same \in Contents, contradicts \in SUBSET {p \in Entry \X Entry : p[1] # p[2]},
           budget \in Budgets :
        LET all == Consolidate(same)
            c == Budgeted(all, budget)
        IN  context' = [blocks |-> c.blocks, dropped |-> c.dropped, tokens |-> c.tokens,
                        groups |-> Groups(all, contradicts),
                        contradicts |-> contradicts, budget |-> budget, all |-> all]
  BY DEF Build
<1>2. stage = "ranked" /\ evidence' = evidence /\ evidence \in Seq(Entry) /\ Injective(evidence)
      /\ budget \in Nat
  BY Limits DEF Build, Items
<1> DEFINE B == Consolidate(same)
           c == Budgeted(B, budget)
           E == ToSet(evidence)
<1>3. B \in Seq(Block) /\ Apart(B) /\ Cover(B, E)
  BY <1>2, Consolidated
<1>4. context'.blocks = c.blocks /\ context'.dropped = c.dropped /\ context'.tokens = c.tokens
      /\ context'.budget = budget
  BY <1>1
<1> HIDE DEF B, E
<1>5. /\ c \in Budgeting /\ Separate(c) /\ Whole(c, E)
      /\ budget # Unlimited => c.tokens <= budget
  BY <1>2, <1>3, BudgetedAll
<1> HIDE DEF c
<1>6. /\ c.blocks \in Seq(Block) /\ Len(c.blocks) \in Nat
      /\ DOMAIN c.blocks = 1..Len(c.blocks)
      /\ \A k \in 1..Len(c.blocks) : c.blocks[k] \in Block
      /\ c.dropped \in Seq(Entry) /\ DOMAIN c.dropped = 1..Len(c.dropped)
  BY <1>5, LenProperties DEF Budgeting
<1>7. ASSUME NEW k, NEW i, NEW e
      PROVE  k \in 0..Len(context'.blocks) /\ i \in DOMAIN Held(k)' /\ Held(k)'[i] = e
               <=> In(c, k, i, e)
  <2>1. k \in 0..Len(c.blocks) <=> k = 0 \/ k \in 1..Len(c.blocks)
    BY <1>6
  <2>2. 0 \notin 1..Len(c.blocks)
    BY <1>6
  <2>3. CASE k = 0
    <3>1. Held(k)' = c.dropped
      BY <1>4, <2>3 DEF Held
    <3> QED BY <1>4, <1>6, <2>1, <2>2, <2>3, <3>1 DEF In, At
  <2>4. CASE k \in 1..Len(c.blocks)
    <3>1. Held(k)' = AllOf(c.blocks[k]) /\ k # 0
      BY <1>4, <2>2, <2>4 DEF Held
    <3>2. DOMAIN AllOf(c.blocks[k]) = 1..Len(AllOf(c.blocks[k]))
      BY <1>6, <2>4, InBlock
    <3> QED BY <1>4, <2>1, <2>4, <3>1, <3>2 DEF In, At
  <2> QED BY <1>4, <2>1, <2>3, <2>4 DEF In, At
<1>8. ASSUME NEW e \in Entry PROVE Cardinality(Places(e)') = IF e \in E THEN 1 ELSE 0
  <2> DEFINE P == UNION {{i} \X {j \in DOMAIN Held(i)' : Held(i)'[j] = e} :
                           i \in 0 .. Len(context'.blocks)}
  <2>1. Places(e)' = P
    BY DEF Places, Held
  <2>2. \A p : p \in P <=> \E k, i : p = <<k, i>> /\ In(c, k, i, e)
    <3>1. \A p : p \in P <=> \E k \in 0 .. Len(context'.blocks) : \E i \in DOMAIN Held(k)' :
                    p = <<k, i>> /\ Held(k)'[i] = e
      OBVIOUS
    <3> HIDE DEF P
    <3> QED BY <1>7, <3>1
  <2> HIDE DEF P
  <2>3. CASE e \in E
    <3>1. PICK k, i : In(c, k, i, e)
      BY <1>5, <2>3 DEF Whole
    <3>2. \A p : p \in P <=> p = <<k, i>>
      BY <1>5, <2>2, <3>1 DEF Separate
    <3>3. P = {<<k, i>>}
      BY <3>2
    <3>4. Cardinality({<<k, i>>}) = 1
      BY FS_Singleton
    <3> QED BY <2>1, <2>3, <3>3, <3>4
  <2>4. CASE e \notin E
    <3>1. P = {}
      BY <1>5, <2>2, <2>4 DEF Whole
    <3>2. Cardinality({}) = 0
      BY FS_EmptySet
    <3> QED BY <2>1, <2>4, <3>1, <3>2
  <2> QED BY <2>3, <2>4
<1>9. ToSet(evidence') = E
  BY <1>2 DEF E
<1> QED BY <1>4, <1>5, <1>8, <1>9 DEF EveryItemPlaced

\* The way to a root.
Leads(run, f, x) ==
    /\ run \in [0..Cardinality(Entry) -> Entry] /\ run[0] = x
    /\ \A n \in 1..Cardinality(Entry) : run[n] = f[run[n - 1]]
    /\ Root(f, x) = run[Cardinality(Entry)]
LEMMA RootRun == ASSUME Limited, NEW f \in [Entry -> Entry], NEW x \in Entry
                 PROVE  \E run : Leads(run, f, x)
<1> DEFINE N == Cardinality(Entry)
           P(g) == [n \in 0..N |-> IF n = 0 THEN x ELSE f[g[n - 1]]]
           root == CHOOSE g : g = P(g)
<1>1. N \in Nat
  BY FS_CardinalityType, Limits
<1>2. Root(f, x) = root[N]
  BY DEF Root
<1> HIDE DEF N
<1> DEFINE step == [p \in (1..N) \X Entry |-> f[p[2]]]
<1>3. \E g : g = P(g)
  <2>1. step \in [(1..N) \X Entry -> Entry]
    OBVIOUS
  <2>2. PICK g : Follows(g, N, Entry, x, step)
    <3> HIDE DEF step
    <3> QED BY <1>1, <2>1, Recursion
  <2>3. g \in [0..N -> Entry] /\ g[0] = x
    BY <2>2 DEF Follows
  <2>4. \A n \in 1..N : g[n] = f[g[n - 1]]
    <3> SUFFICES ASSUME NEW n \in 1..N PROVE g[n] = f[g[n - 1]]
      OBVIOUS
    <3>1. g[n - 1] \in Entry
      BY <1>1, <2>3
    <3> QED BY <2>2, <3>1 DEF Follows
  <2>5. \A n \in 0..N : g[n] = IF n = 0 THEN x ELSE f[g[n - 1]]
    <3>1. \A n \in 0..N : n = 0 \/ n \in 1..N
      BY <1>1
    <3> QED BY <2>3, <2>4, <3>1
  <2>6. g = [n \in 0..N |-> g[n]]
    BY <2>3
  <2>7. g = P(g) /\ g \in [0..N -> Entry]
    BY <2>3, <2>5, <2>6
  <2> QED BY <2>7
<1>4. root = P(root)
  <2> HIDE DEF P
  <2> QED BY <1>3, Zenon
<1> HIDE DEF root, step
<1>5. root[0] = x /\ \A n \in 1..N : root[n] = f[root[n - 1]]
  <2>1. P(root)[0] = x /\ \A n \in 1..N : P(root)[n] = f[root[n - 1]]
    BY <1>1
  <2> HIDE DEF P
  <2> QED BY <1>4, <2>1
<1>6. root = [n \in 0..N |-> root[n]]
  <2>1. P(root) = [n \in 0..N |-> P(root)[n]]
    OBVIOUS
  <2> HIDE DEF P
  <2> QED BY <1>4, <2>1
<1> HIDE DEF P
<1> DEFINE T == {n \in 0..N : root[n] \in Entry}
<1>7. 0 \in T
  BY <1>1, <1>5
<1>8. ASSUME NEW n \in 1..N, n - 1 \in T PROVE n \in T
  BY <1>5, <1>8
<1> HIDE DEF T
<1>9. 0..N \subseteq T
  BY <1>1, <1>7, <1>8, UpToAll
<1>10. root \in [0..N -> Entry]
  BY <1>6, <1>9 DEF T
<1>11. Leads(root, f, x)
  BY <1>2, <1>5, <1>10 DEF Leads, N
<1> QED BY <1>11

\* A node is not before its parent, and the way to the root ends at one.
Forest == {f \in [Entry -> Entry] : \A x \in Entry : f[x] <= x}
LEMMA RootIs ==
    ASSUME Limited, NEW f \in Forest, NEW x \in Entry
    PROVE  /\ Root(f, x) \in Entry /\ f[Root(f, x)] = Root(f, x) /\ Root(f, x) <= x
           /\ Root(f, f[x]) = Root(f, x)
           /\ \A c : (\A y \in Entry : y \in c <=> f[y] \in c) => (x \in c <=> Root(f, x) \in c)
           /\ f[x] = x => Root(f, x) = x
<1> DEFINE K == Cardinality(Entry)
<1>1. K \in Nat /\ Entry \subseteq Nat
  BY FS_CardinalityType, Limits
<1>2. /\ f \in [Entry -> Entry] /\ f[x] \in Entry
      /\ \A y \in Entry : f[y] \in Entry /\ f[y] <= y
  BY DEF Forest
<1>3. PICK run : Leads(run, f, x)
  BY <1>2, RootRun
<1>4. PICK way : Leads(way, f, f[x])
  BY <1>2, RootRun
<1> DEFINE above(n) == {e \in Entry : e > run[n]}
<1>5. /\ run \in [0..K -> Entry] /\ run[0] = x /\ Root(f, x) = run[K]
      /\ \A n \in 1..K : run[n] = f[run[n - 1]]
  BY <1>3 DEF Leads
<1>6. /\ way \in [0..K -> Entry] /\ way[0] = f[x] /\ Root(f, f[x]) = way[K]
      /\ \A n \in 1..K : way[n] = f[way[n - 1]]
  BY <1>4 DEF Leads
<1>7. \A n \in 0..K : IsFiniteSet(above(n)) /\ Cardinality(above(n)) \in Nat
  <2> SUFFICES ASSUME NEW n \in 0..K
               PROVE  IsFiniteSet(above(n)) /\ Cardinality(above(n)) \in Nat
    OBVIOUS
  <2>1. above(n) \subseteq Entry
    OBVIOUS
  <2> HIDE DEF above
  <2> QED BY <2>1, FS_Subset, FS_CardinalityType, Limits
<1> HIDE DEF K
<1>8. f[run[K]] = run[K]
  <2> DEFINE T == {n \in 0..K : f[run[n]] = run[n] \/ Cardinality(above(n)) >= n}
  <2>1. 0 \in T
    <3>1. Cardinality(above(0)) \in Nat /\ 0 \in 0..K
      BY <1>1, <1>7
    <3> HIDE DEF above
    <3> QED BY <3>1
  <2>2. ASSUME NEW n \in 1..K, n - 1 \in T PROVE n \in T
    <3>1. n - 1 \in 0..K /\ n \in 0..K /\ n - 1 \in Nat /\ n = (n - 1) + 1
      BY <1>1
    <3> DEFINE u == run[n - 1]
               v == run[n]
    <3>2. u \in Entry /\ v \in Entry /\ v = f[u] /\ v <= u /\ u \in Nat /\ v \in Nat
      BY <1>1, <1>2, <1>5, <3>1
    <3>3. CASE f[u] = u
      <4>1. f[run[n]] = run[n]
        BY <3>2, <3>3
      <4> HIDE DEF above
      <4> QED BY <3>1, <4>1
    <3>4. CASE f[u] # u
      <4>1. v < u
        BY <3>2, <3>4
      <4>2. above(n - 1) \union {u} \subseteq above(n) /\ u \notin above(n - 1)
        <5>1. above(n - 1) = {e \in Entry : e > u} /\ above(n) = {e \in Entry : e > v}
          OBVIOUS
        <5> HIDE DEF above, u, v
        <5>2. \A e \in Entry : e \in Nat
          BY <1>1
        <5>3. \A e \in Entry : (e > u \/ e = u) => e > v
          BY <3>2, <4>1, <5>2
        <5>4. ~(u > u)
          BY <3>2
        <5> QED BY <3>2, <5>1, <5>3, <5>4
      <4>3. Cardinality(above(n - 1)) >= n - 1
        BY <2>2, <3>4
      <4> HIDE DEF above, u, v, T
      <4>4. Cardinality(above(n - 1) \union {u}) = Cardinality(above(n - 1)) + 1
        BY <1>7, <3>1, <4>2, FS_AddElement
      <4>5. Cardinality(above(n - 1) \union {u}) <= Cardinality(above(n))
        BY <1>7, <3>1, <4>2, FS_Subset
      <4>6. Cardinality(above(n)) >= n
        <5> DEFINE ca == Cardinality(above(n - 1))
                   cb == Cardinality(above(n))
        <5>1. ca \in Nat /\ cb \in Nat /\ ca >= n - 1 /\ ca + 1 <= cb
          BY <1>7, <3>1, <4>3, <4>4, <4>5
        <5> HIDE DEF ca, cb
        <5>2. cb >= n
          BY <3>1, <5>1
        <5> QED BY <5>2 DEF cb
      <4> QED BY <3>1, <4>6 DEF T
    <3> QED BY <3>3, <3>4
  <2> HIDE DEF T
  <2>3. K \in T
    BY <1>1, <2>1, <2>2, UpToAll
  <2>4. ~(Cardinality(above(K)) >= K)
    <3>1. K \in 0..K
      BY <1>1
    <3>2. run[K] \in Entry
      BY <1>5, <3>1
    <3>3. above(K) \subseteq Entry \ {run[K]}
      <4>1. \A n \in Nat : ~(n > n)
        OBVIOUS
      <4>2. run[K] \in Nat
        BY <1>1, <3>2
      <4> QED BY <3>2, <4>1, <4>2
    <3> HIDE DEF above
    <3>4. IsFiniteSet(Entry \ {run[K]}) /\ Cardinality(Entry \ {run[K]}) = K - 1
      BY <3>2, FS_RemoveElement, Limits DEF K
    <3>5. Cardinality(above(K)) <= K - 1
      BY <3>3, <3>4, FS_Subset
    <3>6. Cardinality(above(K)) \in Nat
      BY <1>7, <3>1
    <3> QED BY <1>1, <3>5, <3>6
  <2> HIDE DEF above
  <2> QED BY <2>3, <2>4 DEF T
<1> HIDE DEF above
<1>9. ASSUME NEW c, \A y \in Entry : y \in c <=> f[y] \in c PROVE x \in c <=> run[K] \in c
  <2> DEFINE T == {n \in 0..K : x \in c <=> run[n] \in c}
  <2>1. 0 \in T
    BY <1>1, <1>5
  <2>2. ASSUME NEW n \in 1..K, n - 1 \in T PROVE n \in T
    BY <1>5, <1>9, <2>2
  <2> HIDE DEF T
  <2>3. K \in T
    BY <1>1, <2>1, <2>2, UpToAll
  <2> QED BY <2>3 DEF T
<1>10. run[K] <= x
  <2> DEFINE T == {n \in 0..K : run[n] <= x}
  <2>1. 0 \in T
    BY <1>1, <1>5
  <2>2. ASSUME NEW n \in 1..K, n - 1 \in T PROVE n \in T
    <3>1. run[n - 1] \in Entry /\ run[n] = f[run[n - 1]] /\ run[n - 1] <= x
      BY <1>5, <2>2
    <3>2. run[n] \in Entry /\ run[n] <= run[n - 1]
      BY <1>2, <3>1
    <3>3. run[n] \in Nat /\ run[n - 1] \in Nat /\ x \in Nat
      BY <1>1, <3>1, <3>2
    <3>4. run[n] <= x
      BY <3>1, <3>2, <3>3
    <3> QED BY <1>1, <3>4
  <2> HIDE DEF T
  <2>3. K \in T
    BY <1>1, <2>1, <2>2, UpToAll
  <2> QED BY <2>3 DEF T
<1>11. way[K] = run[K]
  <2> DEFINE T == {n \in 0..K : way[n] = f[run[n]]}
  <2>1. 0 \in T
    BY <1>1, <1>5, <1>6
  <2>2. ASSUME NEW n \in 1..K, n - 1 \in T PROVE n \in T
    BY <1>5, <1>6, <2>2
  <2> HIDE DEF T
  <2>3. K \in T
    BY <1>1, <2>1, <2>2, UpToAll
  <2> QED BY <1>8, <2>3 DEF T
<1>12. ASSUME f[x] = x PROVE run[K] = x
  <2> DEFINE T == {n \in 0..K : run[n] = x}
  <2>1. 0 \in T
    BY <1>1, <1>5
  <2>2. ASSUME NEW n \in 1..K, n - 1 \in T PROVE n \in T
    BY <1>5, <1>12, <2>2
  <2> HIDE DEF T
  <2>3. K \in T
    BY <1>1, <2>1, <2>2, UpToAll
  <2> QED BY <2>3 DEF T
<1>13. run[K] \in Entry
  BY <1>1, <1>5
<1> QED BY <1>5, <1>6, <1>8, <1>9, <1>10, <1>11, <1>12, <1>13

\* A function that no step to a parent changes and that is the identity at roots is the root.
LEMMA RootUnique ==
    ASSUME Limited, NEW g \in Forest, NEW h \in [Entry -> Entry],
           \A y \in Entry : h[g[y]] = h[y], \A y \in Entry : g[y] = y => h[y] = y
    PROVE  \A x \in Entry : Root(g, x) = h[x]
<1> SUFFICES ASSUME NEW x \in Entry PROVE Root(g, x) = h[x]
  OBVIOUS
<1> DEFINE c == {y \in Entry : h[y] = h[x]}
<1>1. \A y \in Entry : y \in c <=> g[y] \in c
  BY DEF Forest
<1>2. x \in c
  OBVIOUS
<1> HIDE DEF c
<1>3. Root(g, x) \in c /\ Root(g, x) \in Entry /\ g[Root(g, x)] = Root(g, x)
  BY <1>1, <1>2, RootIs
<1> QED BY <1>3 DEF c

Joins(f, g, big, small) ==
    \A x \in Entry : Root(g, x) = IF Root(f, x) = big THEN small ELSE Root(f, x)
\* A root below a smaller one.
LEMMA Rerooted ==
    ASSUME Limited, NEW f \in Forest, NEW big \in Entry, NEW small \in Entry, small < big,
           f[big] = big, f[small] = small
    PROVE  LET g == [f EXCEPT ![big] = small]
           IN  g \in Forest /\ Joins(f, g, big, small)
<1> DEFINE g == [f EXCEPT ![big] = small]
           h == [x \in Entry |-> IF Root(f, x) = big THEN small ELSE Root(f, x)]
<1>1. f \in [Entry -> Entry] /\ \A x \in Entry : f[x] <= x /\ x \in Nat
  BY Limits DEF Forest
<1>2. g \in Forest
  BY <1>1 DEF Forest
<1>3. \A x \in Entry :
           Root(f, x) \in Entry /\ Root(f, f[x]) = Root(f, x) /\ f[Root(f, x)] = Root(f, x)
                       /\ (f[x] = x => Root(f, x) = x)
  BY RootIs
<1>4. h \in [Entry -> Entry]
  BY <1>3
<1>5. Root(f, big) = big /\ Root(f, small) = small /\ small # big
  BY <1>1, <1>3
<1>6. \A y \in Entry : h[g[y]] = h[y]
  <2> SUFFICES ASSUME NEW y \in Entry PROVE h[g[y]] = h[y]
    OBVIOUS
  <2>1. CASE y = big
    <3>1. g[y] = small
      BY <1>1, <2>1
    <3> QED BY <1>5, <2>1, <3>1
  <2>2. CASE y # big
    <3>1. g[y] = f[y] /\ f[y] \in Entry
      BY <1>1, <2>2
    <3> QED BY <1>3, <3>1
  <2> QED BY <2>1, <2>2
<1>7. \A y \in Entry : g[y] = y => h[y] = y
  <2> SUFFICES ASSUME NEW y \in Entry, g[y] = y PROVE h[y] = y
    OBVIOUS
  <2>1. y # big /\ f[y] = y
    BY <1>1, <1>5
  <2> QED BY <1>3, <2>1
<1> HIDE DEF g
<1>8. \A x \in Entry : Root(g, x) = h[x]
  <2> HIDE DEF h
  <2> QED BY <1>2, <1>4, <1>6, <1>7, RootUnique
<1> QED BY <1>2, <1>8 DEF g, Joins

Closed(P, L) ==
    {c \in SUBSET P : \A a \in c, b \in P : <<a, b>> \in L \/ <<b, a>> \in L => b \in c}
\* What of the links L the forest says once those of M are in it.
Says(f, P, L, M) ==
    /\ f \in Forest
    /\ \A c \in Closed(P, L) : \A x \in Entry : x \in c <=> f[x] \in c
    /\ \A a, b \in Entry : <<a, b>> \in M => Root(f, a) = Root(f, b)

LEMMA UnionSays ==
    ASSUME Limited, NEW P \in SUBSET Entry, NEW L, NEW M, NEW f, Says(f, P, L, M),
           NEW a \in P, NEW b \in P, <<a, b>> \in L
    PROVE  Says(Union(f, a, b), P, L, M \union {<<a, b>>})
<1> DEFINE ra == Root(f, a)
           rb == Root(f, b)
<1>1. f \in Forest /\ a \in Entry /\ b \in Entry
  BY DEF Says
<1>2. ra \in Entry /\ rb \in Entry /\ f[ra] = ra /\ f[rb] = rb /\ ra \in Nat /\ rb \in Nat
  BY <1>1, RootIs, Limits
<1>3. \A c \in Closed(P, L) : ra \in c <=> rb \in c
  <2> SUFFICES ASSUME NEW c \in Closed(P, L) PROVE ra \in c <=> rb \in c
    OBVIOUS
  <2>1. \A y \in Entry : y \in c <=> f[y] \in c
    BY DEF Says
  <2>2. (a \in c <=> ra \in c) /\ (b \in c <=> rb \in c)
    BY <1>1, <2>1, RootIs
  <2>3. a \in c <=> b \in c
    BY DEF Closed
  <2> QED BY <2>2, <2>3
<1>4. Union(f, a, b) = IF ra = rb THEN f
        ELSE IF ra < rb THEN [f EXCEPT ![rb] = ra] ELSE [f EXCEPT ![ra] = rb]
  BY DEF Union
<1> HIDE DEF ra, rb
<1>5. CASE ra = rb
  BY <1>4, <1>5 DEF Says, ra, rb
<1>6. ASSUME NEW big \in Entry, NEW small \in Entry, {big, small} = {ra, rb}, small < big
      PROVE  Says([f EXCEPT ![big] = small], P, L, M \union {<<a, b>>})
  <2> DEFINE g == [f EXCEPT ![big] = small]
  <2>1. f[big] = big /\ f[small] = small
    BY <1>2, <1>6
  <2>2. g \in Forest /\ Joins(f, g, big, small)
    BY <1>1, <1>6, <2>1, Rerooted
  <2>3. f \in [Entry -> Entry]
    BY <1>1 DEF Forest
  <2>4. ASSUME NEW c \in Closed(P, L), NEW x \in Entry PROVE x \in c <=> g[x] \in c
    <3>1. CASE x = big
      BY <1>3, <1>6, <2>3, <3>1
    <3>2. CASE x # big
      BY <2>3, <3>2 DEF Says
    <3> QED BY <3>1, <3>2
  <2> HIDE DEF g
  <2>5. Root(g, a) = Root(g, b)
    <3>1. Root(g, a) = IF ra = big THEN small ELSE ra
      BY <1>1, <2>2 DEF Joins, ra
    <3>2. Root(g, b) = IF rb = big THEN small ELSE rb
      BY <1>1, <2>2 DEF Joins, rb
    <3> QED BY <1>6, <3>1, <3>2
  <2>6. \A u, v \in Entry : <<u, v>> \in M \union {<<a, b>>} => Root(g, u) = Root(g, v)
    <3> SUFFICES ASSUME NEW u \in Entry, NEW v \in Entry, <<u, v>> \in M
                 PROVE  Root(g, u) = Root(g, v)
      BY <2>5
    <3>1. Root(f, u) = Root(f, v)
      BY DEF Says
    <3> QED BY <2>2, <3>1 DEF Joins
  <2>7. Says(g, P, L, M \union {<<a, b>>})
    BY <2>2, <2>4, <2>6 DEF Says
  <2> QED BY <2>7 DEF g
<1>7. CASE ra # rb /\ ra < rb
  <2>1. Says([f EXCEPT ![rb] = ra], P, L, M \union {<<a, b>>})
    BY <1>2, <1>6, <1>7
  <2> QED BY <1>4, <1>7, <2>1
<1>8. CASE ra # rb /\ ~(ra < rb)
  <2>1. rb < ra
    BY <1>2, <1>8
  <2>2. Says([f EXCEPT ![ra] = rb], P, L, M \union {<<a, b>>})
    BY <1>2, <1>6, <2>1
  <2> QED BY <1>4, <1>8, <2>2
<1> QED BY <1>5, <1>7, <1>8

PrimariesOf(B) == {B[i].primary : i \in DOMAIN B}
Target(B, e) == CHOOSE b \in BlockOf(B, e) : TRUE
Links(B, C) == {<<p[1], Target(B, p[2])>> : p \in Pairs(B, C)}
Contradict == {p \in Entry \X Entry : p[1] # p[2]}

\* An entry is in one block, a primary one in its own.
LEMMA OneBlock ==
    ASSUME Limited, NEW B \in Seq(Block), Apart(B)
    PROVE  /\ DOMAIN B = 1..Len(B) /\ Len(B) \in Nat /\ PrimariesOf(B) \subseteq Entry
           /\ \A i, j \in DOMAIN B : B[i].primary = B[j].primary => i = j
           /\ \A e : BlockOf(B, e) \subseteq PrimariesOf(B)
           /\ \A e : \A a, b \in BlockOf(B, e) : a = b
           /\ \A a \in PrimariesOf(B) : BlockOf(B, a) = {a}
<1>1. DOMAIN B = 1..Len(B) /\ Len(B) \in Nat /\ \A i \in DOMAIN B : B[i] \in Block
  BY LenProperties
<1>2. ASSUME NEW i \in DOMAIN B
      PROVE  /\ DOMAIN AllOf(B[i]) = 1..Len(AllOf(B[i])) /\ Len(AllOf(B[i])) \in Nat
             /\ At(B, i, 1, B[i].primary) /\ B[i].primary \in Entry
             /\ B[i].primary \in ToSet(AllOf(B[i]))
  <2>1. /\ DOMAIN AllOf(B[i]) = 1..Len(AllOf(B[i]))
        /\ Len(AllOf(B[i])) = Len(B[i].merged) + 1
        /\ AllOf(B[i])[1] = B[i].primary
    BY <1>1, InBlock
  <2>2. Len(B[i].merged) \in Nat /\ B[i].primary \in Entry
    BY <1>1, LenProperties DEF Block
  <2>3. 1 \in 1..Len(AllOf(B[i])) /\ Len(AllOf(B[i])) \in Nat
    BY <2>1, <2>2
  <2> QED BY <1>1, <2>1, <2>2, <2>3 DEF At, ToSet
<1>3. \A i, j \in DOMAIN B : B[i].primary = B[j].primary => i = j
  BY <1>2 DEF Apart
<1>4. \A e : \A i \in DOMAIN B : e \in ToSet(AllOf(B[i])) => \E k : At(B, i, k, e)
  BY <1>1, <1>2 DEF At, ToSet
<1>5. \A e : \A i, j \in DOMAIN B : e \in ToSet(AllOf(B[i])) /\ e \in ToSet(AllOf(B[j])) => i = j
  BY <1>4 DEF Apart
<1>6. \A e : BlockOf(B, e) = {B[i].primary : i \in {i \in DOMAIN B : e \in ToSet(AllOf(B[i]))}}
  BY DEF BlockOf
<1>7. \A e : \A a, b \in BlockOf(B, e) : a = b
  BY <1>5, <1>6
<1>8. \A a \in PrimariesOf(B) : a \in BlockOf(B, a)
  BY <1>2, <1>6 DEF PrimariesOf
<1>9. \A a \in PrimariesOf(B) : BlockOf(B, a) = {a}
  BY <1>7, <1>8
<1> QED BY <1>1, <1>2, <1>3, <1>6, <1>7, <1>9 DEF PrimariesOf

\* A pair links two primary entries.
LEMMA LinkIs ==
    ASSUME Limited, NEW B \in Seq(Block), Apart(B), NEW C \in SUBSET Contradict,
           NEW p \in Pairs(B, C)
    PROVE  /\ p = <<p[1], p[2]>> /\ p[1] \in PrimariesOf(B) /\ p[2] \in Entry
           /\ Target(B, p[2]) \in PrimariesOf(B)
           /\ BlockOf(B, p[2]) = {Target(B, p[2])}
<1>1. DOMAIN B = 1..Len(B) /\ Len(B) \in Nat
  BY LenProperties
<1> DEFINE s == [i \in DOMAIN B |-> B[i].primary]
<1>2. ToSet(s) = PrimariesOf(B)
  BY DEF ToSet, PrimariesOf
<1>3. p \in PrimariesOf(B) \X Entry /\ \E b \in BlockOf(B, p[2]) : b # p[1]
  BY <1>2 DEF Pairs
<1>4. BlockOf(B, p[2]) # {}
  BY <1>3
<1>5. Target(B, p[2]) \in BlockOf(B, p[2])
  BY <1>4 DEF Target
<1>6. BlockOf(B, p[2]) \subseteq PrimariesOf(B) /\ \A a, b \in BlockOf(B, p[2]) : a = b
  BY OneBlock
<1> QED BY <1>3, <1>5, <1>6

\* The pairs are met one after the other.
LEMMA Ordered ==
    ASSUME Limited, NEW B \in Seq(Block), Apart(B), NEW C \in SUBSET Contradict
    PROVE  LET S == Pairs(B, C)
               o == InOrder(B, S)
           IN  /\ Cardinality(S) \in Nat /\ Len(o) = Cardinality(S)
               /\ \A n \in 1..Cardinality(S) : o[n] \in S
               /\ \A p \in S : \E n \in 1..Cardinality(S) : o[n] = p
<1> DEFINE S == Pairs(B, C)
           o == InOrder(B, S)
           R == {x \in S \X S : Met(B, x[1], x[2])}
           K == Cardinality(S)
<1>1. /\ Len(B) \in Nat /\ DOMAIN B = 1..Len(B) /\ PrimariesOf(B) \subseteq Entry
      /\ \A i, j \in DOMAIN B : B[i].primary = B[j].primary => i = j
  BY OneBlock
<1>2. \A p \in S : p = <<p[1], p[2]>> /\ p[1] \in PrimariesOf(B) /\ p[2] \in Entry
  BY LinkIs
<1>3. IsFiniteSet(S)
  <2>1. S \subseteq Entry \X Entry
    BY <1>1, <1>2
  <2>2. IsFiniteSet(Entry \X Entry)
    BY FS_Product, Limits
  <2> HIDE DEF S
  <2> QED BY <2>1, <2>2, FS_Subset
<1>4. \A p \in S : \E i \in DOMAIN B : B[i].primary = p[1] /\ i \in Nat /\ p[2] \in Nat
  BY <1>1, <1>2, Limits DEF PrimariesOf
<1>5. \A p, q : <<p, q>> \in R <=> p \in S /\ q \in S /\ Met(B, p, q)
  OBVIOUS
<1> HIDE DEF S
<1>6. ASSUME NEW p \in S, NEW q \in S, NEW i \in DOMAIN B, NEW j \in DOMAIN B,
             B[i].primary = p[1], B[j].primary = q[1]
      PROVE  Met(B, p, q) <=> i < j \/ (i = j /\ p[2] < q[2])
  BY <1>1, <1>6 DEF Met
<1>7. \A x \in S : <<x, x>> \notin R
  <2> SUFFICES ASSUME NEW x \in S PROVE ~Met(B, x, x)
    BY <1>5
  <2>1. PICK i \in DOMAIN B : B[i].primary = x[1] /\ i \in Nat /\ x[2] \in Nat
    BY <1>4
  <2>2. Met(B, x, x) <=> i < i \/ (i = i /\ x[2] < x[2])
    BY <1>6, <2>1
  <2>3. \A n \in Nat : ~(n < n)
    OBVIOUS
  <2> QED BY <2>1, <2>2, <2>3
<1>8. \A x, y, z \in S : <<x, y>> \in R /\ <<y, z>> \in R => <<x, z>> \in R
  <2> SUFFICES ASSUME NEW x \in S, NEW y \in S, NEW z \in S, Met(B, x, y), Met(B, y, z)
               PROVE  Met(B, x, z)
    BY <1>5
  <2>1. PICK i \in DOMAIN B : B[i].primary = x[1] /\ i \in Nat /\ x[2] \in Nat
    BY <1>4
  <2>2. PICK j \in DOMAIN B : B[j].primary = y[1] /\ j \in Nat /\ y[2] \in Nat
    BY <1>4
  <2>3. PICK k \in DOMAIN B : B[k].primary = z[1] /\ k \in Nat /\ z[2] \in Nat
    BY <1>4
  <2>4. i < j \/ (i = j /\ x[2] < y[2])
    BY <1>6, <2>1, <2>2
  <2>5. j < k \/ (j = k /\ y[2] < z[2])
    BY <1>6, <2>2, <2>3
  <2> DEFINE xx == x[2]
             yy == y[2]
             zz == z[2]
  <2>6. i < k \/ (i = k /\ xx < zz)
    <3>1. /\ xx \in Nat /\ yy \in Nat /\ zz \in Nat /\ (i < j \/ (i = j /\ xx < yy))
          /\ (j < k \/ (j = k /\ yy < zz))
      BY <2>1, <2>2, <2>3, <2>4, <2>5
    <3> HIDE DEF xx, yy, zz
    <3> QED BY <2>1, <2>2, <2>3, <3>1
  <2> QED BY <1>6, <2>1, <2>3, <2>6
<1>9. \A x, y \in S : x # y => <<x, y>> \in R \/ <<y, x>> \in R
  <2> SUFFICES ASSUME NEW x \in S, NEW y \in S, x # y PROVE Met(B, x, y) \/ Met(B, y, x)
    BY <1>5
  <2>1. PICK i \in DOMAIN B : B[i].primary = x[1] /\ i \in Nat /\ x[2] \in Nat
    BY <1>4
  <2>2. PICK j \in DOMAIN B : B[j].primary = y[1] /\ j \in Nat /\ y[2] \in Nat
    BY <1>4
  <2>3. i # j \/ x[2] # y[2]
    BY <1>2, <2>1, <2>2 DEF S
  <2> DEFINE xx == x[2]
             yy == y[2]
  <2>4. (i < j \/ (i = j /\ xx < yy)) \/ (j < i \/ (j = i /\ yy < xx))
    <3>1. xx \in Nat /\ yy \in Nat /\ (i # j \/ xx # yy)
      BY <2>1, <2>2, <2>3
    <3> HIDE DEF xx, yy
    <3> QED BY <2>1, <2>2, <3>1
  <2> QED BY <1>6, <2>1, <2>2, <2>4
<1>10. \A x : {y \in S : <<y, x>> \in R} = {y \in S : x \in S /\ Met(B, y, x)}
  BY <1>5
<1>11. \A x \in S : {y \in S : <<y, x>> \in R} = {y \in S : Met(B, y, x)}
  BY <1>5
<1> HIDE DEF R
<1> DEFINE rank(p) == Cardinality({q \in S : Met(B, q, p)})
<1>12. \A k \in 1..K : \E x \in S : rank(x) = k - 1 /\ \A z \in S : rank(z) = k - 1 => z = x
  <2>1. \A k \in 1..Cardinality(S) :
              \E x \in S : /\ Cardinality({y \in S : <<y, x>> \in R}) = k - 1
                         /\ \A z \in S : Cardinality({y \in S : <<y, z>> \in R}) = k - 1 => z = x
    BY <1>3, <1>7, <1>8, <1>9, Ranking
  <2>2. \A x \in S : Cardinality({y \in S : <<y, x>> \in R}) = rank(x)
    BY <1>11
  <2> HIDE DEF rank, K
  <2> QED BY <2>1, <2>2 DEF K
<1>13. K \in Nat
  BY <1>3, FS_CardinalityType
<1>14. \A p \in S : rank(p) \in 0..(K - 1)
  <2> SUFFICES ASSUME NEW p \in S PROVE rank(p) \in 0..(K - 1)
    OBVIOUS
  <2> DEFINE below == {q \in S : Met(B, q, p)}
  <2>1. below \subseteq S \ {p}
    BY <1>5, <1>7
  <2>2. IsFiniteSet(S \ {p}) /\ Cardinality(S \ {p}) = K - 1
    BY <1>3, FS_RemoveElement
  <2> HIDE DEF below, K
  <2>3. IsFiniteSet(below) /\ Cardinality(below) <= K - 1
    BY <2>1, <2>2, FS_Subset
  <2>4. Cardinality(below) \in Nat
    BY <2>3, FS_CardinalityType
  <2> QED BY <1>13, <2>3, <2>4 DEF below
<1>15. o = [n \in 1..K |-> CHOOSE p \in S : rank(p) = n - 1]
  BY DEF InOrder
<1> HIDE DEF o, rank, K
<1>16. \A n \in 1..K : o[n] \in S /\ rank(o[n]) = n - 1
  <2> SUFFICES ASSUME NEW n \in 1..K PROVE o[n] \in S /\ rank(o[n]) = n - 1
    OBVIOUS
  <2>1. \E x \in S : rank(x) = n - 1
    BY <1>12
  <2>2. o[n] = CHOOSE p \in S : rank(p) = n - 1
    BY <1>15
  <2> QED BY <2>1, <2>2
<1>17. ASSUME NEW p \in S PROVE \E n \in 1..K : o[n] = p
  <2> DEFINE n == rank(p) + 1
  <2>1. n \in 1..K /\ n - 1 = rank(p)
    BY <1>13, <1>14
  <2> HIDE DEF n
  <2>2. o[n] = p
    BY <1>12, <1>16, <2>1
  <2> QED BY <2>1, <2>2
<1>18. Len(o) = K
  <2>1. o \in [1..K -> S]
    BY <1>15, <1>16
  <2>2. o \in Seq(S)
    BY <1>13, <2>1, SeqDef
  <2> QED BY <1>13, <2>1, <2>2, LenProperties
<1> QED BY <1>13, <1>16, <1>17, <1>18 DEF S, o, K

\* What the links say is the forest's when all of them are met.
LEMMA ParentsSay ==
    ASSUME Limited, NEW B \in Seq(Block), Apart(B), NEW C \in SUBSET Contradict
    PROVE  Says(Parents(B, C), PrimariesOf(B), Links(B, C), Links(B, C))
<1> DEFINE S == Pairs(B, C)
           pairs == InOrder(B, S)
           N == Cardinality(S)
           V == [Entry -> Entry]
           P == PrimariesOf(B)
           L == Links(B, C)
           next_(f, n) == Union(f, pairs[n][1], Target(B, pairs[n][2]))
           F(f) == [n \in 0..N |-> IF n = 0 THEN [e \in Entry |-> e] ELSE next_(f[n - 1], n)]
           parent == CHOOSE f : f = F(f)
           Link(n) == <<pairs[n][1], Target(B, pairs[n][2])>>
           M(n) == {Link(k) : k \in 1..n}
<1>1. /\ N \in Nat /\ Len(pairs) = N /\ \A n \in 1..N : pairs[n] \in S
      /\ \A p \in S : \E n \in 1..N : pairs[n] = p
  BY Ordered
<1>2. \A p \in S : p[1] \in P /\ Target(B, p[2]) \in P
  BY LinkIs
<1>3. P \subseteq Entry
  BY OneBlock
<1>4. \A n \in 1..N : /\ pairs[n][1] \in P /\ Target(B, pairs[n][2]) \in P /\ Link(n) \in L
  BY <1>1, <1>2 DEF Links
<1>5. L = M(N)
  BY <1>1 DEF Links
<1>6. Parents(B, C) = parent[N]
  <2>1. Parents(B, C) = parent[Len(pairs)]
    BY <1>1, Zenon DEF Parents, Target
  <2> QED BY <1>1, <2>1
<1> HIDE DEF pairs, N, S, P, L
<1>7. \A f \in V, n \in 1..N : next_(f, n) \in V
  <2> SUFFICES ASSUME NEW f \in V, NEW n \in 1..N PROVE next_(f, n) \in V
    OBVIOUS
  <2> DEFINE a == pairs[n][1]
             b == Target(B, pairs[n][2])
  <2>1. a \in Entry /\ b \in Entry
    BY <1>3, <1>4
  <2> HIDE DEF a, b
  <2>2. PICK ra : Leads(ra, f, a)
    BY <2>1, RootRun
  <2>3. PICK rb : Leads(rb, f, b)
    BY <2>1, RootRun
  <2>4. Cardinality(Entry) \in Nat
    BY FS_CardinalityType, Limits
  <2>5. Root(f, a) \in Entry /\ Root(f, b) \in Entry
    BY <2>2, <2>3, <2>4 DEF Leads
  <2> QED BY <2>5 DEF Union, a, b
<1>8. [e \in Entry |-> e] \in V
  OBVIOUS
<1> HIDE DEF V
<1> DEFINE step == [x \in (1..N) \X V |-> next_(x[2], x[1])]
<1>9. \E f : f = F(f)
  <2>1. step \in [(1..N) \X V -> V]
    <3> HIDE DEF next_
    <3> QED BY <1>7
  <2>2. PICK f : Follows(f, N, V, [e \in Entry |-> e], step)
    <3> HIDE DEF step
    <3> QED BY <1>1, <1>8, <2>1, Recursion
  <2>3. f \in [0..N -> V] /\ f[0] = [e \in Entry |-> e]
    BY <2>2 DEF Follows
  <2>4. \A n \in 1..N : f[n] = next_(f[n - 1], n)
    <3> HIDE DEF next_
    <3> SUFFICES ASSUME NEW n \in 1..N PROVE f[n] = next_(f[n - 1], n)
      OBVIOUS
    <3>1. f[n - 1] \in V
      BY <1>1, <2>3
    <3> QED BY <2>2, <3>1 DEF Follows
  <2> HIDE DEF next_
  <2>5. \A n \in 0..N : f[n] = IF n = 0 THEN [e \in Entry |-> e] ELSE next_(f[n - 1], n)
    <3>1. \A n \in 0..N : n = 0 \/ n \in 1..N
      BY <1>1
    <3> QED BY <2>3, <2>4, <3>1
  <2>6. f = [n \in 0..N |-> f[n]]
    BY <2>3
  <2> QED BY <2>5, <2>6, ZenonT(30)
<1>10. parent = F(parent)
  <2> HIDE DEF F
  <2> QED BY <1>9, Zenon
<1> HIDE DEF parent, step
<1>11. /\ parent[0] = [e \in Entry |-> e]
       /\ \A n \in 1..N : parent[n] = next_(parent[n - 1], n)
  <2> HIDE DEF next_
  <2>1. /\ F(parent)[0] = [e \in Entry |-> e]
        /\ \A n \in 1..N : F(parent)[n] = next_(parent[n - 1], n)
    BY <1>1
  <2> HIDE DEF F
  <2> QED BY <1>10, <2>1
<1> HIDE DEF F
<1> DEFINE T == {n \in 0..N : Says(parent[n], P, L, M(n))}
<1>12. 0 \in T
  <2>1. [e \in Entry |-> e] \in Forest
    BY Limits DEF Forest
  <2>2. M(0) = {}
    OBVIOUS
  <2>3. Says(parent[0], P, L, {})
    BY <1>11, <2>1 DEF Says
  <2>4. Says(parent[0], P, L, M(0))
    BY <2>2, <2>3
  <2> HIDE DEF M
  <2> QED BY <1>1, <2>4
<1>13. ASSUME NEW n \in 1..N, n - 1 \in T PROVE n \in T
  <2> DEFINE a == pairs[n][1]
             b == Target(B, pairs[n][2])
             f == parent[n - 1]
  <2>1. Says(f, P, L, M(n - 1)) /\ a \in P /\ b \in P /\ <<a, b>> \in L
    BY <1>4, <1>13
  <2>2. parent[n] = Union(f, a, b)
    BY <1>11
  <2>3. M(n) = M(n - 1) \union {<<a, b>>}
    <3>1. \A k : k \in 1..n <=> k \in 1..(n - 1) \/ k = n
      BY <1>1
    <3>2. Link(n) = <<a, b>>
      OBVIOUS
    <3> HIDE DEF Link
    <3> QED BY <3>1, <3>2
  <2> HIDE DEF a, b, f, M
  <2>4. P \in SUBSET Entry
    BY <1>3
  <2>5. Says(Union(f, a, b), P, L, M(n - 1) \union {<<a, b>>})
    BY <2>1, <2>4, UnionSays
  <2>6. Says(parent[n], P, L, M(n))
    BY <2>2, <2>3, <2>5, Zenon
  <2> QED BY <1>1, <2>6
<1> HIDE DEF T, M
<1>14. N \in T
  <2>1. N \in Nat
    BY <1>1
  <2> HIDE DEF next_, Link
  <2>2. \A n \in 1..N : n - 1 \in T => n \in T
    BY <1>13
  <2>3. 0 \in T
    BY <1>12
  <2>4. 0..N \subseteq T
    BY <2>1, <2>2, <2>3, UpToAll
  <2> QED BY <2>1, <2>4
<1>15. Says(parent[N], P, L, L)
  BY <1>5, <1>14 DEF T
<1> QED BY <1>6, <1>15 DEF P, L

Component(P, L, a) ==
    CHOOSE c \in Closed(P, L) : a \in c /\ \A d \in Closed(P, L) : a \in d => c \subseteq d
Class(f, P, r) == {b \in P : Root(f, b) = r}

\* What has a root is connected, and nothing else is connected to it.
LEMMA ClassIsComponent ==
    ASSUME Limited, NEW P \in SUBSET Entry, NEW L \in SUBSET (P \X P), NEW f,
           Says(f, P, L, L), NEW a \in P
    PROVE  /\ Component(P, L, a) = Class(f, P, Root(f, a))
           /\ a \in Class(f, P, Root(f, a))
           /\ Root(f, a) \in Class(f, P, Root(f, a))
           /\ Min(Class(f, P, Root(f, a))) = Root(f, a)
<1> DEFINE r == Root(f, a)
           m == Class(f, P, r)
<1>1. /\ f \in Forest /\ P \subseteq Nat /\ a \in Entry
      /\ \A u, v \in P : <<u, v>> \in L => Root(f, u) = Root(f, v)
  BY Limits DEF Says
<1>2. /\ \A x \in P : Root(f, x) \in Entry /\ f[Root(f, x)] = Root(f, x) /\ Root(f, x) <= x
      /\ \A x \in Entry : f[x] = x => Root(f, x) = x
  BY <1>1, RootIs
<1>3. \A c \in Closed(P, L) : \A x \in P : x \in c <=> Root(f, x) \in c
  <2> SUFFICES ASSUME NEW c \in Closed(P, L), NEW x \in P PROVE x \in c <=> Root(f, x) \in c
    OBVIOUS
  <2>1. \A y \in Entry : y \in c <=> f[y] \in c
    BY DEF Says
  <2> QED BY <1>1, <2>1, RootIs
<1>4. P \in Closed(P, L)
  BY DEF Closed
<1>5. r \in P /\ r \in m /\ a \in m
  <2>1. r \in P
    BY <1>3, <1>4
  <2>2. Root(f, r) = r
    BY <1>2
  <2> QED BY <2>1, <2>2 DEF Class
<1>6. m \in Closed(P, L)
  BY <1>1 DEF Closed, Class
<1>7. \A d \in Closed(P, L) : a \in d => m \subseteq d
  <2> SUFFICES ASSUME NEW d \in Closed(P, L), a \in d, NEW b \in m PROVE b \in d
    OBVIOUS
  <2>1. b \in P /\ Root(f, b) = r
    BY DEF Class
  <2> QED BY <1>3, <2>1
<1> HIDE DEF m
<1>8. \A c \in Closed(P, L) :
         (a \in c /\ \A d \in Closed(P, L) : a \in d => c \subseteq d) <=> c = m
  BY <1>5, <1>6, <1>7
<1>9. Component(P, L, a) = m
  BY <1>6, <1>8 DEF Component
<1>10. \A b \in m : r <= b /\ b \in Nat
  BY <1>1, <1>2 DEF m, Class
<1>11. r \in Nat
  BY <1>5, <1>10
<1> HIDE DEF r
<1>12. \A x \in m : (\A y \in m : x <= y) <=> x = r
  BY <1>5, <1>10, <1>11
<1>13. Min(m) = r
  BY <1>5, <1>12 DEF Min
<1> QED BY <1>5, <1>9, <1>13 DEF m, r

\* The groups are the components with more than one member.
LEMMA GroupsIs ==
    ASSUME Limited, NEW B \in Seq(Block), Apart(B), NEW C \in SUBSET Contradict
    PROVE  LET P == PrimariesOf(B)
               L == Links(B, C)
           IN  Groups(B, C) = {[id |-> Min(Component(P, L, a)), members |-> Component(P, L, a)] :
                                 a \in {a \in P : Component(P, L, a) # {a}}}
<1> DEFINE P == PrimariesOf(B)
           L == Links(B, C)
           f == Parents(B, C)
           R(a) == Root(f, a)
           m(r) == Class(f, P, r)
<1>1. P \subseteq Entry /\ L \in SUBSET (P \X P) /\ Says(f, P, L, L)
  <2>1. L \in SUBSET (P \X P)
    BY LinkIs DEF Links
  <2> QED BY <2>1, OneBlock, ParentsSay
<1>2. Groups(B, C) = {[id |-> r, members |-> m(r)] : r \in {r \in P : Cardinality(m(r)) >= 2}}
  BY DEF Groups, PrimariesOf, Class
<1> HIDE DEF P, L, f
<1>3. \A a \in P : /\ Component(P, L, a) = m(R(a)) /\ a \in m(R(a)) /\ R(a) \in m(R(a))
                   /\ Min(m(R(a))) = R(a)
  BY <1>1, ClassIsComponent
<1>4. \A r : IsFiniteSet(m(r)) /\ m(r) \subseteq P /\ \A a \in m(r) : R(a) = r
  <2> SUFFICES ASSUME NEW r
               PROVE  IsFiniteSet(m(r)) /\ m(r) \subseteq P /\ \A a \in m(r) : R(a) = r
    OBVIOUS
  <2>1. m(r) \subseteq P /\ \A a \in m(r) : R(a) = r
    BY DEF Class
  <2>2. m(r) \subseteq Entry
    BY <1>1, <2>1
  <2> HIDE DEF m
  <2> QED BY <2>1, <2>2, FS_Subset, Limits
<1> HIDE DEF m, R
<1>5. ASSUME NEW r \in P, Cardinality(m(r)) >= 2
      PROVE  \E a \in P : m(R(a)) # {a} /\ R(a) = r
  <2>1. m(r) # {}
    <3> SUFFICES ASSUME m(r) = {} PROVE FALSE
      OBVIOUS
    <3>1. Cardinality(m(r)) = 0
      BY FS_EmptySet
    <3> QED BY <1>5, <3>1
  <2>2. PICK a \in m(r) : TRUE
    BY <2>1
  <2>3. a \in P /\ R(a) = r
    BY <1>4, <2>2
  <2>4. m(r) # {a}
    <3> SUFFICES ASSUME m(r) = {a} PROVE FALSE
      OBVIOUS
    <3>1. Cardinality(m(r)) = 1
      BY FS_Singleton
    <3> QED BY <1>5, <3>1
  <2> QED BY <2>3, <2>4
<1>6. ASSUME NEW a \in P, m(R(a)) # {a}
      PROVE  R(a) \in P /\ Cardinality(m(R(a))) >= 2
  <2>1. PICK b \in m(R(a)) : b # a
    BY <1>3, <1>6
  <2>2. {a, b} \subseteq m(R(a))
    BY <1>3, <2>1
  <2>3. Cardinality({a, b}) = 2
    <3>1. {a, b} = {b} \union {a} /\ a \notin {b}
      BY <2>1
    <3>2. IsFiniteSet({b}) /\ Cardinality({b}) = 1
      BY FS_Singleton
    <3>3. Cardinality({b} \union {a}) = Cardinality({b}) + 1
      BY <3>1, <3>2, FS_AddElement
    <3>4. Cardinality({a, b}) = Cardinality({b} \union {a})
      BY <3>1, Zenon
    <3>5. Cardinality({a, b}) = 1 + 1
      BY <3>2, <3>3, <3>4, Zenon
    <3> QED BY <3>5
  <2>4. Cardinality({a, b}) <= Cardinality(m(R(a)))
    BY <1>4, <2>2, FS_Subset
  <2>5. Cardinality(m(R(a))) \in Nat
    BY <1>4, FS_CardinalityType
  <2>6. Cardinality(m(R(a))) >= 2
    BY <2>3, <2>4, <2>5
  <2>7. R(a) \in P
    BY <1>3, <1>4
  <2> QED BY <2>6, <2>7
<1> DEFINE D == {[id |-> Min(Component(P, L, a)), members |-> Component(P, L, a)] :
                                 a \in {a \in P : Component(P, L, a) # {a}}}
<1>7. D = {[id |-> R(a), members |-> m(R(a))] : a \in {a \in P : m(R(a)) # {a}}}
  BY <1>3
<1> HIDE DEF D
<1>8. D = {[id |-> r, members |-> m(r)] : r \in {r \in P : Cardinality(m(r)) >= 2}}
  <2> DEFINE G(r) == [id |-> r, members |-> m(r)]
  <2>1. D = {G(R(a)) : a \in {a \in P : m(R(a)) # {a}}}
    BY <1>7
  <2>2. Groups(B, C) = {G(r) : r \in {r \in P : Cardinality(m(r)) >= 2}}
    BY <1>2
  <2> HIDE DEF G
  <2>3. \A x : x \in D <=> \E a \in P : m(R(a)) # {a} /\ x = G(R(a))
    BY <2>1
  <2>4. \A x : x \in Groups(B, C) <=> \E r \in P : Cardinality(m(r)) >= 2 /\ x = G(r)
    BY <2>2
  <2>5. \A x : x \in D => x \in Groups(B, C)
    BY <1>6, <2>3, <2>4
  <2>6. \A x : x \in Groups(B, C) => x \in D
    BY <1>5, <2>3, <2>4
  <2>7. D = Groups(B, C)
    BY <2>5, <2>6
  <2> QED BY <1>2, <2>7
<1> QED BY <1>2, <1>8 DEF D, P, L

\* What GroupsAreComponents says of blocks, contradictions and groups.
ComponentsOf(B, C, G) ==
    LET primaries == {b.primary : b \in ToSet(B)}
        linked(a, b) == \E p \in Pairs(B, C) : p[1] = a /\ BlockOf(B, p[2]) = {b}
        closed == {c \in SUBSET primaries :
                     \A a \in c, b \in primaries : linked(a, b) \/ linked(b, a) => b \in c}
        component(a) ==
               CHOOSE c \in closed : a \in c /\ \A d \in closed : a \in d => c \subseteq d
    IN  G = {[id |-> Min(component(a)), members |-> component(a)] :
               a \in {a \in primaries : component(a) # {a}}}

\* The groups of the context that is built.
LEMMA BuildGroups == ASSUME Limited, TravIInv, Items, Build PROVE GroupsAreComponents'
<1>1. PICK same \in Contents, contradicts \in SUBSET Contradict, budget \in Budgets :
        LET all == Consolidate(same)
            c == Budgeted(all, budget)
        IN  context' = [blocks |-> c.blocks, dropped |-> c.dropped, tokens |-> c.tokens,
                        groups |-> Groups(all, contradicts),
                        contradicts |-> contradicts, budget |-> budget, all |-> all]
  BY DEF Build, Contradict
<1>2. evidence \in Seq(Entry) /\ Injective(evidence)
  BY DEF Build, Items
<1> DEFINE B == Consolidate(same)
           C == contradicts
           P == {b.primary : b \in ToSet(B)}
           L == Links(B, C)
<1>3. B \in Seq(Block) /\ Apart(B)
  BY <1>2, Consolidated
<1>4. context'.groups = Groups(B, C) /\ context'.all = B /\ context'.contradicts = C
  BY <1>1
<1> HIDE DEF B
<1>6. PrimariesOf(B) = P
  BY DEF ToSet, PrimariesOf
<1>5. Groups(B, C) = {[id |-> Min(Component(P, L, a)), members |-> Component(P, L, a)] :
                         a \in {a \in P : Component(P, L, a) # {a}}}
  <2> HIDE DEF P
  <2> QED BY <1>3, <1>6, GroupsIs
<1> DEFINE linked(a, b) == \E p \in Pairs(B, C) : p[1] = a /\ BlockOf(B, p[2]) = {b}
           closed == {c \in SUBSET P :
                        \A a \in c, b \in P : linked(a, b) \/ linked(b, a) => b \in c}
           component(a) ==
               CHOOSE c \in closed : a \in c /\ \A d \in closed : a \in d => c \subseteq d
<1>7. \A a, b : linked(a, b) <=> <<a, b>> \in L
  <2>1. \A p \in Pairs(B, C) : BlockOf(B, p[2]) = {Target(B, p[2])}
    BY <1>3, LinkIs
  <2> SUFFICES ASSUME NEW a, NEW b PROVE linked(a, b) <=> <<a, b>> \in L
    OBVIOUS
  <2>2. <<a, b>> \in L <=> \E p \in Pairs(B, C) : a = p[1] /\ b = Target(B, p[2])
    BY DEF Links
  <2>3. \A p \in Pairs(B, C) : BlockOf(B, p[2]) = {b} <=> b = Target(B, p[2])
    BY <2>1
  <2> QED BY <2>2, <2>3
<1>8. closed = Closed(P, L)
  <2> HIDE DEF linked, P, L
  <2> QED BY <1>7 DEF Closed
<1>9. \A a : component(a) = Component(P, L, a)
  <2> HIDE DEF closed, P, L
  <2> QED BY <1>8 DEF Component
<1>10. Groups(B, C) = {[id |-> Min(component(a)), members |-> component(a)] :
                         a \in {a \in P : component(a) # {a}}}
  <2> HIDE DEF component, P, L
  <2> QED BY <1>5, <1>9
<1>11. ComponentsOf(B, C, Groups(B, C))
  BY <1>10, Zenon DEF ComponentsOf
<1>12. ComponentsOf(context'.all, context'.contradicts, context'.groups)
  <2> HIDE DEF C
  <2> QED BY <1>4, <1>11, Zenon
<1> HIDE DEF C
<1> QED BY <1>12, Zenon DEF GroupsAreComponents, ComponentsOf

IInv == TravIInv /\ Items /\ EveryItemPlaced /\ GroupsAreComponents
LEMMA Initially == ASSUME Init PROVE IInv
<1>1. stage # "built"
  BY DEF Init
<1>2. EveryItemPlaced /\ GroupsAreComponents
  BY <1>1, Zenon DEF EveryItemPlaced, GroupsAreComponents
<1> QED BY <1>2, TravInitially, ItemsInitially DEF IInv

\* Only what builds a context leaves one.
LEMMA NotBuilt == ASSUME stage' # "built" PROVE EveryItemPlaced' /\ GroupsAreComponents'
BY Zenon DEF EveryItemPlaced, GroupsAreComponents

LEMMA Inductive == ASSUME Limited, IInv, [Next]_vars PROVE IInv'
<1>0. TravIInv /\ Items
  BY DEF IInv
<1>1. ASSUME NEW graph \in BOOLEAN, Search(graph) PROVE IInv'
  <2>1. stage' # "built"
    BY <1>1 DEF Search, Forget
  <2> QED BY <1>0, <1>1, <2>1, SearchKeeps, ItemsSearch, NotBuilt DEF IInv
<1>2. ASSUME NEW fails \in BOOLEAN, Expand(fails) PROVE IInv'
  <2>1. stage' # "built"
    BY <1>2 DEF Expand
  <2> QED BY <1>0, <1>2, <2>1, ExpandKeeps, ItemsExpand, NotBuilt DEF IInv
<1>3. ASSUME NEW fails \in BOOLEAN, Read(fails) PROVE IInv'
  <2>1. stage' # "built"
    BY <1>3 DEF Read
  <2> QED BY <1>0, <1>3, <2>1, ItemsRead, NotBuilt DEF IInv
<1>4. CASE Deeper
  <2>1. stage' # "built"
    BY <1>4 DEF Deeper, Forget
  <2> QED BY <1>0, <1>4, <2>1, DeeperKeeps, ItemsDeeper, NotBuilt DEF IInv
<1>5. CASE Rank
  <2>1. stage' # "built"
    BY <1>5 DEF Rank
  <2> QED BY <1>0, <1>5, <2>1, ItemsRank, NotBuilt DEF IInv
<1>6. CASE Build
  BY <1>0, <1>6, ItemsBuild, BuildPlaces, BuildGroups DEF IInv
<1>7. ASSUME NEW e \in Entry, NEW to \in {"gone", "deprecated"}, Change(e, to) PROVE IInv'
  <2>1. stage' # "built"
    BY <1>7 DEF Change
  <2> QED BY <1>0, <1>7, <2>1, ItemsChange, NotBuilt DEF IInv
<1>8. CASE UNCHANGED vars
  <2>1. UNCHANGED <<edges, truth, stage, hits, level, next, depth, results, evidence,
            context, changes, failed>>
    BY <1>8 DEF vars
  <2>2. TravTyped'
    BY <1>0, <2>1 DEF TravIInv, TravTyped, Edge, Todo, Result, Node
  <2>3. Items'
    BY <1>0, <2>1 DEF Items
  <2>4. Within' = Within
    BY <2>1 DEF Within
  <2>5. Searching' <=> Searching
    BY <2>1, <2>4 DEF Searching, Placing, Covering, Calm, Nodes
  <2>6. TravIInv'
    BY <1>0, <2>1, <2>2, <2>5 DEF TravIInv
  <2>7. EveryItemPlaced'
    BY <2>1 DEF IInv, EveryItemPlaced, Places, Held
  <2>8. GroupsAreComponents'
    <3>1. stage = "built" => ComponentsOf(context.all, context.contradicts, context.groups)
      BY Zenon DEF IInv, GroupsAreComponents, ComponentsOf
    <3>2. stage' = "built" => ComponentsOf(context'.all, context'.contradicts, context'.groups)
      BY <2>1, <3>1, Zenon
    <3> QED BY <3>2, Zenon DEF GroupsAreComponents, ComponentsOf
  <2> QED BY <2>3, <2>6, <2>7, <2>8 DEF IInv
<1> QED BY <1>1, <1>2, <1>3, <1>4, <1>5, <1>6, <1>7, <1>8 DEF Next

\* What is found, placed and grouped is as it should be.
LEMMA Kept ==
    ASSUME Limited, IInv PROVE NearestSeed /\ EveryItemPlaced /\ GroupsAreComponents
BY NearKept DEF IInv

\* The order of the searches, of the deletions and of the failures is of no matter: what
\* is true of the traversal, the blocks and the groups stays true (pipeline.py retrieve(),
\* builder.py build()).
THEOREM RetrievalIsSound ==
    ASSUME Limited
    PROVE  Spec => [](NearestSeed /\ EveryItemPlaced /\ GroupsAreComponents)
<1>1. Init => IInv
  BY Initially
<1>2. IInv /\ [Next]_vars => IInv'
  BY Inductive
<1>3. IInv => NearestSeed /\ EveryItemPlaced /\ GroupsAreComponents
  BY Kept
<1> QED BY <1>1, <1>2, <1>3, PTL DEF Spec

(***************************************************************************)
(* The chunks of a text.                                                   *)
(***************************************************************************)

\* The words after a, up to b.
TextBetween(a, b) == [i \in 1..(b - a) |-> a + i]

LEMMA TextBetweenIs ==
    ASSUME NEW a \in Nat, NEW b \in Nat, a <= b
    PROVE  /\ TextBetween(a, b) \in Seq(Nat) /\ Len(TextBetween(a, b)) = b - a
           /\ DOMAIN TextBetween(a, b) = 1..(b - a)
           /\ \A i \in 1..(b - a) : TextBetween(a, b)[i] = a + i
           /\ ToSet(TextBetween(a, b)) = (a + 1)..b
           /\ TextBetween(a, b) = <<>> <=> a = b
           /\ Stretch(TextBetween(a, b))
<1> DEFINE s == TextBetween(a, b)
           n == b - a
<1>1. n \in Nat /\ DOMAIN s = 1..n /\ \A i \in 1..n : s[i] = a + i /\ s[i] \in Nat
  BY DEF TextBetween
<1>2. s \in [1..n -> Nat]
  BY <1>1 DEF TextBetween
<1>3. s \in Seq(Nat) /\ Len(s) = n
  <2>1. s \in Seq(Nat)
    BY <1>1, <1>2, SeqDef
  <2> QED BY <1>1, <2>1, LenProperties
<1> HIDE DEF s
<1>4. ToSet(s) = (a + 1)..b
  <2>1. \A v \in (a + 1)..b : v - a \in 1..n /\ a + (v - a) = v
    OBVIOUS
  <2>2. \A i \in 1..n : a + i \in (a + 1)..b
    OBVIOUS
  <2>3. ToSet(s) = {s[i] : i \in 1..n}
    BY <1>1 DEF ToSet
  <2>4. \A i \in 1..n : s[i] \in (a + 1)..b
    BY <1>1, <2>2
  <2>5. \A v \in (a + 1)..b : \E i \in 1..n : v = s[i]
    BY <1>1, <2>1
  <2> QED BY <2>3, <2>4, <2>5
<1>5. s = <<>> <=> a = b
  <2>1. s = <<>> <=> Len(s) = 0
    BY <1>3, EmptySeq
  <2> QED BY <1>3, <2>1
<1>6. \A i \in 2..Len(s) : i \in 1..n /\ i - 1 \in 1..n /\ a + i = (a + (i - 1)) + 1
  BY <1>1, <1>3
<1>7. Stretch(s)
  BY <1>1, <1>6 DEF Stretch
<1> QED BY <1>1, <1>3, <1>4, <1>5, <1>7 DEF s

LEMMA TextBetweenSub ==
    ASSUME NEW a \in Nat, NEW b \in Nat, a <= b, NEW i \in Nat, NEW j \in Nat, i <= j,
           j <= b - a
    PROVE  SubSeq(TextBetween(a, b), i + 1, j) = TextBetween(a + i, a + j)
<1>1. /\ Len(TextBetween(a, b)) = b - a /\ TextBetween(a, b) \in Seq(Nat)
      /\ \A k \in 1..(b - a) : TextBetween(a, b)[k] = a + k
  BY TextBetweenIs
<1>2. SubSeq(TextBetween(a, b), i + 1, j) = [k \in 1..(j - i) |-> TextBetween(a, b)[k + i]]
  <2>1. SubSeq(TextBetween(a, b), i + 1, j) =
             [k \in 1..(j - (i + 1) + 1) |-> TextBetween(a, b)[k + (i + 1) - 1]]
    OBVIOUS
  <2>2. j - (i + 1) + 1 = j - i /\ \A k \in 1..(j - i) : k + (i + 1) - 1 = k + i
    OBVIOUS
  <2> QED BY <2>1, <2>2
<1>3. \A k \in 1..(j - i) : k + i \in 1..(b - a) /\ a + (k + i) = (a + i) + k
  OBVIOUS
<1>4. (a + j) - (a + i) = j - i
  OBVIOUS
<1> QED BY <1>1, <1>2, <1>3, <1>4 DEF TextBetween

LEMMA TextBetweenJoin ==
    ASSUME NEW a \in Nat, NEW b \in Nat, NEW c \in Nat, a <= b, b <= c
    PROVE  TextBetween(a, b) \o TextBetween(b, c) = TextBetween(a, c)
<1> DEFINE s == TextBetween(a, b)
           t == TextBetween(b, c)
           u == TextBetween(a, c)
<1>1. /\ s \in Seq(Nat) /\ Len(s) = b - a /\ t \in Seq(Nat) /\ Len(t) = c - b
      /\ u \in Seq(Nat) /\ Len(u) = c - a
      /\ \A i \in 1..(b - a) : s[i] = a + i
      /\ \A i \in 1..(c - b) : t[i] = b + i
      /\ \A i \in 1..(c - a) : u[i] = a + i
  <2>1. s \in Seq(Nat) /\ Len(s) = b - a /\ \A i \in 1..(b - a) : s[i] = a + i
    BY TextBetweenIs
  <2>2. t \in Seq(Nat) /\ Len(t) = c - b /\ \A i \in 1..(c - b) : t[i] = b + i
    BY TextBetweenIs
  <2>3. a <= c
    OBVIOUS
  <2>4. u \in Seq(Nat) /\ Len(u) = c - a /\ \A i \in 1..(c - a) : u[i] = a + i
    BY <2>3, TextBetweenIs
  <2> QED BY <2>1, <2>2, <2>4
<1> HIDE DEF s, t, u
<1>2. /\ s \o t \in Seq(Nat) /\ Len(s \o t) = (b - a) + (c - b)
      /\ \A i \in 1..(Len(s) + Len(t)) : (s \o t)[i] = IF i <= Len(s) THEN s[i] ELSE t[i - Len(s)]
  <2>1. s \in Seq(Nat) /\ t \in Seq(Nat)
    BY <1>1
  <2>2. /\ s \o t \in Seq(Nat) /\ Len(s \o t) = Len(s) + Len(t)
        /\ \A i \in 1..(Len(s) + Len(t)) : (s \o t)[i] = IF i <= Len(s) THEN s[i] ELSE t[i - Len(s)]
    BY <2>1, ConcatProperties
  <2> QED BY <1>1, <2>2
<1>3. ASSUME NEW i \in 1..(c - a) PROVE (s \o t)[i] = u[i]
  <2>1. i \in 1..(Len(s) + Len(t))
    BY <1>1
  <2>2. (s \o t)[i] = IF i <= b - a THEN s[i] ELSE t[i - (b - a)]
    BY <1>1, <1>2, <2>1
  <2>3. CASE i <= b - a
    BY <1>1, <2>2, <2>3
  <2>4. CASE ~(i <= b - a)
    <3>1. i - (b - a) \in 1..(c - b) /\ b + (i - (b - a)) = a + i
      BY <2>4
    <3> QED BY <1>1, <2>2, <2>4, <3>1
  <2> QED BY <2>3, <2>4
<1>4. Len(s \o t) = Len(u) /\ Len(u) = c - a
  BY <1>1, <1>2
<1>5. s \o t = u
  BY <1>1, <1>2, <1>3, <1>4, SeqEqual
<1> QED BY <1>5 DEF s, t, u

LEMMA TextBetweenEnding ==
    ASSUME NEW a \in Nat, NEW b \in Nat, a <= b, NEW n \in Nat
    PROVE  LET d == IF n <= b - a THEN b - n ELSE a
           IN  /\ d \in Nat /\ a <= d /\ d <= b /\ b - d <= n /\ (b - a <= n => d = a)
               /\ Ending(TextBetween(a, b), n) = TextBetween(d, b)
<1> DEFINE d == IF n <= b - a THEN b - n ELSE a
           i == d - a
<1>1. /\ d \in Nat /\ a <= d /\ d <= b /\ b - d <= n /\ (b - a <= n => d = a) /\ i \in Nat
      /\ i <= b - a /\ b - a \in Nat
  OBVIOUS
<1>2. Len(TextBetween(a, b)) = b - a
  BY TextBetweenIs
<1>3. Ending(TextBetween(a, b), n) = SubSeq(TextBetween(a, b), i + 1, b - a)
  <2>1. (b - a) - Least(n, b - a) + 1 = i + 1
    BY DEF Least
  <2> QED BY <1>2, <2>1 DEF Ending
<1>4. a + i = d /\ a + (b - a) = b
  BY <1>1
<1> HIDE DEF d
<1>5. SubSeq(TextBetween(a, b), i + 1, b - a) = TextBetween(a + i, a + (b - a))
  <2> DEFINE j == b - a
  <2>1. i \in Nat /\ j \in Nat /\ i <= j /\ j <= b - a
    BY <1>1
  <2> HIDE DEF i, j
  <2>2. SubSeq(TextBetween(a, b), i + 1, j) = TextBetween(a + i, a + j)
    BY <2>1, TextBetweenSub, ZenonT(30)
  <2> QED BY <2>2 DEF j
<1> QED BY <1>1, <1>3, <1>4, <1>5 DEF d

TextShort == MinWords - 1
LEMMA TextSizes ==
    ASSUME Windows
    PROVE  /\ WindowSize \in Nat /\ WindowOverlap \in Nat /\ TextShort \in Nat
           /\ WindowOverlap < WindowSize
           /\ MinWords = TextShort + 1 /\ TextShort <= WindowOverlap
           /\ TextShort + TextShort <= WindowSize
BY DEF Windows, TextShort

\* Words that are kept, of the chunks in out.
TextKept(out) == UNION {ToSet(c) : c \in {c \in out : Len(c) >= MinWords}}
\* The chunks are stretches of the first p words, and bounded.
TextStretches(out, p) ==
    \A c \in out : \E a, b \in Nat :
        a <= b /\ b <= p /\ b - a <= WindowSize + WindowOverlap /\ c = TextBetween(a, b)
\* Up to e, which is kept, no more words in a row are left out than two short chunks have.
TextDense(kept, e) ==
    /\ e \in kept \union {0}
    /\ \A x \in Nat : x + (TextShort + TextShort) + 1 <= e =>
          \E v \in kept : x + 1 <= v /\ v <= x + (TextShort + TextShort) + 1

LEMMA TextDenser ==
    ASSUME Windows, NEW K, NEW L, K \subseteq Nat, L \subseteq Nat, K \subseteq L,
           NEW e \in Nat, TextDense(K, e),
           NEW a \in Nat, NEW b \in Nat, a <= e + (TextShort + TextShort), e <= b,
               (a + 1)..b \subseteq L, a < b
    PROVE  TextDense(L, b)
<1> DEFINE G == TextShort + TextShort
<1>1. G \in Nat
  BY TextSizes
<1>2. b \in L
  OBVIOUS
<1>3. ASSUME NEW x \in Nat, x + G + 1 <= b
      PROVE  \E v \in L : x + 1 <= v /\ v <= x + G + 1
  <2>1. CASE x + G + 1 <= e
    BY <2>1 DEF TextDense
  <2>2. CASE x < e /\ e < x + G + 1
    <3>1. e \in K
      BY <2>2 DEF TextDense
    <3> QED BY <1>1, <2>2, <3>1
  <2>3. CASE e <= x
    <3>1. x + G + 1 \in (a + 1)..b
      BY <1>1, <1>3, <2>3
    <3> QED BY <1>1, <3>1
  <2> QED BY <1>1, <2>1, <2>2, <2>3
<1> QED BY <1>2, <1>3 DEF TextDense

LEMMA TextDenseMore ==
    ASSUME NEW K, NEW L, K \subseteq L, NEW e \in Nat, TextDense(K, e) PROVE TextDense(L, e)
BY DEF TextDense

LEMMA TextKeptOf ==
    ASSUME NEW o, NEW p
    PROVE  /\ TextKept(o \union p) = TextKept(o) \union TextKept(p)
           /\ \A n : TextStretches(o, n) /\ TextStretches(p, n) => TextStretches(o \union p, n)
           /\ \A c \in o : Len(c) >= MinWords => ToSet(c) \subseteq TextKept(o)
BY DEF TextKept, TextStretches

LEMMA TextKeptNat == ASSUME NEW o, NEW p \in Nat, TextStretches(o, p)
                     PROVE  TextKept(o) \subseteq 1..p
<1> SUFFICES ASSUME NEW c \in o PROVE ToSet(c) \subseteq 1..p
  BY DEF TextKept
<1>1. PICK a, b \in Nat : a <= b /\ b <= p /\ c = TextBetween(a, b)
  BY DEF TextStretches
<1>2. ToSet(c) = (a + 1)..b
  BY <1>1, TextBetweenIs
<1> QED BY <1>1, <1>2

LEMMA TextFurtherStretches ==
    ASSUME NEW o, NEW p \in Nat, NEW q \in Nat, p <= q, TextStretches(o, p)
    PROVE  TextStretches(o, q)
<1> SUFFICES ASSUME NEW c \in o
             PROVE  \E a, b \in Nat : a <= b /\ b <= q /\
                        b - a <= WindowSize + WindowOverlap /\ c = TextBetween(a, b)
  BY DEF TextStretches
<1>1. PICK a, b \in Nat : /\ a <= b /\ b <= p /\ b - a <= WindowSize + WindowOverlap
                          /\ c = TextBetween(a, b)
  BY DEF TextStretches
<1> QED BY <1>1

\* What is open is flushed.
LEMMA TextFlushedIs ==
    ASSUME Windows, NEW o, NEW a \in Nat, NEW p \in Nat, a <= p, TextStretches(o, p),
           p - a <= WindowSize + WindowOverlap
    PROVE  LET f == Flushed(o, TextBetween(a, p))
           IN  /\ TextStretches(f, p) /\ TextKept(o) \subseteq TextKept(f)
               /\ p - a > TextShort => (a + 1)..p \subseteq TextKept(f)
<1> DEFINE c == TextBetween(a, p)
<1>1. Len(c) = p - a /\ ToSet(c) = (a + 1)..p /\ (c = <<>> <=> a = p)
  BY TextBetweenIs
<1>2. TextStretches({c}, p)
  BY DEF TextStretches
<1> HIDE DEF c
<1>3. CASE a = p
  <2>1. Flushed(o, c) = o
    BY <1>1, <1>3 DEF Flushed
  <2> QED BY <1>3, <2>1, TextSizes DEF c
<1>4. CASE a # p
  <2>1. Flushed(o, c) = o \union {c}
    BY <1>1, <1>4 DEF Flushed
  <2>2. /\ TextStretches(o \union {c}, p)
        /\ TextKept(o \union {c}) = TextKept(o) \union TextKept({c})
    BY <1>2, TextKeptOf
  <2>3. p - a > TextShort => (a + 1)..p \subseteq TextKept({c})
    <3>1. p - a > TextShort => Len(c) >= MinWords
      BY <1>1, TextSizes
    <3> QED BY <1>1, <3>1, TextKeptOf
  <2> QED BY <2>1, <2>2, <2>3 DEF c
<1> QED BY <1>3, <1>4

\* A sentence that is too long is windows that have all of its words, and none is short.
LEMMA TextSplitWords ==
    ASSUME Windows, NEW a \in Nat, NEW b \in Nat, a <= b, b - a > WindowSize
    PROVE  LET o == split_words(TextBetween(a, b))
           IN  TextStretches(o, b) /\ (a + 1)..b \subseteq TextKept(o)
<1>0. /\ WindowSize \in Nat /\ WindowOverlap \in Nat /\ TextShort \in Nat
      /\ WindowOverlap < WindowSize
      /\ MinWords = TextShort + 1 /\ TextShort <= WindowOverlap
      /\ TextShort + TextShort <= WindowSize
  BY TextSizes
<1> DEFINE n == b - a
           step == WindowSize - WindowOverlap
           starts == {s \in {k * step : k \in 0..n} :
                        s = 0 \/ (s < n /\ s - step + WindowSize < n)}
           end(s) == IF s + WindowSize <= n THEN s + WindowSize ELSE n
           o == split_words(TextBetween(a, b))
<1>1. n \in Nat /\ step \in Nat /\ 0 < step /\ n > WindowSize /\ WindowSize \in Nat /\ n # 0
  BY <1>0
<1>2. \A s \in starts : s \in Nat /\ s < n
  <2>1. \A k \in 0..n : k * step \in Nat
    BY <1>1
  <2> QED BY <1>1, <2>1
<1>3. o = {SubSeq(TextBetween(a, b), s + 1, end(s)) : s \in starts}
  <2>1. Len(TextBetween(a, b)) = n
    BY TextBetweenIs
  <2>2. \A s \in starts : Least(s + WindowSize, n) = end(s)
    BY DEF Least
  <2> QED BY <2>1, <2>2 DEF split_words
<1>4. \A s \in starts : end(s) \in Nat /\ s < end(s) /\ end(s) <= n /\
          end(s) - s <= WindowSize /\ end(s) - s > TextShort
  <2> SUFFICES ASSUME NEW s \in starts
               PROVE  /\ end(s) \in Nat /\ s < end(s) /\ end(s) <= n
                      /\ end(s) - s <= WindowSize /\ end(s) - s > TextShort
    OBVIOUS
  <2>1. s \in Nat /\ s < n /\ (s = 0 \/ s - step + WindowSize < n)
    BY <1>2
  <2> HIDE DEF starts
  <2>2. CASE s + WindowSize <= n
    BY <1>1, <2>1, <2>2, <1>0
  <2>3. CASE ~(s + WindowSize <= n)
    <3>1. s + WindowOverlap < n
      <4>1. s # 0
        BY <1>1, <2>3
      <4>2. s - step + WindowSize = s + WindowOverlap
        BY <2>1, <1>0
      <4> QED BY <2>1, <4>1, <4>2
    <3> QED BY <1>1, <2>1, <2>3, <3>1, <1>0
  <2> QED BY <2>2, <2>3
<1>5. ASSUME NEW s \in starts
      PROVE  SubSeq(TextBetween(a, b), s + 1, end(s)) = TextBetween(a + s, a + end(s))
  <2> DEFINE e == end(s)
  <2>1. s \in Nat /\ e \in Nat /\ s <= e /\ e <= b - a
    BY <1>2, <1>4, <1>5
  <2> HIDE DEF e
  <2>2. SubSeq(TextBetween(a, b), s + 1, e) = TextBetween(a + s, a + e)
    BY <2>1, TextBetweenSub, ZenonT(30)
  <2> QED BY <2>2 DEF e
<1>6. TextStretches(o, b)
  <2> SUFFICES ASSUME NEW s \in starts
               PROVE  \E x, y \in Nat : /\ x <= y /\ y <= b /\ y - x <= WindowSize + WindowOverlap
                                        /\ SubSeq(TextBetween(a, b), s + 1, end(s)) =
                                               TextBetween(x, y)
    BY <1>3 DEF TextStretches
  <2> DEFINE e == end(s)
  <2>1. s \in Nat /\ e \in Nat /\ s < e /\ e <= n /\ e - s <= WindowSize
    BY <1>2, <1>4
  <2>2. SubSeq(TextBetween(a, b), s + 1, end(s)) = TextBetween(a + s, a + e)
    BY <1>5
  <2> HIDE DEF e
  <2>3. /\ a + s \in Nat /\ a + e \in Nat /\ a + s <= a + e /\ a + e <= b
        /\ (a + e) - (a + s) <= WindowSize + WindowOverlap
    BY <2>1, <1>0
  <2> QED BY <2>2, <2>3
<1>7. ASSUME NEW v \in 1..n PROVE \E s \in starts : s < v /\ v <= end(s)
  <2> DEFINE T == {s \in starts : s <= v - 1}
  <2>1. 0 \in T
    <3>1. 0 = 0 * step /\ 0 \in 0..n
      BY <1>1
    <3> QED BY <3>1
  <2>2. T \subseteq 0..(v - 1) /\ v - 1 \in Nat
    BY <1>2
  <2>3. PICK s \in T : \A t \in T : t <= s
    <3> HIDE DEF T
    <3> QED BY <2>1, <2>2, Greatest
  <2>4. s \in starts /\ s \in Nat /\ s < v
    BY <1>2, <2>3
  <2>5. v <= s + WindowSize
    <3> SUFFICES ASSUME s + WindowSize < v PROVE FALSE
      BY <1>1, <2>4
    <3>1. PICK k \in 0..n : s = k * step
      BY <2>4
    <3>2. s + step = (k + 1) * step /\ k \in Nat
      BY <1>1, <3>1
    <3>3. k + 1 \in 0..n
      <4>1. (k + 1) * step >= k + 1
        <5> DEFINE m == k + 1
                   d == step - 1
        <5>1. m \in Nat /\ d \in Nat /\ step = d + 1
          BY <1>1, <3>2, <1>0
        <5> HIDE DEF m, d, step
        <5>2. m * d \in Nat /\ m * (d + 1) = m * d + m
          BY <5>1
        <5>3. m * step >= m
          BY <5>1, <5>2
        <5> QED BY <5>3 DEF m
      <4>2. s + step < n
        BY <1>1, <2>4, <1>0
      <4>3. (k + 1) * step < n /\ (k + 1) * step \in Nat
        <5> HIDE DEF step
        <5> QED BY <1>1, <2>4, <3>2, <4>2
      <4> HIDE DEF step
      <4> QED BY <1>1, <3>2, <4>1, <4>3
    <3>4. s + step < n /\ (s + step) - step + WindowSize < n /\ s + step <= v - 1
      BY <1>1, <2>4, <1>0
    <3>5. s + step \in starts
      BY <3>2, <3>3, <3>4
    <3>6. s + step \in T
      <4> HIDE DEF starts
      <4> QED BY <3>4, <3>5
    <3> HIDE DEF T, starts
    <3> QED BY <1>1, <2>3, <2>4, <3>6
  <2>6. v <= end(s)
    BY <2>5
  <2> QED BY <2>4, <2>6
<1>8. ASSUME NEW w \in (a + 1)..b PROVE w \in TextKept(o)
  <2>1. w - a \in 1..n
    OBVIOUS
  <2>2. PICK s \in starts : s < w - a /\ w - a <= end(s)
    BY <1>7, <2>1
  <2> DEFINE e == end(s)
             c == TextBetween(a + s, a + e)
  <2>3. s \in Nat /\ e \in Nat /\ s < e /\ e - s > TextShort /\ s < w - a /\ w - a <= e
    BY <1>2, <1>4, <2>2
  <2>4. c \in o
    BY <1>3, <1>5
  <2> HIDE DEF e, o, starts
  <2>5. a + s \in Nat /\ a + e \in Nat /\ a + s <= a + e
    BY <2>3
  <2>6. Len(c) = (a + e) - (a + s) /\ ToSet(c) = ((a + s) + 1)..(a + e)
    BY <2>5, TextBetweenIs
  <2>7. Len(c) >= MinWords /\ w \in ToSet(c)
    BY <2>3, <2>6, <1>0
  <2> HIDE DEF c
  <2> QED BY <2>4, <2>7, TextKeptOf
<1> QED BY <1>6, <1>8

\* Texts in the making: chunks, and what is open.
TextMaking == [out : SUBSET Seq(Nat), words : Seq(Nat)]
\* The first p words are taken: those after a are open, and up to e none are missing.
TextOpen(acc, a, e, p) ==
    /\ acc \in TextMaking /\ acc.words = TextBetween(a, p) /\ a <= p /\ e <= p
    /\ p - a <= WindowSize + WindowOverlap
    /\ TextStretches(acc.out, p) /\ TextDense(TextKept(acc.out), e)
\* Of a paragraph that begins after f, and between paragraphs.
TextInside(acc, f, p) ==
    \E a, e \in Nat :
       /\ TextOpen(acc, a, e, p)
       /\ a <= e \/ (a <= e + TextShort /\ (p - a > TextShort \/ a = f))
TextWhole(acc, p) ==
    \E a, e \in Nat : TextOpen(acc, a, e, p) /\
        (a <= e \/ (a <= e + TextShort /\ p - a > TextShort))

LEMMA TextSplitTyped == ASSUME NEW o, NEW p \in Nat, TextStretches(o, p)
                        PROVE  o \subseteq Seq(Nat)
BY TextBetweenIs DEF TextStretches

\* What is flushed leaves out at most what is short.
LEMMA TextFlushedDense ==
    ASSUME Windows, NEW acc, NEW a \in Nat, NEW e \in Nat, NEW p \in Nat,
           TextOpen(acc, a, e, p),
           a <= e + (TextShort + TextShort)
    PROVE  LET f == Flushed(acc.out, acc.words)
           IN  /\ TextStretches(f, p) /\ TextKept(acc.out) \subseteq TextKept(f)
               /\ p - a > TextShort => TextDense(TextKept(f), p)
               /\ TextDense(TextKept(f), e)
<1> DEFINE f == Flushed(acc.out, acc.words)
           K == TextKept(acc.out)
           L == TextKept(f)
<1>1. TextStretches(f, p) /\ K \subseteq L /\ (p - a > TextShort => (a + 1)..p \subseteq L)
  BY TextFlushedIs DEF TextOpen
<1>2. TextDense(K, e) /\ K \subseteq Nat /\ L \subseteq Nat /\ e <= p /\ a <= p
  BY <1>1, TextKeptNat DEF TextOpen
<1> HIDE DEF K, L, f
<1>3. TextDense(L, e)
  BY <1>1, <1>2, TextDenseMore
<1>4. ASSUME p - a > TextShort PROVE TextDense(L, p)
  <2>1. (a + 1)..p \subseteq L /\ a < p
    BY <1>1, <1>4, TextSizes
  <2> QED BY <1>1, <1>2, <2>1, TextDenser
<1> QED BY <1>1, <1>3, <1>4 DEF L, f, K

LEMMA TextSentenceKeeps ==
    ASSUME Windows, NEW f \in Nat, NEW p \in Nat, NEW q \in Nat, p <= q, NEW acc,
           TextInside(acc, f, p)
    PROVE  TextInside(Sentence(acc, TextBetween(p, q)), f, q)
<1>0. /\ WindowSize \in Nat /\ WindowOverlap \in Nat /\ TextShort \in Nat
      /\ WindowOverlap < WindowSize
      /\ MinWords = TextShort + 1 /\ TextShort <= WindowOverlap
      /\ TextShort + TextShort <= WindowSize
  BY TextSizes
<1> DEFINE s == TextBetween(p, q)
           o == Flushed(acc.out, acc.words)
           new == Sentence(acc, s)
<1>1. PICK a, e \in Nat :
         /\ TextOpen(acc, a, e, p)
         /\ a <= e \/ (a <= e + TextShort /\ (p - a > TextShort \/ a = f))
  BY DEF TextInside
<1>2. s \in Seq(Nat) /\ Len(s) = q - p /\ Len(acc.words) = p - a
  BY <1>1, TextBetweenIs DEF TextOpen
<1>3. /\ acc \in TextMaking /\ acc.words = TextBetween(a, p) /\ a <= p /\ e <= p
      /\ p - a <= WindowSize + WindowOverlap /\ TextStretches(acc.out, p)
      /\ TextDense(TextKept(acc.out), e)
  BY <1>1 DEF TextOpen
<1>4. /\ TextStretches(o, p) /\ TextKept(acc.out) \subseteq TextKept(o)
      /\ TextDense(TextKept(o), e)
      /\ p - a > TextShort => TextDense(TextKept(o), p)
  <2>1. a <= e + (TextShort + TextShort)
    BY <1>1, <1>0
  <2> QED BY <1>1, <2>1, TextFlushedDense
<1>5. CASE q - p > WindowSize
  <2> DEFINE w == split_words(s)
             K == TextKept(o)
             L == TextKept(o \union w)
  <2>1. TextStretches(w, q) /\ (p + 1)..q \subseteq TextKept(w)
    BY <1>5, TextSplitWords
  <2>2. new = [out |-> o \union w, words |-> <<>>]
    BY <1>2, <1>5 DEF Sentence
  <2>3. TextStretches(o, q)
    BY <1>4, TextFurtherStretches
  <2>4. /\ TextStretches(o \union w, q)
        /\ TextKept(o \union w) = TextKept(o) \union TextKept(w)
    BY <2>1, <2>3, TextKeptOf
  <2>5. /\ K \subseteq Nat /\ L \subseteq Nat /\ K \subseteq L /\ (p + 1)..q \subseteq L
        /\ p < q
    <3>1. K \subseteq 1..p
      BY <1>4, TextKeptNat
    <3>2. L \subseteq 1..q
      BY <2>4, TextKeptNat
    <3>3. K \subseteq L /\ (p + 1)..q \subseteq L
      BY <2>1, <2>4
    <3>4. K \subseteq Nat /\ L \subseteq Nat
      <4> HIDE DEF K, L
      <4> QED BY <3>1, <3>2
    <3>5. p < q
      BY <1>5, <1>0
    <3> QED BY <3>3, <3>4, <3>5
  <2>6. o \union w \subseteq Seq(Nat)
    BY <2>4, TextSplitTyped
  <2>7. PICK d \in Nat : TextDense(K, d) /\ p <= d + (TextShort + TextShort) /\ d <= p
    <3>1. CASE p - a > TextShort
      BY <1>4, <3>1, <1>0
    <3>2. CASE ~(p - a > TextShort)
      <4>1. p <= e + (TextShort + TextShort)
        BY <1>1, <1>3, <3>2, <1>0
      <4> QED BY <1>3, <1>4, <4>1
    <3> QED BY <3>1, <3>2
  <2>8. TextDense(L, q)
    <3> HIDE DEF K, L
    <3>1. d <= q
      BY <2>5, <2>7
    <3> QED BY <2>5, <2>7, <3>1, TextDenser
  <2>9. <<>> = TextBetween(q, q) /\ <<>> \in Seq(Nat)
    BY TextBetweenIs
  <2>10. TextOpen(new, q, q, q)
    BY <2>2, <2>4, <2>6, <2>8, <2>9, <1>0 DEF TextOpen, TextMaking
  <2> QED BY <2>10 DEF TextInside
<1>6. CASE q - p <= WindowSize /\ (p - a) + (q - p) > WindowSize
  <2> DEFINE d == IF WindowOverlap <= p - a THEN p - WindowOverlap ELSE a
             t == Ending(acc.words, WindowOverlap) \o s
  <2>1. /\ d \in Nat /\ a <= d /\ d <= p /\ p - d <= WindowOverlap
        /\ p - a <= WindowOverlap => d = a
        /\ Ending(acc.words, WindowOverlap) = TextBetween(d, p)
    BY <1>3, TextBetweenEnding, <1>0
  <2>2. t = TextBetween(d, q) /\ TextBetween(d, q) \in Seq(Nat)
    <3>1. d <= q
      BY <2>1
    <3>2. TextBetween(d, p) \o s = TextBetween(d, q)
      BY <2>1, TextBetweenJoin
    <3>3. TextBetween(d, q) \in Seq(Nat)
      BY <2>1, <3>1, TextBetweenIs
    <3> QED BY <2>1, <3>2, <3>3
  <2>3. new = [out |-> o, words |-> t]
    <3>1. ~(q - p > WindowSize)
      BY <1>6, <1>0
    <3> QED BY <1>2, <1>6, <3>1 DEF Sentence
  <2> HIDE DEF d, t
  <2>4. q - d <= WindowSize + WindowOverlap /\ d <= q
    BY <1>6, <2>1, <1>0
  <2>5. TextStretches(o, q) /\ o \subseteq Seq(Nat)
    BY <1>4, TextFurtherStretches, TextSplitTyped
  <2>6. new \in TextMaking
    BY <2>2, <2>3, <2>5 DEF TextMaking
  <2>7. CASE p - a > TextShort
    <3>1. TextOpen(new, d, p, q)
      BY <1>4, <2>1, <2>2, <2>3, <2>4, <2>5, <2>6, <2>7 DEF TextOpen
    <3> QED BY <2>1, <3>1 DEF TextInside
  <2>8. CASE ~(p - a > TextShort)
    <3>1. d = a
      BY <1>3, <2>1, <2>8, <1>0
    <3>2. TextOpen(new, a, e, q)
      BY <1>3, <1>4, <2>2, <2>3, <2>4, <2>5, <2>6, <3>1 DEF TextOpen
    <3>3. q - a > TextShort
      BY <1>3, <1>6, <1>0
    <3>4. a <= e \/ a <= e + TextShort
      BY <1>1
    <3> QED BY <3>2, <3>3, <3>4 DEF TextInside
  <2> QED BY <2>7, <2>8
<1>7. CASE q - p <= WindowSize /\ (p - a) + (q - p) <= WindowSize
  <2>1. new = [acc EXCEPT !.words = acc.words \o s]
    <3>1. ~(q - p > WindowSize) /\ ~((p - a) + (q - p) > WindowSize)
      BY <1>3, <1>7, <1>0
    <3> QED BY <1>2, <3>1 DEF Sentence
  <2>2. acc.words \o s = TextBetween(a, q) /\ TextBetween(a, q) \in Seq(Nat)
    <3>1. a <= q
      BY <1>3
    <3>2. TextBetween(a, p) \o s = TextBetween(a, q)
      BY <1>3, TextBetweenJoin
    <3>3. TextBetween(a, q) \in Seq(Nat)
      BY <3>1, TextBetweenIs
    <3> QED BY <1>3, <3>2, <3>3
  <2>3. TextStretches(acc.out, q) /\ q - a <= WindowSize + WindowOverlap /\ a <= q /\ e <= q
    BY <1>3, <1>7, TextFurtherStretches, <1>0
  <2>4. TextOpen(new, a, e, q)
    BY <1>3, <2>1, <2>2, <2>3 DEF TextOpen, TextMaking
  <2>5. a <= e \/ (a <= e + TextShort /\ (q - a > TextShort \/ a = f))
    BY <1>1, <1>0
  <2> QED BY <2>4, <2>5 DEF TextInside
<1> QED BY <1>3, <1>5, <1>6, <1>7, <1>0

\* Sentences that follow each other: where each ends.
TextEnds(ends, n) ==
    ends \in [0..n -> Nat] /\ \A i \in 1..n : ends[i - 1] <= ends[i]
\* Of the same ends: sentences, or paragraphs without their sentences.
TextCut(s, ends) ==
    TextEnds(ends, Len(s)) /\ \A i \in 1..Len(s) : s[i] = TextBetween(ends[i - 1], ends[i])

LEMMA TextEndsGrow ==
    ASSUME NEW n \in Nat, NEW ends, TextEnds(ends, n)
    PROVE  \A i \in 0..n : ends[0] <= ends[i]
<1> DEFINE T == {i \in 0..n : ends[0] <= ends[i]}
<1>1. 0 \in T
  BY DEF TextEnds
<1>2. \A i \in 1..n : i - 1 \in T => i \in T
  <2> SUFFICES ASSUME NEW i \in 1..n, i - 1 \in T PROVE i \in T
    OBVIOUS
  <2>1. i \in 0..n /\ i - 1 \in 0..n /\ 0 \in 0..n
    OBVIOUS
  <2>2. ends[i - 1] <= ends[i] /\ ends[0] \in Nat /\ ends[i] \in Nat /\ ends[i - 1] \in Nat
    BY <2>1 DEF TextEnds
  <2> QED BY <2>1, <2>2
<1> HIDE DEF T
<1>3. 0..n \subseteq T
  BY <1>1, <1>2, UpToAll
<1> QED BY <1>3 DEF T

\* What is flattened is as long as its parts, one after the other.
LEMMA TextFlattenIs ==
    ASSUME NEW T, NEW s \in Seq(T), NEW ends, TextCut(s, ends)
    PROVE  FlattenSeq(s) = TextBetween(ends[0], ends[Len(s)])
<1> DEFINE n == Len(s)
           P(f) == [i \in 1..Len(s) |-> IF i = 1 THEN s[i] ELSE f[i - 1] \o s[i]]
           flat == CHOOSE f : f = P(f)
<1>1. n \in Nat /\ TextEnds(ends, n) /\ ends \in [0..n -> Nat]
  BY LenProperties DEF TextCut, TextEnds
<1>2. CASE n = 0
  <2>1. s = <<>> /\ FlattenSeq(s) = s
    BY <1>2, EmptySeq DEF FlattenSeq
  <2>2. TextBetween(ends[0], ends[0]) = <<>>
    BY <1>1, <1>2, TextBetweenIs
  <2> QED BY <1>2, <2>1, <2>2
<1>3. CASE n # 0
  <2>1. FlattenSeq(s) = flat[n]
    BY <1>3 DEF FlattenSeq
  <2> DEFINE g == [i \in 1..n |-> TextBetween(ends[0], ends[i])]
  <2>2. g = P(g)
    <3> SUFFICES ASSUME NEW i \in 1..n
                 PROVE  g[i] = IF i = 1 THEN s[i] ELSE g[i - 1] \o s[i]
      OBVIOUS
    <3>1. i \in 0..n /\ i - 1 \in 0..n /\ 0 \in 0..n /\ (i # 1 => i - 1 \in 1..n)
      BY <1>1
    <3>2. ends[i - 1] <= ends[i] /\ s[i] = TextBetween(ends[i - 1], ends[i])
      BY DEF TextCut, TextEnds
    <3>3. /\ ends[0] \in Nat /\ ends[i] \in Nat /\ ends[i - 1] \in Nat
          /\ ends[0] <= ends[i - 1]
      BY <1>1, <3>1, TextEndsGrow
    <3>4. CASE i = 1
      BY <3>2, <3>4
    <3>5. CASE i # 1
      <4>1. /\ g[i - 1] = TextBetween(ends[0], ends[i - 1])
            /\ g[i] = TextBetween(ends[0], ends[i])
        BY <3>1, <3>5
      <4>2. TextBetween(ends[0], ends[i - 1]) \o TextBetween(ends[i - 1], ends[i]) =
                TextBetween(ends[0], ends[i])
        BY <3>2, <3>3, TextBetweenJoin
      <4> HIDE DEF g
      <4> QED BY <3>2, <3>5, <4>1, <4>2
    <3> QED BY <3>4, <3>5
  <2>3. \E f : f = P(f)
    <3> HIDE DEF P, g
    <3> QED BY <2>2
  <2>4. flat = P(flat)
    <3> HIDE DEF P
    <3> QED BY <2>3, Zenon
  <2> HIDE DEF flat
  <2> DEFINE U == {0} \union {i \in 1..n : flat[i] = TextBetween(ends[0], ends[i])}
  <2>5. ASSUME NEW i \in 1..n, i - 1 \in U PROVE i \in U
    <3>1. P(flat)[i] = IF i = 1 THEN s[i] ELSE flat[i - 1] \o s[i]
      OBVIOUS
    <3>2. flat[i] = IF i = 1 THEN s[i] ELSE flat[i - 1] \o s[i]
      <4> HIDE DEF P
      <4> QED BY <2>4, <3>1
    <3>3. ends[i - 1] <= ends[i] /\ s[i] = TextBetween(ends[i - 1], ends[i])
      BY DEF TextCut, TextEnds
    <3>4. i \in 0..n /\ i - 1 \in 0..n /\ 0 \in 0..n
      BY <1>1
    <3>5. /\ ends[0] \in Nat /\ ends[i] \in Nat /\ ends[i - 1] \in Nat
          /\ ends[0] <= ends[i - 1]
      BY <1>1, <3>4, TextEndsGrow
    <3>6. CASE i = 1
      BY <3>2, <3>3, <3>6
    <3>7. CASE i # 1
      <4>1. flat[i - 1] = TextBetween(ends[0], ends[i - 1])
        BY <2>5, <3>7
      <4>2. TextBetween(ends[0], ends[i - 1]) \o TextBetween(ends[i - 1], ends[i]) =
                TextBetween(ends[0], ends[i])
        BY <3>3, <3>5, TextBetweenJoin
      <4> QED BY <3>2, <3>3, <3>7, <4>1, <4>2
    <3> QED BY <3>6, <3>7
  <2>6. 0 \in U
    OBVIOUS
  <2> HIDE DEF U
  <2>7. 0..n \subseteq U
    <3>1. \A i \in 1..n : i - 1 \in U => i \in U
      BY <2>5
    <3> HIDE DEF n
    <3> QED BY <1>1, <2>6, <3>1, UpToAll
  <2>8. n \in U
    BY <1>1, <2>7
  <2> QED BY <1>3, <2>1, <2>8 DEF U
<1> QED BY <1>2, <1>3

LEMMA TextSentencesKeep ==
    ASSUME Windows, NEW T, NEW s \in Seq(T), NEW ends, TextCut(s, ends), NEW out,
           TextInside([out |-> out, words |-> <<>>], ends[0], ends[0])
    PROVE  TextInside(Sentences(out, s), ends[0], ends[Len(s)])
<1> DEFINE n == Len(s)
           first == [out |-> out, words |-> <<>>]
           P(f) == [i \in 0..Len(s) |-> IF i = 0 THEN first ELSE Sentence(f[i - 1], s[i])]
           acc == CHOOSE f : f = P(f)
           Has(x, i) == TextInside(x, ends[0], ends[i])
           step == [x \in (1..n) \X TextMaking |->
                      IF Has(x[2], x[1] - 1) THEN Sentence(x[2], s[x[1]]) ELSE x[2]]
<1>1. n \in Nat /\ TextEnds(ends, n) /\ ends \in [0..n -> Nat]
  BY LenProperties DEF TextCut, TextEnds
<1>2. Sentences(out, s) = acc[n]
  BY DEF Sentences
<1>3. Has(first, 0) /\ \A x, i : Has(x, i) => x \in TextMaking
  BY <1>1 DEF TextInside, TextOpen
<1>4. ASSUME NEW i \in 1..n, NEW x, Has(x, i - 1) PROVE Has(Sentence(x, s[i]), i)
  <2>1. i \in 0..n /\ i - 1 \in 0..n /\ 0 \in 0..n
    BY <1>1
  <2>2. /\ ends[0] \in Nat /\ ends[i - 1] \in Nat /\ ends[i] \in Nat
        /\ ends[i - 1] <= ends[i] /\ s[i] = TextBetween(ends[i - 1], ends[i])
    BY <1>1, <2>1 DEF TextCut, TextEnds
  <2>3. TextInside(Sentence(x, TextBetween(ends[i - 1], ends[i])), ends[0], ends[i])
    BY <1>4, <2>2, TextSentenceKeeps
  <2> QED BY <2>2, <2>3
<1> HIDE DEF first, Has
<1>5. ASSUME NEW f, f[0] = first,
             \A i \in 1..n : Has(f[i - 1], i - 1) => f[i] = Sentence(f[i - 1], s[i])
      PROVE  \A i \in 0..n : Has(f[i], i)
  <2> DEFINE U == {i \in 0..n : Has(f[i], i)}
  <2>1. 0 \in U
    BY <1>1, <1>3, <1>5
  <2>2. \A i \in 1..n : i - 1 \in U => i \in U
    <3> SUFFICES ASSUME NEW i \in 1..n, i - 1 \in U PROVE i \in U
      OBVIOUS
    <3>1. i \in 0..n /\ Has(f[i - 1], i - 1)
      BY <1>1
    <3>2. f[i] = Sentence(f[i - 1], s[i])
      BY <1>5, <3>1
    <3> QED BY <1>4, <3>1, <3>2
  <2> HIDE DEF U
  <2>3. 0..n \subseteq U
    <3> HIDE DEF n
    <3> QED BY <1>1, <2>1, <2>2, UpToAll
  <2> QED BY <2>3 DEF U
<1>6. \E f : f = P(f)
  <2>1. step \in [(1..n) \X TextMaking -> TextMaking]
    <3> SUFFICES ASSUME NEW i \in 1..n, NEW x \in TextMaking, Has(x, i - 1)
                 PROVE  Sentence(x, s[i]) \in TextMaking
      OBVIOUS
    <3> QED BY <1>3, <1>4
  <2>2. PICK f : Follows(f, n, TextMaking, first, step)
    <3> HIDE DEF step, n
    <3> QED BY <1>1, <1>3, <2>1, Recursion
  <2>3. /\ f \in [0..n -> TextMaking] /\ f[0] = first
        /\ \A i \in 1..n : f[i] = step[i, f[i - 1]]
    BY <2>2 DEF Follows
  <2>4. \A i \in 1..n : Has(f[i - 1], i - 1) => f[i] = Sentence(f[i - 1], s[i])
    <3> SUFFICES ASSUME NEW i \in 1..n, Has(f[i - 1], i - 1)
                 PROVE  f[i] = Sentence(f[i - 1], s[i])
      OBVIOUS
    <3>1. f[i - 1] \in TextMaking
      BY <1>3
    <3> QED BY <2>3, <3>1
  <2>5. \A i \in 0..n : Has(f[i], i)
    <3> HIDE DEF step
    <3> QED BY <1>5, <2>3, <2>4
  <2>6. \A i \in 1..n : f[i] = Sentence(f[i - 1], s[i])
    <3> SUFFICES ASSUME NEW i \in 1..n PROVE f[i] = Sentence(f[i - 1], s[i])
      OBVIOUS
    <3>1. i - 1 \in 0..n
      BY <1>1
    <3> HIDE DEF step
    <3> QED BY <2>4, <2>5, <3>1
  <2>7. f = [i \in 0..n |-> f[i]]
    BY <2>3
  <2>8. \A i \in 0..n : f[i] = IF i = 0 THEN first ELSE Sentence(f[i - 1], s[i])
    <3>1. \A i \in 0..n : i = 0 \/ i \in 1..n
      BY <1>1
    <3> HIDE DEF step
    <3> QED BY <2>3, <2>6, <3>1
  <2>9. f = P(f)
    <3> HIDE DEF step
    <3> QED BY <2>7, <2>8
  <2> HIDE DEF P
  <2> QED BY <2>9
<1>7. acc = P(acc)
  <2> HIDE DEF P
  <2> QED BY <1>6, Zenon
<1> HIDE DEF acc
<1>8. acc[0] = first /\ \A i \in 1..n : acc[i] = Sentence(acc[i - 1], s[i])
  <2>1. P(acc)[0] = first /\ \A i \in 1..n : P(acc)[i] = Sentence(acc[i - 1], s[i])
    BY <1>1
  <2> HIDE DEF P
  <2> QED BY <1>7, <2>1
<1> HIDE DEF P, step
<1>9. Has(acc[n], n)
  <2>1. n \in 0..n
    BY <1>1
  <2> QED BY <1>5, <1>8, <2>1
<1> QED BY <1>2, <1>9 DEF Has

\* A paragraph from a to b: its sentences follow each other.
TextParted(s, a, b) ==
    \E T, ends : s \in Seq(T) /\ TextCut(s, ends) /\ ends[0] = a /\ ends[Len(s)] = b

LEMMA TextNothingIsWhole == ASSUME Windows PROVE TextWhole([out |-> {}, words |-> <<>>], 0)
<1> DEFINE x == [out |-> {}, words |-> <<>>]
<1>1. <<>> = TextBetween(0, 0) /\ <<>> \in Seq(Nat)
  BY TextBetweenIs
<1>2. TextDense(TextKept({}), 0)
  BY TextSizes DEF TextDense
<1>3. /\ x \in TextMaking /\ x.words = TextBetween(0, 0) /\ TextStretches(x.out, 0)
      /\ x.out = {}
  BY <1>1 DEF TextMaking, TextStretches
<1> HIDE DEF x
<1>4. TextOpen(x, 0, 0, 0)
  BY <1>2, <1>3, TextSizes DEF TextOpen
<1>5. TextWhole(x, 0)
  BY <1>4 DEF TextWhole
<1> QED BY <1>5 DEF x

LEMMA TextParagraphKeeps ==
    ASSUME Windows, NEW p \in Nat, NEW q \in Nat, NEW acc, TextWhole(acc, p), NEW s,
           TextParted(s, p, q)
    PROVE  TextWhole(Paragraph(acc, s), q)
<1>1. PICK a, e \in Nat : /\ TextOpen(acc, a, e, p)
                          /\ (a <= e \/ (a <= e + TextShort /\ p - a > TextShort))
  BY DEF TextWhole
<1>2. PICK T, ends : s \in Seq(T) /\ TextCut(s, ends) /\ ends[0] = p /\ ends[Len(s)] = q
  BY DEF TextParted
<1> DEFINE w == FlattenSeq(s)
           o == Flushed(acc.out, acc.words)
           new == Paragraph(acc, s)
<1>3. p <= q
  <2>1. Len(s) \in Nat /\ TextEnds(ends, Len(s)) /\ Len(s) \in 0..Len(s)
    BY <1>2, LenProperties DEF TextCut
  <2> QED BY <1>2, <2>1, TextEndsGrow
<1>4. w = TextBetween(p, q) /\ w \in Seq(Nat) /\ Len(w) = q - p
  <2>1. w = TextBetween(p, q)
    BY <1>2, TextFlattenIs
  <2> QED BY <1>3, <2>1, TextBetweenIs
<1>5. /\ acc \in TextMaking /\ acc.words = TextBetween(a, p) /\ a <= p /\ e <= p
      /\ Len(acc.words) = p - a
      /\ p - a <= WindowSize + WindowOverlap /\ TextStretches(acc.out, p)
      /\ TextDense(TextKept(acc.out), e)
  BY <1>1, TextBetweenIs DEF TextOpen
<1>6. /\ TextStretches(o, p) /\ TextDense(TextKept(o), e)
      /\ p - a > TextShort => TextDense(TextKept(o), p)
  <2>1. a <= e + (TextShort + TextShort)
    BY <1>1, TextSizes
  <2> QED BY <1>1, <2>1, TextFlushedDense
<1>7. o \subseteq Seq(Nat) /\ TextStretches(o, q)
  <2>1. o \subseteq Seq(Nat)
    BY <1>6, TextSplitTyped
  <2>2. TextStretches(o, q)
    BY <1>3, <1>6, TextFurtherStretches
  <2> QED BY <2>1, <2>2
<1> HIDE DEF w, o
\* Up to where nothing is missing once what was open is flushed.
<1>8. PICK d \in Nat : /\ TextDense(TextKept(o), d) /\ d <= p /\ p <= d + TextShort
                       /\ p = d \/ (p - a <= TextShort)
  <2>1. CASE p - a > TextShort
    BY <1>6, <2>1, TextSizes
  <2>2. CASE ~(p - a > TextShort)
    <3>1. p <= e + TextShort /\ p - a <= TextShort
      BY <1>1, <1>5, <2>2, TextSizes
    <3> QED BY <1>5, <1>6, <3>1
  <2> QED BY <2>1, <2>2
<1>9. CASE (p - a) + (q - p) <= WindowSize
  <2>1. new = [acc EXCEPT !.words = acc.words \o w]
    BY <1>4, <1>5, <1>9 DEF Paragraph, w, o
  <2>2. acc.words \o w = TextBetween(a, q) /\ TextBetween(a, q) \in Seq(Nat)
    <3>1. a <= q
      BY <1>3, <1>5
    <3>2. TextBetween(a, p) \o TextBetween(p, q) = TextBetween(a, q)
      BY <1>3, <1>5, TextBetweenJoin
    <3>3. TextBetween(a, q) \in Seq(Nat)
      BY <3>1, TextBetweenIs
    <3> QED BY <1>4, <1>5, <3>2, <3>3
  <2>3. TextStretches(acc.out, q) /\ q - a <= WindowSize + WindowOverlap /\ a <= q /\ e <= q
    BY <1>3, <1>5, <1>9, TextFurtherStretches, TextSizes
  <2>4. TextOpen(new, a, e, q)
    BY <1>5, <2>1, <2>2, <2>3 DEF TextOpen, TextMaking
  <2>5. a <= e \/ (a <= e + TextShort /\ q - a > TextShort)
    BY <1>1, <1>3, TextSizes
  <2> QED BY <2>4, <2>5 DEF TextWhole
<1>10. CASE ~((p - a) + (q - p) <= WindowSize) /\ q - p <= WindowSize
  <2>1. new = [out |-> o, words |-> w]
    BY <1>4, <1>5, <1>10 DEF Paragraph, w, o
  <2>2. new \in TextMaking
    BY <1>4, <1>7, <2>1 DEF TextMaking
  <2>3. TextOpen(new, p, d, q)
    BY <1>3, <1>4, <1>7, <1>8, <1>10, <2>1, <2>2, TextSizes DEF TextOpen
  <2>4. p <= d \/ (p <= d + TextShort /\ q - p > TextShort)
    BY <1>3, <1>5, <1>8, <1>10, TextSizes
  <2> QED BY <2>3, <2>4 DEF TextWhole
<1>11. CASE ~((p - a) + (q - p) <= WindowSize) /\ ~(q - p <= WindowSize)
  <2>1. new = Sentences(o, s)
    BY <1>4, <1>5, <1>11 DEF Paragraph, w, o
  <2> DEFINE first == [out |-> o, words |-> <<>>]
  <2>2. <<>> = TextBetween(p, p) /\ <<>> \in Seq(Nat)
    BY TextBetweenIs
  <2>3. first \in TextMaking /\ first.words = TextBetween(p, p) /\ first.out = o
    BY <1>7, <2>2 DEF TextMaking
  <2> HIDE DEF first
  <2>4. TextOpen(first, p, d, p)
    BY <1>6, <1>8, <2>3, TextSizes DEF TextOpen
  <2>5. TextInside(first, p, p)
    BY <1>8, <2>4 DEF TextInside
  <2>6. TextInside(Sentences(o, s), p, q)
    BY <1>2, <2>5, TextSentencesKeep DEF first
  <2>7. PICK b, c \in Nat :
           /\ TextOpen(new, b, c, q)
           /\ b <= c \/ (b <= c + TextShort /\ (q - b > TextShort \/ b = p))
    BY <2>1, <2>6 DEF TextInside
  <2>8. b = p => q - b > TextShort
    BY <1>11, TextSizes
  <2> QED BY <2>7, <2>8 DEF TextWhole
<1> QED BY <1>9, <1>10, <1>11

LEMMA TextProseKeeps ==
    ASSUME Windows, NEW T, NEW s \in Seq(T), NEW ends, TextEnds(ends, Len(s)),
           ends[0] = 0, \A i \in 1..Len(s) : TextParted(s[i], ends[i - 1], ends[i])
    PROVE  LET o == split_prose(s) IN
           /\ TextStretches(o, ends[Len(s)])
           /\ \E e \in Nat : TextDense(TextKept(o), e) /\
                  ends[Len(s)] <= e + (TextShort + TextShort)
<1> DEFINE n == Len(s)
           first == [out |-> {}, words |-> <<>>]
           P(f) == [i \in 0..Len(s) |-> IF i = 0 THEN first ELSE Paragraph(f[i - 1], s[i])]
           acc == CHOOSE f : f = P(f)
           Has(x, i) == TextWhole(x, ends[i])
           step == [x \in (1..n) \X TextMaking |->
                      IF Has(x[2], x[1] - 1) THEN Paragraph(x[2], s[x[1]]) ELSE x[2]]
<1>1. n \in Nat /\ TextEnds(ends, n) /\ ends \in [0..n -> Nat]
  BY LenProperties DEF TextEnds
<1>2. split_prose(s) = Flushed(acc[n].out, acc[n].words)
  BY DEF split_prose
<1>3. Has(first, 0) /\ \A x, i : Has(x, i) => x \in TextMaking
  BY <1>1, TextNothingIsWhole DEF TextWhole, TextOpen
<1>4. ASSUME NEW i \in 1..n, NEW x, Has(x, i - 1) PROVE Has(Paragraph(x, s[i]), i)
  <2>1. i \in 0..n /\ i - 1 \in 0..n
    BY <1>1
  <2>2. /\ ends[i - 1] \in Nat /\ ends[i] \in Nat /\ TextParted(s[i], ends[i - 1], ends[i])
        /\ TextWhole(x, ends[i - 1])
    BY <1>1, <1>4, <2>1
  <2> QED BY <2>2, TextParagraphKeeps
<1> HIDE DEF first, Has
<1>5. ASSUME NEW f, f[0] = first,
             \A i \in 1..n : Has(f[i - 1], i - 1) => f[i] = Paragraph(f[i - 1], s[i])
      PROVE  \A i \in 0..n : Has(f[i], i)
  <2> DEFINE U == {i \in 0..n : Has(f[i], i)}
  <2>1. 0 \in U
    BY <1>1, <1>3, <1>5
  <2>2. \A i \in 1..n : i - 1 \in U => i \in U
    <3> SUFFICES ASSUME NEW i \in 1..n, i - 1 \in U PROVE i \in U
      OBVIOUS
    <3>1. i \in 0..n /\ Has(f[i - 1], i - 1)
      BY <1>1
    <3>2. f[i] = Paragraph(f[i - 1], s[i])
      BY <1>5, <3>1
    <3> QED BY <1>4, <3>1, <3>2
  <2> HIDE DEF U
  <2>3. 0..n \subseteq U
    <3> HIDE DEF n
    <3> QED BY <1>1, <2>1, <2>2, UpToAll
  <2> QED BY <2>3 DEF U
<1>6. \E f : f = P(f)
  <2>1. step \in [(1..n) \X TextMaking -> TextMaking]
    <3> SUFFICES ASSUME NEW i \in 1..n, NEW x \in TextMaking, Has(x, i - 1)
                 PROVE  Paragraph(x, s[i]) \in TextMaking
      OBVIOUS
    <3> QED BY <1>3, <1>4
  <2>2. PICK f : Follows(f, n, TextMaking, first, step)
    <3> HIDE DEF step, n
    <3> QED BY <1>1, <1>3, <2>1, Recursion
  <2>3. /\ f \in [0..n -> TextMaking] /\ f[0] = first
        /\ \A i \in 1..n : f[i] = step[i, f[i - 1]]
    BY <2>2 DEF Follows
  <2>4. \A i \in 1..n : Has(f[i - 1], i - 1) => f[i] = Paragraph(f[i - 1], s[i])
    <3> SUFFICES ASSUME NEW i \in 1..n, Has(f[i - 1], i - 1)
                 PROVE  f[i] = Paragraph(f[i - 1], s[i])
      OBVIOUS
    <3>1. f[i - 1] \in TextMaking
      BY <1>3
    <3> QED BY <2>3, <3>1
  <2>5. \A i \in 0..n : Has(f[i], i)
    <3> HIDE DEF step
    <3> QED BY <1>5, <2>3, <2>4
  <2>6. \A i \in 1..n : f[i] = Paragraph(f[i - 1], s[i])
    <3> SUFFICES ASSUME NEW i \in 1..n PROVE f[i] = Paragraph(f[i - 1], s[i])
      OBVIOUS
    <3>1. i - 1 \in 0..n
      BY <1>1
    <3> HIDE DEF step
    <3> QED BY <2>4, <2>5, <3>1
  <2>7. f = [i \in 0..n |-> f[i]]
    BY <2>3
  <2>8. \A i \in 0..n : f[i] = IF i = 0 THEN first ELSE Paragraph(f[i - 1], s[i])
    <3>1. \A i \in 0..n : i = 0 \/ i \in 1..n
      BY <1>1
    <3> HIDE DEF step
    <3> QED BY <2>3, <2>6, <3>1
  <2>9. f = P(f)
    <3> HIDE DEF step
    <3> QED BY <2>7, <2>8
  <2> HIDE DEF P
  <2> QED BY <2>9
<1>7. acc = P(acc)
  <2> HIDE DEF P
  <2> QED BY <1>6, Zenon
<1> HIDE DEF acc
<1>8. acc[0] = first /\ \A i \in 1..n : acc[i] = Paragraph(acc[i - 1], s[i])
  <2>1. P(acc)[0] = first /\ \A i \in 1..n : P(acc)[i] = Paragraph(acc[i - 1], s[i])
    BY <1>1
  <2> HIDE DEF P
  <2> QED BY <1>7, <2>1
<1> HIDE DEF P, step
<1>9. Has(acc[n], n)
  <2>1. n \in 0..n
    BY <1>1
  <2> QED BY <1>5, <1>8, <2>1
<1>10. PICK a, e \in Nat :
          TextOpen(acc[n], a, e, ends[n]) /\
               (a <= e \/ (a <= e + TextShort /\ ends[n] - a > TextShort))
  BY <1>9 DEF Has, TextWhole
<1> DEFINE o == Flushed(acc[n].out, acc[n].words)
           p == ends[n]
<1>11. p \in Nat /\ a <= p /\ a <= e + (TextShort + TextShort)
  <2>1. n \in 0..n
    BY <1>1
  <2> QED BY <1>1, <1>10, <2>1, TextSizes, SMTT(30) DEF TextOpen
<1>12. /\ TextStretches(o, p) /\ TextDense(TextKept(o), e)
       /\ p - a > TextShort => TextDense(TextKept(o), p)
  <2> HIDE DEF n
  <2> QED BY <1>10, <1>11, TextFlushedDense
<1>13. \E d \in Nat : TextDense(TextKept(o), d) /\ p <= d + (TextShort + TextShort)
  <2>1. CASE p - a > TextShort
    BY <1>11, <1>12, <2>1, TextSizes
  <2>2. CASE ~(p - a > TextShort)
    <3>1. p <= e + (TextShort + TextShort)
      BY <1>10, <1>11, <2>2, TextSizes
    <3> QED BY <1>12, <3>1
  <2> QED BY <2>1, <2>2
<1> QED BY <1>2, <1>12, <1>13

LEMMA TextSeqOfLength ==
    ASSUME NEW S, NEW n \in Nat, NEW s \in [1..n -> S] PROVE s \in Seq(S) /\ Len(s) = n
<1>1. s \in Seq(S)
  BY SeqDef
<1> QED BY <1>1, LenProperties

\* How many words there are up to each sentence.
LEMMA TextCountIs ==
    ASSUME NEW s \in Seq(Nat), NEW a \in Nat
    PROVE  LET c == Count(s, a)
           IN  /\ c \in [0..Len(s) -> Nat] /\ c[0] = a
               /\ \A j \in 1..Len(s) : c[j] = c[j - 1] + s[j]
<1> DEFINE n == Len(s)
           P(f) == [j \in 0..Len(s) |-> IF j = 0 THEN a ELSE f[j - 1] + s[j]]
           c == CHOOSE f : f = P(f)
           step == [x \in (1..n) \X Nat |-> x[2] + s[x[1]]]
<1>1. n \in Nat /\ \A j \in 1..n : s[j] \in Nat
  BY LenProperties
<1>2. Count(s, a) = c
  BY DEF Count
<1>3. \E f : f = P(f)
  <2>1. step \in [(1..n) \X Nat -> Nat]
    BY <1>1
  <2>2. PICK f : Follows(f, n, Nat, a, step)
    <3> HIDE DEF step, n
    <3> QED BY <1>1, <2>1, Recursion
  <2>3. f \in [0..n -> Nat] /\ f[0] = a /\ \A j \in 1..n : f[j] = step[j, f[j - 1]]
    BY <2>2 DEF Follows
  <2>4. \A j \in 1..n : f[j] = f[j - 1] + s[j]
    <3> SUFFICES ASSUME NEW j \in 1..n PROVE f[j] = f[j - 1] + s[j]
      OBVIOUS
    <3>1. j - 1 \in 0..n
      BY <1>1
    <3>2. f[j - 1] \in Nat
      BY <2>3, <3>1
    <3> QED BY <2>3, <3>2
  <2>5. f = [j \in 0..n |-> f[j]]
    BY <2>3
  <2>7. \A j \in 0..n : j = 0 \/ j \in 1..n
    BY <1>1
  <2>6. f = P(f)
    <3> HIDE DEF step
    <3> QED BY <2>3, <2>4, <2>5, <2>7
  <2> QED BY <2>6
<1>4. c = P(c)
  <2> HIDE DEF P
  <2> QED BY <1>3, Zenon
<1> HIDE DEF c
<1>5. c[0] = a /\ (\A j \in 1..n : c[j] = c[j - 1] + s[j]) /\ c = [j \in 0..n |-> c[j]]
  <2>1. /\ P(c)[0] = a /\ (\A j \in 1..n : P(c)[j] = c[j - 1] + s[j])
        /\ P(c) = [j \in 0..n |-> P(c)[j]]
    BY <1>1
  <2> HIDE DEF P
  <2> QED BY <1>4, <2>1
<1> DEFINE U == {j \in 0..n : c[j] \in Nat}
<1>6. 0 \in U
  BY <1>1, <1>5
<1>7. \A j \in 1..n : j - 1 \in U => j \in U
  <2> SUFFICES ASSUME NEW j \in 1..n, c[j - 1] \in Nat PROVE j \in 0..n /\ c[j] \in Nat
    OBVIOUS
  <2>1. j \in 0..n
    BY <1>1
  <2>2. s[j] \in Nat /\ c[j] = c[j - 1] + s[j]
    <3> HIDE DEF n
    <3> QED BY <1>1, <1>5
  <2> QED BY <2>1, <2>2
<1> HIDE DEF U
<1>8. 0..n \subseteq U
  <2> HIDE DEF n
  <2> QED BY <1>1, <1>6, <1>7, UpToAll
<1>9. c \in [0..n -> Nat]
  BY <1>5, <1>8 DEF U
<1> QED BY <1>2, <1>5, <1>9

LEMMA TextCountEnds ==
    ASSUME NEW s \in Seq(Nat), NEW a \in Nat
    PROVE  /\ TextEnds(Count(s, a), Len(s)) /\ Count(s, a)[Len(s)] \in Nat
           /\ a <= Count(s, a)[Len(s)]
<1> DEFINE c == Count(s, a)
           n == Len(s)
<1>1. c \in [0..n -> Nat] /\ c[0] = a /\ \A j \in 1..n : c[j] = c[j - 1] + s[j]
  BY TextCountIs
<1>2. n \in Nat /\ \A j \in 1..n : s[j] \in Nat /\ j \in 0..n /\ j - 1 \in 0..n
  BY LenProperties
<1> HIDE DEF c
<1>3. \A j \in 1..n : c[j - 1] <= c[j]
  <2> SUFFICES ASSUME NEW j \in 1..n PROVE c[j - 1] <= c[j]
    OBVIOUS
  <2>1. c[j - 1] \in Nat /\ s[j] \in Nat /\ c[j] = c[j - 1] + s[j]
    <3> HIDE DEF n
    <3> QED BY <1>1, <1>2
  <2> QED BY <2>1
<1>4. TextEnds(c, n)
  BY <1>1, <1>3 DEF TextEnds
<1>5. n \in 0..n
  BY <1>2
<1>6. c[0] <= c[n]
  <2> HIDE DEF n
  <2> QED BY <1>2, <1>4, <1>5, TextEndsGrow
<1> QED BY <1>1, <1>4, <1>5, <1>6 DEF c

\* How many there are up to each paragraph.
LEMMA TextCountsIs ==
    ASSUME NEW s \in Seq(Seq(Nat))
    PROVE  LET c == Counts(s)
           IN  /\ c \in [0..Len(s) -> Nat] /\ c[0] = 0
               /\ \A i \in 1..Len(s) : c[i] = Count(s[i], c[i - 1])[Len(s[i])]
<1> DEFINE n == Len(s)
           To(i, x) == Count(s[i], x)[Len(s[i])]
           P(f) == [i \in 0..Len(s) |-> IF i = 0 THEN 0 ELSE To(i, f[i - 1])]
           c == CHOOSE f : f = P(f)
           step == [x \in (1..n) \X Nat |-> To(x[1], x[2])]
<1>1. n \in Nat /\ \A i \in 1..n : s[i] \in Seq(Nat)
  BY LenProperties
<1>2. Counts(s) = c
  BY DEF Counts
<1>3. \A i \in 1..n, x \in Nat : To(i, x) \in Nat
  BY <1>1, TextCountEnds
<1>4. \E f : f = P(f)
  <2> HIDE DEF To
  <2>1. step \in [(1..n) \X Nat -> Nat]
    BY <1>3
  <2>2. PICK f : Follows(f, n, Nat, 0, step)
    <3> HIDE DEF step, n
    <3> QED BY <1>1, <2>1, Recursion
  <2>3. f \in [0..n -> Nat] /\ f[0] = 0 /\ \A i \in 1..n : f[i] = step[i, f[i - 1]]
    BY <2>2 DEF Follows
  <2>4. \A i \in 1..n : f[i] = To(i, f[i - 1])
    <3> SUFFICES ASSUME NEW i \in 1..n PROVE f[i] = To(i, f[i - 1])
      OBVIOUS
    <3>1. i - 1 \in 0..n
      BY <1>1
    <3>2. f[i - 1] \in Nat
      BY <2>3, <3>1
    <3> QED BY <2>3, <3>2
  <2>5. f = [i \in 0..n |-> f[i]]
    BY <2>3
  <2>7. \A i \in 0..n : i = 0 \/ i \in 1..n
    BY <1>1
  <2>6. f = P(f)
    <3> HIDE DEF step
    <3> QED BY <2>3, <2>4, <2>5, <2>7
  <2> QED BY <2>6
<1>5. c = P(c)
  <2> HIDE DEF P
  <2> QED BY <1>4, Zenon
<1> HIDE DEF c, To
<1>6. c[0] = 0 /\ (\A i \in 1..n : c[i] = To(i, c[i - 1])) /\ c = [i \in 0..n |-> c[i]]
  <2>1. /\ P(c)[0] = 0 /\ (\A i \in 1..n : P(c)[i] = To(i, c[i - 1]))
        /\ P(c) = [i \in 0..n |-> P(c)[i]]
    BY <1>1
  <2> HIDE DEF P
  <2> QED BY <1>5, <2>1
<1> DEFINE U == {i \in 0..n : c[i] \in Nat}
<1>7. 0 \in U
  BY <1>1, <1>6
<1>8. \A i \in 1..n : i - 1 \in U => i \in U
  <2> SUFFICES ASSUME NEW i \in 1..n, c[i - 1] \in Nat PROVE i \in 0..n /\ c[i] \in Nat
    OBVIOUS
  <2>1. i \in 0..n
    BY <1>1
  <2> HIDE DEF n
  <2> QED BY <1>1, <1>3, <1>6, <2>1
<1> HIDE DEF U
<1>9. 0..n \subseteq U
  <2> HIDE DEF n
  <2> QED BY <1>1, <1>7, <1>8, UpToAll
<1>10. c \in [0..n -> Nat]
  BY <1>6, <1>9 DEF U
<1> QED BY <1>2, <1>6, <1>10 DEF To

\* A numbered text is all of its words, one after the other.
LEMMA TextNumberedIs ==
    ASSUME NEW s \in Seq(Seq(Nat))
    PROVE  LET d == Numbered(s)
               c == Counts(s)
           IN  /\ Len(d) = Len(s) /\ \E T : d \in Seq(T)
               /\ TextEnds(c, Len(d)) /\ c[0] = 0 /\ c[Len(d)] \in Nat
               /\ \A i \in 1..Len(d) : TextParted(d[i], c[i - 1], c[i])
               /\ Words(d) = TextBetween(0, c[Len(d)])
<1> DEFINE d == Numbered(s)
           c == Counts(s)
           n == Len(s)
           T == Seq(Seq(Nat))
<1>1. n \in Nat /\ DOMAIN s = 1..n /\ \A i \in 1..n : s[i] \in Seq(Nat)
  BY LenProperties
<1>2. /\ c \in [0..n -> Nat] /\ c[0] = 0
      /\ \A i \in 1..n : c[i] = Count(s[i], c[i - 1])[Len(s[i])]
  BY TextCountsIs
<1> HIDE DEF c
<1>3. ASSUME NEW i \in 1..n
      PROVE  /\ d[i] \in T /\ TextParted(d[i], c[i - 1], c[i])
             /\ FlattenSeq(d[i]) = TextBetween(c[i - 1], c[i])
             /\ c[i - 1] \in Nat /\ c[i] \in Nat /\ c[i - 1] <= c[i]
  <2> DEFINE r == s[i]
             a == c[i - 1]
             m == Len(r)
             k == Count(r, a)
  <2>1. i - 1 \in 0..n /\ i \in 0..n
    BY <1>1
  <2>2. r \in Seq(Nat) /\ a \in Nat /\ c[i] = k[m] /\ c[i] \in Nat
    BY <1>1, <1>2, <2>1
  <2>3. m \in Nat /\ DOMAIN r = 1..m /\ \A j \in 1..m : r[j] \in Nat
    BY <2>2, LenProperties
  <2>4. d[i] = [j \in 1..m |-> [x \in 1..r[j] |-> k[j - 1] + x]]
    BY <1>1, <2>3 DEF Numbered, c
  <2> HIDE DEF r, a
  <2>5. /\ TextEnds(k, m) /\ a <= k[m] /\ k[0] = a /\ k \in [0..m -> Nat]
        /\ \A j \in 1..m : k[j] = k[j - 1] + r[j]
    BY <2>2, TextCountIs, TextCountEnds
  <2> HIDE DEF k, m
  <2>6. ASSUME NEW j \in 1..m
        PROVE  /\ [x \in 1..r[j] |-> k[j - 1] + x] = TextBetween(k[j - 1], k[j])
               /\ TextBetween(k[j - 1], k[j]) \in Seq(Nat)
    <3>1. j - 1 \in 0..m /\ j \in 0..m
      BY <2>3
    <3>2. k[j - 1] \in Nat /\ k[j] \in Nat /\ r[j] \in Nat /\ k[j] = k[j - 1] + r[j]
      BY <2>3, <2>5, <3>1
    <3>3. k[j] - k[j - 1] = r[j] /\ k[j - 1] <= k[j]
      BY <3>2
    <3> QED BY <3>2, <3>3, TextBetweenIs DEF TextBetween
  <2>7. d[i] = [j \in 1..m |-> TextBetween(k[j - 1], k[j])]
    BY <2>4, <2>6
  <2>8. d[i] \in Seq(Seq(Nat))
    <3>1. d[i] \in [1..m -> Seq(Nat)]
      BY <2>6, <2>7
    <3> HIDE DEF d
    <3> QED BY <2>3, <3>1, TextSeqOfLength
  <2>9. Len(d[i]) = m
    <3>1. d[i] \in [1..m -> Seq(Nat)]
      BY <2>6, <2>7
    <3> HIDE DEF d
    <3> QED BY <2>3, <3>1, TextSeqOfLength
  <2> HIDE DEF d
  <2>10. TextCut(d[i], k)
    BY <2>5, <2>7, <2>9 DEF TextCut
  <2>11. FlattenSeq(d[i]) = TextBetween(k[0], k[m])
    BY <2>8, <2>9, <2>10, TextFlattenIs
  <2>12. TextParted(d[i], a, k[m])
    BY <2>5, <2>8, <2>9, <2>10 DEF TextParted
  <2>13. FlattenSeq(d[i]) = TextBetween(a, k[m])
    BY <2>5, <2>11
  <2> QED BY <2>2, <2>5, <2>8, <2>12, <2>13 DEF a
<1>4. d \in Seq(T) /\ Len(d) = n /\ DOMAIN d = 1..n
  <2>1. DOMAIN d = 1..n /\ d = [i \in 1..n |-> d[i]]
    BY <1>1 DEF Numbered
  <2> HIDE DEF d, T
  <2>2. d \in [1..n -> T]
    BY <1>3, <2>1
  <2> HIDE DEF n
  <2>3. d \in Seq(T) /\ Len(d) = n
    BY <1>1, <2>2, TextSeqOfLength
  <2> QED BY <2>1, <2>3
<1> HIDE DEF d, T
<1>5. TextEnds(c, n)
  BY <1>2, <1>3 DEF TextEnds
<1> DEFINE u == [i \in DOMAIN d |-> FlattenSeq(d[i])]
<1>6. /\ u \in Seq(Seq(Nat)) /\ Len(u) = n
      /\ \A i \in 1..n : u[i] = TextBetween(c[i - 1], c[i])
  <2>1. u = [i \in 1..n |-> TextBetween(c[i - 1], c[i])] /\ DOMAIN u = 1..n
    BY <1>3, <1>4
  <2>2. \A i \in 1..n : TextBetween(c[i - 1], c[i]) \in Seq(Nat)
    BY <1>3, TextBetweenIs
  <2> HIDE DEF u
  <2>3. u \in [1..n -> Seq(Nat)]
    BY <2>1, <2>2
  <2> HIDE DEF n
  <2>4. u \in Seq(Seq(Nat)) /\ Len(u) = n
    BY <1>1, <2>3, TextSeqOfLength
  <2> QED BY <2>1, <2>4
<1>7. Words(d) = FlattenSeq(u)
  BY DEF Words
<1> HIDE DEF u
<1>8. TextCut(u, c)
  BY <1>5, <1>6 DEF TextCut
<1>9. FlattenSeq(u) = TextBetween(c[0], c[n])
  BY <1>6, <1>8, TextFlattenIs
<1>10. c[n] \in Nat
  BY <1>1, <1>2
<1> QED BY <1>2, <1>3, <1>4, <1>5, <1>7, <1>9, <1>10 DEF c, d

\* What is missing is little, everywhere.
LEMMA TextGaps ==
    ASSUME Windows, NEW n \in Nat, NEW K, K \subseteq 1..n, NEW e \in Nat, e <= n,
           TextDense(K, e),
           n <= e + (TextShort + TextShort), NEW w \in (1..n) \ K
    PROVE  \E i, j \in 0..(n + 1) :
              /\ i < w /\ w < j /\ j - i <= 2 * (MinWords - 1) + 1
              /\ \A v \in (i + 1)..(j - 1) : v \notin K
              /\ i \in K \union {0}
              /\ j \in K \union {n + 1}
<1> DEFINE G == TextShort + TextShort
           S == {v \in K \union {0} : v < w}
           U == {v \in K \union {n + 1} : w < v}
<1>1. G \in Nat /\ 2 * (MinWords - 1) + 1 = G + 1
  BY TextSizes
<1>2. PICK i \in S : \A v \in S : v <= i
  <2>1. S \subseteq 0..n /\ 0 \in S
    <3>1. 0 < w /\ 0 \in 0..n /\ \A v \in 1..n : v \in 0..n
      OBVIOUS
    <3> QED BY <3>1
  <2> HIDE DEF S
  <2> QED BY <2>1, Greatest
<1>3. PICK j \in U : \A v \in U : j <= v
  <2>1. U \subseteq Nat /\ n + 1 \in U
    <3>1. w < n + 1 /\ n + 1 \in Nat /\ \A v \in 1..n : v \in Nat
      OBVIOUS
    <3> QED BY <3>1
  <2> HIDE DEF U
  <2> QED BY <2>1, LeastOf
<1>4. i \in 0..n /\ i < w /\ w < j /\ j \in 1..(n + 1)
  OBVIOUS
<1>5. ASSUME NEW v \in (i + 1)..(j - 1) PROVE v \notin K
  <2>1. v < w \/ v = w \/ w < v
    BY <1>4
  <2>2. v < w => v \notin K
    BY <1>2, <1>4
  <2>3. w < v => v \notin K
    BY <1>3, <1>4
  <2> QED BY <2>1, <2>2, <2>3
<1>6. j - i <= G + 1
  <2> SUFFICES ASSUME j - i > G + 1 PROVE FALSE
    BY <1>1, <1>4
  <2>1. i + G + 1 <= n /\ i + G + 1 < j
    BY <1>1, <1>4
  <2>2. CASE i + G + 1 <= e
    <3>1. PICK v \in K : i + 1 <= v /\ v <= i + G + 1
      BY <1>1, <1>4, <2>2 DEF TextDense
    <3>2. v \in (i + 1)..(j - 1)
      BY <1>1, <1>4, <2>1, <3>1
    <3> QED BY <1>5, <3>1, <3>2
  <2>3. CASE e < i + G + 1 /\ i < e
    <3>1. e \in K
      BY <2>3, <1>4 DEF TextDense
    <3>2. e \in (i + 1)..(j - 1)
      BY <1>1, <1>4, <2>1, <2>3
    <3> QED BY <1>5, <3>1, <3>2
  <2>4. CASE e <= i
    BY <1>1, <1>4, <2>1, <2>4
  <2> QED BY <1>1, <1>4, <2>2, <2>3, <2>4
<1>7. i \in K \union {0} /\ j \in K \union {n + 1}
  OBVIOUS
<1> HIDE DEF S, U
<1> QED BY <1>1, <1>4, <1>5, <1>6, <1>7

LEMMA TextSplitKeeps == ASSUME Windows, Split PROVE EveryWordKept'
<1>0. /\ WindowSize \in Nat /\ WindowOverlap \in Nat /\ TextShort \in Nat
      /\ WindowOverlap < WindowSize
      /\ MinWords = TextShort + 1 /\ TextShort <= WindowOverlap
      /\ TextShort + TextShort <= WindowSize
  BY TextSizes
<1>1. PICK s \in UpTo(UpTo(Lengths, MaxParts), MaxParts) : document' = Numbered(s)
  BY DEF Split
<1>2. s \in Seq(Seq(Nat))
  <2>1. Lengths \subseteq Nat /\ MaxParts \in Nat
    BY DEF Windows
  <2>2. \A S, T, x : S \subseteq T /\ x \in UpTo(S, MaxParts) => x \in Seq(T)
    <3> SUFFICES ASSUME NEW S, NEW T, NEW x, S \subseteq T, x \in UpTo(S, MaxParts)
                 PROVE  x \in Seq(T)
      OBVIOUS
    <3>1. PICK k \in 1..MaxParts : x \in [1..k -> S]
      BY DEF UpTo
    <3>2. k \in Nat /\ x \in [1..k -> T]
      BY <2>1, <3>1
    <3> QED BY <3>2, SeqDef
  <2>3. UpTo(Lengths, MaxParts) \subseteq Seq(Nat)
    BY <2>1, <2>2
  <2> QED BY <2>2, <2>3
<1> DEFINE d == Numbered(s)
           c == Counts(s)
           n == c[Len(d)]
           all == IF coding' /\ definitions' # {} THEN definitions' ELSE split_prose(d)
           K == TextKept(all)
<1>3. /\ \E T : d \in Seq(T)
      /\ TextEnds(c, Len(d)) /\ c[0] = 0 /\ n \in Nat
      /\ \A i \in 1..Len(d) : TextParted(d[i], c[i - 1], c[i])
      /\ Words(d) = TextBetween(0, n)
  BY <1>2, TextNumberedIs
<1>4. /\ pieces' = {x \in all : Len(x) >= MinWords}
      /\ definitions' # {} => all = definitions'
      /\ definitions' \in {{}, {Words(d)}, {Words(d), Ending(Words(d), WindowOverlap)}}
  BY <1>1, Zenon DEF Split, chunk, split_code
<1> HIDE DEF d, c
<1>5. /\ \A x \in all : \E a, b \in Nat :
           /\ a <= b /\ b <= n /\ x = TextBetween(a, b)
           /\ definitions' = {} => b - a <= WindowSize + WindowOverlap
      /\ \E e \in Nat : TextDense(K, e) /\ n <= e + (TextShort + TextShort)
  <2>1. CASE definitions' = {}
    <3>1. all = split_prose(d)
      BY <2>1
    <3> HIDE DEF all
    <3>2. /\ TextStretches(all, n)
          /\ \E e \in Nat : TextDense(K, e) /\ n <= e + (TextShort + TextShort)
      BY <1>3, <3>1, TextProseKeeps
    <3> QED BY <3>2 DEF TextStretches
  <2>2. CASE definitions' # {}
    <3> DEFINE w == Words(d)
               m == IF WindowOverlap <= n - 0 THEN n - WindowOverlap ELSE 0
    <3>1. w = TextBetween(0, n) /\ all = definitions'
      BY <1>3, <1>4, <2>2
    <3>2. m \in Nat /\ m <= n /\ Ending(w, WindowOverlap) = TextBetween(m, n)
      <4>1. 0 <= n
        BY <1>3
      <4> HIDE DEF n
      <4> QED BY <1>3, <3>1, <4>1, TextBetweenEnding, <1>0
    <3> HIDE DEF w, m, all
    <3>3. w \in all /\ \A x \in all : x = TextBetween(0, n) \/ x = TextBetween(m, n)
      BY <1>4, <2>2, <3>1, <3>2 DEF w
    <3>4. \A x \in all : \E a, b \in Nat : a <= b /\ b <= n /\ x = TextBetween(a, b)
      BY <1>3, <3>2, <3>3
    <3>5. Len(w) = n /\ ToSet(w) = 1..n
      <4>1. 0 <= n /\ n - 0 = n /\ 0 + 1 = 1
        BY <1>3
      <4> HIDE DEF n
      <4> QED BY <1>3, <3>1, <4>1, TextBetweenIs
    <3>6. K \subseteq 1..n
      <4> SUFFICES ASSUME NEW x \in all PROVE ToSet(x) \subseteq 1..n
        BY DEF TextKept
      <4>1. PICK a, b \in Nat : a <= b /\ b <= n /\ x = TextBetween(a, b)
        BY <3>4
      <4>2. ToSet(x) = (a + 1)..b
        BY <4>1, TextBetweenIs
      <4> QED BY <1>3, <4>1, <4>2
    <3>7. CASE n > TextShort
      <4>1. 1..n \subseteq K
        <5> HIDE DEF n
        <5>1. Len(w) >= MinWords
          BY <1>3, <3>5, <3>7, <1>0
        <5>2. ToSet(w) \subseteq TextKept(all)
          BY <3>3, <5>1, TextKeptOf
        <5> QED BY <3>5, <5>2
      <4>2. TextDense({}, 0)
        BY <1>0 DEF TextDense
      <4>3. TextDense(K, n)
        <5> HIDE DEF K, n
        <5>1. /\ {} \subseteq Nat /\ K \subseteq Nat /\ {} \subseteq K
              /\ (0 + 1)..n \subseteq K
          BY <1>3, <3>6, <4>1
        <5>2. 0 <= 0 + (TextShort + TextShort) /\ 0 <= n /\ 0 < n
          BY <1>3, <3>7, <1>0
        <5> QED BY <1>3, <4>2, <5>1, <5>2, TextDenser
      <4> QED BY <1>3, <2>2, <3>4, <4>3, <1>0
    <3>8. CASE ~(n > TextShort)
      <4>1. TextDense(K, 0)
        BY <1>0 DEF TextDense
      <4>2. n <= 0 + (TextShort + TextShort)
        BY <1>3, <3>8, <1>0
      <4> QED BY <2>2, <3>4, <4>1, <4>2
    <3> QED BY <3>7, <3>8
  <2> QED BY <2>1, <2>2
<1> HIDE DEF all, n
<1>6. K \subseteq 1..n
  <2> SUFFICES ASSUME NEW x \in all PROVE ToSet(x) \subseteq 1..n
    BY DEF TextKept
  <2>1. PICK a, b \in Nat : a <= b /\ b <= n /\ x = TextBetween(a, b)
    BY <1>5
  <2>2. ToSet(x) = (a + 1)..b
    BY <2>1, TextBetweenIs
  <2> QED BY <1>3, <2>1, <2>2
<1>7. PICK e \in Nat : TextDense(K, e) /\ e <= n /\ n <= e + (TextShort + TextShort)
  <2>1. \A e \in Nat : TextDense(K, e) => e <= n
    <3> HIDE DEF K
    <3> QED BY <1>3, <1>6 DEF TextDense
  <2> QED BY <1>5, <2>1
<1>8. UNION {ToSet(x) : x \in pieces'} = K
  BY <1>4 DEF TextKept
<1>9. \A x \in pieces' : Stretch(x) /\ (definitions' = {} => Len(x) <= WindowSize + WindowOverlap)
  <2> SUFFICES ASSUME NEW x \in all
               PROVE  /\ Stretch(x)
                      /\ (definitions' = {} => Len(x) <= WindowSize + WindowOverlap)
    BY <1>4
  <2>1. PICK a, b \in Nat : /\ a <= b /\ x = TextBetween(a, b)
                            /\ definitions' = {} => b - a <= WindowSize + WindowOverlap
    BY <1>5
  <2> QED BY <2>1, TextBetweenIs
<1>10. Words(document)' = Words(d) /\ ToSet(Words(d)) = 1..n /\ Len(Words(d)) = n
  <2>1. Words(document)' = Words(d)
    BY <1>1 DEF Words, d
  <2> QED BY <1>3, <2>1, TextBetweenIs
<1> HIDE DEF K
<1>11. ASSUME NEW w \in (1..n) \ K
       PROVE  \E i, j \in 0..(n + 1) :
                 /\ i < w /\ w < j /\ j - i <= 2 * (MinWords - 1) + 1
                 /\ \A v \in (i + 1)..(j - 1) : v \notin K
                 /\ i \in K \union {0}
                 /\ j \in K \union {n + 1}
  BY <1>3, <1>6, <1>7, TextGaps
<1> QED BY <1>8, <1>9, <1>10, <1>11 DEF EveryWordKept

LEMMA TextChunkInitially == ASSUME Undivided PROVE EveryWordKept
<1>1. pieces = {} /\ document = <<>>
  BY DEF Undivided
<1>2. Words(<<>>) = <<>>
  BY DEF Words, FlattenSeq
<1>3. ToSet(Words(document)) = {}
  BY <1>1, <1>2 DEF ToSet
<1> QED BY <1>1, <1>3 DEF EveryWordKept

LEMMA TextChunkInductive == ASSUME Windows, EveryWordKept, [Split]_splitting
                            PROVE  EveryWordKept'
<1>1. Split => EveryWordKept'
  BY TextSplitKeeps
<1>2. EveryWordKept /\ UNCHANGED splitting => EveryWordKept'
  BY DEF splitting, EveryWordKept, Words
<1> QED BY <1>1, <1>2

\* However long its paragraphs and sentences are, no more words of a text in a row are
\* in none of its chunks than two chunks that are too short have (chunker.py chunk()).
THEOREM TextIsKept ==
    ASSUME Windows
    PROVE  Undivided /\ [][Split]_splitting => []EveryWordKept
<1>1. Undivided => EveryWordKept
  BY TextChunkInitially
<1>2. EveryWordKept /\ [Split]_splitting => EveryWordKept'
  BY TextChunkInductive
<1> QED BY <1>1, <1>2, PTL
=============================================================================
