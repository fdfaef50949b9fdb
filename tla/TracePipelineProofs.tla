------------------------- MODULE TracePipelineProofs -------------------------
(***************************************************************************)
(* The way from the capture files to the bots' spawn, for any captures,    *)
(* fleets, imports and numbers of bots.                                    *)
(***************************************************************************)
EXTENDS TracePipeline, SumLemmas, SequenceTheorems, FunctionTheorems

-----------------------------------------------------------------------------
(* Counting, ranking and recursion                                          *)

\* Induction up to N; the formula is a set, as in SetInduction.
LEMMA UpTo ==
  ASSUME NEW N \in Nat, NEW G, 0 \in G, \A n \in 0 .. N - 1 : n \in G => n + 1 \in G
  PROVE  \A n \in 0 .. N : n \in G
<1>. DEFINE Bad == {n \in 0 .. N : n \notin G}
<1>1. SUFFICES ASSUME Bad # {} PROVE FALSE
  OBVIOUS
<1>2. PICK n \in Bad : \A m \in Bad : <<m, n>> \notin OpToRel(<, Nat)
  <2>1. Bad \subseteq Nat
    OBVIOUS
  <2>. HIDE DEF Bad
  <2>. QED BY <1>1, <2>1, NatLessThanWellFounded, WFMin
<1>a. n \in 0 .. N /\ n \notin G
  BY <1>2
<1>3. n # 0 /\ n - 1 \in 0 .. N - 1 /\ n - 1 < n /\ (n - 1) + 1 = n
  BY <1>a
<1>4. n - 1 \notin Bad
  <2>. HIDE DEF Bad
  <2>1. n - 1 \in Nat /\ n \in Nat
    BY <1>3, <1>a
  <2>2. <<n - 1, n>> \in OpToRel(<, Nat)
    BY <1>3, <2>1 DEF OpToRel
  <2>. QED BY <1>2, <2>2
<1>5. n - 1 \in G
  BY <1>3, <1>4
<1>. QED BY <1>3, <1>5, <1>a

\* Taken in turn, a trace is one of those there are.
LEMMA Turns ==
  ASSUME NEW a \in Nat, NEW n \in Nat \ {0}
  PROVE  (a % n) + 1 \in 1 .. n
BY SMT

\* Of less than n bots each has a trace of his own.
LEMMA SmallRemainder ==
  ASSUME NEW a \in Nat, NEW n \in Nat, a < n
  PROVE  a % n = a
<1>. DEFINE q == a \div n
            r == a % n
<1>1. q \in Int /\ r \in 0 .. n - 1 /\ a = n * q + r
  BY SMT
<1>2. \A k \in Int : k >= 1 => n * k >= n
  BY SMT
<1>3. \A k \in Int : k <= -1 => n * k <= 0 - n
  BY SMT
<1>. HIDE DEF q, r
<1>4. n * q \in Int
  BY <1>1
<1>5. ~(q >= 1) /\ ~(q <= -1)
  BY <1>1, <1>2, <1>3, <1>4
<1>6. q = 0
  BY <1>1, <1>5
<1>7. r = a
  BY <1>1, <1>6
<1>. QED BY <1>7 DEF r

\* The numbers of those that come before, itself included, of a finite set with
\* a total order, are 1, 2 and so on.
LEMMA Ranks ==
  ASSUME NEW S, IsFiniteSet(S), NEW below \in [S -> SUBSET S],
         \A i \in S : i \in below[i],
         \A i, j \in S : i # j => \/ below[i] \subseteq below[j] /\ j \notin below[i]
                                  \/ below[j] \subseteq below[i] /\ i \notin below[j]
  PROVE  [i \in S |-> Cardinality(below[i])] \in Bijection(S, 1 .. Cardinality(S))
<1>. DEFINE rank == [i \in S |-> Cardinality(below[i])]
            N == 1 .. Cardinality(S)
<1>1. Cardinality(S) \in Nat /\ IsFiniteSet(N) /\ Cardinality(N) = Cardinality(S)
  <2>1. Cardinality(S) \in Nat
    BY FS_CardinalityType
  <2>. QED BY <2>1, FS_Interval
<1>2. ASSUME NEW i \in S
      PROVE  IsFiniteSet(below[i]) /\ Cardinality(below[i]) \in N
  <2>1. IsFiniteSet(below[i]) /\ Cardinality(below[i]) <= Cardinality(S)
    BY FS_Subset
  <2>2. Cardinality(below[i]) \in Nat /\ Cardinality(below[i]) # 0
    BY <2>1, FS_CardinalityType, FS_EmptySet
  <2>. QED BY <1>1, <2>1, <2>2
<1>3. ASSUME NEW i \in S, NEW j \in S, below[i] \subseteq below[j], j \notin below[i]
      PROVE  Cardinality(below[i]) < Cardinality(below[j])
  <2>1. IsFiniteSet(below[j]) /\ below[i] \in SUBSET below[j] /\ below[i] # below[j]
    BY <1>2, <1>3
  <2>2. Cardinality(below[i]) <= Cardinality(below[j]) /\ Cardinality(below[i]) # Cardinality(below[j])
    BY <2>1, FS_Subset
  <2>. QED BY <1>1, <1>2, <2>2
<1>4. \A i, j \in S : Cardinality(below[i]) = Cardinality(below[j]) => i = j
  <2>. SUFFICES ASSUME NEW i \in S, NEW j \in S, i # j
                PROVE  Cardinality(below[i]) # Cardinality(below[j])
    OBVIOUS
  <2>1. Cardinality(below[i]) \in Int /\ Cardinality(below[j]) \in Int
    BY <1>1, <1>2
  <2>2. Cardinality(below[i]) < Cardinality(below[j]) \/ Cardinality(below[j]) < Cardinality(below[i])
    BY <1>3
  <2>. QED BY <2>1, <2>2
<1>5. rank \in [S -> N]
  BY <1>2
<1>6. \A i, j \in S : rank[i] = rank[j] => i = j
  BY <1>4
<1>. HIDE DEF rank, N
<1>7. rank \in Injection(S, N)
  BY <1>5, <1>6, Fun_IsInj
<1>8. rank \in Surjection(S, N)
  BY <1>1, <1>7, FS_Injection
<1>9. rank \in Bijection(S, N)
  BY <1>7, <1>8 DEF Bijection
<1>. QED BY <1>9 DEF rank, N

\* The n-th of a finite set of integers is in it, with n - 1 before it.
LEMMA NthOf ==
  ASSUME NEW I \in SUBSET Int, IsFiniteSet(I), NEW n \in 1 .. Cardinality(I)
  PROVE  Nth(I, n) \in I /\ Cardinality({j \in I : j <= Nth(I, n)}) = n
<1>. DEFINE below == [i \in I |-> {j \in I : j <= i}]
            rank == [i \in I |-> Cardinality(below[i])]
<1>1. rank \in Bijection(I, 1 .. Cardinality(I))
  <2>1. below \in [I -> SUBSET I] /\ \A i \in I : i \in below[i]
    OBVIOUS
  <2>2. ASSUME NEW i \in I, NEW j \in I, i # j
        PROVE  \/ below[i] \subseteq below[j] /\ j \notin below[i]
               \/ below[j] \subseteq below[i] /\ i \notin below[j]
    <3>1. \A k \in I : k \in Int
      OBVIOUS
    <3>2. CASE i < j
      <4>1. \A k \in I : k <= i => k <= j
        BY <3>1, <3>2
      <4>2. ~(j <= i)
        BY <3>1, <3>2
      <4>. QED BY <4>1, <4>2
    <3>3. CASE j < i
      <4>1. \A k \in I : k <= j => k <= i
        BY <3>1, <3>3
      <4>2. ~(i <= j)
        BY <3>1, <3>3
      <4>. QED BY <4>1, <4>2
    <3>. QED BY <2>2, <3>1, <3>2, <3>3
  <2>. HIDE DEF below
  <2>. QED BY <2>1, <2>2, Ranks
<1>2. PICK i \in I : rank[i] = n
  <2>. HIDE DEF rank
  <2>. DEFINE N == 1 .. Cardinality(I)
  <2>1. n \in N /\ rank \in Bijection(I, N)
    BY <1>1
  <2>. HIDE DEF N, below
  <2>2. \A t \in N : \E i \in I : rank[i] = t
    BY <2>1 DEF Bijection, Surjection
  <2>. QED BY <2>1, <2>2
<1>3. Cardinality({j \in I : j <= i}) = n
  BY <1>2
<1>. QED BY <1>3 DEF Nth

\* Of two numbers of a set, the later comes later.
LEMMA NthApart ==
  ASSUME NEW I \in SUBSET Int, IsFiniteSet(I),
         NEW n \in 1 .. Cardinality(I), NEW m \in 1 .. Cardinality(I), n < m
  PROVE  Nth(I, n) < Nth(I, m)
<1>. DEFINE a == Nth(I, n)
            b == Nth(I, m)
<1>1. a \in I /\ b \in I /\ Cardinality({j \in I : j <= a}) = n /\ Cardinality({j \in I : j <= b}) = m
  BY NthOf
<1>2. SUFFICES ASSUME b <= a PROVE FALSE
  <2>. HIDE DEF a, b
  <2>1. a \in Int /\ b \in Int
    BY <1>1
  <2>2. a < b
    BY <1>2, <2>1
  <2>. QED BY <2>2 DEF a, b
<1>. HIDE DEF a, b
<1>3. {j \in I : j <= b} \in SUBSET {j \in I : j <= a}
  <2>1. \A j \in I : j \in Int
    OBVIOUS
  <2>2. a \in Int /\ b \in Int
    BY <1>1
  <2>3. \A j \in I : j <= b => j <= a
    BY <1>2, <2>1, <2>2
  <2>. QED BY <2>3
<1>4. IsFiniteSet({j \in I : j <= a})
  BY FS_Subset
<1>5. m <= n
  BY <1>1, <1>3, <1>4, FS_Subset
<1>6. n \in Int /\ m \in Int
  BY FS_CardinalityType
<1>. QED BY <1>5, <1>6

\* What is taken of a sequence is a sequence of its entries.
LEMMA EntriesIn ==
  ASSUME NEW E, NEW s \in Seq(E), NEW I \in SUBSET DOMAIN s
  PROVE  /\ Entries(s, I) \in Seq(E) /\ Len(Entries(s, I)) = Cardinality(I)
         /\ IsFiniteSet(I) /\ I \subseteq Int /\ Cardinality(I) \in Nat
         /\ \A n \in 1 .. Cardinality(I) : Nth(I, n) \in I /\ Entries(s, I)[n] = s[Nth(I, n)]
<1>1. Len(s) \in Nat /\ DOMAIN s = 1 .. Len(s) /\ \A i \in DOMAIN s : s[i] \in E
  BY LenProperties, ElementOfSeq
<1>2. IsFiniteSet(I) /\ I \subseteq Int /\ Cardinality(I) \in Nat
  <2>1. IsFiniteSet(1 .. Len(s))
    BY <1>1, FS_Interval
  <2>2. IsFiniteSet(I)
    BY <1>1, <2>1, FS_Subset
  <2>. QED BY <1>1, <2>2, FS_CardinalityType
<1>3. \A n \in 1 .. Cardinality(I) : Nth(I, n) \in I
  BY <1>2, NthOf
<1>4. \A n \in 1 .. Cardinality(I) : s[Nth(I, n)] \in E
  BY <1>1, <1>3
<1>. DEFINE N == Cardinality(I)
            t == [n \in 1 .. N |-> s[Nth(I, n)]]
<1>5. t \in Seq(E) /\ Len(t) = N
  <2>. HIDE DEF N
  <2>1. N \in Nat /\ \A n \in 1 .. N : s[Nth(I, n)] \in E
    BY <1>2, <1>4 DEF N
  <2>2. t \in Seq(E)
    BY <2>1
  <2>3. DOMAIN t = 1 .. N
    OBVIOUS
  <2>. HIDE DEF t
  <2>. QED BY <2>1, <2>2, <2>3
<1>6. Entries(s, I) = t
  BY DEF Entries
<1>. QED BY <1>2, <1>3, <1>5, <1>6

\* A number of a set has the place that says how many come no later.
LEMMA NthIs ==
  ASSUME NEW I \in SUBSET Int, IsFiniteSet(I), NEW i \in I
  PROVE  LET n == Cardinality({j \in I : j <= i})
         IN  n \in 1 .. Cardinality(I) /\ Nth(I, n) = i
<1>. DEFINE upTo(k) == {j \in I : j <= k}
            n == Cardinality(upTo(i))
            x == Nth(I, n)
<1>1. \A k \in I : k \in Int /\ IsFiniteSet(upTo(k)) /\ Cardinality(upTo(k)) \in Nat
  BY FS_Subset, FS_CardinalityType
<1>2. n \in 1 .. Cardinality(I)
  <2>1. n <= Cardinality(I) /\ Cardinality(I) \in Nat
    BY FS_Subset, FS_CardinalityType
  <2>2. i \in upTo(i)
    BY <1>1
  <2>3. n # 0
    <3>. HIDE DEF upTo
    <3>. QED BY <1>1, <2>2, FS_EmptySet
  <2>. HIDE DEF upTo
  <2>. QED BY <1>1, <2>1, <2>3
<1>3. x \in I /\ Cardinality(upTo(x)) = n
  <2>. HIDE DEF n
  <2>. QED BY <1>2, NthOf
<1>. HIDE DEF x
<1>4. ASSUME NEW a \in I, NEW b \in I, a < b PROVE Cardinality(upTo(a)) # Cardinality(upTo(b))
  <2>1. upTo(a) \in SUBSET upTo(b)
    <3>1. a \in Int /\ b \in Int /\ \A k \in I : k \in Int
      BY <1>1
    <3>2. \A k \in I : k <= a => k <= b
      BY <1>4, <3>1
    <3>. QED BY <3>2
  <2>2. b \in upTo(b) /\ b \notin upTo(a)
    BY <1>1, <1>4
  <2>. HIDE DEF upTo
  <2>3. upTo(a) # upTo(b)
    BY <2>2
  <2>. QED BY <1>1, <2>1, <2>3, FS_Subset
<1>5. x = i
  <2>1. ~(x < i) /\ ~(i < x)
    <3>. HIDE DEF upTo
    <3>. QED BY <1>3, <1>4
  <2>. QED BY <1>1, <1>3, <2>1
<1>. QED BY <1>2, <1>5 DEF x

\* As many numbers as places.
LEMMA NthImage ==
  ASSUME NEW I \in SUBSET Int, IsFiniteSet(I), NEW L \in SUBSET (1 .. Cardinality(I))
  PROVE  LET K == {Nth(I, l) : l \in L}
         IN  K \in SUBSET I /\ IsFiniteSet(K) /\ IsFiniteSet(L) /\ Cardinality(K) = Cardinality(L)
<1>. DEFINE K == {Nth(I, l) : l \in L}
            h == [l \in L |-> Nth(I, l)]
<1>1. Cardinality(I) \in Nat /\ \A l \in L : l \in 1 .. Cardinality(I) /\ l \in Int
  BY FS_CardinalityType
<1>2. \A l \in L : Nth(I, l) \in I /\ Nth(I, l) \in Int
  BY <1>1, NthOf
<1>3. K \in SUBSET I /\ IsFiniteSet(L) /\ IsFiniteSet(K)
  <2>1. K \in SUBSET I
    BY <1>2
  <2>2. IsFiniteSet(1 .. Cardinality(I))
    BY <1>1, FS_Interval
  <2>. QED BY <2>1, <2>2, FS_Subset
<1>4. \A l, m \in L : Nth(I, l) = Nth(I, m) => l = m
  <2>. SUFFICES ASSUME NEW l \in L, NEW m \in L, l # m PROVE Nth(I, l) # Nth(I, m)
    OBVIOUS
  <2>1. l < m \/ m < l
    BY <1>1
  <2>2. CASE l < m
    BY <1>1, <1>2, <2>2, NthApart
  <2>3. CASE m < l
    BY <1>1, <1>2, <2>3, NthApart
  <2>. QED BY <2>1, <2>2, <2>3
<1>5. h \in Bijection(L, K)
  <2>1. h \in [L -> K] /\ \A l, m \in L : h[l] = h[m] => l = m
    BY <1>4
  <2>2. \A k \in K : \E l \in L : h[l] = k
    OBVIOUS
  <2>. HIDE DEF h, K
  <2>. QED BY <2>1, <2>2, Fun_IsBij
<1>6. Cardinality(K) = Cardinality(L)
  <2>. HIDE DEF h, K
  <2>1. ExistsBijection(L, K)
    BY <1>5 DEF ExistsBijection
  <2>. QED BY <1>3, <2>1, FS_Bijection
<1>. QED BY <1>3, <1>6

\* What is taken of what was taken of a sequence.
LEMMA EntriesTwice ==
  ASSUME NEW E, NEW s \in Seq(E), NEW I \in SUBSET DOMAIN s, NEW J \in SUBSET (1 .. Cardinality(I))
  PROVE  Entries(Entries(s, I), J) = Entries(s, {Nth(I, j) : j \in J})
<1>. DEFINE K == {Nth(I, j) : j \in J}
            t == Entries(s, I)
<1>1. IsFiniteSet(I) /\ I \in SUBSET Int /\ Cardinality(I) \in Nat
      /\ \A n \in 1 .. Cardinality(I) : t[n] = s[Nth(I, n)]
  BY EntriesIn
<1>2. K \in SUBSET I /\ IsFiniteSet(K) /\ IsFiniteSet(J) /\ Cardinality(K) = Cardinality(J)
  BY <1>1, NthImage
<1>3. J \in SUBSET Int /\ K \in SUBSET Int
  BY <1>1, <1>2
<1>4. ASSUME NEW n \in 1 .. Cardinality(J)
      PROVE  Nth(J, n) \in J /\ Nth(K, n) = Nth(I, Nth(J, n))
  <2>. DEFINE j == Nth(J, n)
              L == {l \in J : l <= j}
              x == Nth(I, j)
  <2>1. j \in J /\ Cardinality(L) = n
    BY <1>2, <1>3, NthOf
  <2>2. x \in K /\ L \in SUBSET (1 .. Cardinality(I))
    BY <2>1
  <2>. HIDE DEF j
  <2>3. {k \in K : k <= x} = {Nth(I, l) : l \in L}
    <3>1. ASSUME NEW l \in J PROVE Nth(I, l) <= x <=> l <= j
      <4>1. /\ l \in 1 .. Cardinality(I) /\ j \in 1 .. Cardinality(I)
            /\ l \in Int /\ j \in Int /\ Nth(I, l) \in Int /\ x \in Int
        BY <1>1, <1>2, <1>3, <2>1, <2>2
      <4>2. l < j => Nth(I, l) < x
        <5>. HIDE DEF L
        <5>. QED BY <1>1, <4>1, NthApart
      <4>3. j < l => x < Nth(I, l)
        <5>. HIDE DEF L
        <5>. QED BY <1>1, <4>1, NthApart
      <4>4. l = j => Nth(I, l) = x
        OBVIOUS
      <4>. HIDE DEF x
      <4>. QED BY <4>1, <4>2, <4>3, <4>4
    <3>. QED BY <3>1
  <2>4. Cardinality({k \in K : k <= x}) = n
    <3>1. Cardinality({Nth(I, l) : l \in L}) = Cardinality(L)
      <4>. HIDE DEF L
      <4>. QED BY <1>1, <2>2, NthImage
    <3>. QED BY <2>1, <2>3, <3>1
  <2>5. Nth(K, n) = x
    <3>. HIDE DEF K, x
    <3>. QED BY <1>2, <1>3, <2>2, <2>4, NthIs
  <2>. QED BY <2>1, <2>5 DEF j
<1>5. \A n \in 1 .. Cardinality(J) : t[Nth(J, n)] = s[Nth(K, n)]
  <2>1. \A n \in 1 .. Cardinality(J) : Nth(J, n) \in 1 .. Cardinality(I)
    BY <1>4
  <2>. HIDE DEF K, t
  <2>. QED BY <1>1, <1>4, <2>1
<1>6. Entries(t, J) = [n \in 1 .. Cardinality(J) |-> t[Nth(J, n)]]
  BY DEF Entries
<1>7. Entries(s, K) = [n \in 1 .. Cardinality(J) |-> s[Nth(K, n)]]
  <2>. HIDE DEF K
  <2>. QED BY <1>2 DEF Entries
<1>. QED
  <2>. HIDE DEF K, t
  <2>1. [n \in 1 .. Cardinality(J) |-> t[Nth(J, n)]] = [n \in 1 .. Cardinality(J) |-> s[Nth(K, n)]]
    BY <1>5
  <2>2. Entries(t, J) = Entries(s, K)
    BY <1>6, <1>7, <2>1
  <2>. QED BY <2>2 DEF K, t

\* Before says that i comes no later than j when the keys are sorted stably.
Before(key, i, j) == key[i] < key[j] \/ (key[i] = key[j] /\ i <= j)

\* A sort puts each entry somewhere, in the order of the keys.
LEMMA SortedBy ==
  ASSUME NEW E, NEW s \in Seq(E), NEW key \in [DOMAIN s -> Int]
  PROVE  /\ StableSort(s, key) \in Seq(E) /\ Len(StableSort(s, key)) = Len(s)
         /\ \E p \in Bijection(1 .. Len(s), 1 .. Len(s)) :
              /\ \A n \in 1 .. Len(s) : StableSort(s, key)[n] = s[p[n]]
              /\ \A n, m \in 1 .. Len(s) : n < m => Before(key, p[n], p[m])
<1>. DEFINE D == 1 .. Len(s)
            below == [i \in D |-> {j \in D : Before(key, j, i)}]
            rank == [i \in D |-> Cardinality(below[i])]
            p == [n \in D |-> CHOOSE i \in D : rank[i] = n]
<1>1. Len(s) \in Nat /\ DOMAIN s = D /\ \A i \in D : s[i] \in E
  BY LenProperties, ElementOfSeq
<1>2. IsFiniteSet(D) /\ Cardinality(D) = Len(s)
  <2>1. IsFiniteSet(D) /\ Cardinality(D) = IF 1 > Len(s) THEN 0 ELSE Len(s) - 1 + 1
    BY <1>1, FS_Interval
  <2>. QED BY <1>1, <2>1
<1>3. rank \in Bijection(D, D)
  <2>1. below \in [D -> SUBSET D]
    OBVIOUS
  <2>2. \A i \in D : i \in below[i]
    BY <1>1 DEF Before
  <2>3. ASSUME NEW i \in D, NEW j \in D, i # j
        PROVE  \/ below[i] \subseteq below[j] /\ j \notin below[i]
               \/ below[j] \subseteq below[i] /\ i \notin below[j]
    <3>1. \A k \in D : key[k] \in Int /\ k \in Int
      BY <1>1
    <3>2. CASE Before(key, i, j)
      <4>1. ~Before(key, j, i)
        BY <2>3, <3>1, <3>2 DEF Before
      <4>2. \A k \in D : Before(key, k, i) => Before(key, k, j)
        BY <3>1, <3>2 DEF Before
      <4>. QED BY <4>1, <4>2
    <3>3. CASE ~Before(key, i, j)
      <4>1. Before(key, j, i)
        BY <2>3, <3>1, <3>3 DEF Before
      <4>2. \A k \in D : Before(key, k, j) => Before(key, k, i)
        BY <3>1, <4>1 DEF Before
      <4>. QED BY <3>3, <4>2
    <3>. QED BY <3>2, <3>3
  <2>4. rank \in Bijection(D, 1 .. Cardinality(D))
    <3>. HIDE DEF below, D
    <3>. QED BY <1>2, <2>1, <2>2, <2>3, Ranks
  <2>. QED BY <1>2, <2>4
<1>4. \A n \in D : p[n] \in D /\ rank[p[n]] = n
  <2>. HIDE DEF rank, D
  <2>1. \A n \in D : \E i \in D : rank[i] = n
    BY <1>3, Fun_BijectionProperties
  <2>. QED BY <2>1
<1>5. p \in Bijection(D, D)
  <2>. HIDE DEF rank, D
  <2>0. \A i \in D : rank[i] \in D
    BY <1>3, Fun_BijectionProperties
  <2>1. \A i, j \in D : rank[i] = rank[j] => i = j
    BY <1>3, Fun_BijectionProperties
  <2>2. p \in [D -> D]
    BY <1>4
  <2>3. \A a, b \in D : p[a] = p[b] => a = b
    <3>. HIDE DEF p
    <3>. QED BY <1>4
  <2>4. \A t \in D : \E n \in D : p[n] = t
    <3>. HIDE DEF p
    <3>1. \A t \in D : rank[p[rank[t]]] = rank[t] /\ p[rank[t]] \in D
      BY <1>4, <2>0
    <3>. QED BY <2>0, <2>1, <3>1
  <2>. HIDE DEF p
  <2>. QED BY <2>2, <2>3, <2>4, Fun_IsBij
<1>6. ASSUME NEW n \in D, NEW m \in D, n < m
      PROVE  Before(key, p[n], p[m])
  <2>. DEFINE a == p[n]
              b == p[m]
  <2>1. a \in D /\ b \in D /\ rank[a] = n /\ rank[b] = m
    BY <1>4
  <2>. HIDE DEF a, b, p
  <2>2. \A k \in D : key[k] \in Int /\ k \in Int
    BY <1>1
  <2>3. SUFFICES ASSUME ~Before(key, a, b) PROVE FALSE
    BY DEF a, b
  <2>4. Before(key, b, a)
    BY <2>1, <2>2, <2>3 DEF Before
  <2>5. below[b] \in SUBSET below[a]
    BY <2>1, <2>2, <2>4 DEF Before
  <2>6. IsFiniteSet(below[a])
    BY <1>2, <2>1, FS_Subset
  <2>7. Cardinality(below[b]) <= Cardinality(below[a])
    <3>. HIDE DEF below
    <3>. QED BY <2>5, <2>6, FS_Subset
  <2>8. rank[b] <= rank[a]
    BY <2>1, <2>7
  <2>. HIDE DEF rank
  <2>. QED BY <1>1, <1>6, <2>1, <2>8
<1>7. StableSort(s, key) = [n \in D |-> s[p[n]]]
  <2>1. \A i \in D : {j \in DOMAIN s : key[j] < key[i] \/ (key[j] = key[i] /\ j <= i)} = below[i]
    BY <1>1 DEF Before
  <2>2. \A n \in D : (CHOOSE i \in DOMAIN s :
           Cardinality({j \in DOMAIN s : key[j] < key[i] \/ (key[j] = key[i] /\ j <= i)}) = n) = p[n]
    <3>1. \A i \in D : Cardinality({j \in DOMAIN s : key[j] < key[i] \/ (key[j] = key[i] /\ j <= i)}) = rank[i]
      BY <2>1
    <3>. HIDE DEF rank, below
    <3>. QED BY <1>1, <3>1
  <2>3. StableSort(s, key) = [n \in D |-> s[CHOOSE i \in DOMAIN s :
           Cardinality({j \in DOMAIN s : key[j] < key[i] \/ (key[j] = key[i] /\ j <= i)}) = n]]
    BY <1>1 DEF StableSort
  <2>. HIDE DEF p
  <2>. QED BY <2>2, <2>3
<1>8. [n \in D |-> s[p[n]]] \in Seq(E) /\ Len([n \in D |-> s[p[n]]]) = Len(s)
  <2>. HIDE DEF p
  <2>1. \A n \in 1 .. Len(s) : s[p[n]] \in E
    BY <1>1, <1>4
  <2>. DEFINE N == Len(s)
              t == [n \in 1 .. N |-> s[p[n]]]
  <2>2. t \in Seq(E) /\ DOMAIN t = 1 .. N /\ N \in Nat
    <3>. HIDE DEF N
    <3>1. N \in Nat /\ \A n \in 1 .. N : s[p[n]] \in E
      BY <1>1, <2>1 DEF N
    <3>. QED BY <3>1
  <2>3. t \in Seq(E) /\ Len(t) = N
    <3>. HIDE DEF t
    <3>. QED BY <2>2
  <2>. QED BY <2>3
<1>. QED
  <2>. HIDE DEF p
  <2>1. \A n \in 1 .. Len(s) : StableSort(s, key)[n] = s[p[n]]
    BY <1>7
  <2>2. \A n, m \in 1 .. Len(s) : n < m => Before(key, p[n], p[m])
    BY <1>6
  <2>. QED BY <1>5, <1>7, <1>8, <2>1, <2>2

\* f solves the recursion that starts at base and goes on with next, up to n.
Solves(f, n, base, next) == f[0] = base /\ \A i \in 1 .. n : f[i] = next[i][f[i - 1]]

\* There is such an f.
LEMMA Recursion ==
  ASSUME NEW N \in Nat, NEW V, NEW base \in V, NEW next \in [1 .. N -> [V -> V]]
  PROVE  \E f \in [0 .. N -> V] : Solves(f, N, base, next)
<1>. DEFINE Solved(f, n) == Solves(f, n, base, next)
            G == {n \in 0 .. N : \E f \in [0 .. N -> V] : Solved(f, n)}
<1>1. 0 \in G
  <2>1. [i \in 0 .. N |-> base] \in [0 .. N -> V]
    OBVIOUS
  <2>2. Solved([i \in 0 .. N |-> base], 0)
    BY DEF Solves
  <2>. HIDE DEF Solved
  <2>. QED BY <2>1, <2>2
<1>2. ASSUME NEW n \in 0 .. N - 1, n \in G
      PROVE  n + 1 \in G
  <2>0. n \in Nat /\ n + 1 \in 1 .. N /\ n \in 0 .. N
    OBVIOUS
  <2>1. PICK f \in [0 .. N -> V] : Solved(f, n)
    <3>. HIDE DEF Solved
    <3>. QED BY <1>2
  <2>2. next[n + 1] \in [V -> V] /\ f[n] \in V
    BY <2>0
  <2>. DEFINE g == [f EXCEPT ![n + 1] = next[n + 1][f[n]]]
  <2>3. g \in [0 .. N -> V]
    BY <2>0, <2>2
  <2>4. g[n + 1] = next[n + 1][f[n]] /\ \A i \in 0 .. n : g[i] = f[i]
    BY <2>0
  <2>5. Solved(g, n + 1)
    <3>. HIDE DEF g
    <3>1. g[0] = base
      BY <2>0, <2>1, <2>4 DEF Solves
    <3>2. ASSUME NEW i \in 1 .. n + 1 PROVE g[i] = next[i][g[i - 1]]
      <4>1. CASE i = n + 1
        <5>1. i - 1 = n /\ n \in 0 .. n
          BY <2>0, <4>1
        <5>. QED BY <2>4, <4>1, <5>1
      <4>2. CASE i # n + 1
        <5>1. i \in 1 .. n /\ i \in 0 .. n /\ i - 1 \in 0 .. n
          BY <2>0, <4>2
        <5>. QED BY <2>1, <2>4, <5>1 DEF Solves
      <4>. QED BY <4>1, <4>2
    <3>. QED BY <3>1, <3>2 DEF Solves
  <2>. HIDE DEF Solved, g
  <2>6. \E h \in [0 .. N -> V] : Solved(h, n + 1)
    BY <2>3, <2>5
  <2>. QED BY <2>0, <2>6
<1>3. N \in G
  <2>1. \A n \in 0 .. N : n \in G
    <3>. HIDE DEF G
    <3>. QED BY <1>1, <1>2, UpTo
  <2>. QED BY <2>1
<1>. QED BY <1>3

\* Sequences put one behind another, step by step.
LEMMA FlattenIs ==
  ASSUME NEW E, NEW s \in Seq(Seq(E))
  PROVE  \E f \in [0 .. Len(s) -> Seq(E)] :
           /\ f[0] = <<>> /\ f[Len(s)] = FlattenSeq(s)
           /\ \A i \in 1 .. Len(s) : f[i] = f[i - 1] \o s[i]
<1>. DEFINE N == Len(s)
            Flat(g) == g = [i \in 1 .. N |-> IF i = 1 THEN s[i] ELSE g[i - 1] \o s[i]]
            flat == CHOOSE g : Flat(g)
<1>1. N \in Nat /\ \A i \in 1 .. N : s[i] \in Seq(E)
  BY LenProperties, ElementOfSeq
<1>2. CASE N = 0
  <2>1. s = <<>> /\ FlattenSeq(s) = s
    <3>1. s # <<>> => Len(s) # 0
      BY EmptySeq
    <3>. QED BY <1>2, <3>1 DEF FlattenSeq
  <2>. DEFINE f == [i \in 0 .. N |-> <<>>]
  <2>2. f \in [0 .. N -> Seq(E)] /\ f[0] = <<>> /\ f[N] = FlattenSeq(s)
    BY <1>2, <2>1, EmptySeq
  <2>3. \A i \in 1 .. N : FALSE
    BY <1>2
  <2>. HIDE DEF f
  <2>. QED BY <2>2, <2>3
<1>3. CASE N # 0
  <2>1. \E g : Flat(g)
    <3>. DEFINE next == [i \in 1 .. N |-> [x \in Seq(E) |-> x \o s[i]]]
    <3>1. next \in [1 .. N -> [Seq(E) -> Seq(E)]] /\ <<>> \in Seq(E)
      <4>1. \A i \in 1 .. N : \A x \in Seq(E) : x \o s[i] \in Seq(E)
        BY <1>1, ConcatProperties
      <4>. QED BY <4>1
    <3>2. PICK f \in [0 .. N -> Seq(E)] : f[0] = <<>> /\ \A i \in 1 .. N : f[i] = next[i][f[i - 1]]
      <4>. DEFINE V == Seq(E)
      <4>. DEFINE none == <<>>
      <4>1. N \in Nat /\ none \in V /\ next \in [1 .. N -> [V -> V]]
        BY <1>1, <3>1
      <4>. HIDE DEF next, N, V, none
      <4>2. \E f \in [0 .. N -> V] : Solves(f, N, none, next)
        BY <4>1, Recursion
      <4>. QED BY <4>2 DEF V, none, Solves
    <3>. DEFINE g == [i \in 1 .. N |-> f[i]]
    <3>3. ASSUME NEW i \in 1 .. N
          PROVE  g[i] = IF i = 1 THEN s[i] ELSE g[i - 1] \o s[i]
      <4>1. i - 1 \in 0 .. N /\ f[i - 1] \in Seq(E)
        <5>1. i - 1 \in 0 .. N
          BY <1>1
        <5>. HIDE DEF N
        <5>. QED BY <5>1
      <4>2. f[i] = f[i - 1] \o s[i]
        BY <3>2, <4>1
      <4>3. CASE i = 1
        <5>1. <<>> \o s[i] = s[i]
          <6>1. s[i] \in Seq(E)
            BY <1>1
          <6>. QED BY <6>1, ConcatEmptySeq
        <5>2. f[i] = s[i]
          <6>1. f[i - 1] = <<>>
            BY <3>2, <4>3
          <6>. QED BY <4>2, <5>1, <6>1
        <5>3. g[i] = f[i]
          OBVIOUS
        <5>. QED BY <4>3, <5>2, <5>3
      <4>4. CASE i # 1
        <5>1. i - 1 \in 1 .. N
          BY <1>1, <4>4
        <5>. QED BY <4>2, <4>4, <5>1
      <4>. QED BY <4>3, <4>4
    <3>4. DOMAIN g = 1 .. N /\ g = [i \in 1 .. N |-> g[i]]
      OBVIOUS
    <3>5. Flat(g)
      <4>. HIDE DEF g
      <4>. QED BY <3>3, <3>4
    <3>. QED BY <3>5
  <2>2. Flat(flat)
    <3>. HIDE DEF Flat
    <3>. QED BY <2>1
  <2>3. FlattenSeq(s) = flat[N]
    BY <1>3 DEF FlattenSeq
  <2>. HIDE DEF flat
  <2>4. \A i \in 1 .. N : flat[i] = IF i = 1 THEN s[i] ELSE flat[i - 1] \o s[i]
    BY <2>2
  <2>. HIDE DEF Flat
  <2>. DEFINE G == {i \in 0 .. N : i # 0 => flat[i] \in Seq(E)}
  <2>5. ASSUME NEW n \in 0 .. N - 1, n \in G
        PROVE  n + 1 \in G
    <3>1. n + 1 \in 1 .. N /\ n + 1 \in 0 .. N /\ (n + 1) - 1 = n
      BY <1>1
    <3>2. CASE n = 0
      BY <1>1, <2>4, <3>1, <3>2
    <3>3. CASE n # 0
      <4>1. flat[n] \in Seq(E) /\ s[n + 1] \in Seq(E)
        BY <1>1, <2>5, <3>1, <3>3
      <4>2. flat[n] \o s[n + 1] \in Seq(E)
        BY <4>1, ConcatProperties
      <4>3. flat[n + 1] = flat[n] \o s[n + 1]
        <5>1. n + 1 # 1
          BY <3>3
        <5>2. flat[n + 1] = flat[(n + 1) - 1] \o s[n + 1]
          <6>. HIDE DEF N
          <6>. QED BY <2>4, <3>1, <5>1
        <5>. QED BY <3>1, <5>2
      <4>. QED BY <3>1, <4>2, <4>3
    <3>. QED BY <3>2, <3>3
  <2>6. \A n \in 0 .. N : n \in G
    <3>1. 0 \in G
      BY <1>1
    <3>. HIDE DEF G, N
    <3>. QED BY <1>1, <2>5, <3>1, UpTo
  <2>. DEFINE h == [i \in 0 .. N |-> IF i = 0 THEN <<>> ELSE flat[i]]
  <2>7. h \in [0 .. N -> Seq(E)] /\ h[0] = <<>> /\ h[N] = flat[N]
    BY <1>1, <1>3, <2>6, EmptySeq
  <2>8. ASSUME NEW i \in 1 .. N PROVE h[i] = h[i - 1] \o s[i]
    <3>1. h[i] = flat[i] /\ (i # 1 => h[i - 1] = flat[i - 1])
      BY <1>1
    <3>2. i = 1 => h[i - 1] = <<>>
      BY <1>1
    <3>3. <<>> \o s[i] = s[i]
      <4>1. s[i] \in Seq(E)
        BY <1>1
      <4>. QED BY <4>1, ConcatEmptySeq
    <3>. HIDE DEF h, N
    <3>. QED BY <2>4, <3>1, <3>2, <3>3
  <2>. HIDE DEF h
  <2>. QED BY <2>3, <2>7, <2>8
<1>. QED BY <1>2, <1>3

\* Sequences of E put one behind another are a sequence of E.
LEMMA FlattenIn ==
  ASSUME NEW E, NEW s \in Seq(Seq(E))
  PROVE  FlattenSeq(s) \in Seq(E)
<1>. DEFINE N == Len(s)
            S == Seq(E)
<1>1. N \in Nat
  BY LenProperties
<1>2. PICK f \in [0 .. N -> S] : f[N] = FlattenSeq(s)
  BY FlattenIs
<1>3. N \in 0 .. N
  BY <1>1
<1>. HIDE DEF N, S
<1>4. f[N] \in S
  BY <1>3
<1>. QED BY <1>2, <1>4 DEF S

\* The least of a set of naturals.
LEMMA MinIs == ASSUME NEW S \in SUBSET Nat, S # {} PROVE Min(S) \in S /\ \A x \in S : Min(S) <= x
<1>1. PICK n \in S : \A m \in S : <<m, n>> \notin OpToRel(<, Nat)
  BY NatLessThanWellFounded, WFMin
<1>2. \A m \in S : n \in Nat /\ m \in Nat /\ ~(m < n)
  BY <1>1 DEF OpToRel
<1>3. \A m \in S : n <= m
  BY <1>2
<1>4. \E x \in S : \A y \in S : x <= y
  BY <1>3
<1>. QED BY <1>4 DEF Min

\* A finite set of naturals that is not empty has a largest element.
LEMMA MaxIn ==
  ASSUME NEW S \in SUBSET Nat, IsFiniteSet(S), S # {}
  PROVE  Max(S) \in S /\ \A x \in S : x <= Max(S)
<1>. DEFINE G == {T \in SUBSET S : T # {} => \E m \in T : \A x \in T : m >= x}
<1>1. ASSUME NEW T \in SUBSET S, \A U \in SUBSET T : U # T => U \in G
      PROVE  T \in G
  <2>. SUFFICES ASSUME T # {} PROVE \E m \in T : \A x \in T : m >= x
    OBVIOUS
  <2>1. PICK y \in T : TRUE
    OBVIOUS
  <2>2. CASE T \ {y} = {}
    BY <2>1, <2>2
  <2>3. CASE T \ {y} # {}
    <3>0. T \ {y} \in SUBSET T /\ T \ {y} # T
      BY <2>1
    <3>1. PICK m \in T \ {y} : \A x \in T \ {y} : m >= x
      BY <1>1, <2>3, <3>0
    <3>. QED BY <2>1, <3>1
  <2>. QED BY <2>2, <2>3
<1>2. S \in G
  <2>. HIDE DEF G
  <2>. QED BY <1>1, SetInduction
<1>3. \E m \in S : \A x \in S : m >= x
  BY <1>2
<1>4. Max(S) \in S /\ \A x \in S : Max(S) >= x
  BY <1>3 DEF Max
<1>. DEFINE m == Max(S)
<1>. HIDE DEF m
<1>5. m \in S /\ \A x \in S : m >= x
  BY <1>4 DEF m
<1>6. \A x \in S : x <= m
  BY <1>5
<1>. QED BY <1>5, <1>6 DEF m

\* IsSeq says of a function what being a sequence means to the sequence theorems.
LEMMA SeqIs ==
  ASSUME NEW s, IsSeq(s)
  PROVE  s \in Seq(Range(s)) /\ DOMAIN s = 1 .. Len(s) /\ Len(s) \in Nat
<1>. DEFINE n == Len(s)
<1>1. n \in Nat /\ s = [i \in 1 .. n |-> s[i]]
  BY DEF IsSeq
<1>. HIDE DEF n
<1>2. DOMAIN s = 1 .. n
  BY <1>1
<1>3. \A i \in 1 .. n : s[i] \in Range(s)
  BY <1>2 DEF Range
<1>4. [i \in 1 .. n |-> s[i]] \in Seq(Range(s))
  BY <1>1, <1>3
<1>5. s \in Seq(Range(s))
  BY <1>1, <1>4
<1>. QED BY <1>1, <1>2, <1>5 DEF n

\* ... and the other way round.
LEMMA IsSeqOf ==
  ASSUME NEW E, NEW s \in Seq(E)
  PROVE  IsSeq(s) /\ \A i \in DOMAIN s : s[i] \in E
BY LenProperties DEF IsSeq

\* A function on 1 to n is a sequence.
LEMMA IsSeqFn ==
  ASSUME NEW n \in Nat, NEW f, f = [i \in 1 .. n |-> f[i]]
  PROVE  IsSeq(f) /\ Len(f) = n /\ DOMAIN f = 1 .. n
<1>1. \A i \in 1 .. n : f[i] \in Range(f)
  BY DEF Range
<1>2. [i \in 1 .. n |-> f[i]] \in Seq(Range(f))
  BY <1>1
<1>3. f \in Seq(Range(f)) /\ DOMAIN f = 1 .. n
  BY <1>2
<1>4. Len(f) = n
  BY <1>3, LenProperties
<1>. QED BY <1>3, <1>4, IsSeqOf

\* So is a function on the places of a sequence.
LEMMA SeqLike ==
  ASSUME NEW s, IsSeq(s), NEW f, f = [i \in DOMAIN s |-> f[i]]
  PROVE  IsSeq(f) /\ Len(f) = Len(s) /\ DOMAIN f = DOMAIN s
<1>. DEFINE n == Len(s)
<1>1. n \in Nat /\ DOMAIN s = 1 .. n
  BY SeqIs
<1>. HIDE DEF n
<1>2. f = [j \in 1 .. n |-> f[j]]
  BY <1>1
<1>3. IsSeq(f) /\ Len(f) = n /\ DOMAIN f = 1 .. n
  BY <1>1, <1>2, IsSeqFn
<1>. QED BY <1>1, <1>3 DEF n

\* What is appended comes last.
LEMMA SeqAppend ==
  ASSUME NEW s, IsSeq(s), NEW x
  PROVE  /\ IsSeq(Append(s, x)) /\ Len(Append(s, x)) = Len(s) + 1
         /\ Append(s, x)[Len(s) + 1] = x
         /\ \A j \in DOMAIN s : Append(s, x)[j] = s[j]
<1>. DEFINE E == Range(s) \cup {x}
<1>1. s \in Seq(Range(s)) /\ DOMAIN s = 1 .. Len(s) /\ Len(s) \in Nat
  BY SeqIs
<1>2. s \in Seq(E) /\ x \in E
  BY <1>1, SeqMonotonic
<1>. HIDE DEF E
<1>3. /\ Append(s, x) \in Seq(E) /\ Len(Append(s, x)) = Len(s) + 1
      /\ Append(s, x)[Len(s) + 1] = x /\ \A j \in 1 .. Len(s) : Append(s, x)[j] = s[j]
  BY <1>2, AppendProperties
<1>. QED BY <1>1, <1>3, IsSeqOf

\* A file is put in its place, and the others stay.
LEMMA Put ==
  ASSUME NEW dir, IsDir(dir), NEW n \in 1 .. Len(dir.files) + 1, NEW f
  PROVE  /\ IsDir(PutFile(dir, n, f)) /\ PutFile(dir, n, f).manifest = dir.manifest
         /\ PutFile(dir, n, f).files[n] = f /\ n <= Len(PutFile(dir, n, f).files)
         /\ Len(PutFile(dir, n, f).files) >= Len(dir.files)
         /\ DOMAIN PutFile(dir, n, f).files = DOMAIN dir.files \cup {n}
         /\ \A j \in DOMAIN dir.files : j # n => PutFile(dir, n, f).files[j] = dir.files[j]
<1>. DEFINE fs == dir.files
            gs == IF n <= Len(fs) THEN [fs EXCEPT ![n] = f] ELSE Append(fs, f)
<1>1. IsSeq(fs) /\ DOMAIN fs = 1 .. Len(fs) /\ Len(fs) \in Nat
  BY SeqIs DEF IsDir
<1>2. PutFile(dir, n, f) = [files |-> gs, manifest |-> dir.manifest]
  BY DEF PutFile, IsDir
<1>3. /\ IsSeq(gs) /\ gs[n] = f /\ n <= Len(gs) /\ Len(gs) >= Len(fs)
      /\ DOMAIN gs = DOMAIN fs \cup {n}
      /\ \A j \in DOMAIN fs : j # n => gs[j] = fs[j]
  <2>. HIDE DEF fs
  <2>1. CASE n <= Len(fs)
    <3>1. n \in DOMAIN fs
      BY <1>1, <2>1 DEF fs
    <3>. DEFINE g == [fs EXCEPT ![n] = f]
    <3>2. /\ g = [j \in DOMAIN fs |-> g[j]] /\ gs = g
          /\ g[n] = f /\ \A j \in DOMAIN fs : j # n => g[j] = fs[j]
      BY <2>1, <3>1
    <3>. HIDE DEF g, gs
    <3>3. IsSeq(g) /\ Len(g) = Len(fs)
      BY <1>1, <3>2, SeqLike
    <3>4. DOMAIN g = DOMAIN fs \cup {n}
      BY <3>1, <3>2 DEF fs
    <3>. QED BY <1>1, <2>1, <3>2, <3>3, <3>4
  <2>2. CASE ~(n <= Len(fs))
    <3>1. n = Len(fs) + 1
      BY <1>1, <2>2 DEF fs
    <3>2. /\ IsSeq(Append(fs, f)) /\ Len(Append(fs, f)) = Len(fs) + 1 /\ Append(fs, f)[n] = f
          /\ \A j \in DOMAIN fs : Append(fs, f)[j] = fs[j]
      BY <1>1, <3>1, SeqAppend
    <3>3. DOMAIN Append(fs, f) = DOMAIN fs \cup {n}
      <4>1. DOMAIN Append(fs, f) = 1 .. Len(fs) + 1
        BY <3>2, SeqIs
      <4>. QED BY <1>1, <3>1, <4>1
    <3>. QED BY <1>1, <2>2, <3>1, <3>2, <3>3
  <2>. QED BY <2>1, <2>2
<1>. HIDE DEF gs
<1>4. IsDir([files |-> gs, manifest |-> dir.manifest])
  BY <1>3 DEF IsDir
<1>. QED BY <1>2, <1>3, <1>4

-----------------------------------------------------------------------------
(* Types                                                                    *)

ByAccount(f) == f = [a \in Accounts |-> f[a]]
IsFile(f) == f = [uuid |-> f.uuid, pos |-> f.pos, dim |-> f.dim, gear |-> f.gear, alive |-> f.alive]
IsJob(j) == j = [traces |-> j.traces, hashes |-> j.hashes, count |-> j.count, next |-> j.next,
                 used |-> j.used, srcs |-> j.srcs, assigned |-> j.assigned]

\* Directories and lines are sequences, and there is a file for every line; what
\* an account has is a file, and what the server has in hand a living player's.
Types ==
  /\ TypeOK
  /\ IsDir(out) /\ IsDir(fleet) /\ IsSeq(lines) /\ Len(lines) <= Len(out.files)
  /\ IsJob(job) /\ job.count \in Nat /\ job.count <= Max(Counts)
  /\ ByAccount(dat) /\ ByAccount(old) /\ ByAccount(at)
  /\ \A a \in Accounts : \A f \in {dat[a], old[a], at[a]} : f = None \/ (IsFile(f) /\ f.alive)

\* The bots are as many as the largest run has.
LEMMA Bots ==
  /\ Max(Counts) \in Nat \ {0} /\ Accounts = 0 .. Max(Counts) - 1
  /\ \A n \in Counts : n \in Nat \ {0} /\ n <= Max(Counts)
<1>1. Counts \in SUBSET Nat /\ IsFiniteSet(Counts) /\ Counts # {}
  BY PipelineAssumption
<1>2. Max(Counts) \in Counts /\ \A n \in Counts : n <= Max(Counts)
  BY <1>1, MaxIn
<1>. QED BY <1>2, PipelineAssumption DEF Accounts

\* The empty directory and the job of nobody.
LEMMA Nothing == IsSeq(<<>>) /\ Len(<<>>) = 0 /\ IsDir(EmptyDir) /\ IsJob(NoJob) /\ DOMAIN <<>> = {}
<1>1. IsSeq(<<>>) /\ Len(<<>>) = 0 /\ DOMAIN <<>> = {}
  <2>1. <<>> \in Seq({}) /\ Len(<<>>) = 0
    BY EmptySeq
  <2>2. DOMAIN <<>> = {}
    OBVIOUS
  <2>. QED BY <2>1, <2>2, IsSeqOf
<1>2. IsDir(EmptyDir)
  BY <1>1 DEF IsDir, EmptyDir
<1>3. IsJob(NoJob)
  BY DEF IsJob, NoJob
<1>. QED BY <1>1, <1>2, <1>3

\* What is placed is a living player's file, and his own.
LEMMA FileForIs ==
  ASSUME NEW i, NEW traces, NEW srcs, NEW assigned, NEW f,
         f = FileFor(i, traces, srcs, assigned, None)
  PROVE  f = None \/ (IsFile(f) /\ f.uuid = i /\ f.alive)
BY DEF FileFor, ImportedNBT, PlayerNBT, IsFile

\* A run begins at its first account.
LEMMA PlanIs ==
  ASSUME NEW dir, NEW n, NEW i, NEW m, NEW j, j = Plan(dir, n, i, m)
  PROVE  IsJob(j) /\ j.count = n /\ j.next = 0 /\ j.used = {}
BY DEF Plan, IsJob

\* A server that has left its captures, and a bench without accounts.
LEMMA InitTypes == Init => Types
<1>. SUFFICES ASSUME Init PROVE Types
  OBVIOUS
<1>1. /\ IsDir(out) /\ IsDir(fleet) /\ out \in {EmptyDir, OldDir}
      /\ out.manifest # None => Len(out.manifest) <= Len(out.files)
  BY Nothing, PipelineAssumption DEF Init, EmptyDir
<1>2. IsSeq(lines) /\ Len(lines) <= Len(out.files)
  <2>1. Len(out.files) \in Nat
    BY <1>1 DEF IsDir, IsSeq
  <2>. QED BY <2>1, Nothing DEF Init
<1>3. IsJob(job) /\ job.count = 0 /\ job.next = 0 /\ job.used = {}
  BY Nothing DEF Init, NoJob
<1>4. \A a \in Accounts : dat[a] = None /\ old[a] = None /\ at[a] = None
  BY DEF Init
<1>5. ByAccount(dat) /\ ByAccount(old) /\ ByAccount(at)
  BY DEF Init, ByAccount
<1>6. 0 <= Max(Counts)
  BY Bots
<1>7. TypeOK
  <2>1. compiles \in 0 .. MaxCompiles /\ runs \in 0 .. MaxRuns
    BY PipelineAssumption DEF Init
  <2>2. job.next \in 0 .. job.count /\ job.used \subseteq Accounts /\ gone \subseteq Accounts
    BY <1>3 DEF Init
  <2>. QED BY <1>1, <1>4, <2>1, <2>2 DEF Init, TypeOK
<1>. QED BY <1>1, <1>2, <1>3, <1>4, <1>5, <1>6, <1>7 DEF Types

\* The compiler's part.
LEMMA CompileTypes == ASSUME Types, CompileRun \/ Ship PROVE Types'
<1>0. /\ IsDir(out) /\ IsSeq(out.files) /\ IsSeq(lines) /\ Len(lines) <= Len(out.files)
      /\ Len(lines) \in Nat /\ Len(out.files) \in Nat
      /\ out.manifest # None => IsSeq(out.manifest) /\ Len(out.manifest) <= Len(out.files)
  BY DEF Types, TypeOK, IsDir, IsSeq
<1>a. ASSUME IsDir(out'), IsSeq(lines'), Len(lines') <= Len(out'.files), UNCHANGED benchVars,
             compiles' \in 0 .. MaxCompiles,
             pc' \in {"start", "pass2", "failed", "compiled", "bench", "place", "replay"},
             out'.manifest # None => Len(out'.manifest) <= Len(out'.files)
      PROVE  Types'
  <2>1. UNCHANGED <<fleet, bench, runs, job, dat, old, at, gone>>
    BY <1>a DEF benchVars
  <2>2. TypeOK'
    BY <1>a, <2>1 DEF Types, TypeOK
  <2>3. ByAccount(dat)' /\ ByAccount(old)' /\ ByAccount(at)' /\ IsJob(job)' /\ IsDir(fleet)'
    BY <2>1 DEF Types, ByAccount
  <2>. QED BY <1>a, <2>1, <2>2, <2>3 DEF Types
<1>b. compiles \in 0 .. MaxCompiles
  BY DEF Types, TypeOK
<1>1. CASE Pass1
  <2>1. compiles' \in 0 .. MaxCompiles
    BY <1>1, <1>b, PipelineAssumption DEF Pass1
  <2>2. IsSeq(lines') /\ Len(lines') <= Len(out'.files)
    BY <1>0, <1>1, Nothing DEF Pass1
  <2>. QED BY <1>0, <1>1, <1>a, <2>1, <2>2 DEF Pass1
<1>2. CASE CompileSession
  <2>. DEFINE n == Len(lines) + 1
  <2>1. n \in 1 .. Len(out.files) + 1
    BY <1>0
  <2>. DEFINE evs == InTimeOrder(Head(todo))
              f == Write(CompileTrace(evs))
              l == ManifestEntry(n, evs)
  <2>2. \/ out' = out /\ lines' = lines
        \/ out' = PutFile(out, n, f) /\ lines' = Append(lines, l)
    BY <1>2 DEF CompileSession
  <2>. HIDE DEF f, l
  <2>3. CASE out' = out /\ lines' = lines
    BY <1>0, <1>2, <1>a, <1>b, <2>3 DEF CompileSession
  <2>4. CASE out' = PutFile(out, n, f) /\ lines' = Append(lines, l)
    <3>1. IsSeq(lines') /\ Len(lines') = n
      BY <1>0, <2>4, SeqAppend
    <3>. HIDE DEF n
    <3>2. /\ IsDir(out') /\ out'.manifest = out.manifest /\ n <= Len(out'.files)
          /\ Len(out'.files) >= Len(out.files)
      BY <1>0, <2>1, <2>4, Put
    <3>3. Len(out'.files) \in Nat /\ (out.manifest # None => Len(out.manifest) \in Nat)
      BY <1>0, <3>2 DEF IsDir, IsSeq
    <3>4. out'.manifest # None => Len(out'.manifest) <= Len(out'.files)
      BY <1>0, <3>2, <3>3
    <3>. QED BY <1>2, <1>a, <1>b, <3>1, <3>2, <3>4 DEF CompileSession
  <2>. QED BY <2>2, <2>3, <2>4
<1>3. CASE TraceWriteFails
  <2>. DEFINE n == Len(lines) + 1
  <2>1. n \in 1 .. Len(out.files) + 1
    BY <1>0
  <2>2. out' = PutFile(out, n, None) /\ lines' = lines
    BY <1>3 DEF TraceWriteFails
  <2>. HIDE DEF n
  <2>3. IsDir(out') /\ out'.manifest = out.manifest /\ Len(out'.files) >= Len(out.files)
    BY <1>0, <2>1, <2>2, Put
  <2>4. Len(out'.files) \in Nat /\ (out.manifest # None => Len(out.manifest) \in Nat)
    BY <1>0, <2>3 DEF IsDir, IsSeq
  <2>5. out'.manifest # None => Len(out'.manifest) <= Len(out'.files)
    BY <1>0, <2>3, <2>4
  <2>6. Len(lines') <= Len(out'.files)
    BY <1>0, <2>2, <2>3, <2>4
  <2>. QED BY <1>0, <1>3, <1>a, <1>b, <2>2, <2>3, <2>5, <2>6 DEF TraceWriteFails
<1>4. CASE Save \/ SaveFails
  <2>1. PICK m : /\ out' = out \/ out' = [out EXCEPT !.manifest = m]
                 /\ m # None => m = lines
    BY <1>4 DEF Save, SaveFails
  <2>2. lines' = lines /\ compiles' = compiles /\ UNCHANGED benchVars /\ pc' \in {"failed", "compiled"}
    BY <1>4 DEF Save, SaveFails
  <2>3. CASE out' = out
    BY <1>0, <1>a, <1>b, <2>2, <2>3
  <2>4. CASE out' = [out EXCEPT !.manifest = m]
    <3>1. out' = [files |-> out.files, manifest |-> m]
      BY <1>0, <2>4 DEF IsDir
    <3>2. IsDir(out') /\ out'.files = out.files /\ out'.manifest = m
      BY <1>0, <2>1, <3>1 DEF IsDir
    <3>. QED BY <1>0, <1>a, <1>b, <2>1, <2>2, <3>2
  <2>. QED BY <2>1, <2>3, <2>4
<1>5. CASE Ship
  <2>1. 0 \in 0 .. MaxCompiles
    BY PipelineAssumption
  <2>2. IsSeq(lines') /\ Len(lines') <= Len(out'.files)
    BY <1>0, <1>5, Nothing DEF Ship
  <2>. QED BY <1>0, <1>5, <1>a, <2>1, <2>2 DEF Ship
<1>. QED BY <1>1, <1>2, <1>3, <1>4, <1>5 DEF CompileRun

\* A fleet has a file and a line for every draw.
LEMMA AmplifiedIs ==
  ASSUME NEW dir, NEW draws \in Draws, NEW d, d = AmplifiedDir(dir, draws)
  PROVE  /\ IsDir(d) /\ Len(d.files) = Len(draws) /\ Len(d.manifest) = Len(draws) /\ IsSeq(d.manifest)
         /\ DOMAIN d.files = DOMAIN draws /\ DOMAIN d.manifest = DOMAIN draws
<1>. DEFINE fs == d.files
            ms == d.manifest
<1>1. d = [files |-> fs, manifest |-> ms]
  BY DEF AmplifiedDir
<1>2. fs = [i \in DOMAIN draws |-> fs[i]] /\ ms = [i \in DOMAIN draws |-> ms[i]]
  BY DEF AmplifiedDir
<1>. DEFINE n == Len(draws)
<1>a. n \in Nat /\ DOMAIN draws = 1 .. n
  BY PipelineAssumption
<1>. HIDE DEF fs, ms, n
<1>3. IsSeq(fs) /\ Len(fs) = Len(draws) /\ DOMAIN fs = DOMAIN draws
  BY <1>2, <1>a, IsSeqFn DEF n
<1>4. IsSeq(ms) /\ Len(ms) = Len(draws) /\ DOMAIN ms = DOMAIN draws
  BY <1>2, <1>a, IsSeqFn DEF n
<1>5. d.files = fs /\ d.manifest = ms
  BY DEF fs, ms
<1>. QED BY <1>1, <1>3, <1>4, <1>5 DEF IsDir

\* The bench's part.
LEMMA BenchTypes == ASSUME Types, Bench PROVE Types'
<1>0. /\ Max(Counts) \in Nat \ {0} /\ Accounts = 0 .. Max(Counts) - 1
      /\ job.count \in Nat /\ job.count <= Max(Counts) /\ job.next \in 0 .. job.count
      /\ job.used \subseteq Accounts /\ gone \subseteq Accounts /\ IsJob(job)
      /\ ByAccount(dat) /\ ByAccount(old) /\ ByAccount(at)
  BY Bots DEF Types, TypeOK
<1>b. UNCHANGED <<raw, todo, lines, out, compiles>>
  BY DEF Bench, AmplifyRun, BeginRun, LogIn, RemoveAll, PlaceNext, PlaceFails, BeginReplay, EndRun,
         StartBench, StopBench, compileVars
<1>a. ASSUME IsDir(fleet'), pc' \in {"bench", "place", "replay"}, runs' \in 0 .. MaxRuns, bench' \in BOOLEAN,
             IsJob(job'), job'.count \in Nat, job'.count <= Max(Counts), job'.next \in 0 .. job'.count,
             job'.used \subseteq Accounts, gone' \subseteq Accounts,
             ByAccount(dat'), ByAccount(old'), ByAccount(at'),
             \A a \in Accounts : /\ dat'[a] = None \/ (IsFile(dat'[a]) /\ dat'[a].uuid = a /\ dat'[a].alive)
                                 /\ old'[a] = None \/ (IsFile(old'[a]) /\ old'[a].uuid = a /\ old'[a].alive)
                                 /\ at'[a] = None \/ (IsFile(at'[a]) /\ at'[a].alive)
      PROVE  Types'
  <2>1. TypeOK'
    <3>1. compiles' \in 0 .. MaxCompiles /\ (out'.manifest # None => Len(out'.manifest) <= Len(out'.files))
      BY <1>b DEF Types, TypeOK
    <3>. QED BY <1>a, <3>1 DEF TypeOK
  <2>2. (IsDir(out) /\ IsSeq(lines) /\ Len(lines) <= Len(out.files))'
    BY <1>b DEF Types
  <2>3. \A a \in Accounts : \A f \in {dat'[a], old'[a], at'[a]} : f = None \/ (IsFile(f) /\ f.alive)
    BY <1>a
  <2>4. (ByAccount(dat) /\ ByAccount(old) /\ ByAccount(at))'
    BY <1>a DEF ByAccount
  <2>. QED BY <1>a, <2>1, <2>2, <2>3, <2>4 DEF Types
<1>c. \A a \in Accounts : /\ dat[a] = None \/ (IsFile(dat[a]) /\ dat[a].uuid = a /\ dat[a].alive)
                          /\ old[a] = None \/ (IsFile(old[a]) /\ old[a].uuid = a /\ old[a].alive)
                          /\ at[a] = None \/ (IsFile(at[a]) /\ at[a].alive)
  BY DEF Types, TypeOK
<1>d. IsDir(fleet) /\ runs \in 0 .. MaxRuns /\ bench \in BOOLEAN
  BY DEF Types, TypeOK
<1>1. ASSUME NEW draws \in Draws, AmplifyRun(draws)
      PROVE  Types'
  <2>1. IsDir(fleet')
    BY <1>1, AmplifiedIs, PipelineAssumption DEF AmplifyRun
  <2>2. UNCHANGED <<bench, runs, job, dat, old, at, gone>> /\ pc' = "bench"
    BY <1>1 DEF AmplifyRun, worldVars
  <2>. QED BY <1>0, <1>a, <1>c, <1>d, <2>1, <2>2
<1>2. ASSUME NEW dir, NEW n \in Counts, NEW i, NEW m, BeginRun(dir, n, i, m)
      PROVE  Types'
  <2>1. IsJob(job') /\ job'.count = n /\ job'.next = 0 /\ job'.used = {}
    BY <1>2, PlanIs DEF BeginRun
  <2>2. n \in Nat /\ n <= Max(Counts) /\ 0 \in 0 .. n
    BY Bots
  <2>3. runs' \in 0 .. MaxRuns
    BY <1>2, <1>d, PipelineAssumption DEF BeginRun
  <2>4. UNCHANGED <<fleet, bench, dat, old, at, gone>> /\ pc' = "place"
    BY <1>2 DEF BeginRun, worldVars
  <2>. QED BY <1>0, <1>a, <1>c, <1>d, <2>1, <2>2, <2>3, <2>4
<1>3. ASSUME NEW a \in Accounts, LogIn(a)
      PROVE  Types'
  <2>1. UNCHANGED <<fleet, bench, runs, dat, old, gone>> /\ pc' = "replay"
    BY <1>3 DEF LogIn
  <2>2. /\ IsJob(job') /\ job'.count = job.count /\ job'.next = job.next
        /\ job'.used = job.used \cup {a}
    BY <1>0, <1>3 DEF LogIn, IsJob
  <2>3. Stored(a) = None \/ (IsFile(Stored(a)) /\ Stored(a).alive)
    <3>1. IsFile(WorldSpawn) /\ WorldSpawn.alive
      BY DEF WorldSpawn, IsFile
    <3>. QED BY <1>c, <3>1 DEF Stored
  <2>4. ByAccount(at') /\ \A b \in Accounts : at'[b] = IF b = a THEN Stored(a) ELSE at[b]
    BY <1>0, <1>3 DEF LogIn, ByAccount
  <2>. QED BY <1>0, <1>a, <1>c, <1>d, <2>1, <2>2, <2>3, <2>4
<1>4. ASSUME NEW n \in Counts, RemoveAll(n)
      PROVE  Types'
  <2>1. UNCHANGED <<fleet, bench, runs, job, at>> /\ pc' = "bench" /\ gone' \subseteq Accounts
    BY <1>0, <1>4 DEF RemoveAll
  <2>2. /\ ByAccount(dat') /\ \A a \in Accounts : dat'[a] = IF a < n THEN None ELSE dat[a]
        /\ ByAccount(old') /\ \A a \in Accounts : old'[a] = IF a < n THEN None ELSE old[a]
    BY <1>4 DEF RemoveAll, ByAccount
  <2>. QED BY <1>0, <1>a, <1>c, <1>d, <2>1, <2>2
<1>5. CASE PlaceNext
  <2>. DEFINE k == job.next
              f == FileFor(k, job.traces, job.srcs, job.assigned, None)
  <2>1. k \in Accounts /\ k + 1 \in 0 .. job.count
    BY <1>0, <1>5 DEF PlaceNext
  <2>2. f = None \/ (IsFile(f) /\ f.uuid = k /\ f.alive)
    BY FileForIs
  <2>3. /\ UNCHANGED <<fleet, bench, runs, old, at>> /\ pc' = "place" /\ gone' \subseteq gone
        /\ dat' = IF f = None THEN dat ELSE [dat EXCEPT ![k] = f]
    BY <1>5 DEF PlaceNext
  <2>4. IsJob(job') /\ job'.count = job.count /\ job'.next = k + 1 /\ job'.used = job.used
    BY <1>0, <1>5 DEF PlaceNext, IsJob
  <2>. HIDE DEF f, k
  <2>5. ByAccount(dat') /\ \A b \in Accounts : dat'[b] = dat[b] \/ (b = k /\ dat'[b] = f)
    BY <1>0, <2>1, <2>3 DEF ByAccount
  <2>. QED BY <1>0, <1>a, <1>c, <1>d, <2>1, <2>2, <2>3, <2>4, <2>5
<1>6. CASE PlaceFails
  <2>1. UNCHANGED <<fleet, bench, runs, dat, old, at, gone>> /\ pc' = "bench" /\ job' = NoJob
    BY <1>6 DEF PlaceFails, worldVars
  <2>2. IsJob(NoJob) /\ NoJob.count = 0 /\ NoJob.next = 0 /\ NoJob.used = {}
    BY Nothing DEF NoJob
  <2>. QED BY <1>0, <1>a, <1>c, <1>d, <2>1, <2>2
<1>7. CASE BeginReplay
  <2>1. UNCHANGED <<fleet, bench, runs, job, dat, old, at, gone>> /\ pc' = "replay"
    BY <1>7 DEF BeginReplay, worldVars
  <2>. QED BY <1>0, <1>a, <1>c, <1>d, <2>1
<1>8. CASE EndRun
  <2>1. UNCHANGED <<fleet, bench, runs>> /\ pc' = "bench" /\ job' = NoJob /\ gone' \subseteq gone
    BY <1>8 DEF EndRun, Saved
  <2>2. IsJob(NoJob) /\ NoJob.count = 0 /\ NoJob.next = 0 /\ NoJob.used = {}
    BY Nothing DEF NoJob
  <2>3. ByAccount(dat') /\ ByAccount(old') /\ ByAccount(at')
    BY <1>8 DEF EndRun, Saved, ByAccount
  <2>4. ASSUME NEW a \in Accounts
        PROVE  /\ dat'[a] = None \/ (IsFile(dat'[a]) /\ dat'[a].uuid = a /\ dat'[a].alive)
               /\ old'[a] = None \/ (IsFile(old'[a]) /\ old'[a].uuid = a /\ old'[a].alive)
               /\ at'[a] = None \/ (IsFile(at'[a]) /\ at'[a].alive)
    <3>1. old'[a] \in {dat[a], old[a]} /\ at'[a] \in {None, at[a]}
      BY <1>8 DEF EndRun, Saved
    <3>2. CASE a \in Online
      <4>1. IsFile(at[a]) /\ at[a].alive
        BY <1>c, <3>2 DEF Online
      <4>2. dat'[a] = [at[a] EXCEPT !.uuid = a, !.pos = Wandered]
        BY <1>8, <3>2 DEF EndRun, Saved
      <4>3. IsFile(dat'[a]) /\ dat'[a].uuid = a /\ dat'[a].alive
        BY <4>1, <4>2 DEF IsFile
      <4>. QED BY <1>c, <3>1, <4>3
    <3>3. CASE a \notin Online
      <4>1. dat'[a] = dat[a]
        BY <1>8, <3>3 DEF EndRun, Saved
      <4>. QED BY <1>c, <3>1, <4>1
    <3>. QED BY <3>2, <3>3
  <2>. QED BY <1>0, <1>a, <1>d, <2>1, <2>2, <2>3, <2>4
<1>9. CASE StartBench \/ StopBench
  <2>1. /\ UNCHANGED <<fleet, runs, job, dat, old, at, gone>> /\ pc' \in {"bench", "place"}
        /\ bench' \in BOOLEAN
    BY <1>9 DEF StartBench, StopBench, worldVars
  <2>. QED BY <1>0, <1>a, <1>c, <1>d, <2>1
<1>. QED BY <1>1, <1>2, <1>3, <1>4, <1>5, <1>6, <1>7, <1>8, <1>9 DEF Bench

\* Every tool keeps the types.
LEMMA StepTypes == Types /\ [Next]_vars => Types'
<1>. SUFFICES ASSUME Types, [Next]_vars PROVE Types'
  OBVIOUS
<1>1. CASE Next
  BY <1>1, CompileTypes, BenchTypes DEF Next
<1>2. CASE UNCHANGED vars
  BY <1>2 DEF vars, Types, TypeOK, ByAccount, IsJob, IsDir, IsSeq
<1>. QED BY <1>1, <1>2

\* Directories, jobs and account files have their shapes throughout.
THEOREM SpecTypes == Spec => []Types
BY InitTypes, StepTypes, PTL DEF Spec

\* Types: where each tool is, and an account's files are its own, of a living
\* player (playerdata.go 98-192, import.go 174-201).
THEOREM SpecTypeOK == Spec => []TypeOK
<1>1. Types => TypeOK
  BY DEF Types
<1>. QED BY <1>1, SpecTypes, PTL
-----------------------------------------------------------------------------
(* Who stands where                                                         *)

\* No trace of an account that was removed, in the files or in the world.
Removed == \A a \in gone : dat[a] = None /\ old[a] = None /\ at[a] \in {None, WorldSpawn}

\* There is a job only while it runs, of at least one trace and its player's
\* hash, with the imports it chose.
Planned ==
  /\ pc \notin {"place", "replay"} => job = NoJob
  /\ pc \in {"place", "replay"} =>
       /\ job.count \in Counts
       /\ IsSeq(job.traces) /\ Len(job.traces) # 0
       /\ IsSeq(job.hashes) /\ Len(job.hashes) = Len(job.traces)
       /\ \/ job.assigned = <<>>
          \/ /\ job.assigned = AssignImports(job.hashes, job.srcs)
             /\ \E m \in PlayerMaps : job.srcs = LoadImportDir(Imports, 0, m)
  /\ pc = "replay" => job.next = job.count

\* What the run writes for account a.
FileOf(a) == FileFor(a, job.traces, job.srcs, job.assigned, None)

\* An account that the run has reached has the file of the trace it will replay,
\* and who is in the world came with what is stored for him.
Placed ==
  /\ pc # "replay" => \A a \in Accounts : at[a] = None
  /\ pc = "replay" => \A a \in Accounts : at[a] # None => a < job.count /\ at[a] = Stored(a)
  /\ pc \in {"place", "replay"} =>
       \A a \in Accounts : a < job.next /\ FileOf(a) # None => dat[a] = FileOf(a)

\* The account files and who is in the world, by the steps that change them.
LEMMA WorldSteps ==
  ASSUME [Next]_vars
  PROVE  \/ UNCHANGED <<dat, old, at, gone>>
         \/ PlaceNext \/ EndRun
         \/ \E a \in Accounts : LogIn(a)
         \/ \E n \in Counts : RemoveAll(n)
<1>1. CASE UNCHANGED vars
  BY <1>1 DEF vars
<1>2. CASE CompileRun \/ Ship
  BY <1>2 DEF CompileRun, Ship, Pass1, CompileSession, TraceWriteFails, Save, SaveFails, benchVars
<1>3. CASE Bench
  <2>1. ASSUME NEW d, AmplifyRun(d) PROVE UNCHANGED <<dat, old, at, gone>>
    BY <2>1 DEF AmplifyRun, worldVars
  <2>2. ASSUME NEW d, NEW n, NEW i, NEW m, BeginRun(d, n, i, m) PROVE UNCHANGED <<dat, old, at, gone>>
    BY <2>2 DEF BeginRun, worldVars
  <2>3. CASE PlaceFails \/ BeginReplay \/ StartBench \/ StopBench
    BY <2>3 DEF PlaceFails, BeginReplay, StartBench, StopBench, worldVars
  <2>. QED BY <1>3, <2>1, <2>2, <2>3 DEF Bench
<1>. QED BY <1>1, <1>2, <1>3 DEF Next

\* Only a placing or a save brings an account back, and both take it off gone.
LEMMA StepRemoved == Types /\ Placed /\ Removed /\ [Next]_vars => Removed'
<1>. SUFFICES ASSUME Types, Placed, Removed, [Next]_vars PROVE Removed'
  OBVIOUS
<1>0. ByAccount(dat) /\ ByAccount(old) /\ ByAccount(at) /\ gone \subseteq Accounts
  BY DEF Types, TypeOK
<1>1. CASE UNCHANGED <<dat, old, at, gone>>
  BY <1>1 DEF Removed, WorldSpawn
<1>2. CASE PlaceNext
  BY <1>0, <1>2 DEF PlaceNext, Removed, ByAccount, WorldSpawn
<1>3. CASE EndRun
  <2>1. ASSUME NEW a \in gone' PROVE dat'[a] = None /\ old'[a] = None /\ at'[a] = None
    BY <1>0, <1>3, <2>1 DEF EndRun, Saved, Removed, Online
  <2>. QED BY <2>1 DEF Removed
<1>4. ASSUME NEW b \in Accounts, LogIn(b) PROVE Removed'
  <2>1. UNCHANGED <<dat, old, gone>> /\ \A a \in Accounts : at'[a] = IF a = b THEN Stored(b) ELSE at[a]
    BY <1>0, <1>4 DEF LogIn, ByAccount
  <2>2. b \in gone => Stored(b) = WorldSpawn
    BY DEF Removed, Stored
  <2>3. WorldSpawn' = WorldSpawn
    BY DEF WorldSpawn
  <2>. QED BY <1>0, <2>1, <2>2, <2>3 DEF Removed
<1>5. ASSUME NEW n \in Counts, RemoveAll(n) PROVE Removed'
  <2>1. ASSUME NEW a \in gone' PROVE dat'[a] = None /\ old'[a] = None /\ at'[a] = None
    <3>1. a \in Accounts /\ at'[a] = None
      BY <1>0, <1>5 DEF RemoveAll, Placed
    <3>. QED BY <1>0, <1>5, <3>1 DEF RemoveAll, Removed
  <2>. QED BY <2>1 DEF Removed
<1>. QED BY <1>1, <1>2, <1>3, <1>4, <1>5, WorldSteps

\* What is unchanged of a job leaves unchanged what is planned with it.
LEMMA SamePlan ==
  ASSUME job'.traces = job.traces, job'.srcs = job.srcs, job'.assigned = job.assigned, NEW a
  PROVE  FileOf(a)' = FileOf(a) /\ TraceOf(a)' = TraceOf(a)
BY DEF FileOf, TraceOf, FileFor

\* A sequence that is not the empty one has entries.
LEMMA NotEmpty == ASSUME NEW s, IsSeq(s), s # <<>> PROVE Len(s) # 0
BY SeqIs, EmptySeq

\* What is read of a directory that can be loaded.
LEMMA PlanOf ==
  ASSUME NEW dir, IsDir(dir), Loadable(dir), NEW n, NEW i \in BOOLEAN, NEW m,
         NEW j, j = Plan(dir, n, i, m)
  PROVE  /\ IsSeq(j.traces) /\ Len(j.traces) = Len(dir.manifest) /\ Len(j.traces) # 0
         /\ IsSeq(j.hashes) /\ Len(j.hashes) = Len(j.traces)
         /\ IsSeq(dir.manifest) /\ DOMAIN j.traces = DOMAIN dir.manifest
         /\ \A k \in DOMAIN dir.manifest :
              j.traces[k] = TraceAt(dir, k) /\ j.hashes[k] = dir.manifest[k].player
         /\ j.srcs = IF i THEN LoadImportDir(Imports, 0, m) ELSE <<>>
         /\ j.assigned = IF i THEN AssignImports(j.hashes, j.srcs) ELSE <<>>
<1>1. IsSeq(dir.manifest) /\ Len(dir.manifest) # 0
  BY NotEmpty DEF IsDir, Loadable
<1>. DEFINE ts == j.traces
            hs == j.hashes
<1>2. /\ ts = [k \in DOMAIN dir.manifest |-> TraceAt(dir, k)]
      /\ hs = [k \in DOMAIN dir.manifest |-> dir.manifest[k].player]
  BY DEF Plan, LoadTraces, Hashes
<1>3. /\ ts = [k \in DOMAIN dir.manifest |-> ts[k]] /\ hs = [k \in DOMAIN dir.manifest |-> hs[k]]
  BY <1>2
<1>4. /\ j.srcs = IF i THEN LoadImportDir(Imports, 0, m) ELSE <<>>
      /\ j.assigned = IF i THEN AssignImports(j.hashes, j.srcs) ELSE <<>>
  BY DEF Plan, Hashes
<1>. HIDE DEF ts, hs
<1>5. /\ IsSeq(ts) /\ Len(ts) = Len(dir.manifest) /\ DOMAIN ts = DOMAIN dir.manifest
      /\ IsSeq(hs) /\ Len(hs) = Len(dir.manifest)
  BY <1>1, <1>3, SeqLike
<1>6. \A k \in DOMAIN dir.manifest : ts[k] = TraceAt(dir, k) /\ hs[k] = dir.manifest[k].player
  BY <1>2
<1>7. j.traces = ts /\ j.hashes = hs
  BY DEF ts, hs
<1>. QED BY <1>1, <1>4, <1>5, <1>6, <1>7

\* The job, by the steps that change it or what is done with it.
LEMMA JobSteps ==
  ASSUME [Next]_vars
  PROVE  \/ UNCHANGED <<pc, job>>
         \/ pc \notin {"place", "replay"} /\ pc' \notin {"place", "replay"} /\ UNCHANGED job
         \/ \E dir \in {out, fleet}, n \in Counts, i \in BOOLEAN, m \in PlayerMaps : BeginRun(dir, n, i, m)
         \/ \E a \in Accounts : LogIn(a)
         \/ PlaceNext \/ PlaceFails \/ BeginReplay \/ EndRun
<1>1. CASE UNCHANGED vars
  BY <1>1 DEF vars
<1>2. CASE CompileRun \/ Ship
  BY <1>2 DEF CompileRun, Ship, Pass1, CompileSession, TraceWriteFails, Save, SaveFails, benchVars
<1>3. CASE Bench
  <2>1. ASSUME NEW d, AmplifyRun(d) PROVE UNCHANGED <<pc, job>>
    BY <2>1 DEF AmplifyRun
  <2>2. ASSUME NEW n, RemoveAll(n) PROVE UNCHANGED <<pc, job>>
    BY <2>2 DEF RemoveAll
  <2>3. CASE StartBench \/ StopBench
    BY <2>3 DEF StartBench, StopBench
  <2>. QED BY <1>3, <2>1, <2>2, <2>3 DEF Bench
<1>. QED BY <1>1, <1>2, <1>3 DEF Next

\* A job stays what BeginRun has planned until it ends.
LEMMA StepPlanned == Types /\ Planned /\ [Next]_vars => Planned'
<1>. SUFFICES ASSUME Types, Planned, [Next]_vars PROVE Planned'
  OBVIOUS
<1>0. IsDir(out) /\ IsDir(fleet) /\ IsJob(job)
  BY DEF Types
<1>1. CASE UNCHANGED <<pc, job>>
  BY <1>1 DEF Planned, NoJob
<1>2. CASE pc \notin {"place", "replay"} /\ pc' \notin {"place", "replay"} /\ UNCHANGED job
  BY <1>2 DEF Planned, NoJob
<1>3. ASSUME NEW dir \in {out, fleet}, NEW n \in Counts, NEW i \in BOOLEAN, NEW m \in PlayerMaps,
             BeginRun(dir, n, i, m)
      PROVE  Planned'
  <2>1. pc' = "place" /\ job' = Plan(dir, n, i, m) /\ IsDir(dir) /\ Loadable(dir)
    BY <1>0, <1>3 DEF BeginRun, AllReadable
  <2>2. job'.count = n
    BY <2>1, PlanIs
  <2>3. /\ IsSeq(job'.traces) /\ Len(job'.traces) # 0
        /\ IsSeq(job'.hashes) /\ Len(job'.hashes) = Len(job'.traces)
        /\ job'.srcs = IF i THEN LoadImportDir(Imports, 0, m) ELSE <<>>
        /\ job'.assigned = IF i THEN AssignImports(job'.hashes, job'.srcs) ELSE <<>>
    BY <2>1, PlanOf
  <2>. QED BY <2>1, <2>2, <2>3 DEF Planned
<1>4. ASSUME NEW a \in Accounts, LogIn(a) PROVE Planned'
  <2>1. pc = "replay" /\ pc' = pc
    BY <1>4 DEF LogIn
  <2>2. /\ job'.traces = job.traces /\ job'.hashes = job.hashes /\ job'.count = job.count
        /\ job'.next = job.next /\ job'.srcs = job.srcs /\ job'.assigned = job.assigned
    BY <1>0, <1>4 DEF LogIn, IsJob
  <2>. QED BY <2>1, <2>2 DEF Planned
<1>5. CASE PlaceNext
  <2>2. /\ job'.traces = job.traces /\ job'.hashes = job.hashes /\ job'.count = job.count
        /\ job'.srcs = job.srcs /\ job'.assigned = job.assigned /\ pc = "place" /\ pc' = pc
    BY <1>0, <1>5 DEF PlaceNext, IsJob
  <2>. QED BY <2>2 DEF Planned
<1>6. CASE PlaceFails \/ EndRun
  <2>1. pc' = "bench" /\ job' = NoJob
    BY <1>6 DEF PlaceFails, EndRun
  <2>. QED BY <2>1 DEF Planned, NoJob
<1>7. CASE BeginReplay
  BY <1>7 DEF BeginReplay, Planned
<1>. QED BY <1>1, <1>2, <1>3, <1>4, <1>5, <1>6, <1>7, JobSteps

\* Nobody writes over what a run has placed before the run ends.
LEMMA StepPlaced == Types /\ Planned /\ Placed /\ [Next]_vars => Placed'
<1>. SUFFICES ASSUME Types, Planned, Placed, [Next]_vars PROVE Placed'
  OBVIOUS
<1>0. /\ ByAccount(dat) /\ ByAccount(old) /\ ByAccount(at) /\ IsJob(job)
      /\ job.count \in Nat /\ job.next \in 0 .. job.count /\ Accounts \subseteq Nat
  BY Bots DEF Types, TypeOK
<1>a. ASSUME pc' \notin {"place", "replay"}, \A a \in Accounts : at'[a] = None
      PROVE  Placed'
  BY <1>a DEF Placed
<1>b. ASSUME job' = job, dat' = dat, old' = old, at' = at, pc' = pc
      PROVE  Placed'
  <2>1. \A a : FileOf(a)' = FileOf(a)
    BY <1>b DEF FileOf, FileFor
  <2>2. \A a : Stored(a)' = Stored(a)
    BY <1>b DEF Stored, WorldSpawn
  <2>. QED BY <1>b, <2>1, <2>2 DEF Placed
<1>1. CASE UNCHANGED vars
  BY <1>1, <1>b DEF vars
<1>2. CASE CompileRun \/ Ship
  <2>1. pc # "replay" /\ pc' \notin {"place", "replay"} /\ at' = at
    BY <1>2 DEF CompileRun, Ship, Pass1, CompileSession, TraceWriteFails, Save, SaveFails, benchVars
  <2>. QED BY <1>a, <2>1 DEF Placed
<1>3. ASSUME NEW d, AmplifyRun(d) PROVE Placed'
  BY <1>3, <1>b DEF AmplifyRun, worldVars
<1>4. ASSUME NEW n, RemoveAll(n) PROVE Placed'
  BY <1>4, <1>a DEF RemoveAll, Placed
<1>5. CASE StartBench \/ StopBench
  BY <1>5, <1>b DEF StartBench, StopBench, worldVars
<1>6. ASSUME NEW dir, NEW n, NEW i, NEW m, BeginRun(dir, n, i, m) PROVE Placed'
  <2>1. job'.next = 0 /\ pc = "bench" /\ pc' = "place" /\ at' = at
    BY <1>6, PlanIs DEF BeginRun, worldVars
  <2>2. \A a \in Accounts : ~(a < job'.next)
    BY <1>0, <2>1
  <2>. QED BY <2>1, <2>2 DEF Placed
<1>7. ASSUME NEW a \in Accounts, LogIn(a) PROVE Placed'
  <2>1. /\ pc = "replay" /\ pc' = "replay" /\ dat' = dat /\ old' = old /\ a < job.count
        /\ \A b \in Accounts : at'[b] = IF b = a THEN Stored(a) ELSE at[b]
    BY <1>0, <1>7 DEF LogIn, ByAccount
  <2>2. /\ job'.traces = job.traces /\ job'.srcs = job.srcs /\ job'.assigned = job.assigned
        /\ job'.count = job.count /\ job'.next = job.next
    BY <1>0, <1>7 DEF LogIn, IsJob
  <2>3. \A b : FileOf(b)' = FileOf(b)
    BY <2>2, SamePlan
  <2>4. \A b : Stored(b)' = Stored(b)
    BY <2>1 DEF Stored, WorldSpawn
  <2>. QED BY <2>1, <2>2, <2>3, <2>4 DEF Placed
<1>8. CASE PlaceNext
  <2>. DEFINE k == job.next
  <2>1. pc = "place" /\ pc' = "place" /\ at' = at /\ k \in Nat
    BY <1>0, <1>8 DEF PlaceNext
  <2>2. /\ job'.traces = job.traces /\ job'.srcs = job.srcs /\ job'.assigned = job.assigned
        /\ job'.next = k + 1
    BY <1>0, <1>8 DEF PlaceNext, IsJob
  <2>3. dat' = IF FileOf(k) = None THEN dat ELSE [dat EXCEPT ![k] = FileOf(k)]
    BY <1>8 DEF PlaceNext, FileOf
  <2>4. \A a : FileOf(a)' = FileOf(a)
    BY <2>2, SamePlan
  <2>5. ASSUME NEW a \in Accounts, a < k + 1, FileOf(a) # None PROVE dat'[a] = FileOf(a)
    <3>1. CASE a = k
      <4>1. a \in DOMAIN dat
        BY <1>0 DEF ByAccount
      <4>. QED BY <2>3, <2>5, <3>1, <4>1
    <3>2. CASE a # k
      <4>1. a < k
        BY <1>0, <2>1, <2>5, <3>2
      <4>2. dat[a] = FileOf(a)
        BY <2>1, <2>5, <4>1 DEF Placed
      <4>3. dat'[a] = dat[a]
        BY <1>0, <2>3, <3>2 DEF ByAccount
      <4>. QED BY <4>2, <4>3
    <3>. QED BY <3>1, <3>2
  <2>. QED BY <2>1, <2>2, <2>4, <2>5 DEF Placed
<1>9. CASE PlaceFails
  BY <1>9, <1>a DEF PlaceFails, worldVars, Placed
<1>10. CASE BeginReplay
  <2>1. /\ pc = "place" /\ pc' = "replay" /\ UNCHANGED <<job, dat, old, at>>
        /\ \A a \in Accounts : at'[a] = None
    BY <1>10 DEF BeginReplay, worldVars, Placed
  <2>2. \A a : FileOf(a)' = FileOf(a)
    BY <2>1 DEF FileOf, FileFor
  <2>. QED BY <2>1, <2>2 DEF Placed
<1>11. CASE EndRun
  <2>1. \A a \in Accounts : at'[a] = None
    BY <1>11 DEF EndRun, Saved, Online
  <2>. QED BY <1>11, <1>a, <2>1 DEF EndRun
<1>. QED BY <1>1, <1>2, <1>3, <1>4, <1>5, <1>6, <1>7, <1>8, <1>9, <1>10, <1>11 DEF Next, Bench

Settled == Types /\ Planned /\ Placed /\ Removed

\* Before the first run nothing is planned, placed or removed.
LEMMA InitSettled == Init => Settled
<1>. SUFFICES ASSUME Init PROVE Settled
  OBVIOUS
<1>1. Types
  BY InitTypes
<1>2. Planned /\ Placed /\ Removed
  BY DEF Init, Planned, Placed, Removed
<1>. QED BY <1>1, <1>2 DEF Settled

\* From the plan of a run to its end, what is placed is what was planned.
THEOREM SpecSettled == Spec => []Settled
<1>1. Settled /\ [Next]_vars => Settled'
  BY StepTypes, StepPlanned, StepPlaced, StepRemoved DEF Settled
<1>. QED BY <1>1, InitSettled, PTL DEF Spec

\* Who comes back after bench-playerdata --remove starts anew, whatever was
\* there before (playerdata.go 414-432).
THEOREM RemovedStartAnew == Spec => []RemovedMeansWorldSpawn
<1>1. Settled => RemovedMeansWorldSpawn
  BY DEF Settled, Removed, RemovedMeansWorldSpawn, Online
<1>. QED BY <1>1, SpecSettled, PTL

\* None is not a file: a pointer that is nil, a file that is absent.
NoneIsNoFile == \A u, p, d, g, l : [uuid |-> u, pos |-> p, dim |-> d, gear |-> g, alive |-> l] # None

\* Who is in the world has the file of the trace he is about to replay, if that
\* trace tells where it begins.
LEMMA AsPlaced ==
  ASSUME NoneIsNoFile, Settled, NEW a \in Online, TraceOf(a).origin # None
  PROVE  /\ at[a] = FileOf(a) /\ pc = "replay" /\ a \in Accounts
         /\ LET n == (a % Len(job.traces)) + 1
                src == IF job.assigned = <<>> THEN None ELSE job.assigned[n]
            IN  FileOf(a) = IF src # None THEN ImportedNBT(job.srcs[src].file, TraceOf(a).origin, a)
                            ELSE PlayerNBT(TraceOf(a).origin, TraceOf(a).inventory, a)
<1>. DEFINE n == (a % Len(job.traces)) + 1
            src == IF job.assigned = <<>> THEN None ELSE job.assigned[n]
            f == IF src # None THEN ImportedNBT(job.srcs[src].file, TraceOf(a).origin, a)
                 ELSE PlayerNBT(TraceOf(a).origin, TraceOf(a).inventory, a)
<1>1. a \in Accounts /\ at[a] # None /\ pc = "replay" /\ a < job.count /\ at[a] = Stored(a) /\ job.next = job.count
  BY DEF Online, Settled, Placed, Planned
<1>2. FileOf(a) = f
  <2>1. job.traces[n] = TraceOf(a)
    BY DEF TraceOf
  <2>. QED BY <2>1 DEF FileOf, FileFor
<1>3. f # None
  BY DEF NoneIsNoFile, ImportedNBT, PlayerNBT
<1>. HIDE DEF f
<1>4. dat[a] = FileOf(a)
  BY <1>1, <1>2, <1>3 DEF Settled, Placed
<1>5. at[a] = FileOf(a)
  BY <1>1, <1>2, <1>3, <1>4 DEF Stored
<1>. QED BY <1>1, <1>2, <1>5 DEF f

\* A bot stands where the trace it is about to replay begins
\* (playerdata.go 98-109, runner.go 180-183).
THEOREM BotsStandAtTheirTrace == ASSUME NoneIsNoFile PROVE Spec => []SpawnsWhereItsTraceBegins
<1>1. Settled => SpawnsWhereItsTraceBegins
  <2>. SUFFICES ASSUME Settled, NEW a \in Online, TraceOf(a).origin # None
                PROVE  LET o == TraceOf(a).origin IN
                       /\ at[a].pos = o.pos /\ at[a].uuid = a /\ at[a].alive
                       /\ KnownDimension(o.dim) => at[a].dim = o.dim
    BY DEF SpawnsWhereItsTraceBegins
  <2>. QED BY AsPlaced DEF ImportedNBT, PlayerNBT
<1>. QED BY <1>1, SpecSettled, PTL

-----------------------------------------------------------------------------
(* What is listed is there                                                  *)

IsSession(s) == IsSeq(s) /\ s # <<>> /\ \A k \in DOMAIN s : Captured(s[k])

\* Until the directory is taken to the bench the captures are there, and the
\* sessions left are some of what they hold, none without an event.
Captive ==
  /\ pc \in {"start", "pass2", "failed", "compiled"} => raw \in Captures
  /\ IsSeq(todo) /\ \A n \in DOMAIN todo : IsSession(todo[n])

\* The events of a bucket that are the first of their session, and the session
\* of the i-th event.
Firsts(bucket) ==
  {i \in DOMAIN bucket : \A j \in 1 .. (i - 1) : SessionKey(bucket[j]) # SessionKey(bucket[i])}
SessionOf(bucket, i) ==
  Entries(bucket, {j \in DOMAIN bucket : SessionKey(bucket[j]) = SessionKey(bucket[i])})

\* The sessions of a bucket in their order, by the first event of each.
LEMMA SessionOrder ==
  ASSUME NEW E, \A e \in E : Captured(e), NEW bucket \in Seq(E)
  PROVE  \E n \in Nat : \E o \in Bijection(1 .. n, Firsts(bucket)) :
           SessionsIn(bucket) = [k \in 1 .. n |-> SessionOf(bucket, o[k])]
<1>. DEFINE I == Firsts(bucket)
            firsts == Entries(bucket, I)
            times == [i \in DOMAIN firsts |-> firsts[i].t]
            order == StableSort(firsts, times)
            N == Cardinality(I)
<1>1. /\ firsts \in Seq(E) /\ Len(firsts) = N /\ N \in Nat /\ DOMAIN firsts = 1 .. N
      /\ IsFiniteSet(I) /\ I \in SUBSET Int
      /\ \A n \in 1 .. N : Nth(I, n) \in I /\ firsts[n] = bucket[Nth(I, n)]
  <2>1. I \in SUBSET DOMAIN bucket
    BY DEF Firsts
  <2>. HIDE DEF I
  <2>2. /\ firsts \in Seq(E) /\ Len(firsts) = N /\ N \in Nat /\ IsFiniteSet(I) /\ I \in SUBSET Int
        /\ \A n \in 1 .. N : Nth(I, n) \in I /\ firsts[n] = bucket[Nth(I, n)]
    BY <2>1, EntriesIn
  <2>. HIDE DEF firsts
  <2>. QED BY <2>2, LenProperties
<1>2. times \in [DOMAIN firsts -> Int]
  <2>1. \A i \in DOMAIN firsts : firsts[i] \in E
    <3>. HIDE DEF firsts
    <3>. QED BY <1>1, IsSeqOf
  <2>. HIDE DEF firsts
  <2>2. \A i \in DOMAIN firsts : firsts[i].t \in Int
    BY <2>1 DEF Captured
  <2>. QED BY <2>2
<1>3. /\ order \in Seq(E) /\ Len(order) = N
      /\ \E p \in Bijection(1 .. N, 1 .. N) : \A n \in 1 .. N : order[n] = firsts[p[n]]
  <2>. HIDE DEF firsts, times, order, N
  <2>1. /\ order \in Seq(E) /\ Len(order) = Len(firsts)
        /\ \E p \in Bijection(1 .. Len(firsts), 1 .. Len(firsts)) :
             /\ \A n \in 1 .. Len(firsts) : order[n] = firsts[p[n]]
             /\ \A n, m \in 1 .. Len(firsts) : n < m => Before(times, p[n], p[m])
    BY <1>1, <1>2, SortedBy DEF order
  <2>. QED BY <1>1, <2>1
<1>. HIDE DEF N, I
<1>4. PICK p \in Bijection(1 .. N, 1 .. N) : \A n \in 1 .. N : order[n] = firsts[p[n]]
  <2>. HIDE DEF firsts, order, times
  <2>. QED BY <1>3
<1>5. DOMAIN order = 1 .. N
  <2>. HIDE DEF order
  <2>. QED BY <1>3, LenProperties
<1>. HIDE DEF order, firsts
<1>. DEFINE o == [n \in 1 .. N |-> Nth(I, p[n])]
<1>6. /\ \A n \in 1 .. N : p[n] \in 1 .. N
      /\ \A n, m \in 1 .. N : p[n] = p[m] => n = m
      /\ \A m \in 1 .. N : \E n \in 1 .. N : p[n] = m
  <2>. DEFINE D == 1 .. N
  <2>1. p \in Bijection(D, D)
    OBVIOUS
  <2>. HIDE DEF D
  <2>2. /\ \A n \in D : p[n] \in D
        /\ \A n, m \in D : p[n] = p[m] => n = m
        /\ \A m \in D : \E n \in D : p[n] = m
    BY <2>1, Fun_BijectionProperties
  <2>. QED BY <2>2 DEF D
<1>7. o \in Bijection(1 .. N, I)
  <2>1. o \in [1 .. N -> I]
    BY <1>1, <1>6
  <2>2. \A n, m \in 1 .. N : o[n] = o[m] => n = m
    <3>1. \A l, m \in 1 .. N : Nth(I, l) = Nth(I, m) => l = m
      <4>. SUFFICES ASSUME NEW l \in 1 .. N, NEW m \in 1 .. N, l # m PROVE Nth(I, l) # Nth(I, m)
        OBVIOUS
      <4>1. (l < m \/ m < l) /\ Nth(I, l) \in Int /\ Nth(I, m) \in Int
        <5>1. l < m \/ m < l
          OBVIOUS
        <5>2. Nth(I, l) \in I /\ Nth(I, m) \in I
          BY <1>1
        <5>. QED BY <1>1, <5>1, <5>2
      <4>2. l < m => Nth(I, l) < Nth(I, m)
        BY <1>1, NthApart DEF N
      <4>3. m < l => Nth(I, m) < Nth(I, l)
        BY <1>1, NthApart DEF N
      <4>. QED BY <4>1, <4>2, <4>3
    <3>. QED BY <1>6, <3>1
  <2>3. \A i \in I : \E n \in 1 .. N : o[n] = i
    <3>. SUFFICES ASSUME NEW i \in I PROVE \E n \in 1 .. N : o[n] = i
      OBVIOUS
    <3>1. \E m \in 1 .. N : Nth(I, m) = i
      BY <1>1, NthIs DEF N
    <3>. QED BY <1>6, <3>1
  <2>. HIDE DEF o
  <2>. QED BY <2>1, <2>2, <2>3, Fun_IsBij
<1>8. \A n \in 1 .. N : order[n] = bucket[o[n]]
  BY <1>1, <1>4, <1>6
<1>9. SessionsIn(bucket) = [k \in 1 .. N |-> SessionOf(bucket, o[k])]
  <2>1. SessionsIn(bucket) =
        [n \in DOMAIN order |-> Entries(bucket, {i \in DOMAIN bucket : SessionKey(bucket[i]) = SessionKey(order[n])})]
    BY DEF SessionsIn, order, firsts, I, Firsts
  <2>. HIDE DEF o
  <2>. QED BY <1>5, <1>8, <2>1 DEF SessionOf
<1>. HIDE DEF o
<1>. QED BY <1>1, <1>7, <1>9 DEF I

\* The sessions of a bucket, each with an event at least.
LEMMA SessionsOf ==
  ASSUME NEW E, \A e \in E : Captured(e), NEW bucket \in Seq(E)
  PROVE  SessionsIn(bucket) \in Seq({s \in Seq(E) : s # <<>>})
<1>. DEFINE K == {s \in Seq(E) : s # <<>>}
            f(i) == SessionOf(bucket, i)
<1>1. ASSUME NEW i \in DOMAIN bucket PROVE f(i) \in K
  <2>. DEFINE Q == {j \in DOMAIN bucket : SessionKey(bucket[j]) = SessionKey(bucket[i])}
  <2>1. Q # {} /\ Q \in SUBSET DOMAIN bucket
    OBVIOUS
  <2>. HIDE DEF Q
  <2>2. Entries(bucket, Q) \in Seq(E) /\ Len(Entries(bucket, Q)) = Cardinality(Q) /\ IsFiniteSet(Q)
    BY <2>1, EntriesIn
  <2>3. Cardinality(Q) # 0
    BY <2>1, <2>2, FS_EmptySet
  <2>4. Entries(bucket, Q) # <<>>
    BY <2>2, <2>3, Nothing
  <2>. QED BY <2>2, <2>4 DEF Q, SessionOf
<1>2. PICK n \in Nat : \E o \in Bijection(1 .. n, Firsts(bucket)) :
        SessionsIn(bucket) = [k \in 1 .. n |-> f(o[k])]
  BY SessionOrder
<1>3. PICK o \in Bijection(1 .. n, Firsts(bucket)) : SessionsIn(bucket) = [k \in 1 .. n |-> f(o[k])]
  BY <1>2
<1>4. \A k \in 1 .. n : o[k] \in DOMAIN bucket
  <2>1. o \in [1 .. n -> Firsts(bucket)]
    BY DEF Bijection, Injection
  <2>. QED BY <2>1 DEF Firsts
<1>5. \A k \in 1 .. n : f(o[k]) \in K
  BY <1>1, <1>4
<1>. DEFINE g(k) == f(o[k])
<1>. HIDE DEF f, K
<1>6. \A k \in 1 .. n : g(k) \in K
  BY <1>5
<1>. HIDE DEF g
<1>7. [k \in 1 .. n |-> g(k)] \in Seq(K)
  BY <1>6
<1>. QED BY <1>3, <1>7 DEF g, K

\* What the readers deliver of a capture are captured events.
LEMMA StreamIn ==
  ASSUME NEW c \in Captures
  PROVE  \E E : (\A e \in E : Captured(e)) /\ StreamDir(c).events \in Seq(E)
<1>. DEFINE E == UNION {UNION {Range(c[i].frames[j]) : j \in DOMAIN c[i].frames} : i \in DOMAIN c}
            evs == StreamDir(c).events
<1>0. /\ IsSeq(c)
      /\ \A i \in DOMAIN c :
           /\ IsSeq(c[i].frames)
           /\ \A j \in DOMAIN c[i].frames :
                IsSeq(c[i].frames[j]) /\ \A k \in DOMAIN c[i].frames[j] : Captured(c[i].frames[j][k])
  BY PipelineAssumption
<1>1. \A e \in E : Captured(e)
  BY <1>0 DEF Range
<1>2. ASSUME NEW i \in DOMAIN c PROVE FlattenSeq(c[i].frames) \in Seq(E)
  <2>1. ASSUME NEW j \in DOMAIN c[i].frames PROVE c[i].frames[j] \in Seq(E)
    <3>. DEFINE fr == c[i].frames[j]
    <3>1. Range(fr) \subseteq E
      OBVIOUS
    <3>. HIDE DEF E
    <3>2. fr \in Seq(Range(fr))
      BY <1>0, SeqIs
    <3>. QED BY <3>1, <3>2, SeqMonotonic
  <2>. DEFINE S == Seq(E)
              frs == c[i].frames
              N == Len(frs)
  <2>2. N \in Nat /\ DOMAIN frs = 1 .. N /\ frs = [j \in 1 .. N |-> frs[j]]
    BY <1>0, SeqIs DEF IsSeq
  <2>3. \A j \in 1 .. N : frs[j] \in S
    BY <2>1, <2>2
  <2>4. frs \in Seq(S)
    <3>. HIDE DEF S, frs, N
    <3>1. [j \in 1 .. N |-> frs[j]] \in Seq(S)
      BY <2>2, <2>3
    <3>. QED BY <2>2, <3>1
  <2>. HIDE DEF E
  <2>. QED BY <2>4, FlattenIn
<1>3. evs \in Seq(E)
  <2>. DEFINE S == Seq(E)
              f(i) == FlattenSeq(c[i].frames)
              N == Len(c)
  <2>1. N \in Nat /\ DOMAIN c = 1 .. N
    BY <1>0, SeqIs
  <2>2. \A i \in 1 .. N : f(i) \in S
    BY <1>2, <2>1
  <2>3. [i \in 1 .. N |-> f(i)] \in Seq(S)
    <3>. HIDE DEF S, f, N
    <3>. QED BY <2>1, <2>2
  <2>4. evs = FlattenSeq([i \in 1 .. N |-> f(i)])
    BY <2>1 DEF StreamDir, Stream
  <2>. HIDE DEF E, f, N, evs
  <2>. QED BY <2>3, <2>4, FlattenIn
<1>. QED BY <1>1, <1>3

\* What pass 1 leaves to pass 2.
LEMMA Pass1Sessions ==
  ASSUME NEW c \in Captures
  PROVE  LET t == FlattenSeq([b \in 1..Buckets |-> SessionsIn(Spill(StreamDir(c).events)[b])])
         IN  IsSeq(t) /\ \A n \in DOMAIN t : IsSession(t[n])
<1>. DEFINE evs == StreamDir(c).events
<1>1. PICK E : (\A e \in E : Captured(e)) /\ evs \in Seq(E)
  BY StreamIn
<1>. DEFINE K == {s \in Seq(E) : s # <<>>}
<1>. HIDE DEF evs
<1>4. ASSUME NEW b \in 1 .. Buckets PROVE SessionsIn(Spill(evs)[b]) \in Seq(K)
  <2>. DEFINE I == {i \in DOMAIN evs : BucketOf(SessionKey(evs[i])) = b}
  <2>1. I \in SUBSET DOMAIN evs /\ Spill(evs)[b] = Entries(evs, I)
    BY DEF Spill
  <2>. HIDE DEF I
  <2>2. Entries(evs, I) \in Seq(E)
    BY <1>1, <2>1, EntriesIn
  <2>. QED BY <1>1, <2>1, <2>2, SessionsOf
<1>. DEFINE f(b) == SessionsIn(Spill(evs)[b])
            t == FlattenSeq([b \in 1 .. Buckets |-> f(b)])
<1>5. t \in Seq(K)
  <2>. DEFINE S == Seq(K)
  <2>1. Buckets \in Nat /\ \A b \in 1 .. Buckets : f(b) \in S
    BY <1>4, CompileAssumption
  <2>2. [b \in 1 .. Buckets |-> f(b)] \in Seq(S)
    <3>. HIDE DEF S, f
    <3>. QED BY <2>1
  <2>. HIDE DEF f, K
  <2>. QED BY <2>2, FlattenIn
<1>6. \A s \in K : IsSession(s)
  <2>1. ASSUME NEW s \in K PROVE IsSession(s)
    <3>1. IsSeq(s) /\ s # <<>> /\ \A k \in DOMAIN s : s[k] \in E
      BY IsSeqOf
    <3>. QED BY <1>1, <3>1 DEF IsSession
  <2>. QED BY <2>1
<1>7. IsSeq(t) /\ \A n \in DOMAIN t : IsSession(t[n])
  <2>. HIDE DEF t, K
  <2>. QED BY <1>5, <1>6, IsSeqOf
<1>. QED BY <1>7 DEF evs

\* A line and the file it names, as the manifest's readers expect them.
Whole(files, line) ==
  /\ Readable(files[line.file])
  /\ Len(ReadTrace(files[line.file]).events) = line.events
  /\ line.player # None

\* While a compile runs its lines are those of the files it has written, and the
\* manifest is the older set's or lost; what it ends with lists whole files.
Listed ==
  /\ pc = "pass2" => \A n \in DOMAIN lines : lines[n].file = n /\ Whole(out.files, lines[n])
  /\ out.manifest \in {None, OldDir.manifest}
     \/ /\ pc \notin {"start", "pass2", "failed"}
        /\ \A n \in DOMAIN out.manifest : Whole(out.files, out.manifest[n])

\* None is no trace file either.
NoneIsNoTrace ==
  \A s, d, o, i, e : [schema |-> s, duration |-> d, origin |-> o, inventory |-> i, events |-> e] # None

\* What the compiler writes of a session is what it lists of it.
LEMMA WrittenWhole ==
  ASSUME NoneIsNoTrace, NEW s, IsSession(s), NEW n, NEW files,
         files[n] = Write(CompileTrace(InTimeOrder(s)))
  PROVE  LET l == ManifestEntry(n, InTimeOrder(s)) IN l.file = n /\ Whole(files, l)
<1>. DEFINE E == Range(s)
            evs == InTimeOrder(s)
            times == [i \in DOMAIN s |-> s[i].t]
<1>1. s \in Seq(E) /\ DOMAIN s = 1 .. Len(s) /\ Len(s) \in Nat /\ Len(s) # 0 /\ \A e \in E : Captured(e)
  BY SeqIs, NotEmpty DEF IsSession, Range
<1>2. evs \in Seq(E) /\ Len(evs) = Len(s)
  <2>1. times \in [DOMAIN s -> Int]
    <3>1. \A i \in DOMAIN s : s[i].t \in Int
      BY DEF IsSession, Captured
    <3>. QED BY <3>1
  <2>2. evs = StableSort(s, times)
    BY DEF InTimeOrder
  <2>. HIDE DEF E, evs, times
  <2>. QED BY <1>1, <2>1, <2>2, SortedBy
<1>. HIDE DEF evs
<1>3. evs[1].player # None
  <2>1. 1 \in DOMAIN evs
    BY <1>1, <1>2, LenProperties
  <2>2. evs[1] \in E
    <3>. HIDE DEF E
    <3>. QED BY <1>2, <2>1, IsSeqOf
  <2>3. Captured(evs[1])
    <3>. HIDE DEF E
    <3>. QED BY <1>1, <2>2
  <2>. QED BY <2>3 DEF Captured
<1>. DEFINE kept == Kept(evs)
            I == {i \in DOMAIN evs : /\ evs[i].t - evs[1].t <= MaxDuration
                                     /\ ~ (DropChat /\ evs[i].kind = "cmd")}
<1>4. IsSeq(kept)
  <2>1. kept = Entries(evs, I) /\ I \in SUBSET DOMAIN evs
    BY DEF Kept
  <2>. HIDE DEF E, kept, I
  <2>2. kept \in Seq(E)
    BY <1>2, <2>1, EntriesIn
  <2>. QED BY <2>2, IsSeqOf
<1>. HIDE DEF kept
<1>. DEFINE t  == CompileTrace(evs)
            es == t.events
            f  == Write(t)
            fs == f.events
            r  == ReadTrace(f)
            rs == r.events
<1>5. IsSeq(es) /\ t.schema = 3
  <2>1. es = [i \in DOMAIN kept |-> es[i]] /\ t.schema = 3
    BY DEF CompileTrace, SchemaVersion, kept
  <2>. HIDE DEF es
  <2>. QED BY <1>4, <2>1, SeqLike
<1>6. ManifestEntry(n, evs).file = n /\ ManifestEntry(n, evs).player = evs[1].player
      /\ ManifestEntry(n, evs).events = Len(es)
  BY DEF ManifestEntry
<1>. HIDE DEF t
<1>7. IsSeq(fs) /\ Len(fs) = Len(es) /\ f.schema = 3 /\ f # None
  <2>1. fs = [i \in DOMAIN es |-> fs[i]] /\ f.schema = 3
    BY <1>5 DEF Write
  <2>2. f # None
    BY DEF Write, NoneIsNoTrace
  <2>. HIDE DEF es, fs, f
  <2>3. IsSeq(fs) /\ Len(fs) = Len(es)
    BY <1>5, <2>1, SeqLike
  <2>. QED BY <2>1, <2>2, <2>3
<1>. HIDE DEF f
<1>8. Len(rs) = Len(fs)
  <2>1. rs = [i \in DOMAIN fs |-> rs[i]]
    BY DEF ReadTrace
  <2>. HIDE DEF rs, fs
  <2>. QED BY <1>7, <2>1, SeqLike
<1>9. Readable(f)
  BY <1>7 DEF Readable, SchemaVersion
<1>10. files[n] = f
  BY DEF f, t, evs
<1>. QED BY <1>3, <1>6, <1>7, <1>8, <1>9, <1>10 DEF Whole, evs

\* Only pass 1 makes sessions; the rest of the compiler takes them.
LEMMA StepCaptive == Captive /\ [Next]_vars => Captive'
<1>. SUFFICES ASSUME Captive, [Next]_vars PROVE Captive'
  OBVIOUS
<1>1. CASE Pass1
  <2>1. raw \in Captures /\ raw' = raw
    BY <1>1 DEF Pass1, Captive
  <2>2. \/ todo' = <<>>
        \/ todo' = FlattenSeq([b \in 1..Buckets |-> SessionsIn(Spill(StreamDir(raw).events)[b])])
    BY <1>1 DEF Pass1
  <2>. QED BY <2>1, <2>2, Pass1Sessions, Nothing DEF Captive
<1>2. CASE CompileSession
  <2>1. IsSeq(todo) /\ todo # <<>> /\ todo' = Tail(todo) /\ pc = "pass2" /\ raw' = raw
    BY <1>2 DEF CompileSession, Captive
  <2>2. todo \in Seq(Range(todo)) /\ \A s \in Range(todo) : IsSession(s)
    BY <2>1, SeqIs DEF Captive, Range
  <2>. DEFINE E == Range(todo)
  <2>. HIDE DEF E
  <2>3. todo' \in Seq(E)
    BY <2>1, <2>2, HeadTailProperties DEF E
  <2>4. IsSeq(todo') /\ \A n \in DOMAIN todo' : todo'[n] \in E
    BY <2>3, IsSeqOf
  <2>. QED BY <2>1, <2>2, <2>4 DEF Captive, E
<1>3. CASE TraceWriteFails \/ Save \/ SaveFails
  BY <1>3 DEF TraceWriteFails, Save, SaveFails, Captive
<1>4. CASE Ship
  BY <1>4, Nothing DEF Ship, Captive
<1>5. CASE Bench
  <2>1. raw' = raw /\ todo' = todo /\ pc' \notin {"start", "pass2", "failed", "compiled"}
    BY <1>5 DEF Bench, AmplifyRun, BeginRun, LogIn, RemoveAll, PlaceNext, PlaceFails, BeginReplay, EndRun,
         StartBench, StopBench, compileVars
  <2>. QED BY <2>1 DEF Captive
<1>6. CASE UNCHANGED vars
  BY <1>6 DEF vars, Captive
<1>. QED BY <1>1, <1>2, <1>3, <1>4, <1>5, <1>6 DEF Next, CompileRun

\* A trace is listed when it has been written, and a manifest is written of such.
LEMMA StepListed ==
  ASSUME NoneIsNoTrace, Types, Captive, Listed, [Next]_vars
  PROVE  Listed'
<1>0. /\ IsDir(out) /\ IsSeq(lines) /\ Len(lines) <= Len(out.files)
      /\ Len(lines) \in Nat /\ Len(out.files) \in Nat
      /\ DOMAIN lines = 1 .. Len(lines) /\ DOMAIN out.files = 1 .. Len(out.files)
  BY SeqIs DEF Types, IsDir
<1>1. CASE Pass1
  <2>1. out' = out /\ lines' = <<>> /\ pc' \in {"pass2", "failed"} /\ out.manifest \in {None, OldDir.manifest}
    BY <1>1 DEF Pass1, Listed
  <2>. QED BY <2>1, Nothing DEF Listed
<1>2. CASE CompileSession
  <2>. DEFINE n == Len(lines) + 1
              evs == InTimeOrder(Head(todo))
              f == Write(CompileTrace(evs))
              l == ManifestEntry(n, evs)
  <2>1. pc = "pass2" /\ pc' = pc /\ out.manifest \in {None, OldDir.manifest}
    BY <1>2 DEF CompileSession, Listed
  <2>2. CASE UNCHANGED <<lines, out>>
    BY <2>1, <2>2 DEF Listed
  <2>3. CASE out' = PutFile(out, n, f) /\ lines' = Append(lines, l)
    <3>0. n \in 1 .. Len(out.files) + 1
      BY <1>0
    <3>1. IsSession(Head(todo))
      <4>1. IsSeq(todo) /\ todo # <<>>
        BY <1>2 DEF CompileSession, Captive
      <4>2. Head(todo) = todo[1] /\ 1 \in DOMAIN todo
        BY <4>1, SeqIs, NotEmpty, HeadTailProperties
      <4>. QED BY <4>2 DEF Captive
    <3>. HIDE DEF f, l, n
    <3>. DEFINE d == PutFile(out, n, f)
    <3>a. /\ d.manifest = out.manifest /\ d.files[n] = f
          /\ \A j \in DOMAIN out.files : j # n => d.files[j] = out.files[j]
      BY <1>0, <3>0, Put
    <3>2. /\ out'.manifest = out.manifest /\ out'.files[n] = f
          /\ \A j \in DOMAIN out.files : j # n => out'.files[j] = out.files[j]
      <4>1. out' = d
        BY <2>3
      <4>. HIDE DEF d
      <4>. QED BY <3>a, <4>1
    <3>3. l.file = n /\ Whole(out'.files, l)
      BY <3>1, <3>2, WrittenWhole DEF f, l
    <3>4. /\ IsSeq(lines') /\ Len(lines') = n /\ lines'[n] = l
          /\ \A j \in DOMAIN lines : lines'[j] = lines[j]
      BY <1>0, <2>3, SeqAppend DEF n
    <3>5. ASSUME NEW j \in DOMAIN lines' PROVE lines'[j].file = j /\ Whole(out'.files, lines'[j])
      <4>1. DOMAIN lines' = 1 .. n
        BY <3>4, SeqIs
      <4>2. CASE j = n
        BY <3>3, <3>4, <4>2
      <4>3. CASE j # n
        <5>1. j \in DOMAIN lines /\ j \in DOMAIN out.files
          BY <1>0, <4>1, <4>3 DEF n
        <5>2. lines'[j] = lines[j] /\ out'.files[j] = out.files[j]
          BY <3>2, <3>4, <4>3, <5>1
        <5>3. lines[j].file = j /\ Whole(out.files, lines[j])
          BY <2>1, <5>1 DEF Listed
        <5>. QED BY <5>2, <5>3 DEF Whole
      <4>. QED BY <4>2, <4>3
    <3>. QED BY <2>1, <3>2, <3>5 DEF Listed
  <2>. QED BY <1>2, <2>2, <2>3 DEF CompileSession
<1>3. CASE TraceWriteFails
  <2>. DEFINE n == Len(lines) + 1
  <2>1. n \in 1 .. Len(out.files) + 1
    BY <1>0
  <2>2. out' = PutFile(out, n, None) /\ pc' = "failed" /\ out.manifest \in {None, OldDir.manifest}
    BY <1>3 DEF TraceWriteFails, Listed
  <2>3. out'.manifest = out.manifest
    BY <1>0, <2>2 DEF PutFile, IsDir
  <2>. QED BY <2>2, <2>3 DEF Listed
<1>4. CASE Save
  <2>0. pc = "pass2" /\ out = [files |-> out.files, manifest |-> out.manifest]
    BY <1>0, <1>4 DEF Save, IsDir
  <2>1. CASE lines = <<>>
    BY <1>4, <2>0, <2>1 DEF Save, Listed
  <2>2. CASE lines # <<>>
    <3>1. out'.files = out.files /\ out'.manifest = lines /\ pc' = "compiled"
      BY <1>4, <2>0, <2>2 DEF Save
    <3>2. \A n \in DOMAIN lines : Whole(out.files, lines[n])
      BY <2>0 DEF Listed
    <3>. QED BY <3>1, <3>2 DEF Listed
  <2>. QED BY <2>1, <2>2
<1>5. CASE SaveFails
  <2>0. pc = "pass2" /\ out = [files |-> out.files, manifest |-> out.manifest]
    BY <1>0, <1>5 DEF SaveFails, IsDir
  <2>1. out'.manifest = None /\ pc' = "failed"
    BY <1>5, <2>0 DEF SaveFails
  <2>. QED BY <2>1 DEF Listed
<1>6. CASE Ship
  BY <1>6 DEF Ship, Listed
<1>7. CASE Bench
  <2>1. out' = out /\ pc \in {"bench", "place", "replay"} /\ pc' \in {"bench", "place", "replay"}
    BY <1>7 DEF Bench, AmplifyRun, BeginRun, LogIn, RemoveAll, PlaceNext, PlaceFails, BeginReplay, EndRun,
         StartBench, StopBench, compileVars
  <2>. QED BY <2>1 DEF Listed
<1>8. CASE UNCHANGED vars
  BY <1>8 DEF vars, Listed
<1>. QED BY <1>1, <1>2, <1>3, <1>4, <1>5, <1>6, <1>7, <1>8 DEF Next, CompileRun

\* However often and wherever a compile fails, a manifest that is not the older
\* set's lists files that are there, whole (compile.go 261-290).
THEOREM ListedAreWhole == ASSUME NoneIsNoTrace PROVE Spec => []ListedFilesAreWhole
<1>1. Init => Captive /\ Listed
  BY Nothing DEF Init, EmptyDir, Captive, Listed
<1>2. Types /\ Captive /\ Listed /\ [Next]_vars => (Captive /\ Listed)'
  BY StepCaptive, StepListed
<1>3. Listed => ListedFilesAreWhole
  BY DEF Listed, ListedFilesAreWhole, Loadable, Whole, TraceAt
<1>. QED BY <1>1, <1>2, <1>3, SpecTypes, PTL DEF Spec

-----------------------------------------------------------------------------
(* Who carries what                                                         *)

\* A file is given to one trace at most; a file that is alone with its player's
\* hash goes to the first trace of that player.
LEMMA Assigned ==
  ASSUME NEW hashes, IsSeq(hashes), NEW srcs, IsSeq(srcs),
         NEW a, a = AssignImports(hashes, srcs)
  PROVE  /\ DOMAIN a = DOMAIN hashes
         /\ \A n, m \in DOMAIN a : n # m /\ a[n] # None => a[n] # a[m]
         /\ \A n \in DOMAIN a, j \in DOMAIN srcs :
              /\ None \notin Nat /\ hashes[n] # None /\ srcs[j].hash = hashes[n]
              /\ \A i \in DOMAIN srcs : srcs[i].hash = srcs[j].hash => i = j
              => \E m \in DOMAIN a : a[m] = j /\ hashes[m] = hashes[n]
<1>. DEFINE byHash(h) == {j \in DOMAIN srcs : srcs[j].hash = h}
            Early(i) == /\ hashes[i] # None /\ byHash(hashes[i]) # {}
                        /\ \A k \in 1..(i - 1) : hashes[k] # hashes[i]
            own == [i \in DOMAIN hashes |-> IF Early(i) THEN Max(byHash(hashes[i])) ELSE None]
            left == {j \in DOMAIN srcs : \A i \in DOMAIN own : own[i] # j}
            before(i) == {k \in 1..i : own[k] = None}
            nth(i) == Cardinality(before(i))
            L == Len(hashes)
<1>1. L \in Nat /\ DOMAIN hashes = 1 .. L /\ DOMAIN srcs \in SUBSET Nat /\ IsFiniteSet(DOMAIN srcs)
  <2>1. L \in Nat /\ DOMAIN hashes = 1 .. L /\ Len(srcs) \in Nat /\ DOMAIN srcs = 1 .. Len(srcs)
    BY SeqIs
  <2>. QED BY <2>1, FS_Interval
<1>2. /\ DOMAIN a = DOMAIN hashes
      /\ \A i \in DOMAIN hashes :
           a[i] = CASE own[i] # None -> own[i]
                    [] own[i] = None /\ nth(i) <= Cardinality(left) -> Nth(left, nth(i))
                    [] OTHER -> None
  BY DEF AssignImports
<1>3. ASSUME NEW h, byHash(h) # {} PROVE Max(byHash(h)) \in byHash(h)
  <2>1. byHash(h) \in SUBSET DOMAIN srcs
    OBVIOUS
  <2>. DEFINE B == byHash(h)
  <2>2. B \in SUBSET Nat /\ B # {} /\ IsFiniteSet(B)
    BY <1>1, <1>3, <2>1, FS_Subset
  <2>. HIDE DEF B
  <2>3. Max(B) \in B
    BY <2>2, MaxIn
  <2>. QED BY <2>3 DEF B
<1>4. ASSUME NEW i \in DOMAIN hashes, own[i] # None
      PROVE  Early(i) /\ own[i] \in byHash(hashes[i])
  <2>. HIDE DEF byHash
  <2>. QED BY <1>3, <1>4
<1>5. ASSUME NEW i \in DOMAIN hashes, own[i] = None, nth(i) <= Cardinality(left)
      PROVE  nth(i) \in 1 .. Cardinality(left) /\ Nth(left, nth(i)) \in left
  <2>1. IsFiniteSet(before(i)) /\ i \in before(i)
    <3>1. i \in Nat /\ i \in 1 .. i
      BY <1>1
    <3>2. IsFiniteSet(1 .. i) /\ before(i) \in SUBSET (1 .. i)
      BY <3>1, FS_Interval
    <3>. QED BY <1>5, <3>1, <3>2, FS_Subset
  <2>2. nth(i) \in Nat /\ nth(i) # 0
    <3>. HIDE DEF before
    <3>. QED BY <2>1, FS_CardinalityType, FS_EmptySet
  <2>3. left \in SUBSET Int /\ IsFiniteSet(left)
    <3>1. left \in SUBSET DOMAIN srcs
      OBVIOUS
    <3>. HIDE DEF left
    <3>. QED BY <1>1, <3>1, FS_Subset
  <2>4. Cardinality(left) \in Nat
    BY <2>3, FS_CardinalityType
  <2>. DEFINE x == nth(i)
  <2>. HIDE DEF left, nth
  <2>5. x \in 1 .. Cardinality(left)
    BY <1>5, <2>2, <2>4
  <2>. HIDE DEF x
  <2>6. Nth(left, x) \in left
    BY <2>3, <2>5, NthOf
  <2>. QED BY <2>5, <2>6 DEF x
<1>6. ASSUME NEW n \in DOMAIN hashes, NEW m \in DOMAIN hashes, n < m, own[n] = None, own[m] = None,
             nth(n) <= Cardinality(left), nth(m) <= Cardinality(left)
      PROVE  Nth(left, nth(n)) # Nth(left, nth(m))
  <2>0. n \in Nat /\ m \in Nat
    BY <1>1
  <2>1. before(n) \in SUBSET before(m) /\ m \in before(m) /\ m \notin before(n)
    BY <1>6, <2>0
  <2>2. IsFiniteSet(before(m)) /\ IsFiniteSet(before(n))
    <3>1. IsFiniteSet(1 .. m) /\ before(m) \in SUBSET (1 .. m)
      BY <2>0, FS_Interval
    <3>2. IsFiniteSet(before(m))
      BY <3>1, FS_Subset
    <3>. HIDE DEF before
    <3>. QED BY <2>1, <3>2, FS_Subset
  <2>3. nth(n) <= nth(m) /\ nth(n) # nth(m) /\ nth(n) \in Nat /\ nth(m) \in Nat
    <3>. HIDE DEF before
    <3>. QED BY <2>1, <2>2, FS_Subset, FS_CardinalityType
  <2>4. nth(n) \in 1 .. Cardinality(left) /\ nth(m) \in 1 .. Cardinality(left) /\ nth(n) < nth(m)
    <3>. HIDE DEF nth, left, own
    <3>. QED BY <1>5, <1>6, <2>3
  <2>5. left \in SUBSET Int /\ IsFiniteSet(left)
    <3>1. left \in SUBSET DOMAIN srcs
      OBVIOUS
    <3>. HIDE DEF left
    <3>. QED BY <1>1, <3>1, FS_Subset
  <2>. DEFINE x == nth(n)
              y == nth(m)
  <2>. HIDE DEF nth, left, own, x, y
  <2>6. Nth(left, x) < Nth(left, y) /\ Nth(left, x) \in left
    BY <2>4, <2>5, NthApart, NthOf DEF x, y
  <2>7. Nth(left, x) \in Int
    BY <2>5, <2>6
  <2>8. Nth(left, x) # Nth(left, y)
    BY <2>6, <2>7
  <2>. QED BY <2>8 DEF x, y
<1>7. ASSUME NEW n \in DOMAIN hashes, NEW m \in DOMAIN hashes, n < m, own[n] # None, own[m] # None
      PROVE  own[n] # own[m]
  <2>1. own[n] \in byHash(hashes[n]) /\ own[m] \in byHash(hashes[m]) /\ n \in 1 .. (m - 1)
    <3>. HIDE DEF own, byHash
    <3>. QED BY <1>1, <1>4, <1>7
  <2>2. Early(m)
    <3>. HIDE DEF own
    <3>. QED BY <1>4, <1>7
  <2>3. hashes[n] # hashes[m]
    BY <2>1, <2>2
  <2>. HIDE DEF own
  <2>. QED BY <2>1, <2>3
<1>8. \A i \in DOMAIN hashes : \A j \in left : own[i] # j
  OBVIOUS
<1>9. ASSUME NEW n \in DOMAIN a, NEW m \in DOMAIN a, n < m, a[n] # None
      PROVE  a[n] # a[m]
  <2>. HIDE DEF own, left, nth, byHash, Early
  <2>1. CASE own[n] # None /\ own[m] # None
    BY <1>2, <1>7, <1>9, <2>1
  <2>2. CASE own[n] # None /\ own[m] = None
    BY <1>2, <1>5, <1>8, <1>9, <2>2
  <2>3. CASE own[n] = None /\ own[m] # None
    BY <1>2, <1>5, <1>8, <1>9, <2>3
  <2>4. CASE own[n] = None /\ own[m] = None
    BY <1>2, <1>5, <1>6, <1>9, <2>4
  <2>. QED BY <2>1, <2>2, <2>3, <2>4
<1>10. \A n, m \in DOMAIN a : n # m /\ a[n] # None => a[n] # a[m]
  <2>. SUFFICES ASSUME NEW n \in DOMAIN a, NEW m \in DOMAIN a, n # m, a[n] # None PROVE a[n] # a[m]
    OBVIOUS
  <2>1. n < m \/ m < n
    BY <1>1, <1>2
  <2>2. CASE n < m
    BY <1>9, <2>2
  <2>3. CASE m < n
    <3>1. a[m] # None => a[m] # a[n]
      BY <1>9, <2>3
    <3>. QED BY <3>1
  <2>. QED BY <2>1, <2>2, <2>3
<1>11. ASSUME NEW n \in DOMAIN a, NEW j \in DOMAIN srcs,
              None \notin Nat, hashes[n] # None, srcs[j].hash = hashes[n],
              \A i \in DOMAIN srcs : srcs[i].hash = srcs[j].hash => i = j
       PROVE  \E m \in DOMAIN a : a[m] = j /\ hashes[m] = hashes[n]
  <2>. DEFINE S == {k \in DOMAIN hashes : hashes[k] = hashes[n]}
  <2>1. PICK m \in S : \A k \in S : <<k, m>> \notin OpToRel(<, Nat)
    <3>1. S \in SUBSET Nat /\ S # {}
      BY <1>1, <1>2
    <3>. HIDE DEF S
    <3>. QED BY <3>1, NatLessThanWellFounded, WFMin
  <2>2. m \in DOMAIN hashes /\ hashes[m] = hashes[n] /\ m \in Nat
    <3>1. m \in S
      OBVIOUS
    <3>2. m \in DOMAIN hashes /\ hashes[m] = hashes[n]
      BY <3>1
    <3>. QED BY <1>1, <3>2
  <2>3. ASSUME NEW k \in 1 .. (m - 1) PROVE hashes[k] # hashes[m]
    <3>1. k < m /\ k \in Nat /\ k \in DOMAIN hashes
      BY <1>1, <2>2
    <3>2. <<k, m>> \in OpToRel(<, Nat)
      BY <2>2, <3>1 DEF OpToRel
    <3>. QED BY <2>1, <2>2, <3>1, <3>2
  <2>4. byHash(hashes[m]) = {j}
    BY <1>11, <2>2
  <2>5. Max(byHash(hashes[m])) = j
    <3>1. byHash(hashes[m]) # {}
      BY <2>4
    <3>. HIDE DEF byHash
    <3>2. Max(byHash(hashes[m])) \in byHash(hashes[m])
      BY <1>3, <3>1
    <3>. QED BY <2>4, <3>2
  <2>6. own[m] = j
    <3>1. Early(m)
      <4>. HIDE DEF byHash
      <4>. QED BY <1>11, <2>2, <2>3, <2>4
    <3>. HIDE DEF byHash, Early
    <3>. QED BY <2>2, <2>5, <3>1
  <2>7. j # None
    BY <1>1, <1>11
  <2>8. a[m] = j
    <3>. HIDE DEF own, left, nth
    <3>. QED BY <1>2, <2>2, <2>6, <2>7
  <2>. QED BY <1>2, <2>2, <2>8
<1>. HIDE DEF own, left, nth, byHash, Early
<1>. QED BY <1>2, <1>10, <1>11

\* What a trace carries, the compiler found in a snapshot of its session.
LEMMA WrittenSlots ==
  ASSUME NEW s, IsSession(s), NEW f, f = Write(CompileTrace(InTimeOrder(s)))
  PROVE  InSlots(ReadTrace(f).inventory)
<1>. DEFINE E == Range(s)
            evs == InTimeOrder(s)
            times == [i \in DOMAIN s |-> s[i].t]
            snaps == {i \in DOMAIN evs : evs[i].kind = "inventory"}
<1>1. s \in Seq(E) /\ \A e \in E : Captured(e)
  BY SeqIs DEF IsSession, Range
<1>2. evs \in Seq(E)
  <2>1. times \in [DOMAIN s -> Int]
    <3>1. \A i \in DOMAIN s : s[i].t \in Int
      BY DEF IsSession, Captured
    <3>. QED BY <3>1
  <2>2. evs = StableSort(s, times)
    BY DEF InTimeOrder
  <2>. HIDE DEF E, evs, times
  <2>. QED BY <1>1, <2>1, <2>2, SortedBy
<1>. HIDE DEF evs
<1>3. ReadTrace(f).inventory = ResolveInventory(evs)
  BY DEF ReadTrace, Write, CompileTrace, SchemaVersion, evs
<1>4. InSlots(ResolveInventory(evs))
  <2>1. CASE snaps = {}
    BY <2>1 DEF ResolveInventory, FirstOf, InSlots
  <2>2. CASE snaps # {}
    <3>1. snaps \in SUBSET Nat
      <4>1. DOMAIN evs \in SUBSET Nat
        <5>1. DOMAIN evs = 1 .. Len(evs) /\ Len(evs) \in Nat
          <6>. HIDE DEF E
          <6>. QED BY <1>2, LenProperties
        <5>. QED BY <5>1
      <4>. QED BY <4>1
    <3>. DEFINE m == Min(snaps)
    <3>2. m \in snaps
      <4>. HIDE DEF snaps
      <4>. QED BY <2>2, <3>1, MinIs
    <3>3. Captured(evs[m]) /\ evs[m].kind = "inventory"
      <4>1. m \in DOMAIN evs /\ evs[m].kind = "inventory"
        BY <3>2
      <4>. HIDE DEF E, m
      <4>. QED BY <1>1, <1>2, <4>1, IsSeqOf
    <3>4. ResolveInventory(evs) = IF evs[m] = None THEN None ELSE evs[m].at
      BY <2>2 DEF ResolveInventory, FirstOf
    <3>. HIDE DEF m
    <3>. QED BY <3>3, <3>4 DEF Captured, InSlots
  <2>. QED BY <2>1, <2>2
<1>. QED BY <1>3, <1>4

\* Manifests name files that exist, and what traces carry is in real slots.
Carrying ==
  /\ Names(out) /\ Carries(out) /\ Names(fleet) /\ Carries(fleet)
  /\ pc = "pass2" => \A n \in DOMAIN lines : lines[n].file = n
  /\ \A n \in DOMAIN job.traces : InSlots(job.traces[n].inventory)

\* A file that carries real slots can be put into a directory.
LEMMA PutCarries ==
  ASSUME NEW dir, IsDir(dir), Names(dir), Carries(dir), NEW n \in 1 .. Len(dir.files) + 1, NEW f,
         f = None \/ InSlots(ReadTrace(f).inventory)
  PROVE  Names(PutFile(dir, n, f)) /\ Carries(PutFile(dir, n, f))
<1>. DEFINE d == PutFile(dir, n, f)
<1>1. /\ d.manifest = dir.manifest /\ d.files[n] = f /\ DOMAIN d.files = DOMAIN dir.files \cup {n}
      /\ \A j \in DOMAIN dir.files : j # n => d.files[j] = dir.files[j]
  <2>1. d.manifest = dir.manifest /\ d.files[n] = f
    BY Put
  <2>2. DOMAIN d.files = DOMAIN dir.files \cup {n}
    BY Put
  <2>3. \A j \in DOMAIN dir.files : j # n => d.files[j] = dir.files[j]
    BY Put
  <2>. HIDE DEF d
  <2>. QED BY <2>1, <2>2, <2>3
<1>. HIDE DEF d
<1>2. Names(d)
  BY <1>1 DEF Names
<1>3. Carries(d)
  BY <1>1 DEF Carries, Readable
<1>. QED BY <1>2, <1>3 DEF d

\* What the compiler and the amplifier write carries real slots, and so does a job.
LEMMA StepCarrying ==
  ASSUME Types, Captive, Planned, Carrying, [Next]_vars
  PROVE  Carrying'
<1>0. /\ IsDir(out) /\ IsDir(fleet) /\ IsSeq(lines) /\ Len(lines) <= Len(out.files) /\ IsJob(job)
      /\ Len(lines) \in Nat /\ Len(out.files) \in Nat
      /\ DOMAIN lines = 1 .. Len(lines) /\ DOMAIN out.files = 1 .. Len(out.files)
  BY SeqIs DEF Types, IsDir
<1>a. ASSUME job'.traces = job.traces \/ job' = NoJob, fleet' = fleet, Names(out'), Carries(out'),
             pc' = "pass2" => \A n \in DOMAIN lines' : lines'[n].file = n
      PROVE  Carrying'
  BY <1>a, Nothing DEF Carrying, NoJob
<1>b. ASSUME out' = out, job'.traces = job.traces \/ job' = NoJob, fleet' = fleet, pc' # "pass2"
      PROVE  Carrying'
  BY <1>a, <1>b DEF Carrying
<1>1. CASE Pass1
  BY <1>1, <1>a, Nothing DEF Pass1, Carrying, benchVars
<1>2. CASE CompileSession
  <2>. DEFINE n == Len(lines) + 1
              evs == InTimeOrder(Head(todo))
              f == Write(CompileTrace(evs))
              l == ManifestEntry(n, evs)
  <2>1. pc = "pass2" /\ UNCHANGED <<fleet, job>>
    BY <1>2 DEF CompileSession, benchVars
  <2>2. CASE UNCHANGED <<lines, out>>
    BY <1>a, <2>1, <2>2 DEF Carrying
  <2>3. CASE out' = PutFile(out, n, f) /\ lines' = Append(lines, l)
    <3>0. n \in 1 .. Len(out.files) + 1
      BY <1>0
    <3>1. IsSession(Head(todo))
      <4>1. IsSeq(todo) /\ todo # <<>>
        BY <1>2 DEF CompileSession, Captive
      <4>2. Head(todo) = todo[1] /\ 1 \in DOMAIN todo
        BY <4>1, SeqIs, NotEmpty, HeadTailProperties
      <4>. QED BY <4>2 DEF Captive
    <3>2. InSlots(ReadTrace(f).inventory)
      BY <3>1, WrittenSlots
    <3>3. l.file = n
      BY DEF ManifestEntry
    <3>. HIDE DEF f, l, n
    <3>. DEFINE d == PutFile(out, n, f)
    <3>4. Names(d) /\ Carries(d)
      BY <1>0, <3>0, <3>2, PutCarries DEF Carrying
    <3>5. out' = d
      BY <2>3
    <3>. HIDE DEF d
    <3>6. /\ IsSeq(lines') /\ Len(lines') = n /\ lines'[n] = l
          /\ \A j \in DOMAIN lines : lines'[j] = lines[j]
      BY <1>0, <2>3, SeqAppend DEF n
    <3>7. ASSUME NEW j \in DOMAIN lines' PROVE lines'[j].file = j
      <4>1. DOMAIN lines' = 1 .. n
        BY <3>6, SeqIs
      <4>2. j # n => j \in DOMAIN lines
        BY <1>0, <4>1 DEF n
      <4>. QED BY <2>1, <3>3, <3>6, <4>2 DEF Carrying
    <3>. QED BY <1>a, <2>1, <3>4, <3>5, <3>7
  <2>. QED BY <1>2, <2>2, <2>3 DEF CompileSession
<1>3. CASE TraceWriteFails
  <2>. DEFINE n == Len(lines) + 1
  <2>1. n \in 1 .. Len(out.files) + 1
    BY <1>0
  <2>2. out' = PutFile(out, n, None) /\ pc' = "failed" /\ UNCHANGED <<fleet, job>>
    BY <1>3 DEF TraceWriteFails, benchVars
  <2>. HIDE DEF n
  <2>. DEFINE d == PutFile(out, n, None)
  <2>3. Names(d) /\ Carries(d)
    BY <1>0, <2>1, PutCarries DEF Carrying
  <2>4. out' = d
    BY <2>2
  <2>. HIDE DEF d
  <2>. QED BY <1>a, <2>2, <2>3, <2>4
<1>4. CASE Save \/ SaveFails
  <2>0. pc = "pass2" /\ out = [files |-> out.files, manifest |-> out.manifest]
    BY <1>0, <1>4 DEF Save, SaveFails, IsDir
  <2>1. /\ UNCHANGED <<fleet, job>> /\ pc' # "pass2" /\ out'.files = out.files
        /\ out'.manifest \in {out.manifest, None, lines}
    BY <1>4, <2>0 DEF Save, SaveFails, benchVars
  <2>2. \A n \in DOMAIN lines : lines[n].file \in DOMAIN out.files
    <3>1. \A n \in DOMAIN lines : lines[n].file = n
      BY <2>0 DEF Carrying
    <3>2. \A n \in DOMAIN lines : n \in DOMAIN out.files
      BY <1>0
    <3>. QED BY <3>1, <3>2
  <2>3. Names(out') /\ Carries(out')
    BY <2>1, <2>2 DEF Names, Carries, Carrying
  <2>. QED BY <1>a, <2>1, <2>3
<1>5. CASE Ship
  BY <1>5, <1>b DEF Ship, benchVars
<1>6. ASSUME NEW draws \in Draws, AmplifyRun(draws) PROVE Carrying'
  <2>1. fleet' = AmplifiedDir(out, draws) /\ out' = out /\ job' = job /\ pc' # "pass2"
    BY <1>6 DEF AmplifyRun, compileVars
  <2>2. /\ DOMAIN fleet'.files = DOMAIN draws /\ DOMAIN fleet'.manifest = DOMAIN draws
        /\ \A i \in DOMAIN draws : fleet'.manifest[i].file = i
    BY <2>1 DEF AmplifiedDir
  <2>3. ASSUME NEW i \in DOMAIN draws PROVE InSlots(ReadTrace(fleet'.files[i]).inventory)
    <3>. DEFINE t == AmplifyTrace(TraceAt(out, ((i - 1) % Len(out.manifest)) + 1), draws[i])
    <3>1. fleet'.files[i] = Write(t)
      BY <2>1 DEF AmplifiedDir
    <3>2. t.schema = 3 /\ t.inventory = None
      BY DEF AmplifyTrace, SchemaVersion
    <3>. HIDE DEF t
    <3>3. ReadTrace(Write(t)).inventory = None
      BY <3>2 DEF Write, ReadTrace
    <3>. QED BY <3>1, <3>3 DEF InSlots
  <2>. QED BY <2>1, <2>2, <2>3 DEF Carrying, Names, Carries
<1>7. ASSUME NEW dir \in {out, fleet}, NEW n \in Counts, NEW i \in BOOLEAN, NEW m \in PlayerMaps,
             BeginRun(dir, n, i, m)
      PROVE  Carrying'
  <2>1. /\ job' = Plan(dir, n, i, m) /\ IsDir(dir) /\ Loadable(dir) /\ AllReadable(dir)
        /\ Names(dir) /\ Carries(dir) /\ UNCHANGED <<out, fleet>> /\ pc' # "pass2"
    BY <1>0, <1>7 DEF BeginRun, AllReadable, Carrying, compileVars
  <2>2. /\ DOMAIN job'.traces = DOMAIN dir.manifest
        /\ \A k \in DOMAIN dir.manifest : job'.traces[k] = TraceAt(dir, k)
    BY <2>1, PlanOf
  <2>3. ASSUME NEW k \in DOMAIN dir.manifest PROVE InSlots(TraceAt(dir, k).inventory)
    BY <2>1 DEF Names, Carries, AllReadable, TraceAt, Loadable
  <2>. QED BY <2>1, <2>2, <2>3 DEF Carrying
<1>8. ASSUME NEW a \in Accounts, LogIn(a) PROVE Carrying'
  BY <1>0, <1>8, <1>b DEF LogIn, compileVars, IsJob
<1>9. ASSUME NEW n \in Counts, RemoveAll(n) PROVE Carrying'
  BY <1>9, <1>b DEF RemoveAll, compileVars
<1>10. CASE PlaceNext
  BY <1>0, <1>10, <1>b DEF PlaceNext, compileVars, IsJob
<1>11. CASE PlaceFails \/ BeginReplay \/ EndRun \/ StartBench \/ StopBench
  BY <1>11, <1>b DEF PlaceFails, BeginReplay, EndRun, StartBench, StopBench, compileVars
<1>12. CASE UNCHANGED vars
  BY <1>12 DEF vars, Carrying, Names, Carries
<1>. QED BY <1>1, <1>2, <1>3, <1>4, <1>5, <1>6, <1>7, <1>8, <1>9, <1>10, <1>11, <1>12
         DEF Next, CompileRun, Bench

\* No two imported files have one hash: they are named by their players, whose
\* ids the map keeps apart.
ImportsApart ==
  \A m \in PlayerMaps : LET f == LoadImportDir(Imports, 0, m) IN
     \A i, j \in DOMAIN f : f[i].hash # None /\ (f[i].hash = f[j].hash => i = j)

\* The server reads a slot as the one Bukkit gave.
LEMMA SlotBack ==
  ASSUME None \notin Int, NEW s \in 0 .. 40
  PROVE  NbtSlot(s) # None /\ BukkitSlot(NbtSlot(s)) = s
<1>1. CASE s \in 0 .. 35
  BY <1>1 DEF NbtSlot, BukkitSlot
<1>2. CASE s \in 36 .. 39
  <2>1. NbtSlot(s) = 100 + (s - 36) /\ 100 + (s - 36) \in 100 .. 103 /\ (100 + (s - 36)) - 64 = s
    BY <1>2 DEF NbtSlot
  <2>2. BukkitSlot(100 + (s - 36)) = (100 + (s - 36)) - 64
    BY <2>1 DEF BukkitSlot
  <2>. QED BY <2>1, <2>2
<1>3. CASE s = 40
  <2>1. NbtSlot(s) = -106
    BY <1>3 DEF NbtSlot
  <2>2. BukkitSlot(-106) = 40
    BY DEF BukkitSlot
  <2>. QED BY <1>3, <2>1, <2>2
<1>. QED BY <1>1, <1>2, <1>3

\* A file an account is given brings its gear, and without one the account has
\* its player's own (import.go 114-165, playerdata.go 350-397).
THEOREM GearIsOwned ==
  ASSUME NoneIsNoFile, None \notin Int, ImportsApart
  PROVE  Spec => []GearGoesToItsOwner
<1>1. Init => Captive /\ Carrying
  <2>. SUFFICES ASSUME Init PROVE Captive /\ Carrying
    OBVIOUS
  <2>1. Captive
    BY Nothing DEF Init, Captive
  <2>2. Names(EmptyDir) /\ Carries(EmptyDir)
    BY Nothing DEF Names, Carries, EmptyDir
  <2>3. Carrying
    BY <2>2, Nothing, PipelineAssumption DEF Init, Carrying, NoJob
  <2>. QED BY <2>1, <2>3
<1>2. Settled /\ Captive /\ Carrying /\ [Next]_vars => (Captive /\ Carrying)'
  BY StepCaptive, StepCarrying DEF Settled
<1>3. ASSUME Settled, Carrying PROVE GearGoesToItsOwner
  <2>. DEFINE a == job.assigned
              f == job.srcs
  <2>1. CASE a = <<>>
    <3>1. DOMAIN a = {}
      BY <2>1, Nothing
    <3>2. InventoryArrives
      <4>. SUFFICES ASSUME NEW b \in Online, a = <<>>, TraceOf(b).origin # None
                    PROVE  {<<BukkitSlot(it.slot), it.id>> : it \in at[b].gear}
                             = (IF TraceOf(b).inventory = None THEN {}
                                ELSE {<<it.slot, it.id>> : it \in TraceOf(b).inventory})
        BY DEF InventoryArrives
      <4>. DEFINE inv == TraceOf(b).inventory
      <4>1. at[b] = PlayerNBT(TraceOf(b).origin, inv, b) /\ pc = "replay"
        BY <1>3, <2>1, AsPlaced
      <4>2. at[b].gear = IF inv = None THEN {} ELSE InventoryNBT(inv)
        BY <4>1 DEF PlayerNBT
      <4>3. InSlots(inv)
        <5>1. IsSeq(job.traces) /\ Len(job.traces) # 0 /\ b \in Nat
          BY <1>3, <4>1, Bots DEF Settled, Planned, Online
        <5>2. (b % Len(job.traces)) + 1 \in DOMAIN job.traces
          <6>1. Len(job.traces) \in Nat \ {0} /\ DOMAIN job.traces = 1 .. Len(job.traces)
            BY <5>1, SeqIs
          <6>2. (b % Len(job.traces)) + 1 \in 1 .. Len(job.traces)
            BY <5>1, <6>1, Turns
          <6>. QED BY <6>1, <6>2
        <5>. QED BY <1>3, <5>2 DEF Carrying, TraceOf
      <4>. HIDE DEF inv
      <4>4. CASE inv = None
        BY <4>2, <4>4 DEF inv
      <4>5. CASE inv # None
        <5>1. \A it \in inv : NbtSlot(it.slot) # None /\ BukkitSlot(NbtSlot(it.slot)) = it.slot
          BY <4>3, <4>5, SlotBack DEF InSlots
        <5>2. at[b].gear = {[slot |-> NbtSlot(it.slot), id |-> it.id, count |-> IF it.count < 1 THEN 1 ELSE it.count] :
                              it \in inv}
          <6>1. {x \in inv : NbtSlot(x.slot) # None} = inv
            BY <5>1
          <6>. QED BY <4>2, <4>5, <6>1 DEF InventoryNBT
        <5>. DEFINE g == at[b].gear
        <5>. HIDE DEF g
        <5>3. {<<BukkitSlot(it.slot), it.id>> : it \in g} = {<<it.slot, it.id>> : it \in inv}
          <6>. DEFINE F(it) == [slot |-> NbtSlot(it.slot), id |-> it.id, count |-> IF it.count < 1 THEN 1 ELSE it.count]
          <6>1. g = {F(it) : it \in inv}
            BY <5>2 DEF g
          <6>2. \A it \in inv : <<BukkitSlot(F(it).slot), F(it).id>> = <<it.slot, it.id>>
            BY <5>1
          <6>. HIDE DEF F
          <6>. QED BY <6>1, <6>2
        <5>. QED BY <4>5, <5>3 DEF inv, g
      <4>. QED BY <4>4, <4>5 DEF inv
    <3>. QED BY <3>1, <3>2 DEF GearGoesToItsOwner
  <2>2. CASE a # <<>>
    <3>1. pc \in {"place", "replay"}
      BY <1>3, <2>2 DEF Settled, Planned, NoJob
    <3>2. /\ IsSeq(job.hashes) /\ Len(job.hashes) = Len(job.traces) /\ a = AssignImports(job.hashes, f)
          /\ IsSeq(job.traces)
      BY <1>3, <2>2, <3>1 DEF Settled, Planned
    <3>3. PICK m \in PlayerMaps : f = LoadImportDir(Imports, 0, m)
      BY <1>3, <2>2, <3>1 DEF Settled, Planned
    <3>4. IsSeq(f)
      <4>1. f = [j \in DOMAIN Imports |-> f[j]]
        BY <3>3 DEF LoadImportDir
      <4>. HIDE DEF f
      <4>. QED BY <4>1, SeqLike, PipelineAssumption
    <3>5. \A i, j \in DOMAIN f : f[i].hash # None /\ (f[i].hash = f[j].hash => i = j)
      BY <3>3 DEF ImportsApart
    <3>6. None \notin Nat
      OBVIOUS
    <3>. DEFINE h == job.hashes
    <3>7. /\ DOMAIN a = DOMAIN h
          /\ \A n, k \in DOMAIN a : n # k /\ a[n] # None => a[n] # a[k]
          /\ \A n \in DOMAIN a, j \in DOMAIN f :
              /\ None \notin Nat /\ h[n] # None /\ f[j].hash = h[n]
              /\ \A i \in DOMAIN f : f[i].hash = f[j].hash => i = j
              => \E k \in DOMAIN a : a[k] = j /\ h[k] = h[n]
      <4>1. IsSeq(h) /\ IsSeq(f) /\ a = AssignImports(h, f)
        BY <3>2, <3>4
      <4>. HIDE DEF a, f, h
      <4>2. DOMAIN a = DOMAIN h
        BY <4>1, Assigned
      <4>3. \A n, k \in DOMAIN a : n # k /\ a[n] # None => a[n] # a[k]
        BY <4>1, Assigned
      <4>4. \A n \in DOMAIN a, j \in DOMAIN f :
              /\ None \notin Nat /\ h[n] # None /\ f[j].hash = h[n]
              /\ \A i \in DOMAIN f : f[i].hash = f[j].hash => i = j
              => \E k \in DOMAIN a : a[k] = j /\ h[k] = h[n]
        BY <4>1, Assigned
      <4>. QED BY <4>2, <4>3, <4>4
    <3>8. ASSUME NEW n \in DOMAIN a, NEW j \in DOMAIN f, f[j].hash = h[n]
          PROVE  \E k \in DOMAIN a : a[k] = j /\ h[k] = h[n]
      <4>1. h[n] # None /\ \A i \in DOMAIN f : f[i].hash = f[j].hash => i = j
        BY <3>5, <3>8
      <4>. HIDE DEF a, f, h
      <4>. QED BY <3>6, <3>7, <3>8, <4>1
    <3>9. ASSUME NEW b \in Online, b + 1 \in DOMAIN a, a[b + 1] # None, TraceOf(b).origin # None
          PROVE  at[b].gear = f[a[b + 1]].file.gear
      <4>1. b % Len(job.traces) = b
        <5>1. b \in Nat
          BY Bots DEF Online
        <5>2. Len(job.traces) \in Nat /\ b + 1 <= Len(job.traces)
          <6>1. Len(h) \in Nat /\ DOMAIN h = 1 .. Len(h) /\ Len(h) = Len(job.traces)
            BY <3>2, SeqIs
          <6>2. b + 1 \in DOMAIN h
            BY <3>7, <3>9
          <6>. HIDE DEF h
          <6>3. b + 1 <= Len(h)
            BY <5>1, <6>1, <6>2
          <6>. QED BY <6>1, <6>3
        <5>3. b < Len(job.traces)
          BY <5>1, <5>2
        <5>. QED BY <5>1, <5>2, <5>3, SmallRemainder
      <4>2. at[b] = ImportedNBT(f[a[b + 1]].file, TraceOf(b).origin, b)
        BY <1>3, <2>2, <3>9, <4>1, AsPlaced
      <4>. QED BY <4>2 DEF ImportedNBT
    <3>10. InventoryArrives
      BY <2>2 DEF InventoryArrives
    <3>. QED BY <3>7, <3>8, <3>9, <3>10 DEF GearGoesToItsOwner
  <2>. QED BY <2>1, <2>2
<1>. QED BY <1>1, <1>2, <1>3, SpecSettled, PTL DEF Spec

-----------------------------------------------------------------------------
(* What a copy keeps of its source                                          *)

IsEvent(e) == e = [off |-> e.off, kind |-> e.kind, data |-> e.data]

\* What is written is read back: the differences of the offsets sum up to them.
LEMMA RoundTrip ==
  ASSUME NEW t, t.schema = 3, IsSeq(t.events),
         \A i \in DOMAIN t.events : t.events[i].off \in Int /\ IsEvent(t.events[i])
  PROVE  LET r == ReadTrace(Write(t)) IN r.events = t.events /\ r.duration = t.duration
<1>. DEFINE es == t.events
            N == Len(es)
            f == Write(t)
            fs == f.events
            Sums(g) == g = [i \in 0 .. N |-> IF i = 0 THEN 0 ELSE g[i - 1] + fs[i].off]
            sum == CHOOSE g : Sums(g)
            own == [i \in 0 .. N |-> IF i = 0 THEN 0 ELSE es[i].off]
<1>1. N \in Nat /\ DOMAIN es = 1 .. N
  BY SeqIs
<1>2. /\ DOMAIN fs = 1 .. N
      /\ \A i \in 1 .. N : fs[i] = [es[i] EXCEPT !.off = @ - (IF i = 1 THEN 0 ELSE es[i - 1].off)]
  BY <1>1 DEF Write
<1>3. /\ fs = [i \in 1 .. N |-> fs[i]]
  <2>1. fs = [i \in DOMAIN es |-> fs[i]]
    BY DEF Write
  <2>. HIDE DEF es, fs
  <2>. QED BY <1>1, <2>1
<1>4. Len(fs) = N
  <2>. HIDE DEF fs, N
  <2>. QED BY <1>1, <1>3, IsSeqFn
<1>5. ASSUME NEW i \in 1 .. N
      PROVE  /\ own[i] = own[i - 1] + fs[i].off /\ own[i] = es[i].off /\ i - 1 \in 0 .. N
             /\ \A x : [fs[i] EXCEPT !.off = x] = [off |-> x, kind |-> es[i].kind, data |-> es[i].data]
             /\ es[i] = [off |-> es[i].off, kind |-> es[i].kind, data |-> es[i].data]
  <2>1. es[i] = [off |-> es[i].off, kind |-> es[i].kind, data |-> es[i].data] /\ es[i].off \in Int
    BY <1>1 DEF IsEvent
  <2>2. i - 1 \in 0 .. N /\ (i # 1 => i - 1 \in 1 .. N)
    BY <1>1
  <2>3. own[i] = es[i].off /\ own[i - 1] = (IF i = 1 THEN 0 ELSE es[i - 1].off)
    <3>1. i \in 0 .. N /\ i # 0 /\ (i - 1 = 0 <=> i = 1)
      BY <1>1
    <3>. HIDE DEF es, N
    <3>. QED BY <2>2, <3>1
  <2>4. own[i - 1] \in Int
    <3>1. i # 1 => es[i - 1].off \in Int
      BY <1>1, <2>2
    <3>. HIDE DEF es, own
    <3>. QED BY <2>3, <3>1
  <2>5. fs[i] = [off |-> es[i].off - own[i - 1], kind |-> es[i].kind, data |-> es[i].data]
    <3>. HIDE DEF es, fs, own
    <3>. QED BY <1>2, <2>1, <2>3
  <2>6. own[i] = own[i - 1] + fs[i].off
    <3>. HIDE DEF es, fs, own
    <3>. QED BY <2>1, <2>3, <2>4, <2>5
  <2>. HIDE DEF es, fs, own
  <2>. QED BY <2>1, <2>2, <2>3, <2>5, <2>6
<1>6. Sums(sum)
  <2>1. Sums(own)
    <3>1. \A i \in 0 .. N : own[i] = IF i = 0 THEN 0 ELSE own[i - 1] + fs[i].off
      <4>1. ASSUME NEW i \in 0 .. N, i # 0 PROVE own[i] = own[i - 1] + fs[i].off
        <5>1. i \in 1 .. N
          BY <1>1, <4>1
        <5>. QED BY <1>5, <5>1
      <4>2. own[0] = 0
        BY <1>1
      <4>. HIDE DEF own
      <4>. QED BY <4>1, <4>2
    <3>2. own = [i \in 0 .. N |-> own[i]]
      OBVIOUS
    <3>. HIDE DEF own, fs, N
    <3>. QED BY <3>1, <3>2
  <2>. HIDE DEF Sums
  <2>. QED BY <2>1
<1>7. \A i \in 0 .. N : sum[i] = IF i = 0 THEN 0 ELSE sum[i - 1] + fs[i].off
  <2>. HIDE DEF sum, fs, N
  <2>. QED BY <1>6
<1>8. \A i \in 0 .. N : sum[i] = own[i]
  <2>. DEFINE G == {i \in 0 .. N : sum[i] = own[i]}
  <2>. HIDE DEF sum, Sums
  <2>1. 0 \in G
    BY <1>1, <1>7
  <2>2. ASSUME NEW n \in 0 .. N - 1, n \in G PROVE n + 1 \in G
    <3>1. n + 1 \in 1 .. N /\ n + 1 \in 0 .. N /\ (n + 1) - 1 = n /\ n + 1 # 0
      BY <1>1
    <3>2. sum[n] = own[n]
      BY <2>2
    <3>. HIDE DEF own, fs, N
    <3>3. own[n + 1] = own[n] + fs[n + 1].off
      BY <1>5, <3>1
    <3>4. sum[n + 1] = sum[n] + fs[n + 1].off
      BY <1>7, <3>1
    <3>. QED BY <3>1, <3>2, <3>3, <3>4
  <2>3. \A n \in 0 .. N : n \in G
    <3>. HIDE DEF G, N
    <3>. QED BY <1>1, <2>1, <2>2, UpTo
  <2>. QED BY <2>3
<1>. DEFINE r == ReadTrace(f)
<1>9. r.events = [i \in DOMAIN fs |-> [fs[i] EXCEPT !.off = sum[i]]]
  <2>1. r.events = [i \in DOMAIN fs |-> [fs[i] EXCEPT !.off = (CHOOSE g :
           g = [j \in 0 .. Len(fs) |-> IF j = 0 THEN 0 ELSE g[j - 1] + fs[j].off])[i]]]
    BY DEF ReadTrace
  <2>. HIDE DEF fs, N
  <2>. QED BY <1>4, <2>1
<1>10. ASSUME NEW i \in 1 .. N PROVE [fs[i] EXCEPT !.off = sum[i]] = es[i]
  <2>1. sum[i] = es[i].off
    <3>1. i \in 0 .. N
      BY <1>1
    <3>. HIDE DEF sum, own, es, N
    <3>. QED BY <1>5, <1>8, <3>1
  <2>2. /\ \A x : [fs[i] EXCEPT !.off = x] = [off |-> x, kind |-> es[i].kind, data |-> es[i].data]
        /\ es[i] = [off |-> es[i].off, kind |-> es[i].kind, data |-> es[i].data]
    <3>. HIDE DEF own, fs, es, N
    <3>. QED BY <1>5
  <2>. HIDE DEF sum, own, fs, es, N
  <2>3. [fs[i] EXCEPT !.off = sum[i]] = [off |-> sum[i], kind |-> es[i].kind, data |-> es[i].data]
    BY <2>2
  <2>. QED BY <2>1, <2>2, <2>3
<1>11. r.events = es
  <2>1. es = [i \in 1 .. N |-> es[i]]
    BY DEF IsSeq
  <2>. HIDE DEF sum, fs, es, N
  <2>. QED BY <1>2, <1>9, <1>10, <2>1
<1>12. r.duration = t.duration
  BY DEF ReadTrace, Write
<1>. QED BY <1>11, <1>12

\* The generator yields numbers, however long the trace is.
IsDraw(draw) ==
  /\ draw.delay \in Nat /\ draw.dx \in Nat
  /\ \A k \in Nat : draw.jitter[k] \in Nat /\ draw.vary[k] \in Nat

\* What is made of a number of the generator stays within its bounds.
LEMMA Drawn ==
  ASSUME NEW r \in Nat, NEW n \in Nat
  PROVE  Span(r, n) \in (0 - n) .. n /\ Upto(r, n) \in 0 .. n
<1>1. \A m \in Nat \ {0} : r % m \in 0 .. m - 1
  BY SMT
<1>2. CASE n = 0
  BY <1>2 DEF Span, Upto
<1>3. CASE n # 0
  <2>1. 2 * n + 1 \in Nat \ {0} /\ n + 1 \in Nat \ {0}
    OBVIOUS
  <2>. DEFINE a == r % (2 * n + 1)
              b == r % (n + 1)
  <2>2. a \in 0 .. 2 * n /\ b \in 0 .. n
    BY <1>1, <2>1
  <2>3. Span(r, n) = a - n /\ Upto(r, n) = b
    BY <1>3 DEF Span, Upto
  <2>. HIDE DEF a, b
  <2>. QED BY <2>2, <2>3
<1>. QED BY <1>2, <1>3

\* An amount varies to an amount, and from at least one to at least one.
LEMMA Varied ==
  ASSUME NEW n \in Nat, NEW r \in Nat
  PROVE  n >= 1 => VaryNumbers(n, r) >= 1
<1>. DEFINE w == (n * VaryPercent) \div 100
            v == n + Span(r, w)
<1>1. w \in Nat
  <2>1. n * VaryPercent \in Nat
    BY AmplifyAssumption
  <2>2. \A k \in Nat : k \div 100 \in Nat
    BY SMT
  <2>. QED BY <2>1, <2>2
<1>. HIDE DEF w
<1>2. v \in Int
  BY <1>1, Drawn
<1>3. VaryNumbers(n, r) = IF n = 0 THEN n ELSE IF v < 1 THEN 1 ELSE v
  BY DEF VaryNumbers, w
<1>. HIDE DEF v
<1>. QED BY <1>2, <1>3

\* A copy is the source's events, delayed by one delay, jittered, shifted and put
\* in order.
LEMMA CopyIs ==
  ASSUME None \notin Int, NEW src, Timed(src), NEW draw, IsDraw(draw),
         NEW t, t = ReadTrace(Write(AmplifyTrace(src, draw)))
  PROVE  CopyOf(t, src)
<1>. DEFINE D == DOMAIN src.events
            N == Len(src.events)
            d == Upto(draw.delay, StartJitter)
            dx == Span(draw.dx, SpaceSpread)
            moved == [i \in D |->
                        [off  |-> Larger(0, src.events[i].off + d + Span(draw.jitter[i], EventJitter)),
                         kind |-> src.events[i].kind,
                         data |-> TransformPayload(src.events[i].kind, src.events[i].data, dx, draw.vary[i])]]
            key == [i \in DOMAIN moved |-> moved[i].off]
            sorted == StableSort(moved, key)
            am == AmplifyTrace(src, draw)
<1>0. /\ IsSeq(src.events) /\ N \in Nat /\ D = 1 .. N /\ src.duration \in Int
      /\ {StartJitter, EventJitter, SpaceSpread, VaryPercent} \subseteq Nat
      /\ d \in 0 .. StartJitter /\ dx \in (0 - SpaceSpread) .. SpaceSpread
  <2>1. IsSeq(src.events) /\ N \in Nat /\ D = 1 .. N /\ src.duration \in Int
    BY SeqIs DEF Timed
  <2>2. {StartJitter, EventJitter, SpaceSpread, VaryPercent} \subseteq Nat
    BY AmplifyAssumption
  <2>3. d \in 0 .. StartJitter /\ dx \in (0 - SpaceSpread) .. SpaceSpread
    BY <2>2, Drawn DEF IsDraw
  <2>. QED BY <2>1, <2>2, <2>3
<1>1. am.schema = 3 /\ am.events = sorted
      /\ am.duration = Larger(src.duration + d, IF sorted = <<>> THEN 0 ELSE sorted[Len(sorted)].off)
  BY DEF AmplifyTrace, SchemaVersion
<1>. HIDE DEF am, d, dx
<1>2. ASSUME NEW i \in D
      PROVE  /\ IsEvent(moved[i]) /\ moved[i].off \in Int /\ moved[i].kind = src.events[i].kind
             /\ moved[i].off <= src.events[i].off + d + EventJitter
             /\ moved[i].off + EventJitter >= src.events[i].off + d
             /\ moved[i].kind = "dig" => moved[i].data = src.events[i].data + dx
             /\ moved[i].kind = "cmd" /\ src.events[i].data >= 1 => moved[i].data >= 1
  <2>. DEFINE e == src.events[i]
              j == Span(draw.jitter[i], EventJitter)
              o == Larger(0, e.off + d + j)
              x == TransformPayload(e.kind, e.data, dx, draw.vary[i])
  <2>0. moved[i] = [off |-> o, kind |-> e.kind, data |-> x]
    OBVIOUS
  <2>1. i \in Nat /\ e.off \in Nat /\ HasData(e.kind, e.data)
    BY <1>0 DEF Timed
  <2>2. j \in (0 - EventJitter) .. EventJitter /\ draw.vary[i] \in Nat
    BY <1>0, <2>1, Drawn DEF IsDraw
  <2>3. e.kind = "dig" => x = e.data + dx
    BY <2>1 DEF TransformPayload, HasData
  <2>4. e.kind = "cmd" /\ e.data >= 1 => x >= 1
    <3>1. CASE e.kind = "cmd" /\ VaryPercent > 0
      BY <2>1, <2>2, <3>1, Varied DEF TransformPayload, HasData
    <3>2. CASE e.kind = "cmd" /\ ~(VaryPercent > 0)
      BY <3>2 DEF TransformPayload
    <3>. QED BY <3>1, <3>2
  <2>. HIDE DEF e, j, x, moved
  <2>5. o \in Int /\ o <= e.off + d + EventJitter /\ o + EventJitter >= e.off + d
    BY <1>0, <2>1, <2>2, SMTT(30) DEF Larger
  <2>. HIDE DEF o
  <2>6. moved[i].off = o /\ moved[i].kind = e.kind /\ moved[i].data = x /\ IsEvent(moved[i])
    BY <2>0 DEF IsEvent
  <2>. QED BY <2>3, <2>4, <2>5, <2>6 DEF e
<1>3. IsSeq(moved) /\ Len(moved) = N /\ DOMAIN moved = D
  <2>1. moved = [i \in D |-> moved[i]]
    OBVIOUS
  <2>. HIDE DEF moved
  <2>. QED BY <1>0, <2>1, SeqLike
<1>. HIDE DEF moved
<1>. DEFINE E == Range(moved)
<1>4. moved \in Seq(E) /\ \A x \in E : IsEvent(x) /\ x.off \in Int
  <2>1. \A x \in E : \E i \in D : x = moved[i]
    BY <1>3 DEF Range
  <2>. QED BY <1>2, <1>3, <2>1, SeqIs
<1>5. key \in [DOMAIN moved -> Int]
  BY <1>2, <1>3
<1>. HIDE DEF E
<1>6. /\ sorted \in Seq(E) /\ Len(sorted) = N
      /\ \E p \in Bijection(1 .. N, 1 .. N) :
           /\ \A n \in 1 .. N : sorted[n] = moved[p[n]]
           /\ \A n, m \in 1 .. N : n < m => Before(key, p[n], p[m])
  <2>. HIDE DEF key
  <2>1. /\ sorted \in Seq(E) /\ Len(sorted) = Len(moved)
        /\ \E p \in Bijection(1 .. Len(moved), 1 .. Len(moved)) :
             /\ \A n \in 1 .. Len(moved) : sorted[n] = moved[p[n]]
             /\ \A n, m \in 1 .. Len(moved) : n < m => Before(key, p[n], p[m])
    BY <1>4, <1>5, SortedBy
  <2>. HIDE DEF sorted, N
  <2>. QED BY <1>3, <2>1
<1>7. PICK p \in Bijection(D, D) :
           /\ \A n \in D : sorted[n] = moved[p[n]]
           /\ \A n, m \in D : n < m => Before(key, p[n], p[m])
  <2>. HIDE DEF sorted, key, D, N
  <2>. QED BY <1>0, <1>6
<1>8. IsSeq(sorted) /\ DOMAIN sorted = D /\ \A k \in D : IsEvent(sorted[k]) /\ sorted[k].off \in Int
  <2>. HIDE DEF sorted, D, N
  <2>1. IsSeq(sorted) /\ \A k \in DOMAIN sorted : sorted[k] \in E
    BY <1>6, IsSeqOf
  <2>2. DOMAIN sorted = D
    BY <1>0, <1>6, <2>1, SeqIs
  <2>. QED BY <1>4, <2>1, <2>2
<1>9. t.events = sorted /\ t.duration = am.duration
  <2>. HIDE DEF sorted, D
  <2>. QED BY <1>1, <1>8, RoundTrip DEF am
<1>10. /\ p \in [D -> D] /\ \A k, l \in D : p[k] = p[l] => k = l
       /\ \A i \in D : \E k \in D : p[k] = i
  <2>. HIDE DEF D
  <2>. QED BY <1>7 DEF Bijection, Injection, Surjection, IsInjective
<1>11. ASSUME NEW k \in D, NEW l \in D, k < l PROVE sorted[k].off <= sorted[l].off
  <2>1. Before(key, p[k], p[l]) /\ p[k] \in D /\ p[l] \in D
    BY <1>7, <1>10, <1>11
  <2>2. key[p[k]] = sorted[k].off /\ key[p[l]] = sorted[l].off
    <3>. HIDE DEF sorted
    <3>. QED BY <1>3, <1>7, <2>1
  <2>3. sorted[k].off \in Int /\ sorted[l].off \in Int
    BY <1>8
  <2>. HIDE DEF sorted, key
  <2>. QED BY <2>1, <2>2, <2>3 DEF Before
<1>. HIDE DEF sorted, key
<1>12. ASSUME NEW k \in D
       PROVE  /\ sorted[k].kind = src.events[p[k]].kind
              /\ sorted[k].off <= src.events[p[k]].off + d + EventJitter
              /\ sorted[k].off + EventJitter >= src.events[p[k]].off + d
              /\ sorted[k].kind = "dig" => sorted[k].data = src.events[p[k]].data + dx
              /\ sorted[k].kind = "cmd" /\ src.events[p[k]].data >= 1 => sorted[k].data >= 1
  <2>1. sorted[k] = moved[p[k]] /\ p[k] \in D
    BY <1>7, <1>10
  <2>. QED BY <1>2, <2>1
<1>. HIDE DEF D, N
<1>13. t.duration >= src.duration + d /\ (t.events # <<>> => t.events[Len(t.events)].off <= t.duration)
  <2>1. CASE sorted = <<>>
    BY <1>0, <1>1, <1>9, <2>1 DEF Larger
  <2>2. CASE sorted # <<>>
    <3>1. Len(sorted) \in D
      BY <1>8, <2>2, SeqIs, NotEmpty
    <3>2. sorted[Len(sorted)].off \in Int
      BY <1>8, <3>1
    <3>. QED BY <1>0, <1>1, <1>9, <2>2, <3>2 DEF Larger
  <2>. QED BY <2>1, <2>2
<1>14. \A k \in 1 .. (Len(t.events) - 1) : t.events[k].off <= t.events[k + 1].off
  <2>. SUFFICES ASSUME NEW k \in 1 .. (N - 1) PROVE sorted[k].off <= sorted[k + 1].off
    BY <1>6, <1>9
  <2>1. k \in D /\ k + 1 \in D /\ k < k + 1
    BY <1>0
  <2>. QED BY <1>11, <2>1
<1>15. LET blocks(y) == {i \in DOMAIN y.events : y.events[i].kind = "dig"}
           dataOf(y) == {y.events[i].data : i \in blocks(y)}
       IN  dataOf(t) = {b + dx : b \in dataOf(src)}
  <2>. DEFINE A == {k \in D : sorted[k].kind = "dig"}
              B == {i \in D : src.events[i].kind = "dig"}
  <2>1. \A k \in A : p[k] \in B /\ sorted[k].data = src.events[p[k]].data + dx
    BY <1>10, <1>12
  <2>2. \A i \in B : \E k \in A : sorted[k].data = src.events[i].data + dx
    <3>1. ASSUME NEW i \in B PROVE \E k \in A : sorted[k].data = src.events[i].data + dx
      <4>1. PICK k \in D : p[k] = i
        BY <1>10
      <4>. QED BY <1>12, <4>1
    <3>. QED BY <3>1
  <2>. HIDE DEF A, B
  <2>3. {sorted[k].data : k \in A} = {b + dx : b \in {src.events[i].data : i \in B}}
    BY <2>1, <2>2
  <2>. QED BY <1>8, <1>9, <2>3 DEF A, B, D
<1>16. \E q \in {g \in [DOMAIN t.events -> DOMAIN src.events] : IsInjective(g)} :
         \A k \in DOMAIN t.events :
            LET off == src.events[q[k]].off + d IN
            /\ t.events[k].kind = src.events[q[k]].kind
            /\ t.events[k].off <= off + EventJitter
            /\ t.events[k].off + EventJitter >= off
            /\ t.events[k].kind = "cmd" /\ src.events[q[k]].data >= 1 => t.events[k].data >= 1
  <2>1. DOMAIN t.events = D /\ DOMAIN src.events = D
    BY <1>8, <1>9 DEF D
  <2>2. p \in [D -> D] /\ IsInjective(p)
    BY <1>10 DEF IsInjective
  <2>3. p \in {g \in [DOMAIN t.events -> DOMAIN src.events] : IsInjective(g)}
    BY <2>1, <2>2
  <2>4. \A k \in DOMAIN t.events :
            LET off == src.events[p[k]].off + d IN
            /\ t.events[k].kind = src.events[p[k]].kind
            /\ t.events[k].off <= off + EventJitter
            /\ t.events[k].off + EventJitter >= off
            /\ t.events[k].kind = "cmd" /\ src.events[p[k]].data >= 1 => t.events[k].data >= 1
    BY <1>9, <1>12, <2>1
  <2>. QED BY <2>3, <2>4
<1>17. Len(t.events) = Len(src.events)
  BY <1>6, <1>9 DEF N
<1>. QED BY <1>0, <1>13, <1>14, <1>15, <1>16, <1>17 DEF CopyOf

AreTimed(dir) == \A n \in DOMAIN dir.files : Readable(dir.files[n]) => Timed(ReadTrace(dir.files[n]))

\* The compiler's events come after the first of their session.
LEMMA WrittenTimed ==
  ASSUME NEW s, IsSession(s), ~ Dropped(InTimeOrder(s)),
         NEW f, f = Write(CompileTrace(InTimeOrder(s)))
  PROVE  Timed(ReadTrace(f))
<1>. DEFINE E == Range(s)
            evs == InTimeOrder(s)
            times == [i \in DOMAIN s |-> s[i].t]
            N == Len(s)
<1>1. /\ s \in Seq(E) /\ DOMAIN s = 1 .. N /\ N \in Nat /\ N # 0
      /\ \A e \in E : e.t \in Nat /\ HasData(e.kind, e.at)
  BY SeqIs, NotEmpty DEF IsSession, Captured, Range
<1>2. /\ evs \in Seq(E) /\ Len(evs) = N
      /\ \E p \in Bijection(1 .. N, 1 .. N) :
           /\ \A n \in 1 .. N : evs[n] = s[p[n]]
           /\ \A n, m \in 1 .. N : n < m => Before(times, p[n], p[m])
  <2>1. times \in [DOMAIN s -> Int]
    <3>1. \A i \in DOMAIN s : s[i].t \in Int
      BY DEF IsSession, Captured
    <3>. QED BY <3>1
  <2>2. evs = StableSort(s, times)
    BY DEF InTimeOrder
  <2>. HIDE DEF E, evs, times
  <2>. QED BY <1>1, <2>1, <2>2, SortedBy
<1>. HIDE DEF evs, E
<1>3. DOMAIN evs = 1 .. N /\ \A i \in 1 .. N : evs[i] \in E
  <2>1. DOMAIN evs = 1 .. Len(evs)
    BY <1>2, LenProperties
  <2>. HIDE DEF N
  <2>. QED BY <1>2, <2>1, IsSeqOf
<1>4. ASSUME NEW i \in 1 .. N PROVE evs[1].t <= evs[i].t
  <2>0. 1 \in 1 .. N /\ evs[1].t \in Nat
    BY <1>1, <1>3
  <2>1. CASE i = 1
    BY <2>0, <2>1
  <2>2. CASE i # 1
    <3>1. PICK p \in Bijection(1 .. N, 1 .. N) :
            /\ \A n \in 1 .. N : evs[n] = s[p[n]]
            /\ \A n, m \in 1 .. N : n < m => Before(times, p[n], p[m])
      BY <1>2
    <3>2. 1 < i
      BY <1>1, <2>2
    <3>3. Before(times, p[1], p[i])
      BY <2>0, <3>1, <3>2
    <3>4. p[1] \in DOMAIN s /\ p[i] \in DOMAIN s
      <4>. DEFINE D == 1 .. N
      <4>1. i \in D /\ 1 \in D /\ p \in Bijection(D, D)
        BY <2>0
      <4>. HIDE DEF D
      <4>2. p \in [D -> D]
        BY <4>1 DEF Bijection, Injection
      <4>. QED BY <1>1, <4>1, <4>2 DEF D
    <3>5. times[p[1]] = evs[1].t /\ times[p[i]] = evs[i].t
      BY <2>0, <3>1, <3>4
    <3>6. evs[1].t \in Int /\ evs[i].t \in Int
      BY <1>1, <1>3, <2>0
    <3>. HIDE DEF times
    <3>. QED BY <3>3, <3>5, <3>6 DEF Before
  <2>. QED BY <2>1, <2>2
<1>. DEFINE kept == Kept(evs)
            I == {i \in DOMAIN evs : /\ evs[i].t - evs[1].t <= MaxDuration
                                     /\ ~ (DropChat /\ evs[i].kind = "cmd")}
<1>5. IsSeq(kept) /\ kept # <<>> /\ \A k \in DOMAIN kept : \E i \in 1 .. N : kept[k] = evs[i]
  <2>1. kept = Entries(evs, I) /\ I \in SUBSET DOMAIN evs
    BY DEF Kept
  <2>2. kept # <<>>
    BY DEF Dropped, evs
  <2>. HIDE DEF kept, I
  <2>3. /\ kept \in Seq(E) /\ Len(kept) = Cardinality(I)
        /\ \A k \in 1 .. Cardinality(I) : Nth(I, k) \in I /\ kept[k] = evs[Nth(I, k)]
    BY <1>2, <2>1, EntriesIn
  <2>4. IsSeq(kept) /\ DOMAIN kept = 1 .. Cardinality(I)
    BY <2>3, IsSeqOf, LenProperties
  <2>5. \A k \in DOMAIN kept : Nth(I, k) \in 1 .. N
    BY <1>3, <2>1, <2>3, <2>4
  <2>. QED BY <2>2, <2>3, <2>4, <2>5
<1>. HIDE DEF kept
<1>6. \A k \in DOMAIN kept : /\ kept[k].t - evs[1].t \in Nat /\ HasData(kept[k].kind, kept[k].at)
  <2>1. ASSUME NEW i \in 1 .. N PROVE evs[i].t - evs[1].t \in Nat /\ HasData(evs[i].kind, evs[i].at)
    <3>1. evs[i].t \in Nat /\ evs[1].t \in Nat /\ HasData(evs[i].kind, evs[i].at)
      <4>1. 1 \in 1 .. N
        BY <1>1
      <4>. QED BY <1>1, <1>3, <4>1
    <3>. QED BY <1>4, <3>1
  <2>. QED BY <1>5, <2>1
<1>. DEFINE t  == CompileTrace(evs)
            es == t.events
<1>7. /\ t.schema = 3 /\ t.duration = kept[Len(kept)].t - evs[1].t
      /\ es = [k \in DOMAIN kept |-> [off |-> kept[k].t - evs[1].t, kind |-> kept[k].kind, data |-> kept[k].at]]
  BY DEF CompileTrace, SchemaVersion, kept
<1>8. IsSeq(es) /\ DOMAIN es = DOMAIN kept
  <2>1. es = [i \in DOMAIN kept |-> es[i]]
    BY <1>7
  <2>. HIDE DEF es
  <2>. QED BY <1>5, <2>1, SeqLike
<1>9. \A k \in DOMAIN es : es[k].off \in Nat /\ IsEvent(es[k]) /\ HasData(es[k].kind, es[k].data)
  <2>. HIDE DEF es
  <2>. QED BY <1>6, <1>7, <1>8 DEF IsEvent
<1>10. t.duration \in Int
  <2>1. Len(kept) \in DOMAIN kept
    BY <1>5, SeqIs, NotEmpty
  <2>. QED BY <1>6, <1>7, <2>1
<1>. HIDE DEF t
<1>11. ReadTrace(Write(t)).events = es /\ ReadTrace(Write(t)).duration = t.duration
  BY <1>7, <1>8, <1>9, RoundTrip
<1>12. f = Write(t)
  BY DEF t, evs
<1>. HIDE DEF es
<1>. QED BY <1>8, <1>9, <1>10, <1>11, <1>12 DEF Timed

\* The compiler puts nothing else into its directory.
LEMMA StepTimed ==
  ASSUME Types, Captive, AreTimed(out), [Next]_vars
  PROVE  AreTimed(out)'
<1>0. /\ IsDir(out) /\ Len(lines) <= Len(out.files) /\ Len(lines) \in Nat /\ Len(out.files) \in Nat
  BY SeqIs DEF Types, IsDir
<1>a. ASSUME out' = out PROVE AreTimed(out)'
  BY <1>a DEF AreTimed
<1>b. ASSUME NEW f, f = None \/ Timed(ReadTrace(f)), out' = PutFile(out, Len(lines) + 1, f)
      PROVE  AreTimed(out)'
  <2>. DEFINE n == Len(lines) + 1
              d == PutFile(out, n, f)
  <2>1. n \in 1 .. Len(out.files) + 1
    BY <1>0
  <2>2. d.files[n] = f /\ DOMAIN d.files = DOMAIN out.files \cup {n}
    <3>. HIDE DEF n
    <3>. QED BY <1>0, <2>1, Put
  <2>3. \A j \in DOMAIN out.files : j # n => d.files[j] = out.files[j]
    <3>. HIDE DEF n
    <3>. QED BY <1>0, <2>1, Put
  <2>4. out' = d
    BY <1>b
  <2>. HIDE DEF d, n
  <2>. QED BY <1>b, <2>2, <2>3, <2>4 DEF AreTimed, Readable
<1>1. CASE CompileSession
  <2>. DEFINE evs == InTimeOrder(Head(todo))
              f == Write(CompileTrace(evs))
  <2>1. \/ out' = out
        \/ out' = PutFile(out, Len(lines) + 1, f) /\ ~ Dropped(evs)
    BY <1>1 DEF CompileSession
  <2>2. IsSession(Head(todo))
    <3>1. IsSeq(todo) /\ todo # <<>>
      BY <1>1 DEF CompileSession, Captive
    <3>2. Head(todo) = todo[1] /\ 1 \in DOMAIN todo
      BY <3>1, SeqIs, NotEmpty, HeadTailProperties
    <3>. QED BY <3>2 DEF Captive
  <2>3. ~ Dropped(evs) => Timed(ReadTrace(f))
    BY <2>2, WrittenTimed
  <2>. HIDE DEF f, evs
  <2>. QED BY <1>a, <1>b, <2>1, <2>3
<1>2. CASE TraceWriteFails
  BY <1>2, <1>b DEF TraceWriteFails
<1>3. CASE Save \/ SaveFails
  <2>1. out = [files |-> out.files, manifest |-> out.manifest]
    BY <1>0 DEF IsDir
  <2>2. out'.files = out.files
    BY <1>3, <2>1 DEF Save, SaveFails
  <2>. QED BY <2>2 DEF AreTimed
<1>4. CASE Pass1 \/ Ship
  BY <1>4, <1>a DEF Pass1, Ship
<1>5. CASE Bench
  BY <1>5, <1>a DEF Bench, AmplifyRun, BeginRun, LogIn, RemoveAll, PlaceNext, PlaceFails, BeginReplay, EndRun,
         StartBench, StopBench, compileVars
<1>6. CASE UNCHANGED vars
  BY <1>6, <1>a DEF vars
<1>. QED BY <1>1, <1>2, <1>3, <1>4, <1>5, <1>6 DEF Next, CompileRun

DrawsAreNumbers == \A draws \in Draws : \A i \in DOMAIN draws : IsDraw(draws[i])

\* Every trace of a fleet is a varied copy of its source, and keeps its schedule
\* (amplify.go 66-106).
THEOREM CopiesKeepTheSchedule ==
  ASSUME None \notin Int, DrawsAreNumbers
  PROVE  Spec => AmplifiedSchedule
<1>1. Init => Captive /\ Carrying /\ AreTimed(out)
  <2>. SUFFICES ASSUME Init PROVE Captive /\ Carrying /\ AreTimed(out)
    OBVIOUS
  <2>1. Captive
    BY Nothing DEF Init, Captive
  <2>2. Names(EmptyDir) /\ Carries(EmptyDir)
    BY Nothing DEF Names, Carries, EmptyDir
  <2>3. Carrying
    BY <2>2, Nothing, PipelineAssumption DEF Init, Carrying, NoJob
  <2>4. AreTimed(out)
    BY Nothing, PipelineAssumption DEF Init, AreTimed, EmptyDir
  <2>. QED BY <2>1, <2>3, <2>4
<1>2. Settled /\ Captive /\ Carrying /\ AreTimed(out) /\ [Next]_vars => (Captive /\ Carrying /\ AreTimed(out))'
  BY StepCaptive, StepCarrying, StepTimed DEF Settled
<1>3. Settled /\ Carrying /\ AreTimed(out) /\ [Next]_vars => [fleet' # fleet => EveryCopy']_vars
  <2>. SUFFICES ASSUME Settled, Carrying, AreTimed(out), [Next]_vars, fleet' # fleet
                PROVE  EveryCopy'
    OBVIOUS
  <2>1. PICK draws \in Draws : AmplifyRun(draws)
    BY DEF Next, CompileRun, Ship, Pass1, CompileSession, TraceWriteFails, Save, SaveFails, benchVars, vars,
           Bench, BeginRun, LogIn, RemoveAll, PlaceNext, PlaceFails, BeginReplay, EndRun, StartBench, StopBench
  <2>2. fleet' = AmplifiedDir(out, draws) /\ out' = out /\ AllReadable(out) /\ IsDir(out)
    BY <2>1 DEF AmplifyRun, compileVars, Settled, Types
  <2>3. IsSeq(out.manifest) /\ Len(out.manifest) \in Nat \ {0} /\ DOMAIN out.manifest = 1 .. Len(out.manifest)
    <3>1. IsSeq(out.manifest) /\ out.manifest # <<>>
      BY <2>2 DEF AllReadable, Loadable, IsDir
    <3>. QED BY <3>1, SeqIs, NotEmpty
  <2>4. DOMAIN fleet'.manifest = DOMAIN draws /\ DOMAIN draws \subseteq Nat \ {0}
    <3>1. DOMAIN draws = 1 .. Len(draws) /\ Len(draws) \in Nat
      BY PipelineAssumption
    <3>. QED BY <2>2, <3>1 DEF AmplifiedDir
  <2>5. ASSUME NEW n \in DOMAIN draws
        PROVE  CopyOf(TraceAt(fleet', n), TraceAt(out, ((n - 1) % Len(out.manifest)) + 1))
    <3>. DEFINE k == ((n - 1) % Len(out.manifest)) + 1
                src == TraceAt(out, k)
    <3>1. k \in DOMAIN out.manifest
      <4>1. n - 1 \in Nat
        BY <2>4
      <4>. QED BY <2>3, <4>1, Turns
    <3>2. Timed(src)
      BY <2>2, <3>1 DEF AreTimed, AllReadable, Loadable, Carrying, Names, TraceAt
    <3>3. TraceAt(fleet', n) = ReadTrace(Write(AmplifyTrace(src, draws[n])))
      BY <2>2 DEF AmplifiedDir, TraceAt
    <3>4. IsDraw(draws[n])
      BY DEF DrawsAreNumbers
    <3>. HIDE DEF src
    <3>. QED BY <3>2, <3>3, <3>4, CopyIs DEF src
  <2>. QED BY <2>2, <2>4, <2>5 DEF EveryCopy
<1>. QED BY <1>1, <1>2, <1>3, SpecSettled, PTL DEF Spec, AmplifiedSchedule

-----------------------------------------------------------------------------
(* One trace for every visit                                                *)

\* A part that has all of a visit has it as it is in the whole.
LEMMA SameVisit ==
  ASSUME NEW E, NEW s \in Seq(E), NEW I \in SUBSET DOMAIN s, NEW v,
         \A i \in DOMAIN s : s[i].visit = v => i \in I
  PROVE  VisitIn(Entries(s, I), v) = VisitIn(s, v)
<1>. DEFINE t == Entries(s, I)
            J == {j \in DOMAIN t : t[j].visit = v}
            K == {Nth(I, j) : j \in J}
            V == {i \in DOMAIN s : s[i].visit = v}
<1>1. /\ IsFiniteSet(I) /\ I \in SUBSET Int /\ Cardinality(I) \in Nat
      /\ t \in Seq(E) /\ Len(t) = Cardinality(I)
      /\ \A n \in 1 .. Cardinality(I) : Nth(I, n) \in I /\ t[n] = s[Nth(I, n)]
  BY EntriesIn
<1>2. DOMAIN t = 1 .. Cardinality(I)
  <2>. HIDE DEF t
  <2>. QED BY <1>1, LenProperties
<1>3. K = V
  <2>1. ASSUME NEW j \in J PROVE Nth(I, j) \in V
    BY <1>1, <1>2
  <2>2. ASSUME NEW i \in V PROVE i \in K
    <3>. DEFINE n == Cardinality({j \in I : j <= i})
    <3>1. i \in I
      OBVIOUS
    <3>2. n \in 1 .. Cardinality(I) /\ Nth(I, n) = i
      BY <1>1, <3>1, NthIs
    <3>. HIDE DEF n
    <3>3. n \in J
      <4>1. t[n] = s[i] /\ s[i].visit = v
        BY <1>1, <3>2
      <4>. HIDE DEF t
      <4>. QED BY <1>2, <3>2, <4>1
    <3>. QED BY <3>2, <3>3
  <2>. QED BY <2>1, <2>2
<1>4. J \in SUBSET (1 .. Cardinality(I))
  BY <1>2
<1>. HIDE DEF J
<1>5. Entries(t, J) = Entries(s, K)
  BY <1>4, EntriesTwice
<1>. QED BY <1>3, <1>5 DEF VisitIn, J

\* s lists what val says of the members of K, each once.
Lists(s, K, val) ==
  \E g \in Bijection(1 .. Len(s), K) : \A n \in 1 .. Len(s) : s[n] = val[g[n]]

\* A bucket is taken apart into its visits.
LEMMA SessionsListed ==
  ASSUME NEW E, \A e \in E : Captured(e), NEW bucket \in Seq(E),
         \A i, j \in DOMAIN bucket :
           bucket[i].visit = bucket[j].visit <=> SessionKey(bucket[i]) = SessionKey(bucket[j]),
         NEW val, \A v \in VisitsIn(bucket) : val[v] = VisitIn(bucket, v)
  PROVE  Lists(SessionsIn(bucket), VisitsIn(bucket), val)
<1>. DEFINE I == Firsts(bucket)
            V == VisitsIn(bucket)
            ss == SessionsIn(bucket)
<1>0. DOMAIN bucket = 1 .. Len(bucket) /\ Len(bucket) \in Nat
  BY LenProperties
<1>1. PICK N \in Nat : \E o \in Bijection(1 .. N, I) : ss = [k \in 1 .. N |-> SessionOf(bucket, o[k])]
  BY SessionOrder
<1>2. PICK o \in Bijection(1 .. N, I) : ss = [k \in 1 .. N |-> SessionOf(bucket, o[k])]
  BY <1>1
<1>3. /\ \A n \in 1 .. N : o[n] \in I
      /\ \A n, m \in 1 .. N : o[n] = o[m] => n = m
      /\ \A i \in I : \E n \in 1 .. N : o[n] = i
  <2>. HIDE DEF I
  <2>. DEFINE D == 1 .. N
  <2>1. o \in Bijection(D, I)
    OBVIOUS
  <2>. HIDE DEF D
  <2>2. /\ \A n \in D : o[n] \in I
        /\ \A n, m \in D : o[n] = o[m] => n = m
        /\ \A i \in I : \E n \in D : o[n] = i
    BY <2>1, Fun_BijectionProperties
  <2>. QED BY <2>2 DEF D
<1>. DEFINE g == [n \in 1 .. N |-> bucket[o[n]].visit]
<1>4. g \in Bijection(1 .. N, V)
  <2>1. g \in [1 .. N -> V]
    BY <1>3 DEF VisitsIn, Firsts
  <2>2. ASSUME NEW n \in 1 .. N, NEW m \in 1 .. N, n # m PROVE bucket[o[n]].visit # bucket[o[m]].visit
    <3>1. o[n] \in I /\ o[m] \in I /\ o[n] # o[m] /\ o[n] \in 1 .. Len(bucket) /\ o[m] \in 1 .. Len(bucket)
      BY <1>0, <1>3, <2>2 DEF Firsts
    <3>2. SessionKey(bucket[o[n]]) # SessionKey(bucket[o[m]])
      <4>1. CASE o[n] < o[m]
        <5>1. o[n] \in 1 .. (o[m] - 1)
          BY <3>1, <4>1
        <5>. QED BY <3>1, <5>1 DEF Firsts
      <4>2. CASE o[m] < o[n]
        <5>1. o[m] \in 1 .. (o[n] - 1)
          BY <3>1, <4>2
        <5>. QED BY <3>1, <5>1 DEF Firsts
      <4>3. o[n] < o[m] \/ o[m] < o[n]
        BY <3>1
      <4>. QED BY <4>1, <4>2, <4>3
    <3>. QED BY <1>0, <3>1, <3>2
  <2>3. ASSUME NEW v \in V PROVE \E n \in 1 .. N : bucket[o[n]].visit = v
    <3>1. PICK i \in DOMAIN bucket : bucket[i].visit = v
      BY DEF VisitsIn
    <3>. DEFINE S == {j \in DOMAIN bucket : SessionKey(bucket[j]) = SessionKey(bucket[i])}
                m == Min(S)
    <3>2. S \in SUBSET Nat /\ i \in S
      BY <1>0
    <3>3. m \in S /\ \A x \in S : m <= x
      <4>. HIDE DEF S
      <4>. QED BY <3>2, MinIs
    <3>. HIDE DEF m
    <3>4. m \in I
      <4>. SUFFICES ASSUME NEW j \in 1 .. (m - 1), SessionKey(bucket[j]) = SessionKey(bucket[m])
                    PROVE  FALSE
        BY <3>3 DEF Firsts
      <4>1. m \in 1 .. Len(bucket) /\ j \in 1 .. Len(bucket) /\ j < m
        BY <1>0, <3>3
      <4>2. j \in S
        BY <1>0, <3>3, <4>1
      <4>3. m <= j
        BY <3>3, <4>2
      <4>. QED BY <4>1, <4>3
    <3>5. PICK n \in 1 .. N : o[n] = m
      BY <1>3, <3>4
    <3>6. bucket[m].visit = bucket[i].visit
      BY <3>3
    <3>. QED BY <3>1, <3>5, <3>6
  <2>4. \A n, m \in 1 .. N : g[n] = g[m] => n = m
    BY <2>2
  <2>5. \A v \in V : \E n \in 1 .. N : g[n] = v
    BY <2>3
  <2>. HIDE DEF g, V
  <2>. QED BY <2>1, <2>4, <2>5, Fun_IsBij
<1>5. Len(ss) = N
  <2>. HIDE DEF ss
  <2>1. ss = [k \in 1 .. N |-> ss[k]]
    BY <1>2
  <2>. QED BY <2>1, IsSeqFn
<1>6. ASSUME NEW n \in 1 .. N PROVE ss[n] = val[g[n]]
  <2>1. o[n] \in DOMAIN bucket
    BY <1>3 DEF Firsts
  <2>2. SessionOf(bucket, o[n]) = VisitIn(bucket, g[n])
    <3>1. {j \in DOMAIN bucket : SessionKey(bucket[j]) = SessionKey(bucket[o[n]])}
            = {i \in DOMAIN bucket : bucket[i].visit = g[n]}
      BY <2>1
    <3>. HIDE DEF g
    <3>. QED BY <3>1 DEF SessionOf, VisitIn
  <2>3. g[n] \in V
    BY <2>1 DEF VisitsIn
  <2>. HIDE DEF g, ss, I
  <2>. QED BY <1>2, <2>2, <2>3
<1>. HIDE DEF g, ss
<1>. QED BY <1>4, <1>5, <1>6 DEF Lists, ss

\* Two lists of different members, one behind the other.
LEMMA ListsJoin ==
  ASSUME NEW E, NEW a \in Seq(E), NEW b \in Seq(E), NEW A, NEW B, A \cap B = {}, NEW val,
         Lists(a, A, val), Lists(b, B, val)
  PROVE  Lists(a \o b, A \cup B, val)
<1>1. PICK g \in Bijection(1 .. Len(a), A) : \A n \in 1 .. Len(a) : a[n] = val[g[n]]
  BY DEF Lists
<1>2. PICK h \in Bijection(1 .. Len(b), B) : \A n \in 1 .. Len(b) : b[n] = val[h[n]]
  BY DEF Lists
<1>. DEFINE m == Len(a)
            n == Len(b)
            f == [k \in 1 .. m + n |-> IF k <= m THEN g[k] ELSE h[k - m]]
<1>3. m \in Nat /\ n \in Nat /\ Len(a \o b) = m + n
      /\ \A k \in 1 .. m + n : (a \o b)[k] = IF k <= m THEN a[k] ELSE b[k - m]
  BY LenProperties, ConcatProperties
<1>4. /\ \A k \in 1 .. m : g[k] \in A
      /\ \A k, l \in 1 .. m : g[k] = g[l] => k = l
      /\ \A x \in A : \E k \in 1 .. m : g[k] = x
  <2>. DEFINE D == 1 .. m
  <2>1. g \in Bijection(D, A)
    OBVIOUS
  <2>. HIDE DEF D
  <2>2. /\ \A k \in D : g[k] \in A
        /\ \A k, l \in D : g[k] = g[l] => k = l
        /\ \A x \in A : \E k \in D : g[k] = x
    BY <2>1, Fun_BijectionProperties
  <2>. QED BY <2>2 DEF D
<1>5. /\ \A k \in 1 .. n : h[k] \in B
      /\ \A k, l \in 1 .. n : h[k] = h[l] => k = l
      /\ \A x \in B : \E k \in 1 .. n : h[k] = x
  <2>. DEFINE D == 1 .. n
  <2>1. h \in Bijection(D, B)
    OBVIOUS
  <2>. HIDE DEF D
  <2>2. /\ \A k \in D : h[k] \in B
        /\ \A k, l \in D : h[k] = h[l] => k = l
        /\ \A x \in B : \E k \in D : h[k] = x
    BY <2>1, Fun_BijectionProperties
  <2>. QED BY <2>2 DEF D
<1>. HIDE DEF m, n
<1>6. \A k \in 1 .. m + n : /\ k <= m => k \in 1 .. m
                            /\ ~(k <= m) => k - m \in 1 .. n
  BY <1>3
<1>7. f \in Bijection(1 .. m + n, A \cup B)
  <2>1. f \in [1 .. m + n -> A \cup B]
    BY <1>4, <1>5, <1>6
  <2>2. ASSUME NEW k \in 1 .. m + n, NEW l \in 1 .. m + n, f[k] = f[l] PROVE k = l
    <3>1. CASE k <= m /\ l <= m
      BY <1>4, <1>6, <2>2, <3>1
    <3>2. CASE ~(k <= m) /\ ~(l <= m)
      <4>1. k - m = l - m
        BY <1>5, <1>6, <2>2, <3>2
      <4>. QED BY <1>3, <4>1
    <3>3. CASE k <= m /\ ~(l <= m)
      <4>1. f[k] \in A /\ f[l] \in B
        BY <1>4, <1>5, <1>6, <3>3
      <4>. QED BY <2>2, <4>1
    <3>4. CASE ~(k <= m) /\ l <= m
      <4>1. f[k] \in B /\ f[l] \in A
        BY <1>4, <1>5, <1>6, <3>4
      <4>. QED BY <2>2, <4>1
    <3>. QED BY <3>1, <3>2, <3>3, <3>4
  <2>3. ASSUME NEW x \in A \cup B PROVE \E k \in 1 .. m + n : f[k] = x
    <3>1. CASE x \in A
      <4>1. PICK k \in 1 .. m : g[k] = x
        BY <1>4, <3>1
      <4>2. k \in 1 .. m + n /\ k <= m
        BY <1>3
      <4>. QED BY <4>1, <4>2
    <3>2. CASE x \in B
      <4>1. PICK k \in 1 .. n : h[k] = x
        BY <1>5, <3>2
      <4>2. k + m \in 1 .. m + n /\ ~(k + m <= m) /\ (k + m) - m = k
        BY <1>3
      <4>. QED BY <4>1, <4>2
    <3>. QED BY <3>1, <3>2
  <2>. HIDE DEF f
  <2>. QED BY <2>1, <2>2, <2>3, Fun_IsBij
<1>8. \A k \in 1 .. m + n : (a \o b)[k] = val[f[k]]
  BY <1>1, <1>2, <1>3, <1>6 DEF m, n
<1>. HIDE DEF f
<1>. QED BY <1>3, <1>7, <1>8 DEF Lists

\* Lists of different members, all one behind another.
LEMMA FlattenListed ==
  ASSUME NEW E, NEW s \in Seq(Seq(E)), NEW K, NEW val,
         \A a, b \in 1 .. Len(s) : a # b => K[a] \cap K[b] = {},
         \A b \in 1 .. Len(s) : Lists(s[b], K[b], val)
  PROVE  Lists(FlattenSeq(s), UNION {K[b] : b \in 1 .. Len(s)}, val)
<1>. DEFINE N == Len(s)
            upTo(n) == UNION {K[b] : b \in 1 .. n}
<1>1. N \in Nat /\ \A i \in 1 .. N : s[i] \in Seq(E)
  BY LenProperties, ElementOfSeq
<1>2. PICK f \in [0 .. N -> Seq(E)] :
        /\ f[0] = <<>> /\ f[N] = FlattenSeq(s)
        /\ \A i \in 1 .. N : f[i] = f[i - 1] \o s[i]
  BY FlattenIs
<1>. DEFINE G == {n \in 0 .. N : Lists(f[n], upTo(n), val)}
<1>3. 0 \in G
  <2>1. upTo(0) = {}
    OBVIOUS
  <2>2. Lists(<<>>, {}, val)
    <3>. DEFINE D == 1 .. Len(<<>>)
                g == [n \in D |-> n]
    <3>1. D = {}
      BY EmptySeq
    <3>2. g \in Bijection(D, {})
      BY <3>1, Fun_IsBij
    <3>. HIDE DEF g, D
    <3>. QED BY <3>1, <3>2 DEF Lists, D
  <2>. HIDE DEF upTo
  <2>. QED BY <1>1, <1>2, <2>1, <2>2
<1>4. ASSUME NEW n \in 0 .. N - 1, n \in G PROVE n + 1 \in G
  <2>1. n \in 0 .. N /\ n + 1 \in 1 .. N /\ n + 1 \in 0 .. N /\ (n + 1) - 1 = n
    BY <1>1
  <2>2. f[n + 1] = f[n] \o s[n + 1]
    <3>. HIDE DEF N
    <3>. QED BY <1>2, <2>1
  <2>3. upTo(n + 1) = upTo(n) \cup K[n + 1]
    <3>1. \A b : b \in 1 .. n + 1 <=> b \in 1 .. n \/ b = n + 1
      BY <2>1
    <3>. QED BY <3>1
  <2>4. upTo(n) \cap K[n + 1] = {}
    <3>1. \A b \in 1 .. n : b \in 1 .. N /\ b # n + 1
      BY <1>1, <2>1
    <3>. QED BY <2>1, <3>1
  <2>5. f[n] \in Seq(E) /\ s[n + 1] \in Seq(E)
    BY <1>1, <2>1
  <2>6. Lists(f[n], upTo(n), val) /\ Lists(s[n + 1], K[n + 1], val)
    BY <1>4, <2>1
  <2>. HIDE DEF upTo, N
  <2>7. Lists(f[n] \o s[n + 1], upTo(n) \cup K[n + 1], val)
    BY <2>4, <2>5, <2>6, ListsJoin
  <2>. QED BY <2>1, <2>2, <2>3, <2>7
<1>5. \A n \in 0 .. N : n \in G
  <2>. HIDE DEF G, N
  <2>. QED BY <1>1, <1>3, <1>4, UpTo
<1>6. Lists(f[N], upTo(N), val)
  <2>1. N \in 0 .. N
    BY <1>1
  <2>. HIDE DEF upTo, N
  <2>. QED BY <1>5, <2>1
<1>. QED BY <1>2, <1>6

\* What the recording gives the events of a capture.
LEMMA RecordedIn ==
  ASSUME NEW c \in Captures, NEW evs, evs = StreamDir(c).events
  PROVE  \A i \in DOMAIN evs :
           /\ BucketOf(SessionKey(evs[i])) \in 1 .. Buckets
           /\ \A j \in DOMAIN evs :
                /\ evs[i].visit = evs[j].visit <=> SessionKey(evs[i]) = SessionKey(evs[j])
                /\ evs[i].visit = evs[j].visit => evs[i].player = evs[j].player
                /\ i < j /\ evs[i].visit = evs[j].visit /\ SameRing(evs[i], evs[j]) => evs[i].t <= evs[j].t
<1>1. \A i \in DOMAIN evs :
         /\ BucketOf(<<evs[i].player, evs[i].seq>>) \in 1..Buckets
         /\ \A j \in DOMAIN evs :
               /\ evs[i].visit = evs[j].visit <=>
                    evs[i].player = evs[j].player /\ evs[i].seq = evs[j].seq
               /\ i < j /\ evs[i].visit = evs[j].visit /\ SameRing(evs[i], evs[j]) => evs[i].t <= evs[j].t
  BY RecordedAssumption
<1>2. \A i, j : SessionKey(evs[i]) = SessionKey(evs[j]) <=>
                  evs[i].player = evs[j].player /\ evs[i].seq = evs[j].seq
  BY DEF SessionKey
<1>3. \A i : SessionKey(evs[i]) = <<evs[i].player, evs[i].seq>>
  BY DEF SessionKey
<1>. QED BY <1>1, <1>2, <1>3

VisitsOf(evs) == [v \in VisitsIn(evs) |-> VisitIn(evs, v)]
BucketAt(evs, b) == {i \in DOMAIN evs : BucketOf(SessionKey(evs[i])) = b}

\* A scratch file holds the whole of the visits it holds anything of.
LEMMA BucketListed ==
  ASSUME NEW c \in Captures, NEW evs, evs = StreamDir(c).events, NEW b \in 1 .. Buckets,
         NEW bucket, bucket = Spill(evs)[b]
  PROVE  /\ VisitsIn(bucket) = {evs[i].visit : i \in BucketAt(evs, b)}
         /\ Lists(SessionsIn(bucket), VisitsIn(bucket), VisitsOf(evs))
<1>. DEFINE I == BucketAt(evs, b)
            V == {evs[i].visit : i \in I}
<1>1. PICK E : (\A e \in E : Captured(e)) /\ evs \in Seq(E)
  BY StreamIn
<1>2. I \in SUBSET DOMAIN evs /\ bucket = Entries(evs, I)
  BY DEF Spill, BucketAt
<1>3. \A i \in I, j \in DOMAIN evs : evs[i].visit = evs[j].visit => j \in I
  BY RecordedIn DEF BucketAt
<1>. HIDE DEF I
<1>4. /\ IsFiniteSet(I) /\ I \in SUBSET Int /\ Cardinality(I) \in Nat
      /\ bucket \in Seq(E) /\ DOMAIN bucket = 1 .. Cardinality(I)
      /\ \A n \in 1 .. Cardinality(I) : Nth(I, n) \in I /\ bucket[n] = evs[Nth(I, n)]
  <2>1. /\ IsFiniteSet(I) /\ I \in SUBSET Int /\ Cardinality(I) \in Nat
        /\ bucket \in Seq(E) /\ Len(bucket) = Cardinality(I)
        /\ \A n \in 1 .. Cardinality(I) : Nth(I, n) \in I /\ bucket[n] = evs[Nth(I, n)]
    BY <1>1, <1>2, EntriesIn
  <2>. QED BY <2>1, LenProperties
<1>5. VisitsIn(bucket) = V
  <2>1. ASSUME NEW n \in DOMAIN bucket PROVE bucket[n].visit \in V
    BY <1>4
  <2>2. ASSUME NEW i \in I PROVE evs[i].visit \in VisitsIn(bucket)
    <3>1. \E n \in 1 .. Cardinality(I) : Nth(I, n) = i
      BY <1>4, NthIs
    <3>. QED BY <1>4, <3>1 DEF VisitsIn
  <2>. QED BY <2>1, <2>2 DEF VisitsIn
<1>6. \A v \in VisitsIn(bucket) : VisitsOf(evs)[v] = VisitIn(bucket, v)
  <2>. SUFFICES ASSUME NEW v \in VisitsIn(bucket) PROVE VisitsOf(evs)[v] = VisitIn(bucket, v)
    OBVIOUS
  <2>1. PICK i \in I : v = evs[i].visit
    BY <1>5
  <2>2. v \in VisitsIn(evs)
    BY <1>2, <2>1 DEF VisitsIn
  <2>3. \A j \in DOMAIN evs : evs[j].visit = v => j \in I
    BY <1>3, <2>1
  <2>4. VisitIn(bucket, v) = VisitIn(evs, v)
    BY <1>1, <1>2, <2>3, SameVisit
  <2>. QED BY <2>2, <2>4 DEF VisitsOf
<1>7. \A i, j \in DOMAIN bucket :
        bucket[i].visit = bucket[j].visit <=> SessionKey(bucket[i]) = SessionKey(bucket[j])
  <2>. SUFFICES ASSUME NEW i \in DOMAIN bucket, NEW j \in DOMAIN bucket
                PROVE  bucket[i].visit = bucket[j].visit <=> SessionKey(bucket[i]) = SessionKey(bucket[j])
    OBVIOUS
  <2>1. Nth(I, i) \in DOMAIN evs /\ Nth(I, j) \in DOMAIN evs
    BY <1>2, <1>4
  <2>2. bucket[i] = evs[Nth(I, i)] /\ bucket[j] = evs[Nth(I, j)]
    BY <1>4
  <2>. QED BY <2>1, <2>2, RecordedIn
<1>8. Lists(SessionsIn(bucket), VisitsIn(bucket), VisitsOf(evs))
  BY <1>1, <1>4, <1>6, <1>7, SessionsListed
<1>. QED BY <1>5, <1>8 DEF I

\* What pass 1 leaves to pass 2.
LeftByPass1(evs) == FlattenSeq([b \in 1..Buckets |-> SessionsIn(Spill(evs)[b])])

\* Pass 1 leaves the visits, one by one.
LEMMA CaptureListed ==
  ASSUME NEW c \in Captures, NEW evs, evs = StreamDir(c).events
  PROVE  Lists(LeftByPass1(evs), VisitsIn(evs), VisitsOf(evs))
<1>. DEFINE N == Buckets
            f(b) == SessionsIn(Spill(evs)[b])
            s == [b \in 1 .. N |-> f(b)]
            K == [b \in 1 .. N |-> VisitsIn(Spill(evs)[b])]
            W(b) == {evs[i].visit : i \in BucketAt(evs, b)}
<1>1. PICK E : (\A e \in E : Captured(e)) /\ evs \in Seq(E)
  BY StreamIn
<1>. DEFINE Q == {x \in Seq(E) : x # <<>>}
            S == Seq(Q)
<1>2. N \in Nat
  BY CompileAssumption
<1>3. ASSUME NEW b \in 1 .. N PROVE f(b) \in S
  <2>1. BucketAt(evs, b) \in SUBSET DOMAIN evs /\ Spill(evs)[b] = Entries(evs, BucketAt(evs, b))
    BY DEF Spill, BucketAt
  <2>2. Spill(evs)[b] \in Seq(E)
    BY <1>1, <2>1, EntriesIn
  <2>. QED BY <1>1, <2>2, SessionsOf
<1>4. s \in Seq(S) /\ Len(s) = N
  <2>1. \A b \in 1 .. N : f(b) \in S
    BY <1>3
  <2>. HIDE DEF f, S, N
  <2>2. s \in Seq(S)
    BY <1>2, <2>1
  <2>3. s = [b \in 1 .. N |-> s[b]]
    OBVIOUS
  <2>. HIDE DEF s
  <2>4. Len(s) = N
    BY <1>2, <2>3, IsSeqFn
  <2>. QED BY <2>2, <2>4
<1>5. ASSUME NEW b \in 1 .. N PROVE K[b] = W(b) /\ Lists(s[b], K[b], VisitsOf(evs))
  <2>1. VisitsIn(Spill(evs)[b]) = W(b) /\ Lists(f(b), VisitsIn(Spill(evs)[b]), VisitsOf(evs))
    BY BucketListed
  <2>. QED BY <2>1
<1>6. \A a, b \in 1 .. N : a # b => K[a] \cap K[b] = {}
  <2>. SUFFICES ASSUME NEW a \in 1 .. N, NEW b \in 1 .. N, a # b, NEW v, v \in W(a), v \in W(b)
                PROVE  FALSE
    BY <1>5
  <2>1. PICK i \in BucketAt(evs, a), j \in BucketAt(evs, b) : v = evs[i].visit /\ v = evs[j].visit
    OBVIOUS
  <2>2. i \in DOMAIN evs /\ j \in DOMAIN evs /\ SessionKey(evs[i]) = SessionKey(evs[j])
    <3>1. i \in DOMAIN evs /\ j \in DOMAIN evs /\ evs[i].visit = evs[j].visit
      BY <2>1 DEF BucketAt
    <3>. QED BY <3>1, RecordedIn
  <2>. QED BY <2>2 DEF BucketAt
<1>7. UNION {K[b] : b \in 1 .. N} = VisitsIn(evs)
  <2>1. \A b \in 1 .. N : K[b] \subseteq VisitsIn(evs)
    <3>1. \A b : W(b) \subseteq VisitsIn(evs)
      BY DEF BucketAt, VisitsIn
    <3>. HIDE DEF W, K
    <3>. QED BY <1>5, <3>1
  <2>2. ASSUME NEW i \in DOMAIN evs PROVE \E b \in 1 .. N : evs[i].visit \in K[b]
    <3>. DEFINE b == BucketOf(SessionKey(evs[i]))
    <3>1. b \in 1 .. N
      BY RecordedIn
    <3>2. i \in BucketAt(evs, b)
      BY DEF BucketAt
    <3>. HIDE DEF b
    <3>3. evs[i].visit \in W(b)
      BY <3>2
    <3>. QED BY <1>5, <3>1, <3>3
  <2>. HIDE DEF K
  <2>. QED BY <2>1, <2>2 DEF VisitsIn
<1>8. \A b \in 1 .. N : Lists(s[b], K[b], VisitsOf(evs))
  BY <1>5
<1>. HIDE DEF s, K, Q
<1>9. Lists(FlattenSeq(s), UNION {K[b] : b \in 1 .. N}, VisitsOf(evs))
  <2>. HIDE DEF N
  <2>. QED BY <1>4, <1>6, <1>8, FlattenListed DEF S
<1>. QED BY <1>7, <1>9 DEF LeftByPass1, s

\* The events of a ring are in the order of their times.
Recorded(s) == \A i, j \in DOMAIN s : i < j /\ SameRing(s[i], s[j]) => s[i].t <= s[j].t

\* p is how s comes to be evs, in order of time and of place within a time.
Orders(p, s, evs) ==
  /\ DOMAIN evs = DOMAIN s
  /\ \A n \in DOMAIN s : p[n] \in DOMAIN s /\ evs[n] = s[p[n]]
  /\ \A i \in DOMAIN s : \E n \in DOMAIN s : p[n] = i
  /\ \A n, m \in DOMAIN s : n < m => /\ p[n] # p[m] /\ evs[n].t <= evs[m].t
                                     /\ evs[n].t = evs[m].t => p[n] < p[m]

\* A session in order of time begins when its first event was.
LEMMA InOrder ==
  ASSUME NEW s, IsSession(s), NEW evs, evs = InTimeOrder(s)
  PROVE  /\ s \in Seq(Range(s)) /\ evs \in Seq(Range(s))
         /\ DOMAIN s = 1 .. Len(s) /\ Len(s) \in Nat \ {0} /\ Len(evs) = Len(s)
         /\ \A n \in DOMAIN s : Captured(s[n]) /\ s[n].t \in Nat
         /\ \E p : Orders(p, s, evs)
         /\ evs[1].t = Began(s)
<1>. DEFINE E == Range(s)
            times == [i \in DOMAIN s |-> s[i].t]
            N == Len(s)
<1>1. /\ s \in Seq(E) /\ DOMAIN s = 1 .. N /\ N \in Nat /\ N # 0
      /\ \A i \in 1 .. N : Captured(s[i]) /\ s[i].t \in Nat
  BY SeqIs, NotEmpty DEF IsSession, Captured
<1>2. /\ evs \in Seq(E) /\ Len(evs) = N
      /\ \E p \in Bijection(1 .. N, 1 .. N) :
           /\ \A n \in 1 .. N : evs[n] = s[p[n]]
           /\ \A n, m \in 1 .. N : n < m => Before(times, p[n], p[m])
  <2>1. times \in [DOMAIN s -> Int]
    <3>1. \A i \in DOMAIN s : s[i].t \in Int
      BY <1>1
    <3>. QED BY <3>1
  <2>2. evs = StableSort(s, times)
    BY DEF InTimeOrder
  <2>. HIDE DEF E, times
  <2>3. /\ StableSort(s, times) \in Seq(E) /\ Len(StableSort(s, times)) = Len(s)
        /\ \E p \in Bijection(1 .. Len(s), 1 .. Len(s)) :
             /\ \A n \in 1 .. Len(s) : StableSort(s, times)[n] = s[p[n]]
             /\ \A n, m \in 1 .. Len(s) : n < m => Before(times, p[n], p[m])
    BY <1>1, <2>1, SortedBy
  <2>. QED BY <2>2, <2>3
<1>. HIDE DEF E
<1>3. DOMAIN evs = 1 .. N
  BY <1>2, LenProperties
<1>4. PICK p \in Bijection(1 .. N, 1 .. N) :
        /\ \A n \in 1 .. N : evs[n] = s[p[n]]
        /\ \A n, m \in 1 .. N : n < m => Before(times, p[n], p[m])
  BY <1>2
<1>5. /\ \A n \in 1 .. N : p[n] \in 1 .. N
      /\ \A n, m \in 1 .. N : p[n] = p[m] => n = m
      /\ \A i \in 1 .. N : \E n \in 1 .. N : p[n] = i
  <2>. DEFINE D == 1 .. N
  <2>1. p \in Bijection(D, D)
    OBVIOUS
  <2>. HIDE DEF D
  <2>2. /\ \A n \in D : p[n] \in D
        /\ \A n, m \in D : p[n] = p[m] => n = m
        /\ \A i \in D : \E n \in D : p[n] = i
    BY <2>1, Fun_BijectionProperties
  <2>. QED BY <2>2 DEF D
<1>6. ASSUME NEW n \in 1 .. N, NEW m \in 1 .. N, n < m
      PROVE  /\ p[n] # p[m] /\ evs[n].t <= evs[m].t
             /\ evs[n].t = evs[m].t => p[n] < p[m]
  <2>1. /\ Before(times, p[n], p[m]) /\ p[n] # p[m] /\ p[n] \in 1 .. N /\ p[m] \in 1 .. N
        /\ evs[n] = s[p[n]] /\ evs[m] = s[p[m]]
    <3>1. Before(times, p[n], p[m])
      <4>. HIDE DEF times, N
      <4>. QED BY <1>4, <1>6
    <3>2. n # m
      BY <1>1, <1>6
    <3>. HIDE DEF times
    <3>. QED BY <1>4, <1>5, <3>1, <3>2
  <2>2. times[p[n]] = evs[n].t /\ times[p[m]] = evs[m].t /\ evs[n].t \in Nat /\ evs[m].t \in Nat
    BY <1>1, <2>1
  <2>. HIDE DEF times
  <2>. QED BY <2>1, <2>2 DEF Before
<1>7. Orders(p, s, evs)
  BY <1>1, <1>3, <1>4, <1>5, <1>6 DEF Orders
<1>8. evs[1].t = Began(s)
  <2>. DEFINE T == {s[i].t : i \in DOMAIN s}
              m == Min(T)
  <2>1. T \in SUBSET Nat /\ T # {} /\ 1 \in 1 .. N
    BY <1>1
  <2>2. m \in T /\ \A x \in T : m <= x
    <3>. HIDE DEF T
    <3>. QED BY <2>1, MinIs
  <2>. HIDE DEF m
  <2>3. PICK i \in 1 .. N : m = s[i].t
    BY <1>1, <2>2
  <2>4. PICK n \in 1 .. N : p[n] = i
    BY <1>5
  <2>5. evs[1].t <= evs[n].t /\ evs[n].t = m
    <3>1. evs[n].t = m /\ evs[1].t \in Nat
      <4>1. evs[n] = s[i]
        BY <1>4, <2>4
      <4>2. evs[1] = s[p[1]] /\ p[1] \in 1 .. N
        BY <1>4, <1>5, <2>1
      <4>. QED BY <1>1, <2>3, <4>1, <4>2
    <3>2. CASE n = 1
      BY <3>1, <3>2
    <3>3. CASE n # 1
      <4>1. 1 < n
        BY <3>3
      <4>. QED BY <1>6, <2>1, <3>1, <4>1
    <3>. QED BY <3>2, <3>3
  <2>6. m <= evs[1].t
    <3>1. evs[1] = s[p[1]] /\ p[1] \in DOMAIN s
      BY <1>1, <1>4, <1>5, <2>1
    <3>. QED BY <2>2, <3>1
  <2>7. evs[1].t = m
    <3>1. m \in Nat /\ evs[1].t \in Nat
      BY <1>1, <1>4, <1>5, <2>1, <2>3
    <3>. QED BY <2>5, <2>6, <3>1
  <2>. QED BY <2>7 DEF m, Began
<1>. QED BY <1>1, <1>2, <1>7, <1>8 DEF E

\* The places of what a trace keeps of a session in order of time.
KeptAt(evs) == {i \in DOMAIN evs : /\ evs[i].t - evs[1].t <= MaxDuration
                                   /\ ~ (DropChat /\ evs[i].kind = "cmd")}

\* What is kept of a session is what is in the cut.
LEMMA KeptIs ==
  ASSUME NEW s, IsSession(s), NEW evs, evs = InTimeOrder(s), NEW p, Orders(p, s, evs)
  PROVE  /\ KeptAt(evs) = {n \in DOMAIN s : p[n] \in InCut(s)}
         /\ Kept(evs) = Entries(evs, KeptAt(evs)) /\ KeptAt(evs) \in SUBSET DOMAIN evs
<1>1. \A n \in DOMAIN s : evs[n] = s[p[n]] /\ p[n] \in DOMAIN s
  BY DEF Orders
<1>2. DOMAIN evs = DOMAIN s /\ evs[1].t = Began(s) /\ DropChat \in BOOLEAN
  BY InOrder, CompileAssumption DEF Orders
<1>3. ASSUME NEW n \in DOMAIN s PROVE n \in KeptAt(evs) <=> p[n] \in InCut(s)
  BY <1>1, <1>2 DEF KeptAt, InCut
<1>4. KeptAt(evs) \in SUBSET DOMAIN evs
  BY DEF KeptAt
<1>5. Kept(evs) = Entries(evs, KeptAt(evs))
  BY DEF Kept, KeptAt
<1>. QED BY <1>2, <1>3, <1>4, <1>5

\* A session is left out when it is too short, or nothing of it is in the cut.
LEMMA DroppedIs ==
  ASSUME NEW s, IsSession(s)
  PROVE  Dropped(InTimeOrder(s)) <=> ~ IsLong(s)
<1>. DEFINE evs == InTimeOrder(s)
            N == Len(s)
            last == evs[N].t
<1>1. /\ evs \in Seq(Range(s))
      /\ DOMAIN s = 1 .. N /\ N \in Nat \ {0} /\ Len(evs) = N
      /\ \A n \in DOMAIN s : s[n].t \in Nat
      /\ evs[1].t = Began(s)
  BY InOrder
<1>2. PICK p : Orders(p, s, evs)
  BY InOrder
<1>. HIDE DEF evs
<1>3. /\ \A n \in 1 .. N : p[n] \in 1 .. N /\ evs[n] = s[p[n]]
      /\ \A i \in 1 .. N : \E n \in 1 .. N : p[n] = i
      /\ \A n, m \in 1 .. N : n < m => evs[n].t <= evs[m].t
  BY <1>1, <1>2 DEF Orders
<1>4. 1 \in 1 .. N /\ N \in 1 .. N /\ Began(s) \in Nat /\ MinDuration \in Nat /\ last \in Nat
  <2>1. 1 \in 1 .. N /\ N \in 1 .. N
    BY <1>1
  <2>2. evs[1] = s[p[1]] /\ p[1] \in 1 .. N /\ evs[N] = s[p[N]] /\ p[N] \in 1 .. N
    BY <1>3, <2>1
  <2>3. evs[1].t \in Nat /\ evs[N].t \in Nat
    BY <1>1, <2>2
  <2>. QED BY <1>1, <2>1, <2>3, CompileAssumption
<1>5. ASSUME NEW i \in DOMAIN s PROVE s[i].t <= last
  <2>1. PICK n \in 1 .. N : p[n] = i
    BY <1>1, <1>3
  <2>2. evs[n].t = s[i].t /\ s[i].t \in Nat
    BY <1>1, <1>3, <2>1
  <2>3. CASE n = N
    BY <2>2, <2>3
  <2>4. CASE n # N
    <3>1. n < N
      <4>1. n \in Nat /\ N \in Nat /\ n <= N
        BY <1>1
      <4>. HIDE DEF N
      <4>. QED BY <2>4, <4>1
    <3>. QED BY <1>3, <1>4, <2>2, <3>1
  <2>. QED BY <2>3, <2>4
<1>6. last - Began(s) < MinDuration <=> ~ \E i \in DOMAIN s : s[i].t - Began(s) >= MinDuration
  <2>1. \E i \in DOMAIN s : s[i].t = last
    BY <1>1, <1>3, <1>4
  <2>. HIDE DEF last
  <2>2. ASSUME NEW i \in DOMAIN s, s[i].t - Began(s) >= MinDuration
        PROVE  ~(last - Began(s) < MinDuration)
    BY <1>1, <1>4, <1>5, <2>2
  <2>3. ASSUME ~(last - Began(s) < MinDuration)
        PROVE  \E i \in DOMAIN s : s[i].t - Began(s) >= MinDuration
    <3>1. last - Began(s) >= MinDuration
      BY <1>4, <2>3
    <3>. QED BY <2>1, <3>1
  <2>. QED BY <2>2, <2>3
<1>7. Kept(evs) = <<>> <=> InCut(s) = {}
  <2>. DEFINE I == KeptAt(evs)
  <2>1. I = {n \in DOMAIN s : p[n] \in InCut(s)} /\ Kept(evs) = Entries(evs, I) /\ I \in SUBSET DOMAIN evs
    BY <1>2, KeptIs DEF evs
  <2>2. I = {} <=> InCut(s) = {}
    <3>1. InCut(s) \subseteq DOMAIN s
      BY DEF InCut
    <3>. HIDE DEF I
    <3>. QED BY <1>1, <1>3, <2>1, <3>1
  <2>. HIDE DEF I
  <2>3. Entries(evs, I) \in Seq(Range(s)) /\ Len(Entries(evs, I)) = Cardinality(I) /\ IsFiniteSet(I)
    BY <1>1, <2>1, EntriesIn
  <2>4. Cardinality(I) = 0 <=> I = {}
    BY <2>3, FS_EmptySet
  <2>5. Entries(evs, I) = <<>> <=> Cardinality(I) = 0
    BY <2>3, EmptySeq
  <2>. QED BY <2>1, <2>2, <2>4, <2>5
<1>8. Dropped(evs) <=> last - Began(s) < MinDuration \/ Kept(evs) = <<>>
  BY <1>1 DEF Dropped
<1>. QED BY <1>6, <1>7, <1>8 DEF IsLong, evs

\* None is no origin: a trace without one has the field nil.
NoneIsNoOrigin == \A p, d, h, x : [pos |-> p, dim |-> d, how |-> h, exact |-> x] # None

\* The first of some events, if there is one.
LEMMA FirstIs ==
  ASSUME NEW E, \A e \in E : e # None, NEW evs \in Seq(E), NEW which \in SUBSET DOMAIN evs
  PROVE  IF FirstOf(evs, which) = None THEN which = {} ELSE \E n \in which : FirstOf(evs, which) = evs[n]
<1>1. CASE which = {}
  BY <1>1 DEF FirstOf
<1>2. CASE which # {}
  <2>. DEFINE n == Min(which)
  <2>1. which \in SUBSET Nat
    <3>1. DOMAIN evs = 1 .. Len(evs) /\ Len(evs) \in Nat
      BY LenProperties
    <3>. QED BY <3>1
  <2>2. n \in which
    BY <1>2, <2>1, MinIs
  <2>3. FirstOf(evs, which) = evs[n]
    BY <1>2 DEF FirstOf
  <2>. HIDE DEF n
  <2>4. evs[n] \in E
    BY <2>2, IsSeqOf
  <2>. QED BY <2>2, <2>3, <2>4
<1>. QED BY <1>1, <1>2

\* Where a bot is put is a place of the session, and there is none only when the
\* session has none.
LEMMA OriginIs ==
  ASSUME NoneIsNoOrigin, NEW E, \A e \in E : e # None, NEW evs \in Seq(E)
  PROVE  LET o == ResolveOrigin(evs) IN
         IF o # None
         THEN \E n \in DOMAIN evs : /\ evs[n].kind \in Places /\ evs[n].at # None
                                    /\ o.pos = PlaceOf(evs[n]) /\ o.dim = evs[n].dim
         ELSE \A n \in DOMAIN evs : evs[n].kind \in Places => evs[n].at = None
<1>. DEFINE which(kinds) == {i \in DOMAIN evs : evs[i].kind \in kinds /\ evs[i].at # None}
            first(kinds) == FirstOf(evs, which(kinds))
            start  == first({"session_start"})
            anchor == first({"reanchor"})
            block  == first({"dig", "place"})
            from(e, how) == [pos |-> e.at, dim |-> e.dim, how |-> how, exact |-> TRUE]
            o == ResolveOrigin(evs)
<1>1. ASSUME NEW kinds
      PROVE  IF first(kinds) = None THEN \A n \in DOMAIN evs : evs[n].kind \in kinds => evs[n].at = None
             ELSE \E n \in DOMAIN evs : first(kinds) = evs[n] /\ evs[n].kind \in kinds /\ evs[n].at # None
  <2>. DEFINE w == which(kinds)
  <2>1. w \in SUBSET DOMAIN evs
    OBVIOUS
  <2>2. \A n \in DOMAIN evs : n \in w <=> evs[n].kind \in kinds /\ evs[n].at # None
    OBVIOUS
  <2>. HIDE DEF w
  <2>3. IF FirstOf(evs, w) = None THEN w = {} ELSE \E n \in w : FirstOf(evs, w) = evs[n]
    BY <2>1, FirstIs
  <2>. QED BY <2>1, <2>2, <2>3 DEF w
<1>2. o = CASE start # None  -> from(start, "start")
            [] start = None /\ anchor # None -> from(anchor, "anchor")
            [] start = None /\ anchor = None /\ block # None ->
                 [from(block, "block") EXCEPT !.pos = OnTop(@)]
            [] OTHER -> None
  BY DEF ResolveOrigin
<1>. HIDE DEF first, o
<1>3. CASE start # None
  <2>1. o = from(start, "start") /\ o # None
    BY <1>2, <1>3 DEF NoneIsNoOrigin
  <2>2. PICK n \in DOMAIN evs : start = evs[n] /\ evs[n].kind \in {"session_start"} /\ evs[n].at # None
    BY <1>1, <1>3
  <2>3. o.pos = PlaceOf(evs[n]) /\ o.dim = evs[n].dim /\ evs[n].kind \in Places
    BY <2>1, <2>2 DEF PlaceOf, Places
  <2>. QED BY <2>1, <2>2, <2>3 DEF o
<1>4. CASE start = None /\ anchor # None
  <2>1. o = from(anchor, "anchor") /\ o # None
    BY <1>2, <1>4 DEF NoneIsNoOrigin
  <2>2. PICK n \in DOMAIN evs : anchor = evs[n] /\ evs[n].kind \in {"reanchor"} /\ evs[n].at # None
    BY <1>1, <1>4
  <2>3. o.pos = PlaceOf(evs[n]) /\ o.dim = evs[n].dim /\ evs[n].kind \in Places
    BY <2>1, <2>2 DEF PlaceOf, Places
  <2>. QED BY <2>1, <2>2, <2>3 DEF o
<1>5. CASE start = None /\ anchor = None /\ block # None
  <2>1. o = [pos |-> OnTop(block.at), dim |-> block.dim, how |-> "block", exact |-> TRUE] /\ o # None
    BY <1>2, <1>5 DEF NoneIsNoOrigin
  <2>2. PICK n \in DOMAIN evs : block = evs[n] /\ evs[n].kind \in {"dig", "place"} /\ evs[n].at # None
    BY <1>1, <1>5
  <2>3. o.pos = PlaceOf(evs[n]) /\ o.dim = evs[n].dim /\ evs[n].kind \in Places
    BY <2>1, <2>2 DEF PlaceOf, Places
  <2>. QED BY <2>1, <2>2, <2>3 DEF o
<1>6. CASE start = None /\ anchor = None /\ block = None
  <2>1. o = None
    BY <1>2, <1>6
  <2>2. \A n \in DOMAIN evs : evs[n].kind \in {"session_start"} \/ evs[n].kind \in {"reanchor"} \/ evs[n].kind \in {"dig", "place"} => evs[n].at = None
    BY <1>1, <1>6
  <2>. QED BY <2>1, <2>2 DEF Places, o
<1>. QED BY <1>3, <1>4, <1>5, <1>6

\* What the compiler writes of a visit replays it.
LEMMA TraceOfVisit ==
  ASSUME NoneIsNoOrigin, NEW s, IsSession(s), Recorded(s), ~ Dropped(InTimeOrder(s)),
         NEW f, f = Write(CompileTrace(InTimeOrder(s)))
  PROVE  IsTraceOf(ReadTrace(f), s)
<1>. DEFINE evs == InTimeOrder(s)
            E == Range(s)
            N == Len(s)
            I == KeptAt(evs)
            M == Cardinality(I)
<1>1. /\ evs \in Seq(E) /\ DOMAIN s = 1 .. N /\ N \in Nat \ {0} /\ Len(evs) = N
      /\ \A n \in DOMAIN s : Captured(s[n]) /\ s[n].t \in Nat
      /\ evs[1].t = Began(s)
  BY InOrder
<1>2. PICK p : Orders(p, s, evs)
  BY InOrder
<1>3. I = {n \in DOMAIN s : p[n] \in InCut(s)} /\ Kept(evs) = Entries(evs, I) /\ I \in SUBSET DOMAIN evs
  BY <1>2, KeptIs
<1>. DEFINE t == CompileTrace(evs)
            es == t.events
            r == ReadTrace(f)
            off(k) == evs[Nth(I, k)].t - evs[1].t
            ev(k) == [off |-> off(k), kind |-> evs[Nth(I, k)].kind, data |-> evs[Nth(I, k)].at]
<1>. HIDE DEF evs, I, E
<1>4. /\ IsFiniteSet(I) /\ I \in SUBSET Int /\ M \in Nat
      /\ \A k \in 1 .. M : Nth(I, k) \in I /\ Entries(evs, I)[k] = evs[Nth(I, k)]
      /\ DOMAIN Entries(evs, I) = 1 .. M
  <2>1. /\ Entries(evs, I) \in Seq(E) /\ Len(Entries(evs, I)) = M
        /\ IsFiniteSet(I) /\ I \in SUBSET Int /\ M \in Nat
        /\ \A k \in 1 .. M : Nth(I, k) \in I /\ Entries(evs, I)[k] = evs[Nth(I, k)]
    BY <1>1, <1>3, EntriesIn
  <2>. QED BY <2>1, LenProperties
<1>5. /\ DOMAIN evs = 1 .. N
      /\ \A n \in 1 .. N : p[n] \in 1 .. N /\ evs[n] = s[p[n]] /\ evs[n].t \in Nat
      /\ \A i \in 1 .. N : \E n \in 1 .. N : p[n] = i
      /\ \A n, m \in 1 .. N : n < m => /\ p[n] # p[m] /\ evs[n].t <= evs[m].t
                                       /\ evs[n].t = evs[m].t => p[n] < p[m]
  BY <1>1, <1>2 DEF Orders
<1>6. /\ t.schema = 3 /\ t.origin = ResolveOrigin(evs)
      /\ es = [k \in 1 .. M |-> ev(k)]
  <2>. DEFINE kept == Kept(evs)
  <2>1. /\ t.schema = 3 /\ t.origin = ResolveOrigin(evs)
        /\ es = [k \in DOMAIN kept |-> [off |-> kept[k].t - evs[1].t, kind |-> kept[k].kind, data |-> kept[k].at]]
    BY DEF CompileTrace, SchemaVersion
  <2>2. DOMAIN kept = 1 .. M /\ \A k \in 1 .. M : kept[k] = evs[Nth(I, k)]
    BY <1>3, <1>4
  <2>. HIDE DEF kept, t, M
  <2>. QED BY <2>1, <2>2
<1>. HIDE DEF t
<1>7. \A k \in 1 .. M : Nth(I, k) \in 1 .. N /\ off(k) \in Int
  <2>1. 1 \in 1 .. N
    BY <1>1
  <2>2. \A k \in 1 .. M : Nth(I, k) \in 1 .. N
    BY <1>3, <1>4, <1>5
  <2>3. \A n \in 1 .. N : evs[n].t - evs[1].t \in Int
    <3>1. \A n \in 1 .. N : evs[n].t \in Nat
      BY <1>5
    <3>2. evs[1].t \in Nat
      BY <2>1, <3>1
    <3>. QED BY <3>1, <3>2
  <2>. HIDE DEF M, N
  <2>. QED BY <2>2, <2>3
<1>8. r.events = es /\ r.origin = ResolveOrigin(evs)
  <2>1. IsSeq(es) /\ DOMAIN es = 1 .. M
    <3>1. es = [k \in 1 .. M |-> es[k]]
      BY <1>6
    <3>. HIDE DEF es
    <3>. QED BY <1>4, <3>1, IsSeqFn
  <2>2. \A k \in DOMAIN es : es[k].off \in Int /\ IsEvent(es[k])
    <3>1. \A k \in 1 .. M : es[k] = ev(k)
      BY <1>6
    <3>. HIDE DEF es, off
    <3>. QED BY <1>7, <2>1, <3>1 DEF IsEvent
  <2>3. f = Write(t)
    BY DEF t, evs
  <2>4. r.events = es
    BY <1>6, <2>1, <2>2, <2>3, RoundTrip
  <2>5. r.origin = t.origin
    BY <1>6, <2>3 DEF ReadTrace, Write
  <2>. QED BY <1>6, <2>4, <2>5
<1>. DEFINE q == [k \in 1 .. M |-> p[Nth(I, k)]]
            C == InCut(s)
<1>9. \A k, l \in 1 .. M : k < l => Nth(I, k) < Nth(I, l)
  BY <1>4, NthApart
<1>10. q \in Bijection(1 .. M, C)
  <2>1. q \in [1 .. M -> C]
    BY <1>3, <1>4
  <2>2. ASSUME NEW k \in 1 .. M, NEW l \in 1 .. M, k # l PROVE q[k] # q[l]
    <3>1. k < l \/ l < k
      BY <1>4, <2>2
    <3>2. Nth(I, k) \in 1 .. N /\ Nth(I, l) \in 1 .. N
      BY <1>7
    <3>3. CASE k < l
      BY <1>5, <1>9, <3>2, <3>3
    <3>4. CASE l < k
      BY <1>5, <1>9, <3>2, <3>4
    <3>. QED BY <3>1, <3>3, <3>4
  <2>3. ASSUME NEW i \in C PROVE \E k \in 1 .. M : q[k] = i
    <3>1. i \in 1 .. N
      BY <1>1 DEF InCut
    <3>2. PICK n \in 1 .. N : p[n] = i
      BY <1>5, <3>1
    <3>3. n \in I
      BY <1>1, <1>3, <3>2
    <3>4. \E k \in 1 .. M : Nth(I, k) = n
      BY <1>4, <3>3, NthIs
    <3>. QED BY <3>2, <3>4
  <2>4. \A k, l \in 1 .. M : q[k] = q[l] => k = l
    BY <2>2
  <2>. HIDE DEF q, C
  <2>. QED BY <2>1, <2>3, <2>4, Fun_IsBij
<1>11. \A k \in 1 .. M : /\ r.events[k] = [off |-> s[q[k]].t - Began(s), kind |-> s[q[k]].kind, data |-> s[q[k]].at]
                         /\ q[k] \in 1 .. N /\ s[q[k]] = evs[Nth(I, k)]
  <2>. SUFFICES ASSUME NEW k \in 1 .. M
                PROVE  /\ r.events[k] = [off |-> s[q[k]].t - Began(s), kind |-> s[q[k]].kind, data |-> s[q[k]].at]
                       /\ q[k] \in 1 .. N /\ s[q[k]] = evs[Nth(I, k)]
    OBVIOUS
  <2>1. r.events[k] = ev(k)
    BY <1>6, <1>8
  <2>2. s[q[k]] = evs[Nth(I, k)] /\ q[k] \in 1 .. N
    BY <1>5, <1>7
  <2>. QED BY <1>1, <2>1, <2>2
<1>12. ASSUME NEW k \in 1 .. M, NEW l \in 1 .. M, k < l
       PROVE  /\ r.events[k].off <= r.events[l].off
              /\ SameRing(s[q[k]], s[q[l]]) => q[k] < q[l]
  <2>1. /\ Nth(I, k) < Nth(I, l) /\ Nth(I, k) \in 1 .. N /\ Nth(I, l) \in 1 .. N
    BY <1>7, <1>9, <1>12
  <2>2. /\ evs[Nth(I, k)].t <= evs[Nth(I, l)].t
        /\ evs[Nth(I, k)].t = evs[Nth(I, l)].t => q[k] < q[l]
        /\ q[k] # q[l]
    BY <1>5, <2>1
  <2>3. /\ s[q[k]].t \in Nat /\ s[q[l]].t \in Nat /\ q[k] \in DOMAIN s /\ q[l] \in DOMAIN s
        /\ q[k] \in Nat /\ q[l] \in Nat
        /\ s[q[k]] = evs[Nth(I, k)] /\ s[q[l]] = evs[Nth(I, l)]
    <3>. HIDE DEF q, r, M, I, N
    <3>1. /\ s[q[k]] = evs[Nth(I, k)] /\ s[q[l]] = evs[Nth(I, l)]
          /\ q[k] \in 1 .. N /\ q[l] \in 1 .. N
      BY <1>11
    <3>2. \A n \in 1 .. N : n \in Nat /\ n \in DOMAIN s /\ s[n].t \in Nat
      BY <1>1
    <3>. QED BY <3>1, <3>2
  <2>4. Began(s) \in Nat
    <3>1. 1 \in 1 .. N
      BY <1>1
    <3>2. evs[1].t \in Nat
      BY <1>5, <3>1
    <3>. QED BY <1>1, <3>2
  <2>5. r.events[k].off = s[q[k]].t - Began(s) /\ r.events[l].off = s[q[l]].t - Began(s)
    <3>. HIDE DEF q, r, M
    <3>1. /\ r.events[k] = [off |-> s[q[k]].t - Began(s), kind |-> s[q[k]].kind, data |-> s[q[k]].at]
          /\ r.events[l] = [off |-> s[q[l]].t - Began(s), kind |-> s[q[l]].kind, data |-> s[q[l]].at]
      BY <1>11
    <3>. QED BY <3>1
  <2>. HIDE DEF q, r
  <2>6. SameRing(s[q[k]], s[q[l]]) => q[k] < q[l]
    <3>. SUFFICES ASSUME SameRing(s[q[k]], s[q[l]]), ~(q[k] < q[l]) PROVE FALSE
      OBVIOUS
    <3>1. q[l] < q[k]
      BY <2>2, <2>3
    <3>2. SameRing(s[q[l]], s[q[k]])
      BY DEF SameRing
    <3>3. s[q[l]].t <= s[q[k]].t
      BY <2>3, <3>1, <3>2 DEF Recorded
    <3>4. s[q[l]].t = s[q[k]].t
      BY <2>2, <2>3, <3>3
    <3>. QED BY <2>2, <2>3, <3>4
  <2>. QED BY <2>2, <2>3, <2>4, <2>5, <2>6
<1>13. DOMAIN r.events = 1 .. M
  BY <1>6, <1>8
<1>14. IF r.origin # None
       THEN \E i \in DOMAIN s : /\ s[i].kind \in Places /\ s[i].at # None
                                /\ r.origin.pos = PlaceOf(s[i]) /\ r.origin.dim = s[i].dim
       ELSE \A i \in DOMAIN s : s[i].kind \in Places => s[i].at = None
  <2>1. \A e \in E : e # None
    BY <1>1 DEF Captured, E, Range
  <2>2. LET o == ResolveOrigin(evs) IN
        IF o # None
        THEN \E n \in DOMAIN evs : /\ evs[n].kind \in Places /\ evs[n].at # None
                                   /\ o.pos = PlaceOf(evs[n]) /\ o.dim = evs[n].dim
        ELSE \A n \in DOMAIN evs : evs[n].kind \in Places => evs[n].at = None
    BY <1>1, <2>1, OriginIs
  <2>3. CASE r.origin # None
    <3>1. PICK n \in DOMAIN evs : /\ evs[n].kind \in Places /\ evs[n].at # None
                                  /\ r.origin.pos = PlaceOf(evs[n]) /\ r.origin.dim = evs[n].dim
      BY <1>8, <2>2, <2>3
    <3>2. evs[n] = s[p[n]] /\ p[n] \in DOMAIN s
      BY <1>1, <1>5
    <3>. QED BY <2>3, <3>1, <3>2
  <2>4. CASE r.origin = None
    <3>1. \A n \in DOMAIN evs : evs[n].kind \in Places => evs[n].at = None
      BY <1>8, <2>2, <2>4
    <3>2. \A i \in DOMAIN s : \E n \in DOMAIN evs : s[i] = evs[n]
      <4>. SUFFICES ASSUME NEW i \in DOMAIN s PROVE \E n \in DOMAIN evs : s[i] = evs[n]
        OBVIOUS
      <4>1. PICK n \in 1 .. N : p[n] = i
        BY <1>1, <1>5
      <4>. QED BY <1>5, <4>1
    <3>. QED BY <2>4, <3>1, <3>2
  <2>. QED BY <2>3, <2>4
<1>. HIDE DEF q, r, M
<1>. QED BY <1>10, <1>11, <1>12, <1>13, <1>14 DEF IsTraceOf, r

\* A visit of a capture is a session, of one player and with its rings in order.
LEMMA VisitIsSession ==
  ASSUME NEW c \in Captures, NEW evs, evs = StreamDir(c).events, NEW v \in VisitsIn(evs),
         NEW s, s = VisitIn(evs, v)
  PROVE  IsSession(s) /\ Recorded(s) /\ \A i, j \in DOMAIN s : s[i].player = s[j].player
<1>. DEFINE I == {i \in DOMAIN evs : evs[i].visit = v}
            N == Cardinality(I)
<1>1. PICK E : (\A e \in E : Captured(e)) /\ evs \in Seq(E)
  BY StreamIn
<1>2. I \in SUBSET DOMAIN evs /\ I # {} /\ s = Entries(evs, I)
  BY DEF VisitIn, VisitsIn
<1>3. \A i \in I : i \in DOMAIN evs /\ evs[i].visit = v
  OBVIOUS
<1>. HIDE DEF I
<1>4. /\ s \in Seq(E) /\ Len(s) = N /\ IsFiniteSet(I) /\ I \in SUBSET Int /\ N \in Nat
      /\ DOMAIN s = 1 .. N
      /\ \A n \in 1 .. N : Nth(I, n) \in I /\ s[n] = evs[Nth(I, n)]
  <2>1. /\ s \in Seq(E) /\ Len(s) = N /\ IsFiniteSet(I) /\ I \in SUBSET Int /\ N \in Nat
        /\ \A n \in 1 .. N : Nth(I, n) \in I /\ s[n] = evs[Nth(I, n)]
    BY <1>1, <1>2, EntriesIn
  <2>. QED BY <2>1, LenProperties
<1>5. IsSession(s)
  <2>1. IsSeq(s) /\ \A k \in DOMAIN s : s[k] \in E
    BY <1>4, IsSeqOf
  <2>2. s # <<>>
    <3>1. N # 0
      BY <1>2, <1>4, FS_EmptySet
    <3>. QED BY <1>4, <3>1, Nothing
  <2>. QED BY <1>1, <2>1, <2>2 DEF IsSession
<1>6. ASSUME NEW i \in 1 .. N, NEW j \in 1 .. N
      PROVE  /\ s[i].player = s[j].player
             /\ i < j /\ SameRing(s[i], s[j]) => s[i].t <= s[j].t
  <2>1. /\ Nth(I, i) \in DOMAIN evs /\ Nth(I, j) \in DOMAIN evs
        /\ s[i] = evs[Nth(I, i)] /\ s[j] = evs[Nth(I, j)] /\ s[i].visit = v /\ s[j].visit = v
    <3>1. Nth(I, i) \in I /\ Nth(I, j) \in I /\ s[i] = evs[Nth(I, i)] /\ s[j] = evs[Nth(I, j)]
      BY <1>4
    <3>. QED BY <1>3, <3>1
  <2>2. i < j => Nth(I, i) < Nth(I, j)
    BY <1>4, NthApart
  <2>3. /\ evs[Nth(I, i)].player = evs[Nth(I, j)].player
        /\ Nth(I, i) < Nth(I, j) /\ SameRing(s[i], s[j]) => s[i].t <= s[j].t
    <3>. DEFINE a == Nth(I, i)
                b == Nth(I, j)
    <3>1. a \in DOMAIN evs /\ b \in DOMAIN evs /\ evs[a].visit = evs[b].visit
      BY <2>1
    <3>2. s[i] = evs[a] /\ s[j] = evs[b]
      BY <2>1
    <3>. HIDE DEF a, b
    <3>3. /\ evs[a].player = evs[b].player
          /\ a < b /\ SameRing(evs[a], evs[b]) => evs[a].t <= evs[b].t
      BY <3>1, RecordedIn
    <3>. QED BY <3>2, <3>3 DEF a, b
  <2>4. s[i].player = s[j].player
    BY <2>1, <2>3
  <2>5. i < j /\ SameRing(s[i], s[j]) => s[i].t <= s[j].t
    BY <2>2, <2>3
  <2>. QED BY <2>4, <2>5
<1>7. \A i, j \in DOMAIN s : i < j /\ SameRing(s[i], s[j]) => s[i].t <= s[j].t
  BY <1>4, <1>6
<1>8. \A i, j \in DOMAIN s : s[i].player = s[j].player
  BY <1>4, <1>6
<1>. QED BY <1>5, <1>7, <1>8 DEF Recorded

\* What a compile has done after d of the sessions T: a line and a file for each
\* of them that is not left out.
Compiled(T, d, lns, files) ==
  \E p \in Bijection(1 .. Len(lns), {k \in 1 .. d : ~ Dropped(InTimeOrder(T[k]))}) :
    \A n \in 1 .. Len(lns) : /\ files[n] = Write(CompileTrace(InTimeOrder(T[p[n]])))
                             /\ lns[n] = ManifestEntry(n, InTimeOrder(T[p[n]]))

Left(T, d, s) == Len(s) = Len(T) - d /\ \A i \in 1 .. Len(s) : s[i] = T[d + i]

\* A compile goes through what pass 1 found, and saves when it is through.
Traced ==
  pc \in {"pass2", "compiled"} =>
    LET T == LeftByPass1(StreamDir(raw).events) IN
    /\ \E d \in 0 .. Len(T) : Left(T, d, todo) /\ Compiled(T, d, lines, out.files)
    /\ pc = "compiled" => todo = <<>> /\ out.manifest = lines

\* One more of the sessions, into one more of the files.
LEMMA OneMore ==
  ASSUME NEW n \in Nat, NEW A, NEW x, x \notin A, NEW p \in Bijection(1 .. n, A)
  PROVE  [k \in 1 .. n + 1 |-> IF k <= n THEN p[k] ELSE x] \in Bijection(1 .. n + 1, A \cup {x})
<1>. DEFINE q == [k \in 1 .. n + 1 |-> IF k <= n THEN p[k] ELSE x]
<1>1. /\ \A k \in 1 .. n : p[k] \in A
      /\ \A k, l \in 1 .. n : p[k] = p[l] => k = l
      /\ \A y \in A : \E k \in 1 .. n : p[k] = y
  <2>. DEFINE D == 1 .. n
  <2>1. p \in Bijection(D, A)
    OBVIOUS
  <2>. HIDE DEF D
  <2>2. /\ \A k \in D : p[k] \in A
        /\ \A k, l \in D : p[k] = p[l] => k = l
        /\ \A y \in A : \E k \in D : p[k] = y
    BY <2>1, Fun_BijectionProperties
  <2>. QED BY <2>2 DEF D
<1>2. \A k \in 1 .. n + 1 : IF k <= n THEN k \in 1 .. n ELSE k = n + 1
  OBVIOUS
<1>3. \A k \in 1 .. n : k \in 1 .. n + 1 /\ k <= n
  OBVIOUS
<1>4. n + 1 \in 1 .. n + 1 /\ ~(n + 1 <= n)
  OBVIOUS
<1>5. q \in [1 .. n + 1 -> A \cup {x}]
  BY <1>1, <1>2
<1>6. ASSUME NEW k \in 1 .. n + 1, NEW l \in 1 .. n + 1, q[k] = q[l] PROVE k = l
  <2>1. CASE k <= n /\ l <= n
    BY <1>1, <1>2, <1>6, <2>1
  <2>2. CASE ~(k <= n) /\ ~(l <= n)
    BY <1>2, <2>2
  <2>3. CASE k <= n /\ ~(l <= n)
    BY <1>1, <1>2, <1>6, <2>3
  <2>4. CASE ~(k <= n) /\ l <= n
    BY <1>1, <1>2, <1>6, <2>4
  <2>. QED BY <2>1, <2>2, <2>3, <2>4
<1>7. ASSUME NEW y \in A \cup {x} PROVE \E k \in 1 .. n + 1 : q[k] = y
  <2>1. CASE y \in A
    <3>1. PICK k \in 1 .. n : p[k] = y
      BY <1>1, <2>1
    <3>. QED BY <1>3, <3>1
  <2>2. CASE y = x
    BY <1>4, <2>2
  <2>. QED BY <2>1, <2>2
<1>. HIDE DEF q
<1>8. q \in Bijection(1 .. n + 1, A \cup {x})
  BY <1>5, <1>6, <1>7, Fun_IsBij
<1>. QED BY <1>8 DEF q

\* A session that is left out is behind, and nothing else has changed.
LEMMA CompiledSkips ==
  ASSUME NEW T, NEW d \in Nat, NEW lns, NEW files, Compiled(T, d, lns, files),
         Dropped(InTimeOrder(T[d + 1]))
  PROVE  Compiled(T, d + 1, lns, files)
<1>1. {k \in 1 .. d + 1 : ~ Dropped(InTimeOrder(T[k]))} = {k \in 1 .. d : ~ Dropped(InTimeOrder(T[k]))}
  <2>1. \A k : k \in 1 .. d + 1 <=> k \in 1 .. d \/ k = d + 1
    OBVIOUS
  <2>. QED BY <2>1
<1>. QED BY <1>1 DEF Compiled

\* A session that is written is listed.
LEMMA CompiledWrites ==
  ASSUME NEW T, NEW d \in Nat, NEW lns, IsSeq(lns), NEW files, Compiled(T, d, lns, files),
         NEW evs, evs = InTimeOrder(T[d + 1]), ~ Dropped(evs),
         NEW after, after[Len(lns) + 1] = Write(CompileTrace(evs)),
         \A n \in 1 .. Len(lns) : after[n] = files[n]
  PROVE  Compiled(T, d + 1, Append(lns, ManifestEntry(Len(lns) + 1, evs)), after)
<1>. DEFINE m == Len(lns)
            L == Append(lns, ManifestEntry(m + 1, evs))
            A == {k \in 1 .. d : ~ Dropped(InTimeOrder(T[k]))}
            B == {k \in 1 .. d + 1 : ~ Dropped(InTimeOrder(T[k]))}
            x == d + 1
<1>1. m \in Nat /\ DOMAIN lns = 1 .. m
  BY SeqIs
<1>2. /\ Len(L) = m + 1 /\ L[m + 1] = ManifestEntry(m + 1, evs)
      /\ \A n \in 1 .. m : L[n] = lns[n]
  <2>. DEFINE e == ManifestEntry(m + 1, evs)
  <2>. HIDE DEF e
  <2>. QED BY <1>1, SeqAppend
<1>3. B = A \cup {x} /\ x \notin A
  <2>1. \A k : k \in 1 .. d + 1 <=> k \in 1 .. d \/ k = d + 1
    OBVIOUS
  <2>2. d + 1 \notin 1 .. d
    OBVIOUS
  <2>. QED BY <2>1, <2>2
<1>. HIDE DEF L, B
<1>4. PICK p \in Bijection(1 .. m, A) :
        \A n \in 1 .. m : /\ files[n] = Write(CompileTrace(InTimeOrder(T[p[n]])))
                          /\ lns[n] = ManifestEntry(n, InTimeOrder(T[p[n]]))
  BY DEF Compiled
<1>. DEFINE q == [k \in 1 .. m + 1 |-> IF k <= m THEN p[k] ELSE x]
<1>5. q \in Bijection(1 .. m + 1, B)
  <2>. HIDE DEF A, m, x
  <2>. QED BY <1>1, <1>3, <1>4, OneMore
<1>6. ASSUME NEW n \in 1 .. m + 1
      PROVE  /\ after[n] = Write(CompileTrace(InTimeOrder(T[q[n]])))
             /\ L[n] = ManifestEntry(n, InTimeOrder(T[q[n]]))
  <2>1. CASE n <= m
    <3>1. n \in 1 .. m /\ q[n] = p[n]
      BY <1>1, <2>1
    <3>. HIDE DEF q
    <3>. QED BY <1>2, <1>4, <3>1
  <2>2. CASE ~(n <= m)
    <3>1. n = m + 1 /\ q[n] = d + 1
      BY <1>1, <2>2
    <3>. HIDE DEF q
    <3>. QED BY <1>2, <3>1
  <2>. QED BY <2>1, <2>2
<1>. HIDE DEF q
<1>7. Compiled(T, d + 1, L, after)
  BY <1>2, <1>5, <1>6 DEF Compiled, B
<1>. QED BY <1>7 DEF L

\* Each step of a compile takes one session, and none takes one twice.
LEMMA StepTraced ==
  ASSUME Types, Captive, Traced, [Next]_vars
  PROVE  Traced'
<1>. DEFINE T == LeftByPass1(StreamDir(raw).events)
<1>0. /\ IsDir(out) /\ IsSeq(lines) /\ Len(lines) <= Len(out.files) /\ IsSeq(todo)
      /\ Len(lines) \in Nat /\ Len(out.files) \in Nat /\ Len(todo) \in Nat
      /\ DOMAIN lines = 1 .. Len(lines) /\ DOMAIN out.files = 1 .. Len(out.files)
  BY SeqIs DEF Types, IsDir, Captive
<1>1. CASE Pass1
  <2>1. CASE StreamDir(raw).ok
    <3>1. pc' = "pass2" /\ raw' = raw /\ lines' = <<>> /\ todo' = T
      BY <1>1, <2>1 DEF Pass1, LeftByPass1
    <3>2. IsSeq(T) /\ Len(T) \in Nat
      <4>1. raw \in Captures
        BY <1>1 DEF Pass1, Captive
      <4>2. IsSeq(T)
        BY <4>1, Pass1Sessions DEF LeftByPass1
      <4>. HIDE DEF T
      <4>. QED BY <4>2, SeqIs
    <3>. DEFINE t == T
    <3>3. Left(t, 0, todo')
      <4>. HIDE DEF t
      <4>1. todo' = t /\ Len(t) \in Nat
        BY <3>1, <3>2 DEF t
      <4>. QED BY <4>1 DEF Left
    <3>4. Compiled(t, 0, <<>>, out'.files)
      <4>. DEFINE A == {k \in 1 .. 0 : ~ Dropped(InTimeOrder(t[k]))}
                  D == 1 .. Len(<<>>)
                  p == [k \in D |-> k]
      <4>1. A = {} /\ D = {}
        BY Nothing
      <4>2. p \in Bijection(D, A)
        BY <4>1, Fun_IsBij
      <4>. HIDE DEF A, D, p
      <4>. QED BY <4>1, <4>2 DEF Compiled, A, D
    <3>5. 0 \in 0 .. Len(t)
      BY <3>2
    <3>. HIDE DEF t
    <3>6. (\E d \in 0 .. Len(t) : Left(t, d, todo') /\ Compiled(t, d, lines', out'.files))
      BY <3>1, <3>3, <3>4, <3>5
    <3>. QED BY <3>1, <3>6 DEF Traced, t
  <2>2. CASE ~ StreamDir(raw).ok
    <3>1. pc' = "failed"
      BY <1>1, <2>2 DEF Pass1
    <3>. QED BY <3>1 DEF Traced
  <2>. QED BY <2>1, <2>2
<1>2. CASE CompileSession
  <2>. DEFINE evs == InTimeOrder(Head(todo))
              n == Len(lines) + 1
              f == Write(CompileTrace(evs))
  <2>1. pc = "pass2" /\ pc' = pc /\ raw' = raw /\ todo # <<>> /\ todo' = Tail(todo)
    BY <1>2 DEF CompileSession
  <2>2. PICK d \in 0 .. Len(T) : Left(T, d, todo) /\ Compiled(T, d, lines, out.files)
    BY <2>1 DEF Traced
  <2>3. Len(T) \in Nat
    <3>1. raw \in Captures
      BY <2>1 DEF Captive
    <3>2. IsSeq(T)
      BY <3>1, Pass1Sessions DEF LeftByPass1
    <3>. HIDE DEF T
    <3>. QED BY <3>2, SeqIs
  <2>. DEFINE t == T
  <2>a. t = LeftByPass1(StreamDir(raw).events)
    OBVIOUS
  <2>. HIDE DEF T, t
  <2>4. /\ Len(t) \in Nat /\ d \in 0 .. Len(t) /\ Left(t, d, todo) /\ Compiled(t, d, lines, out.files)
    BY <2>2, <2>3 DEF t
  <2>5. /\ Head(todo) = todo[1] /\ Len(todo) # 0 /\ Len(todo') = Len(todo) - 1
        /\ \A i \in 1 .. Len(todo) - 1 : todo'[i] = todo[i + 1]
    <3>1. todo \in Seq(Range(todo)) /\ Len(todo) # 0
      BY <1>0, <2>1, SeqIs, NotEmpty
    <3>. DEFINE E == Range(todo)
    <3>. HIDE DEF E
    <3>2. todo \in Seq(E)
      BY <3>1 DEF E
    <3>3. Head(todo) = todo[1]
      BY <2>1, <3>2, HeadTailProperties
    <3>4. Len(Tail(todo)) = Len(todo) - 1 /\ \A i \in 1 .. Len(Tail(todo)) : Tail(todo)[i] = todo[i + 1]
      BY <2>1, <3>2, HeadTailProperties
    <3>. QED BY <2>1, <3>1, <3>3, <3>4
  <2>6. /\ d \in Nat /\ d + 1 \in 0 .. Len(t) /\ Head(todo) = t[d + 1] /\ Left(t, d + 1, todo')
    <3>1. Len(todo) = Len(t) - d /\ \A i \in 1 .. Len(todo) : todo[i] = t[d + i]
      BY <2>4 DEF Left
    <3>2. d \in Nat /\ d + 1 \in 0 .. Len(t) /\ 1 \in 1 .. Len(todo)
      BY <1>0, <2>4, <2>5, <3>1
    <3>3. \A i \in 1 .. Len(todo) - 1 : i + 1 \in 1 .. Len(todo) /\ d + (i + 1) = (d + 1) + i
      BY <1>0, <3>2
    <3>4. Len(todo') = Len(t) - (d + 1)
      BY <1>0, <2>4, <2>5, <3>1, <3>2
    <3>5. \A i \in 1 .. Len(todo') : todo'[i] = t[(d + 1) + i]
      <4>. SUFFICES ASSUME NEW i \in 1 .. Len(todo) - 1 PROVE todo'[i] = t[(d + 1) + i]
        BY <2>5
      <4>1. todo'[i] = todo[i + 1]
        BY <2>5
      <4>2. todo[i + 1] = t[d + (i + 1)]
        BY <3>1, <3>3
      <4>3. d + (i + 1) = (d + 1) + i
        BY <3>3
      <4>. QED BY <4>1, <4>2, <4>3
    <3>. QED BY <2>5, <3>1, <3>2, <3>4, <3>5 DEF Left
  <2>7. Compiled(t, d + 1, lines', out'.files)
    <3>1. CASE Dropped(evs)
      <4>1. lines' = lines /\ out' = out
        BY <1>2, <3>1 DEF CompileSession
      <4>2. Dropped(InTimeOrder(t[d + 1]))
        BY <2>6, <3>1
      <4>. QED BY <2>4, <2>6, <4>1, <4>2, CompiledSkips
    <3>2. CASE ~ Dropped(evs)
      <4>1. out' = PutFile(out, n, f) /\ lines' = Append(lines, ManifestEntry(n, evs))
        BY <1>2, <3>2 DEF CompileSession
      <4>2. n \in 1 .. Len(out.files) + 1
        BY <1>0
      <4>. HIDE DEF f, n
      <4>. DEFINE dir == PutFile(out, n, f)
      <4>3. dir.files[n] = f /\ \A j \in DOMAIN out.files : j # n => dir.files[j] = out.files[j]
        BY <1>0, <4>2, Put
      <4>. HIDE DEF dir
      <4>4. out'.files[n] = f /\ \A j \in 1 .. Len(lines) : out'.files[j] = out.files[j]
        <5>1. \A j \in 1 .. Len(lines) : j \in DOMAIN out.files /\ j # Len(lines) + 1
          BY <1>0
        <5>2. out' = dir
          BY <4>1 DEF dir
        <5>. QED BY <4>3, <5>1, <5>2 DEF n
      <4>. DEFINE after == out'.files
                  e == evs
      <4>5. after[Len(lines) + 1] = Write(CompileTrace(e)) /\ \A j \in 1 .. Len(lines) : after[j] = out.files[j]
        BY <4>4 DEF f, n
      <4>6. e = InTimeOrder(t[d + 1]) /\ ~ Dropped(e)
        BY <2>6, <3>2
      <4>. HIDE DEF after, e
      <4>7. Compiled(t, d + 1, Append(lines, ManifestEntry(Len(lines) + 1, e)), after)
        BY <1>0, <2>4, <2>6, <4>5, <4>6, CompiledWrites
      <4>. QED BY <4>1, <4>7 DEF n, e, after
    <3>. QED BY <3>1, <3>2
  <2>8. \E k \in 0 .. Len(t) : Left(t, k, todo') /\ Compiled(t, k, lines', out'.files)
    BY <2>6, <2>7
  <2>. QED BY <2>a, <2>1, <2>8 DEF Traced
<1>3. CASE TraceWriteFails \/ SaveFails
  <2>1. pc' = "failed"
    BY <1>3 DEF TraceWriteFails, SaveFails
  <2>. QED BY <2>1 DEF Traced
<1>4. CASE Save
  <2>0. pc = "pass2" /\ todo = <<>> /\ raw' = raw /\ todo' = todo /\ lines' = lines
        /\ out = [files |-> out.files, manifest |-> out.manifest]
    BY <1>0, <1>4 DEF Save, IsDir
  <2>1. CASE lines = <<>>
    BY <1>4, <2>1 DEF Save, Traced
  <2>2. CASE lines # <<>>
    <3>1. out'.files = out.files /\ out'.manifest = lines /\ pc' = "compiled"
      BY <1>4, <2>0, <2>2 DEF Save
    <3>. QED BY <2>0, <3>1 DEF Traced
  <2>. QED BY <2>1, <2>2
<1>5. CASE Ship
  BY <1>5 DEF Ship, Traced
<1>6. CASE Bench
  <2>1. pc' \in {"bench", "place", "replay"}
    BY <1>6 DEF Bench, AmplifyRun, BeginRun, LogIn, RemoveAll, PlaceNext, PlaceFails, BeginReplay, EndRun,
         StartBench, StopBench, compileVars
  <2>. QED BY <2>1 DEF Traced
<1>7. CASE UNCHANGED vars
  BY <1>7 DEF vars, Traced
<1>. QED BY <1>1, <1>2, <1>3, <1>4, <1>5, <1>6, <1>7 DEF Next, CompileRun

\* The set a compile ends with has one trace for each visit that is long enough.
LEMMA TracedIsEnough ==
  ASSUME NoneIsNoTrace, NoneIsNoOrigin, Types, Captive, Traced
  PROVE  OneTracePerVisit
<1>. SUFFICES ASSUME pc = "compiled" PROVE OneTracePerVisit
  BY DEF OneTracePerVisit
<1>. DEFINE evs == StreamDir(raw).events
            T == LeftByPass1(evs)
            W == {v \in VisitsIn(evs) : IsLong(VisitIn(evs, v))}
<1>0. raw \in Captures /\ IsSeq(lines) /\ Len(lines) \in Nat /\ DOMAIN lines = 1 .. Len(lines)
  BY SeqIs DEF Captive, Types
<1>1. Lists(T, VisitsIn(evs), VisitsOf(evs)) /\ Len(T) \in Nat
  <2>1. Lists(T, VisitsIn(evs), VisitsOf(evs))
    BY <1>0, CaptureListed
  <2>2. IsSeq(T)
    BY <1>0, Pass1Sessions DEF LeftByPass1
  <2>. HIDE DEF T, evs
  <2>. QED BY <2>1, <2>2, SeqIs
<1>2. (\E d \in 0 .. Len(T) : Left(T, d, todo) /\ Compiled(T, d, lines, out.files))
      /\ todo = <<>> /\ out.manifest = lines
  BY DEF Traced
<1>3. \A v \in VisitsIn(evs) :
        LET s == VisitIn(evs, v) IN
        IsSession(s) /\ Recorded(s) /\ \A i, j \in DOMAIN s : s[i].player = s[j].player
  <2>. DEFINE c == raw
  <2>1. c \in Captures /\ evs = StreamDir(c).events
    BY <1>0
  <2>. HIDE DEF evs, c
  <2>. SUFFICES ASSUME NEW v \in VisitsIn(evs), NEW s, s = VisitIn(evs, v)
                PROVE  IsSession(s) /\ Recorded(s) /\ \A i, j \in DOMAIN s : s[i].player = s[j].player
    OBVIOUS
  <2>. QED BY <2>1, VisitIsSession
<1>. HIDE DEF T, evs
<1>4. Compiled(T, Len(T), lines, out.files)
  <2>1. PICK d \in 0 .. Len(T) : Left(T, d, todo) /\ Compiled(T, d, lines, out.files)
    BY <1>2
  <2>2. Len(T) - d = 0
    BY <1>2, <2>1, Nothing DEF Left
  <2>3. d = Len(T)
    BY <1>1, <2>2
  <2>. QED BY <2>1, <2>3
<1>. DEFINE N == Len(lines)
            A == {k \in 1 .. Len(T) : ~ Dropped(InTimeOrder(T[k]))}
<1>5. PICK p \in Bijection(1 .. N, A) :
        \A n \in 1 .. N : /\ out.files[n] = Write(CompileTrace(InTimeOrder(T[p[n]])))
                          /\ lines[n] = ManifestEntry(n, InTimeOrder(T[p[n]]))
  BY <1>4 DEF Compiled
<1>6. PICK g \in Bijection(1 .. Len(T), VisitsIn(evs)) : \A k \in 1 .. Len(T) : T[k] = VisitsOf(evs)[g[k]]
  BY <1>1 DEF Lists
<1>7. /\ \A n \in 1 .. N : p[n] \in A
      /\ \A n, m \in 1 .. N : p[n] = p[m] => n = m
      /\ \A k \in A : \E n \in 1 .. N : p[n] = k
  <2>. DEFINE D == 1 .. N
  <2>1. p \in Bijection(D, A)
    OBVIOUS
  <2>. HIDE DEF D, A
  <2>2. /\ \A n \in D : p[n] \in A
        /\ \A n, m \in D : p[n] = p[m] => n = m
        /\ \A k \in A : \E n \in D : p[n] = k
    BY <2>1, Fun_BijectionProperties
  <2>. QED BY <2>2 DEF D
<1>8. /\ \A k \in 1 .. Len(T) : g[k] \in VisitsIn(evs)
      /\ \A k, l \in 1 .. Len(T) : g[k] = g[l] => k = l
      /\ \A v \in VisitsIn(evs) : \E k \in 1 .. Len(T) : g[k] = v
  <2>. DEFINE D == 1 .. Len(T)
              V == VisitsIn(evs)
  <2>1. g \in Bijection(D, V)
    OBVIOUS
  <2>. HIDE DEF D, V
  <2>2. /\ \A k \in D : g[k] \in V
        /\ \A k, l \in D : g[k] = g[l] => k = l
        /\ \A v \in V : \E k \in D : g[k] = v
    BY <2>1, Fun_BijectionProperties
  <2>. QED BY <2>2 DEF D, V
<1>9. \A k \in 1 .. Len(T) : T[k] = VisitIn(evs, g[k]) /\ IsSession(T[k])
  <2>1. \A k \in 1 .. Len(T) : T[k] = VisitIn(evs, g[k])
    BY <1>6, <1>8 DEF VisitsOf
  <2>. QED BY <1>3, <1>8, <2>1
<1>10. \A k \in 1 .. Len(T) : k \in A <=> g[k] \in W
  <2>. SUFFICES ASSUME NEW k \in 1 .. Len(T) PROVE k \in A <=> g[k] \in W
    OBVIOUS
  <2>1. Dropped(InTimeOrder(T[k])) <=> ~ IsLong(T[k])
    BY <1>9, DroppedIs
  <2>. QED BY <1>8, <1>9, <2>1
<1>. DEFINE of == [n \in 1 .. N |-> g[p[n]]]
<1>11. of \in Bijection(1 .. N, W)
  <2>0. \A n \in 1 .. N : p[n] \in 1 .. Len(T)
    BY <1>7
  <2>. HIDE DEF A, W
  <2>1. of \in [1 .. N -> W]
    BY <1>7, <1>10, <2>0
  <2>2. \A n, m \in 1 .. N : of[n] = of[m] => n = m
    <3>. SUFFICES ASSUME NEW n \in 1 .. N, NEW m \in 1 .. N, g[p[n]] = g[p[m]] PROVE n = m
      OBVIOUS
    <3>1. p[n] = p[m]
      BY <1>8, <2>0
    <3>. QED BY <1>7, <3>1
  <2>3. ASSUME NEW v \in W PROVE \E n \in 1 .. N : of[n] = v
    <3>1. v \in VisitsIn(evs)
      BY DEF W
    <3>2. PICK k \in 1 .. Len(T) : g[k] = v
      BY <1>8, <3>1
    <3>3. k \in A
      BY <1>10, <3>2
    <3>4. PICK n \in 1 .. N : p[n] = k
      BY <1>7, <3>3
    <3>. QED BY <3>2, <3>4
  <2>. HIDE DEF of
  <2>. QED BY <2>1, <2>2, <2>3, Fun_IsBij
<1>12. ASSUME NEW n \in 1 .. N, NEW es, es = VisitIn(evs, of[n])
       PROVE  /\ Readable(out.files[out.manifest[n].file])
              /\ IsTraceOf(TraceAt(out, n), es)
              /\ \A i \in DOMAIN es : es[i].player = out.manifest[n].player
  <2>. DEFINE k == p[n]
              s == T[k]
              f == Write(CompileTrace(InTimeOrder(s)))
  <2>1. k \in 1 .. Len(T) /\ ~ Dropped(InTimeOrder(s)) /\ of[n] = g[k]
    BY <1>7
  <2>2. es = s /\ IsSession(s) /\ Recorded(s) /\ \A i, j \in DOMAIN s : s[i].player = s[j].player
    BY <1>3, <1>8, <1>9, <1>12, <2>1
  <2>3. out.files[n] = f /\ out.manifest[n] = ManifestEntry(n, InTimeOrder(s))
    BY <1>2, <1>5
  <2>. HIDE DEF s, k, of
  <2>4. /\ ManifestEntry(n, InTimeOrder(s)).file = n
        /\ ManifestEntry(n, InTimeOrder(s)).player = InTimeOrder(s)[1].player
    BY DEF ManifestEntry
  <2>5. Readable(f)
    BY DEF Readable, Write, CompileTrace, SchemaVersion, NoneIsNoTrace
  <2>6. IsTraceOf(ReadTrace(f), s)
    BY <2>1, <2>2, TraceOfVisit
  <2>7. \A i \in DOMAIN s : s[i].player = InTimeOrder(s)[1].player
    <3>1. PICK q : Orders(q, s, InTimeOrder(s))
      BY <2>2, InOrder
    <3>2. 1 \in DOMAIN s
      <4>1. DOMAIN s = 1 .. Len(s) /\ Len(s) \in Nat \ {0}
        BY <2>2, InOrder
      <4>. QED BY <4>1
    <3>3. InTimeOrder(s)[1] = s[q[1]] /\ q[1] \in DOMAIN s
      BY <3>1, <3>2 DEF Orders
    <3>. QED BY <2>2, <3>3
  <2>. HIDE DEF f
  <2>. QED BY <2>2, <2>3, <2>4, <2>5, <2>6, <2>7 DEF TraceAt
<1>13. DOMAIN out.manifest = 1 .. N
  BY <1>0, <1>2
<1>. HIDE DEF of, W
<1>14. \A n \in DOMAIN out.manifest :
         LET es == VisitIn(evs, of[n]) IN
         /\ Readable(out.files[out.manifest[n].file])
         /\ IsTraceOf(TraceAt(out, n), es)
         /\ \A i \in DOMAIN es : es[i].player = out.manifest[n].player
  <2>. SUFFICES ASSUME NEW n \in 1 .. N, NEW es, es = VisitIn(evs, of[n])
                PROVE  /\ Readable(out.files[out.manifest[n].file])
                       /\ IsTraceOf(TraceAt(out, n), es)
                       /\ \A i \in DOMAIN es : es[i].player = out.manifest[n].player
    BY <1>13
  <2>. QED BY <1>12
<1>15. of \in Bijection(DOMAIN out.manifest, W)
  BY <1>11, <1>13
<1>16. \E o \in Bijection(DOMAIN out.manifest, W) :
         \A n \in DOMAIN out.manifest :
           LET es == VisitIn(evs, o[n]) IN
           /\ Readable(out.files[out.manifest[n].file])
           /\ IsTraceOf(TraceAt(out, n), es)
           /\ \A i \in DOMAIN es : es[i].player = out.manifest[n].player
  BY <1>14, <1>15
<1>. QED BY <1>16 DEF OneTracePerVisit, W, evs

\* A compiled set has one trace for every visit that is long enough in the files,
\* and no other (compile.go 139-150, 207-271).
THEOREM OneTraceEach == ASSUME NoneIsNoTrace, NoneIsNoOrigin PROVE Spec => []OneTracePerVisit
<1>1. Init => Captive /\ Traced
  BY Nothing DEF Init, Captive, Traced
<1>2. Types /\ Captive /\ Traced /\ [Next]_vars => (Captive /\ Traced)'
  BY StepCaptive, StepTraced
<1>3. Types /\ Captive /\ Traced => OneTracePerVisit
  BY TracedIsEnough
<1>. QED BY <1>1, <1>2, <1>3, SpecTypes, PTL DEF Spec

=============================================================================
