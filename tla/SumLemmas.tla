----------------------------- MODULE SumLemmas -----------------------------
(***************************************************************************)
(* Sums over finite sets.  The models add up the sizes of files, the drops *)
(* of sessions and the events of sessions with SumFunctionOnSet, a         *)
(* recursive function; the sum of natural numbers is shown to be the       *)
(* number of the units it counts, and what the proofs need of sums then    *)
(* follows from what is known of cardinalities.                            *)
(*                                                                         *)
(* The induction is over a set of sets and has no formula for a parameter: *)
(* a set of counterexamples that is not empty would have a smallest one.   *)
(***************************************************************************)
EXTENDS Functions, FiniteSetTheorems, TLAPS

(* The recursion                                                            *)

\* What holds of a set whenever it holds of its proper subsets holds of every
\* finite set.
LEMMA SetInduction ==
  ASSUME NEW S, IsFiniteSet(S), NEW G,
         \A T \in SUBSET S : (\A U \in SUBSET T : U # T => U \in G) => T \in G
  PROVE  S \in G
<1>. DEFINE Bad == {T \in SUBSET S : T \notin G}
<1>1. SUFFICES ASSUME S \notin G PROVE FALSE
  OBVIOUS
<1>2. Bad # {} /\ Bad \subseteq SUBSET S
  BY <1>1
<1>3. IsWellFoundedOn(StrictSubsetOrdering(S), SUBSET S)
  BY FS_StrictSubsetOrderingWellFounded, FS_FiniteSubsetsOfFinite
<1>4. PICK T \in Bad : \A U \in Bad : <<U, T>> \notin StrictSubsetOrdering(S)
  <2>. HIDE DEF Bad
  <2>. QED BY <1>2, <1>3, WFMin
<1>5. \A U \in SUBSET T : U # T => U \in G
  BY <1>4 DEF StrictSubsetOrdering
<1>. QED BY <1>4, <1>5

\* Each x of S as many times as f says.
Units(f, S) == UNION {{x} \X (1 .. f[x]) : x \in S}

\* One more element brings as many units as f says.
LEMMA UnitsAdd ==
  ASSUME NEW f, NEW S, NEW x, x \notin S, f[x] \in Nat, IsFiniteSet(Units(f, S))
  PROVE  /\ IsFiniteSet(Units(f, S \cup {x}))
         /\ Cardinality(Units(f, S \cup {x})) = Cardinality(Units(f, S)) + f[x]
<1>. DEFINE Mine == {x} \X (1 .. f[x])
<1>1. Units(f, S \cup {x}) = Units(f, S) \cup Mine
  BY DEF Units
<1>2. Units(f, S) \cap Mine = {}
  BY DEF Units
<1>3. IsFiniteSet(Mine) /\ Cardinality(Mine) = f[x]
  <2>1. IsFiniteSet({x}) /\ Cardinality({x}) = 1
    BY FS_Singleton
  <2>2. IsFiniteSet(1 .. f[x]) /\ Cardinality(1 .. f[x]) = f[x]
    BY FS_Interval
  <2>3. IsFiniteSet(Mine) /\ Cardinality(Mine) = Cardinality({x}) * Cardinality(1 .. f[x])
    BY <2>1, <2>2, FS_Product
  <2>4. Cardinality(Mine) = 1 * f[x]
    BY <2>1, <2>2, <2>3
  <2>. HIDE DEF Mine
  <2>. QED BY <2>3, <2>4
<1>. HIDE DEF Mine
<1>4. /\ IsFiniteSet(Units(f, S) \cup Mine)
      /\ Cardinality(Units(f, S) \cup Mine)
           = Cardinality(Units(f, S)) + Cardinality(Mine) - Cardinality(Units(f, S) \cap Mine)
  BY <1>3, FS_Union
<1>5. Cardinality({}) = 0 /\ Cardinality(Units(f, S)) \in Nat
  BY FS_EmptySet, FS_CardinalityType
<1>6. Cardinality(Units(f, S) \cup Mine) = Cardinality(Units(f, S)) + f[x]
  <2>1. Cardinality(Units(f, S) \cap Mine) = 0
    BY <1>2, <1>5
  <2>. QED BY <1>3, <1>4, <1>5, <2>1
<1>. QED BY <1>1, <1>4, <1>6

\* The units of a finite set are finitely many.
LEMMA UnitsFinite ==
  ASSUME NEW f, NEW S, IsFiniteSet(S), \A x \in S : f[x] \in Nat
  PROVE  IsFiniteSet(Units(f, S))
<1>. DEFINE G == {T \in SUBSET S : IsFiniteSet(Units(f, T))}
<1>1. ASSUME NEW T \in SUBSET S, \A U \in SUBSET T : U # T => U \in G
      PROVE  T \in G
  <2>1. CASE T = {}
    <3>1. Units(f, {}) = {}
      BY DEF Units
    <3>. QED BY <2>1, <3>1, FS_EmptySet
  <2>2. CASE T # {}
    <3>1. PICK x : x \in T
      BY <2>2
    <3>2. T \ {x} \in G
      BY <1>1, <3>1
    <3>3. T = (T \ {x}) \cup {x} /\ x \notin T \ {x} /\ f[x] \in Nat
      BY <3>1
    <3>4. IsFiniteSet(Units(f, (T \ {x}) \cup {x}))
      BY <3>2, <3>3, UnitsAdd
    <3>. QED BY <3>3, <3>4
  <2>. QED BY <2>1, <2>2
<1>2. S \in G
  <2>. HIDE DEF G
  <2>. QED BY <1>1, SetInduction
<1>. QED BY <1>2

\* The recursive sum counts the units.
LEMMA SumIsCount ==
  ASSUME NEW f, NEW S, IsFiniteSet(S), \A x \in S : f[x] \in Nat
  PROVE  SumFunctionOnSet(f, S) = Cardinality(Units(f, S))
<1>. DEFINE pick(T) == CHOOSE x \in T : TRUE
            count == [T \in SUBSET S |-> Cardinality(Units(f, T))]
            Sums(iter) == iter = [T \in SUBSET S |-> IF T = {} THEN 0
                                     ELSE f[pick(T)] + iter[T \ {pick(T)}]]
            sum == CHOOSE iter : Sums(iter)
<1>1. ASSUME NEW T \in SUBSET S, T # {}
      PROVE  /\ pick(T) \in T /\ f[pick(T)] \in Nat
             /\ Cardinality(Units(f, T)) = f[pick(T)] + Cardinality(Units(f, T \ {pick(T)}))
  <2>1. pick(T) \in T
    BY <1>1
  <2>. DEFINE x == pick(T)
  <2>2. x \in T
    BY <2>1
  <2>. HIDE DEF x
  <2>3. T = (T \ {x}) \cup {x} /\ x \notin T \ {x} /\ f[x] \in Nat
    BY <2>2
  <2>4. IsFiniteSet(T \ {x}) /\ \A y \in T \ {x} : f[y] \in Nat
    BY FS_Subset
  <2>5. IsFiniteSet(Units(f, T \ {x}))
    BY <2>4, UnitsFinite
  <2>6. Cardinality(Units(f, (T \ {x}) \cup {x})) = Cardinality(Units(f, T \ {x})) + f[x]
    BY <2>3, <2>5, UnitsAdd
  <2>7. Cardinality(Units(f, T \ {x})) \in Nat
    BY <2>5, FS_CardinalityType
  <2>8. Cardinality(Units(f, T)) = f[x] + Cardinality(Units(f, T \ {x}))
    <3>1. Cardinality(Units(f, T)) = Cardinality(Units(f, T \ {x})) + f[x]
      BY <2>3, <2>6
    <3>2. f[x] \in Nat
      BY <2>3
    <3>. HIDE DEF Sums, count, sum
    <3>. QED BY <3>1, <3>2, <2>7
  <2>. QED BY <2>1, <2>3, <2>8 DEF x
<1>2. Cardinality(Units(f, {})) = 0
  <2>1. Units(f, {}) = {}
    BY DEF Units
  <2>. QED BY <2>1, FS_EmptySet
<1>. HIDE DEF pick
<1>3. Sums(count)
  <2>1. ASSUME NEW T \in SUBSET S
        PROVE  count[T] = IF T = {} THEN 0 ELSE f[pick(T)] + count[T \ {pick(T)}]
    BY <1>1, <1>2
  <2>. QED BY <2>1
<1>4. Sums(sum)
  <2>. HIDE DEF Sums, count
  <2>. QED BY <1>3
<1>5. S \in {T \in SUBSET S : sum[T] = Cardinality(Units(f, T))}
  <2>. DEFINE G == {T \in SUBSET S : sum[T] = Cardinality(Units(f, T))}
  <2>0. \A T \in SUBSET S : sum[T] = IF T = {} THEN 0
                                     ELSE f[pick(T)] + sum[T \ {pick(T)}]
    <3>. HIDE DEF sum
    <3>. QED BY <1>4
  <2>. HIDE DEF sum
  <2>1. ASSUME NEW T \in SUBSET S, \A U \in SUBSET T : U # T => U \in G
        PROVE  T \in G
    <3>1. CASE T = {}
      BY <3>1, <2>0, <1>2
    <3>2. CASE T # {}
      <4>1. T \ {pick(T)} \in G
        BY <1>1, <2>1, <3>2
      <4>. QED BY <4>1, <1>1, <2>0, <3>2
    <3>. QED BY <3>1, <3>2
  <2>2. S \in G
    <3>. HIDE DEF G
    <3>. QED BY <2>1, SetInduction
  <2>. QED BY <2>2
<1>6. SumFunctionOnSet(f, S) = sum[S]
  BY DEF SumFunctionOnSet, FoldFunctionOnSet, MapThenFoldSet, pick
<1>. QED BY <1>5, <1>6
----------------------------------------------------------------------------
(* What follows for sums                                                    *)

\* The sum is a natural number.
LEMMA SumNat ==
  ASSUME NEW f, NEW S, IsFiniteSet(S), \A x \in S : f[x] \in Nat
  PROVE  SumFunctionOnSet(f, S) \in Nat
BY SumIsCount, UnitsFinite, FS_CardinalityType

\* Functions that agree on the set have one sum over it.
LEMMA SumSame ==
  ASSUME NEW f, NEW g, NEW S, IsFiniteSet(S),
         \A x \in S : f[x] \in Nat /\ g[x] = f[x]
  PROVE  SumFunctionOnSet(g, S) = SumFunctionOnSet(f, S)
<1>1. Units(g, S) = Units(f, S)
  BY DEF Units
<1>. QED BY <1>1, SumIsCount

\* Sums over disjoint sets add up to the sum over both.
LEMMA SumDisjoint ==
  ASSUME NEW f, NEW S, NEW T, IsFiniteSet(S), IsFiniteSet(T), S \cap T = {},
         \A x \in S \cup T : f[x] \in Nat
  PROVE  SumFunctionOnSet(f, S \cup T) = SumFunctionOnSet(f, S) + SumFunctionOnSet(f, T)
<1>1. Units(f, S \cup T) = Units(f, S) \cup Units(f, T)
  BY DEF Units
<1>2. Units(f, S) \cap Units(f, T) = {}
  BY DEF Units
<1>3. IsFiniteSet(S \cup T) /\ IsFiniteSet(Units(f, S)) /\ IsFiniteSet(Units(f, T))
  BY FS_Union, UnitsFinite
<1>4. Cardinality(Units(f, S) \cup Units(f, T))
        = Cardinality(Units(f, S)) + Cardinality(Units(f, T))
            - Cardinality(Units(f, S) \cap Units(f, T))
  BY <1>3, FS_Union
<1>5. /\ Cardinality(Units(f, S)) \in Nat /\ Cardinality(Units(f, T)) \in Nat
      /\ Cardinality(Units(f, S) \cap Units(f, T)) = 0
  BY <1>2, <1>3, FS_CardinalityType, FS_EmptySet
<1>6. /\ SumFunctionOnSet(f, S) = Cardinality(Units(f, S))
      /\ SumFunctionOnSet(f, T) = Cardinality(Units(f, T))
      /\ SumFunctionOnSet(f, S \cup T) = Cardinality(Units(f, S) \cup Units(f, T))
  BY <1>1, <1>3, SumIsCount
<1>. QED BY <1>4, <1>5, <1>6

\* The sum over nothing is 0, and over one element its entry.
LEMMA SumSmall ==
  ASSUME NEW f
  PROVE  /\ SumFunctionOnSet(f, {}) = 0
         /\ \A x : f[x] \in Nat => SumFunctionOnSet(f, {x}) = f[x]
<1>1. Units(f, {}) = {} /\ IsFiniteSet({}) /\ Cardinality({}) = 0
  BY FS_EmptySet DEF Units
<1>2. SumFunctionOnSet(f, {}) = 0
  BY <1>1, SumIsCount
<1>3. ASSUME NEW x, f[x] \in Nat
      PROVE  SumFunctionOnSet(f, {x}) = f[x]
  <2>1. IsFiniteSet(Units(f, {} \cup {x})) /\ Cardinality(Units(f, {} \cup {x})) = 0 + f[x]
    BY <1>1, <1>3, UnitsAdd
  <2>2. SumFunctionOnSet(f, {x}) = Cardinality(Units(f, {x}))
    BY <1>3, FS_Singleton, SumIsCount
  <2>3. {} \cup {x} = {x}
    OBVIOUS
  <2>4. Cardinality(Units(f, {x})) = 0 + f[x]
    BY <2>1, <2>3
  <2>. QED BY <1>3, <2>2, <2>4
<1>. QED BY <1>2, <1>3

\* One element taken apart.
LEMMA SumRemove ==
  ASSUME NEW f, NEW S, IsFiniteSet(S), \A y \in S : f[y] \in Nat, NEW x \in S
  PROVE  /\ SumFunctionOnSet(f, S) = SumFunctionOnSet(f, S \ {x}) + f[x]
         /\ SumFunctionOnSet(f, S \ {x}) \in Nat
<1>1. IsFiniteSet(S \ {x}) /\ IsFiniteSet({x}) /\ (S \ {x}) \cap {x} = {}
  BY FS_Subset, FS_Singleton
<1>2. (S \ {x}) \cup {x} = S
  OBVIOUS
<1>3. SumFunctionOnSet(f, (S \ {x}) \cup {x})
        = SumFunctionOnSet(f, S \ {x}) + SumFunctionOnSet(f, {x})
  BY <1>1, <1>2, SumDisjoint
<1>4. SumFunctionOnSet(f, {x}) = f[x]
  BY SumSmall
<1>5. SumFunctionOnSet(f, S \ {x}) \in Nat
  BY <1>1, SumNat
<1>. QED BY <1>2, <1>3, <1>4, <1>5

\* One entry changed.
LEMMA SumUpdate ==
  ASSUME NEW f, NEW g, NEW S, IsFiniteSet(S), NEW x \in S,
         \A y \in S : f[y] \in Nat /\ g[y] \in Nat,
         \A y \in S \ {x} : g[y] = f[y]
  PROVE  SumFunctionOnSet(g, S) = SumFunctionOnSet(f, S) + (g[x] - f[x])
<1>1. /\ SumFunctionOnSet(f, S) = SumFunctionOnSet(f, S \ {x}) + f[x]
      /\ SumFunctionOnSet(f, S \ {x}) \in Nat
  BY SumRemove
<1>2. SumFunctionOnSet(g, S) = SumFunctionOnSet(g, S \ {x}) + g[x]
  BY SumRemove
<1>3. SumFunctionOnSet(g, S \ {x}) = SumFunctionOnSet(f, S \ {x})
  <2>1. IsFiniteSet(S \ {x})
    BY FS_Subset
  <2>. QED BY <2>1, SumSame
<1>4. f[x] \in Nat /\ g[x] \in Nat
  OBVIOUS
<1>. QED BY <1>1, <1>2, <1>3, <1>4

\* Entries that are smaller, or 0 where there was none, have a smaller sum.
LEMMA SumMonotone ==
  ASSUME NEW f, NEW g, NEW S, NEW T, IsFiniteSet(S), IsFiniteSet(T),
         \A x \in T : g[x] \in Nat,
         \A x \in S : f[x] \in Nat /\ (f[x] = 0 \/ (x \in T /\ f[x] <= g[x]))
  PROVE  SumFunctionOnSet(f, S) <= SumFunctionOnSet(g, T)
<1>1. \A x \in S : 1 .. f[x] = {} \/ (x \in T /\ 1 .. f[x] \subseteq 1 .. g[x])
  OBVIOUS
<1>2. Units(f, S) \subseteq Units(g, T)
  BY <1>1 DEF Units
<1>3. IsFiniteSet(Units(g, T))
  BY UnitsFinite
<1>4. Cardinality(Units(f, S)) <= Cardinality(Units(g, T))
  BY <1>2, <1>3, FS_Subset
<1>. QED BY <1>4, SumIsCount

\* Entries of 0 add nothing.
LEMMA SumZero ==
  ASSUME NEW f, NEW S, \A x \in S : f[x] = 0, IsFiniteSet(S)
  PROVE  SumFunctionOnSet(f, S) = 0
<1>1. 1 .. 0 = {}
  OBVIOUS
<1>2. Units(f, S) = {}
  BY <1>1 DEF Units
<1>. QED BY <1>2, SumIsCount, FS_EmptySet
=============================================================================
