----------------------------- MODULE FiniteFacts -----------------------------
(***************************************************************************)
(* Facts about finite sets that the proofs share: inductions over numbers  *)
(* and over the subsets of a finite set, the largest of finitely many      *)
(* numbers, sums, powers of two and pairs.                                 *)
(*                                                                         *)
(* An induction is stated over a set P of numbers or sets, the ones a      *)
(* proof is about, where the library takes an operator: the provers can    *)
(* instantiate a set and no operator.                                      *)
(***************************************************************************)
EXTENDS FiniteSetsExt, FiniteSetTheorems, WellFoundedInduction, TLAPS

(* Every non-empty set of naturals has a least element.                    *)
LEMMA LeastNat ==
    ASSUME NEW T \in SUBSET Nat, T # {}
    PROVE  \E x \in T : \A y \in T : x <= y
  <1>1. PICK x \in T : \A y \in T : ~ (<<y, x>> \in OpToRel(<, Nat))
    BY NatLessThanWellFounded, WFMin, Zenon
  <1>2. \A y \in T : y < x => <<y, x>> \in OpToRel(<, Nat)
    BY DEF OpToRel
  <1>3. \A y \in T : ~ (y < x)
    BY <1>1, <1>2, Zenon
  <1>4. x \in Nat /\ \A y \in T : y \in Nat
    OBVIOUS
  <1> QED
    BY <1>3, <1>4

(* Induction over the naturals.                                            *)
LEMMA NatSetInduction ==
    ASSUME NEW P, 0 \in P, \A n \in Nat : n \in P => n + 1 \in P
    PROVE  \A n \in Nat : n \in P
  <1> SUFFICES ASSUME NEW m \in Nat, m \notin P PROVE FALSE
    OBVIOUS
  <1>1. PICK T \in SUBSET Nat : T = {n \in Nat : n \notin P}
    OBVIOUS
  <1>2. PICK k \in T : \A n \in T : k <= n
    BY <1>1, LeastNat
  <1>3. k # 0 /\ k - 1 \in Nat /\ k - 1 \notin T
    BY <1>1, <1>2
  <1>4. k - 1 \in P /\ (k - 1) + 1 = k
    BY <1>1, <1>3
  <1> QED
    BY <1>1, <1>2, <1>3, <1>4

(* Induction over the subsets of a finite set: a subset is in P when all   *)
(* that is one element smaller is.                                         *)
LEMMA SubsetInduction ==
    ASSUME NEW S, IsFiniteSet(S), NEW P,
           \A T \in SUBSET S : (\A x \in T : T \ {x} \in P) => T \in P
    PROVE  \A T \in SUBSET S : T \in P
  <1> DEFINE Q == {n \in Nat : \A T \in SUBSET S : Cardinality(T) = n => T \in P}
  <1>0. \A T \in SUBSET S : IsFiniteSet(T) /\ Cardinality(T) \in Nat
    BY FS_Subset, FS_CardinalityType
  <1>1. 0 \in Q
    BY <1>0, FS_EmptySet
  <1>2. ASSUME NEW n \in Nat, n \in Q PROVE n + 1 \in Q
    <2> SUFFICES ASSUME NEW T \in SUBSET S, Cardinality(T) = n + 1 PROVE T \in P
      OBVIOUS
    <2>1. \A x \in T : Cardinality(T \ {x}) = n
      BY <1>0, FS_RemoveElement
    <2> QED
      BY <1>2, <2>1
  <1> HIDE DEF Q
  <1>3. \A n \in Nat : n \in Q
    BY <1>1, <1>2, NatSetInduction
  <1> QED
    BY <1>0, <1>3 DEF Q

-----------------------------------------------------------------------------
(***************************************************************************)
(* Finite sets of numbers have a largest element: the bounds of the first  *)
(* elements of an enumeration are bounded, step by step, and the least     *)
(* bound is an element.                                                    *)
(***************************************************************************)
BoundsFirst(f, k, m) == \A i \in 1..k : f[i] <= m

LEMMA FiniteIsBounded ==
    ASSUME NEW S \in SUBSET Nat, IsFiniteSet(S)
    PROVE  \E m \in Nat : \A y \in S : y <= m
  <1>1. PICK n \in Nat : ExistsSurjection(1..n, S)
    BY FS_NatSurjection
  <1>2. PICK f \in [1..n -> S] : \A y \in S : \E i \in 1..n : f[i] = y
    BY <1>1 DEF ExistsSurjection, Surjection
  <1>n. \A i \in 1..n : f[i] \in Nat
    OBVIOUS
  <1> DEFINE T == {k \in 0..n : ~ \E m \in Nat : BoundsFirst(f, k, m)}
  <1>3. T = {}
    <2> SUFFICES ASSUME T # {} PROVE FALSE
      OBVIOUS
    <2>1. T \in SUBSET Nat
      OBVIOUS
    <2> HIDE DEF T
    <2>2. PICK k \in T : \A j \in T : k <= j
      BY <2>1, LeastNat
    <2>3. k \in 0..n /\ ~ \E m \in Nat : BoundsFirst(f, k, m)
      BY <2>2 DEF T
    <2>4. k # 0
      <3>1. BoundsFirst(f, 0, 0)
        BY DEF BoundsFirst
      <3> QED
        BY <2>3, <3>1
    <2>5. k - 1 \in 0..n /\ k - 1 \notin T
      BY <2>2, <2>3, <2>4
    <2>6. PICK m \in Nat : BoundsFirst(f, k - 1, m)
      BY <2>5 DEF T
    <2>7. f[k] \in Nat
      <3>1. k \in 1..n
        BY <2>3, <2>4
      <3> QED
        BY <3>1, <1>n
    <2>8. PICK b \in Nat : b >= m /\ b >= f[k]
      BY <2>7
    <2>9. BoundsFirst(f, k, b)
      <3> SUFFICES ASSUME NEW i \in 1..k PROVE f[i] <= b
        BY DEF BoundsFirst
      <3>1. CASE i = k
        BY <3>1, <2>8
      <3>2. CASE i # k
        <4>1. i \in 1..(k - 1) /\ i \in 1..n
          BY <3>2, <2>3
        <4>2. f[i] \in Nat
          BY <4>1, <1>n
        <4> QED
          BY <4>1, <4>2, <2>6, <2>8 DEF BoundsFirst
      <3> QED
        BY <3>1, <3>2
    <2> QED
      BY <2>3, <2>9
  <1>4. PICK m \in Nat : BoundsFirst(f, n, m)
    BY <1>3
  <1> QED
    BY <1>2, <1>4 DEF BoundsFirst

LEMMA MaxBounds ==
    ASSUME NEW S \in SUBSET Nat, IsFiniteSet(S), S # {}
    PROVE  Max(S) \in S /\ \A y \in S : y <= Max(S)
  <1>1. PICK T \in SUBSET Nat : T = {m \in Nat : \A y \in S : y <= m}
    OBVIOUS
  <1>2. T # {}
    BY <1>1, FiniteIsBounded
  <1>3. PICK u \in T : \A m \in T : u <= m
    BY <1>2, LeastNat
  <1>4. u \in S
    <2> SUFFICES ASSUME u \notin S PROVE FALSE
      OBVIOUS
    <2>1. u \in Nat /\ \A y \in S : y \in Nat /\ y < u
      BY <1>1, <1>3
    <2>2. PICK v \in S : TRUE
      OBVIOUS
    <2>3. u - 1 \in Nat
      BY <2>1, <2>2
    <2>4. \A y \in S : y <= u - 1
      BY <2>1
    <2>5. u - 1 \in T
      BY <1>1, <2>3, <2>4
    <2> QED
      BY <1>3, <2>1, <2>5
  <1>5. \A y \in S : u >= y
    BY <1>1, <1>3
  <1>6. Max(S) \in S /\ \A y \in S : Max(S) >= y
    BY <1>4, <1>5 DEF Max
  <1> QED
    BY <1>6

-----------------------------------------------------------------------------
(***************************************************************************)
(* Sums.  SumFunctionOnSet is a recursive function on the subsets of a     *)
(* set; that there is one, and only one, has to be proved before its       *)
(* equation can be used.                                                   *)
(***************************************************************************)
(* A function g on a family D of sets adds up the values of f.             *)
Chosen(T) == CHOOSE x \in T : TRUE
AddsUp(f, D, g) == g = [T \in D |-> IF T = {} THEN 0 ELSE f[Chosen(T)] + g[T \ {Chosen(T)}]]

(* The definition of the library, with names for its parts.                *)
LEMMA SumUnfolds ==
    ASSUME NEW f, NEW S
    PROVE  SumFunctionOnSet(f, S) = (CHOOSE g : AddsUp(f, SUBSET S, g))[S]
  BY DEF SumFunctionOnSet, FoldFunctionOnSet, MapThenFoldSet, AddsUp, Chosen

(* There is such a function for a finite set: one for the subsets of at    *)
(* most n elements extends to those of n + 1.                              *)
LEMMA SumExists ==
    ASSUME NEW S, IsFiniteSet(S), NEW f
    PROVE  \E g : AddsUp(f, SUBSET S, g)
  <1> DEFINE small(n) == {T \in SUBSET S : Cardinality(T) <= n}
             Q == {n \in Nat : \E g : AddsUp(f, small(n), g)}
  <1>0. \A T \in SUBSET S : IsFiniteSet(T) /\ Cardinality(T) \in Nat
    BY FS_Subset, FS_CardinalityType
  <1>c. ASSUME NEW T \in SUBSET S, T # {}
        PROVE  Chosen(T) \in T /\ Cardinality(T \ {Chosen(T)}) = Cardinality(T) - 1
    <2>1. Chosen(T) \in T
      BY <1>c DEF Chosen
    <2> QED
      BY <2>1, <1>0, FS_RemoveElement
  <1>1. 0 \in Q
    <2>1. \A T \in small(0) : T = {}
      BY <1>0, FS_EmptySet
    <2>2. PICK g : g = [T \in small(0) |-> 0]
      OBVIOUS
    <2>3. AddsUp(f, small(0), g)
      BY <2>1, <2>2 DEF AddsUp
    <2> QED
      BY <2>3
  <1>2. ASSUME NEW n \in Nat, n \in Q PROVE n + 1 \in Q
    <2>1. PICK g : AddsUp(f, small(n), g)
      BY <1>2
    <2>2. PICK h : h = [T \in small(n + 1) |->
                          IF T = {} THEN 0 ELSE f[Chosen(T)] + g[T \ {Chosen(T)}]]
      OBVIOUS
    <2>3. \A T \in small(n) : T \in small(n + 1)
      BY <1>0
    <2>4. \A T \in small(n) : h[T] = g[T]
      BY <2>1, <2>2, <2>3 DEF AddsUp
    <2>5. \A T \in small(n + 1) : T # {} => T \ {Chosen(T)} \in small(n)
      BY <1>0, <1>c
    <2>6. AddsUp(f, small(n + 1), h)
      BY <2>2, <2>4, <2>5 DEF AddsUp
    <2> QED
      BY <2>6
  <1> HIDE DEF Q
  <1>3. Cardinality(S) \in Q
    BY <1>0, <1>1, <1>2, NatSetInduction
  <1>4. SUBSET S = small(Cardinality(S))
    BY FS_Subset
  <1> QED
    BY <1>3, <1>4 DEF Q

(* There is no other, whatever set it is made for.                         *)
LEMMA SumUnique ==
    ASSUME NEW S, IsFiniteSet(S), NEW f, NEW g, AddsUp(f, SUBSET S, g),
           NEW T \in SUBSET S, NEW h, AddsUp(f, SUBSET T, h)
    PROVE  h[T] = g[T]
  <1> DEFINE P == {U \in SUBSET T : h[U] = g[U]}
  <1>1. IsFiniteSet(T)
    BY FS_Subset
  <1>2. ASSUME NEW U \in SUBSET T, \A x \in U : U \ {x} \in P PROVE U \in P
    <2>1. CASE U = {}
      BY <2>1 DEF AddsUp
    <2>2. CASE U # {}
      <3>1. Chosen(U) \in U
        BY <2>2 DEF Chosen
      <3>2. h[U \ {Chosen(U)}] = g[U \ {Chosen(U)}]
        BY <1>2, <3>1
      <3>3. h[U] = f[Chosen(U)] + h[U \ {Chosen(U)}]
        BY <2>2 DEF AddsUp
      <3>4. g[U] = f[Chosen(U)] + g[U \ {Chosen(U)}]
        BY <2>2 DEF AddsUp
      <3> QED
        BY <3>2, <3>3, <3>4
    <2> QED
      BY <2>1, <2>2
  <1> HIDE DEF P
  <1>3. T \in P
    BY <1>1, <1>2, SubsetInduction
  <1> QED
    BY <1>3 DEF P

(* The equation of a sum.                                                  *)
LEMMA SumStep ==
    ASSUME NEW S, IsFiniteSet(S), NEW f
    PROVE  /\ SumFunctionOnSet(f, {}) = 0
           /\ \A T \in SUBSET S : T # {} =>
                /\ Chosen(T) \in T
                /\ SumFunctionOnSet(f, T) =
                     f[Chosen(T)] + SumFunctionOnSet(f, T \ {Chosen(T)})
  <1>1. PICK g : AddsUp(f, SUBSET S, g)
    BY SumExists
  <1>2. ASSUME NEW T \in SUBSET S PROVE SumFunctionOnSet(f, T) = g[T]
    <2>1. PICK h : h = CHOOSE s : AddsUp(f, SUBSET T, s)
      OBVIOUS
    <2>2. IsFiniteSet(T)
      BY FS_Subset
    <2>3. AddsUp(f, SUBSET T, h)
      BY <2>1, <2>2, SumExists
    <2>4. h[T] = g[T]
      BY <1>1, <2>3, SumUnique
    <2> QED
      BY <2>1, <2>4, SumUnfolds
  <1>3. g[{}] = 0
    BY <1>1 DEF AddsUp
  <1>4. ASSUME NEW T \in SUBSET S, T # {}
        PROVE  Chosen(T) \in T /\ g[T] = f[Chosen(T)] + g[T \ {Chosen(T)}]
    BY <1>1, <1>4 DEF AddsUp, Chosen
  <1> QED
    BY <1>2, <1>3, <1>4

(* A sum of values up to k is at most k times their number.                *)
LEMMA SumBounds ==
    ASSUME NEW S, IsFiniteSet(S), NEW f, NEW k \in Nat, \A x \in S : f[x] \in 0..k
    PROVE  SumFunctionOnSet(f, S) \in 0..(k * Cardinality(S))
  <1> DEFINE P == {T \in SUBSET S : SumFunctionOnSet(f, T) \in 0..(k * Cardinality(T))}
  <1>1. ASSUME NEW T \in SUBSET S, \A x \in T : T \ {x} \in P PROVE T \in P
    <2>1. CASE T = {}
      BY <2>1, SumStep, FS_EmptySet
    <2>2. CASE T # {}
      <3>0. PICK x \in T : x = Chosen(T)
        BY <2>2 DEF Chosen
      <3>1. SumFunctionOnSet(f, T) = f[x] + SumFunctionOnSet(f, T \ {x})
        BY <2>2, <3>0, SumStep
      <3>2. PICK n \in Nat : n = Cardinality(T \ {x})
        BY FS_Subset, FS_CardinalityType
      <3>3. Cardinality(T) = n + 1
        BY <3>2, FS_Subset, FS_RemoveElement, FS_CardinalityType
      <3>4. SumFunctionOnSet(f, T \ {x}) \in 0..(k * n)
        BY <1>1, <3>2
      <3>5. k * (n + 1) = k * n + k /\ k * n \in Nat
        OBVIOUS
      <3>6. f[x] \in 0..k
        OBVIOUS
      <3> QED
        BY <3>1, <3>3, <3>4, <3>5, <3>6
    <2> QED
      BY <2>1, <2>2
  <1> HIDE DEF P
  <1>2. \A T \in SUBSET S : T \in P
    BY <1>1, SubsetInduction
  <1> QED
    BY <1>2 DEF P

(* A sum of naturals is one.                                               *)
LEMMA SumNat ==
    ASSUME NEW S, IsFiniteSet(S), NEW f, \A x \in S : f[x] \in Nat
    PROVE  SumFunctionOnSet(f, S) \in Nat
  <1> DEFINE P == {T \in SUBSET S : SumFunctionOnSet(f, T) \in Nat}
  <1>1. ASSUME NEW T \in SUBSET S, \A x \in T : T \ {x} \in P PROVE T \in P
    <2>1. CASE T = {}
      BY <2>1, SumStep
    <2>2. CASE T # {}
      <3>0. PICK x \in T : x = Chosen(T)
        BY <2>2 DEF Chosen
      <3>1. SumFunctionOnSet(f, T) = f[x] + SumFunctionOnSet(f, T \ {x})
        BY <2>2, <3>0, SumStep
      <3> QED
        BY <1>1, <3>1
    <2> QED
      BY <2>1, <2>2
  <1> HIDE DEF P
  <1>2. \A T \in SUBSET S : T \in P
    BY <1>1, SubsetInduction
  <1> QED
    BY <1>2 DEF P

(* A sum of integers is one.                                               *)
LEMMA SumInt ==
    ASSUME NEW S, IsFiniteSet(S), NEW f, \A x \in S : f[x] \in Int
    PROVE  SumFunctionOnSet(f, S) \in Int
  <1> DEFINE P == {T \in SUBSET S : SumFunctionOnSet(f, T) \in Int}
  <1>1. ASSUME NEW T \in SUBSET S, \A x \in T : T \ {x} \in P PROVE T \in P
    <2>1. CASE T = {}
      BY <2>1, SumStep
    <2>2. CASE T # {}
      <3>0. PICK x \in T : x = Chosen(T)
        BY <2>2 DEF Chosen
      <3>1. SumFunctionOnSet(f, T) = f[x] + SumFunctionOnSet(f, T \ {x})
        BY <2>2, <3>0, SumStep
      <3> QED
        BY <1>1, <3>1
    <2> QED
      BY <2>1, <2>2
  <1> HIDE DEF P
  <1>2. \A T \in SUBSET S : T \in P
    BY <1>1, SubsetInduction
  <1> QED
    BY <1>2 DEF P

(* Larger values have a larger sum.                                        *)
LEMMA SumMonotonic ==
    ASSUME NEW S, IsFiniteSet(S), NEW f, NEW g,
           \A x \in S : f[x] \in Nat /\ g[x] \in Nat /\ f[x] <= g[x]
    PROVE  SumFunctionOnSet(f, S) <= SumFunctionOnSet(g, S)
  <1> DEFINE P == {T \in SUBSET S : /\ SumFunctionOnSet(f, T) \in Nat
                                   /\ SumFunctionOnSet(g, T) \in Nat
                                   /\ SumFunctionOnSet(f, T) <= SumFunctionOnSet(g, T)}
  <1>1. ASSUME NEW T \in SUBSET S, \A x \in T : T \ {x} \in P PROVE T \in P
    <2>1. CASE T = {}
      BY <2>1, SumStep
    <2>2. CASE T # {}
      <3>0. PICK x \in T : x = Chosen(T)
        BY <2>2 DEF Chosen
      <3>1. /\ SumFunctionOnSet(f, T) = f[x] + SumFunctionOnSet(f, T \ {x})
            /\ SumFunctionOnSet(g, T) = g[x] + SumFunctionOnSet(g, T \ {x})
        BY <2>2, <3>0, SumStep
      <3> QED
        BY <1>1, <3>1
    <2> QED
      BY <2>1, <2>2
  <1> HIDE DEF P
  <1>2. \A T \in SUBSET S : T \in P
    BY <1>1, SubsetInduction
  <1> QED
    BY <1>2 DEF P

-----------------------------------------------------------------------------
(* Powers of two grow: 2 ^ n counts the subsets of 1..n.                   *)
LEMMA PowersGrow ==
    ASSUME NEW m \in Nat, NEW n \in Nat, m <= n
    PROVE  2 ^ m \in Nat \ {0} /\ 2 ^ n \in Nat /\ 2 ^ m <= 2 ^ n
  <1>1. ASSUME NEW k \in Nat
        PROVE  /\ IsFiniteSet(SUBSET (1..k)) /\ Cardinality(SUBSET (1..k)) = 2 ^ k
               /\ 2 ^ k \in Nat \ {0}
    <2>1. IsFiniteSet(1..k) /\ Cardinality(1..k) = k
      BY FS_Interval
    <2>2. IsFiniteSet(SUBSET (1..k)) /\ Cardinality(SUBSET (1..k)) = 2 ^ k
      BY <2>1, FS_SUBSET
    <2>3. {} \in SUBSET (1..k)
      OBVIOUS
    <2>4. Cardinality(SUBSET (1..k)) \in Nat /\ Cardinality(SUBSET (1..k)) # 0
      BY <2>2, <2>3, FS_CardinalityType, FS_EmptySet
    <2> QED
      BY <2>2, <2>4
  <1>2. SUBSET (1..m) \subseteq SUBSET (1..n)
    OBVIOUS
  <1>3. Cardinality(SUBSET (1..m)) <= Cardinality(SUBSET (1..n))
    BY <1>1, <1>2, FS_Subset
  <1> QED
    BY <1>1, <1>3

(* A set of m elements has at most m (m - 1) / 2 pairs: one more element   *)
(* makes a pair with each of the others.                                   *)
PairsOf(S) == {e \in SUBSET S : Cardinality(e) = 2}

LEMMA PairsBounded ==
    ASSUME NEW S, IsFiniteSet(S)
    PROVE  /\ IsFiniteSet(PairsOf(S))
           /\ 2 * Cardinality(PairsOf(S)) <= Cardinality(S) * (Cardinality(S) - 1)
  <1> DEFINE P == {T \in SUBSET S : 2 * Cardinality(PairsOf(T)) <=
                                      Cardinality(T) * (Cardinality(T) - 1)}
  <1>0. ASSUME NEW T \in SUBSET S
        PROVE  /\ IsFiniteSet(T) /\ Cardinality(T) \in Nat
               /\ IsFiniteSet(PairsOf(T)) /\ Cardinality(PairsOf(T)) \in Nat
    <2>1. IsFiniteSet(T) /\ Cardinality(T) \in Nat
      BY FS_Subset, FS_CardinalityType
    <2>2. IsFiniteSet(SUBSET T) /\ PairsOf(T) \subseteq SUBSET T
      BY <2>1, FS_SUBSET DEF PairsOf
    <2>3. IsFiniteSet(PairsOf(T))
      BY <2>2, FS_Subset
    <2> QED
      BY <2>1, <2>3, FS_CardinalityType
  <1>1. ASSUME NEW T \in SUBSET S, \A x \in T : T \ {x} \in P PROVE T \in P
    <2>1. CASE T = {}
      <3>1. PairsOf(T) = {}
        BY <2>1, FS_EmptySet DEF PairsOf
      <3> QED
        BY <2>1, <3>1, FS_EmptySet
    <2>2. CASE T # {}
      <3>1. PICK x \in T : TRUE
        BY <2>2
      <3>2. PICK U \in SUBSET S : U = T \ {x} /\ U \in P
        BY <1>1, <3>1
      <3>3. PICK u \in Nat : u = Cardinality(U)
        BY <1>0
      <3>t. Cardinality(T) = u + 1
        <4>1. IsFiniteSet(T) /\ Cardinality(T) \in Nat
          BY <1>0
        <4>2. Cardinality(T \ {x}) = Cardinality(T) - 1
          BY <4>1, FS_RemoveElement
        <4> QED
          BY <3>2, <3>3, <4>1, <4>2
      <3>4. PICK N : N = {{x, y} : y \in U}
        OBVIOUS
      <3>5. PairsOf(T) \subseteq PairsOf(U) \cup N
        <4> SUFFICES ASSUME NEW e \in SUBSET T, Cardinality(e) = 2, e \notin PairsOf(U)
                     PROVE  e \in N
          BY DEF PairsOf
        <4>1. x \in e
          BY <3>2 DEF PairsOf
        <4>2. IsFiniteSet(e)
          BY <1>0
        <4>3. IsFiniteSet(e \ {x}) /\ Cardinality(e \ {x}) = 1
          BY <4>1, <4>2, FS_RemoveElement
        <4>4. PICK y : e \ {x} = {y}
          BY <4>3, FS_Singleton
        <4>5. y \in U /\ e = {x, y}
          BY <3>2, <4>1, <4>4
        <4> QED
          BY <3>4, <4>5
      <3>6. IsFiniteSet(N) /\ Cardinality(N) <= u /\ Cardinality(N) \in Nat
        <4>1. [y \in U |-> {x, y}] \in Surjection(U, N)
          BY <3>4 DEF Surjection
        <4>2. IsFiniteSet(U)
          BY <1>0
        <4> QED
          BY <3>3, <4>1, <4>2, FS_Surjection, FS_CardinalityType
      <3>7. PICK p \in Nat : p = Cardinality(PairsOf(U)) /\ 2 * p <= u * (u - 1)
        BY <1>0, <3>2, <3>3
      <3>8. IsFiniteSet(PairsOf(U) \cup N) /\ Cardinality(PairsOf(U) \cup N) <= p + u
        <4>1. IsFiniteSet(PairsOf(U)) /\ IsFiniteSet(PairsOf(U) \cap N)
          BY <1>0, FS_Intersection
        <4>2. /\ IsFiniteSet(PairsOf(U) \cup N)
              /\ Cardinality(PairsOf(U) \cup N) =
                   Cardinality(PairsOf(U)) + Cardinality(N) - Cardinality(PairsOf(U) \cap N)
          BY <3>6, <4>1, FS_Union
        <4>3. Cardinality(PairsOf(U) \cap N) \in Nat
          BY <4>1, FS_CardinalityType
        <4> QED
          BY <3>6, <3>7, <4>2, <4>3
      <3>9. Cardinality(PairsOf(T)) <= p + u
        <4>1. Cardinality(PairsOf(T)) <= Cardinality(PairsOf(U) \cup N)
          BY <3>5, <3>8, FS_Subset
        <4> QED
          BY <1>0, <3>8, <4>1, FS_CardinalityType
      <3>10. u * (u - 1) + 2 * u = (u + 1) * ((u + 1) - 1)
        OBVIOUS
      <3>11. 2 * Cardinality(PairsOf(T)) <= u * (u - 1) + 2 * u
        BY <1>0, <3>7, <3>9
      <3> QED
        BY <3>t, <3>10, <3>11
    <2> QED
      BY <2>1, <2>2
  <1> HIDE DEF P
  <1>2. \A T \in SUBSET S : T \in P
    BY <1>1, SubsetInduction
  <1> QED
    BY <1>0, <1>2 DEF P
=============================================================================
