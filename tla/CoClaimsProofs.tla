--------------------------- MODULE CoClaimsProofs ---------------------------
(***************************************************************************)
(* What the co-claim graph reports, for any number of workers, claims,     *)
(* groups and runs, and any thresholds: that rings are the connected       *)
(* components of the supported pairs, and that the risk of a ring that     *)
(* claims no more does not grow.                                           *)
(***************************************************************************)
EXTENDS CoClaims, FiniteFacts

(***************************************************************************)
(* Reach computes the least closed set: the workers that are in every set  *)
(* that holds the first ones and that no edge leaves.                      *)
(***************************************************************************)
EdgeSets == SUBSET SUBSET Members
Closed(es, C) == \A e \in es : e \cap C # {} => e \subseteq C
Closure(es, seen) ==
    {p \in Members : \A C \in SUBSET Members : seen \subseteq C /\ Closed(es, C) => p \in C}
Grown(es, seen) == seen \cup UNION {e \in es : e \cap seen # {}}

(* The equation of what a worker reaches.                                  *)
Reaches(es, g) == g = [seen \in SUBSET Members |->
    IF Grown(es, seen) = seen THEN seen ELSE g[Grown(es, seen)]]

LEMMA ReachIsChosen ==
    ASSUME NEW es, NEW p
    PROVE  Reach(es, p) = (CHOOSE g : Reaches(es, g))[{p}]
  BY DEF Reach, Reaches, Grown

LEMMA ClosureIsLeast ==
    ASSUME NEW es \in EdgeSets, NEW seen \in SUBSET Members
    PROVE  /\ Closure(es, seen) \in SUBSET Members
           /\ seen \subseteq Closure(es, seen)
           /\ Closed(es, Closure(es, seen))
           /\ \A C \in SUBSET Members :
                seen \subseteq C /\ Closed(es, C) => Closure(es, seen) \subseteq C
  <1>1. /\ Closure(es, seen) \in SUBSET Members
        /\ seen \subseteq Closure(es, seen)
        /\ \A C \in SUBSET Members :
             seen \subseteq C /\ Closed(es, C) => Closure(es, seen) \subseteq C
    BY DEF Closure
  <1>2. ASSUME NEW e \in es, e \cap Closure(es, seen) # {}, NEW p \in e
        PROVE  p \in Closure(es, seen)
    <2>1. p \in Members
      BY DEF EdgeSets
    <2>2. ASSUME NEW C \in SUBSET Members, seen \subseteq C, Closed(es, C) PROVE p \in C
      <3>1. e \cap C # {}
        BY <1>1, <1>2, <2>2
      <3> QED
        BY <2>2, <3>1 DEF Closed
    <2> QED
      BY <2>1, <2>2 DEF Closure
  <1>3. Closed(es, Closure(es, seen))
    BY <1>2 DEF Closed
  <1> QED
    BY <1>1, <1>3

(* A set grows inside every closed set, and is closed when it does not.    *)
LEMMA GrownInside ==
    ASSUME NEW es \in EdgeSets, NEW seen \in SUBSET Members
    PROVE  /\ Grown(es, seen) \in SUBSET Members /\ seen \subseteq Grown(es, seen)
           /\ Grown(es, seen) = seen => Closure(es, seen) = seen
           /\ Closure(es, Grown(es, seen)) = Closure(es, seen)
  <1>1. Grown(es, seen) \in SUBSET Members /\ seen \subseteq Grown(es, seen)
    BY DEF Grown, EdgeSets
  <1>2. ASSUME Grown(es, seen) = seen PROVE Closure(es, seen) = seen
    <2>1. Closed(es, seen)
      BY <1>2 DEF Closed, Grown
    <2> QED
      BY <2>1, ClosureIsLeast
  <1>3. \A C \in SUBSET Members :
          Closed(es, C) => (Grown(es, seen) \subseteq C <=> seen \subseteq C)
    BY DEF Closed, Grown
  <1>4. Closure(es, Grown(es, seen)) = Closure(es, seen)
    BY <1>3 DEF Closure
  <1> QED
    BY <1>1, <1>2, <1>4

LEMMA ClosureReaches == ASSUME NEW es \in EdgeSets PROVE \E g : Reaches(es, g)
  <1>1. PICK g : g = [seen \in SUBSET Members |-> Closure(es, seen)]
    OBVIOUS
  <1>2. \A seen \in SUBSET Members :
          Closure(es, seen) = IF Grown(es, seen) = seen THEN seen ELSE g[Grown(es, seen)]
    <2> SUFFICES ASSUME NEW seen \in SUBSET Members
                 PROVE  Closure(es, seen) =
                          IF Grown(es, seen) = seen THEN seen ELSE g[Grown(es, seen)]
      OBVIOUS
    <2>1. g[Grown(es, seen)] = Closure(es, Grown(es, seen))
      BY <1>1, GrownInside
    <2> QED
      BY <2>1, GrownInside
  <1>3. Reaches(es, g)
    BY <1>1, <1>2 DEF Reaches
  <1> QED
    BY <1>3

(* The fewer workers are left, the sooner nothing new is reached.          *)
LEMMA ReachIsClosure ==
    ASSUME NEW es \in EdgeSets, NEW p \in Members
    PROVE  Reach(es, p) = Closure(es, {p})
  <1>1. PICK g : Reaches(es, g) /\ Reach(es, p) = g[{p}]
    BY ReachIsChosen, ClosureReaches
  <1>2. \A s \in SUBSET Members :
          g[s] = IF Grown(es, s) = s THEN s ELSE g[Grown(es, s)]
    BY <1>1 DEF Reaches
  <1> DEFINE Good(T) == g[Members \ T] = Closure(es, Members \ T)
             P == {T \in SUBSET Members : \A U \in SUBSET T : Good(U)}
  <1>3. ASSUME NEW T \in SUBSET Members, \A x \in T : T \ {x} \in P PROVE T \in P
    <2>1. \A U \in SUBSET T : U # T => Good(U)
      <3> SUFFICES ASSUME NEW U \in SUBSET T, U # T PROVE Good(U)
        OBVIOUS
      <3>1. PICK x \in T : x \notin U
        OBVIOUS
      <3> QED
        BY <1>3, <3>1
    <2>2. Good(T)
      <3> DEFINE s == Members \ T
                 next == Grown(es, s)
      <3>1. CASE next = s
        BY <1>2, <3>1, GrownInside
      <3>2. CASE next # s
        <4>1. next \in SUBSET Members /\ s \subseteq next
          BY GrownInside
        <4>2. PICK U \in SUBSET T : U = Members \ next
          BY <4>1
        <4>3. U # T /\ Members \ U = next
          BY <3>2, <4>1, <4>2
        <4>4. g[next] = Closure(es, next)
          BY <2>1, <4>3
        <4> QED
          BY <1>2, <3>2, <4>4, GrownInside
      <3> QED
        BY <3>1, <3>2
    <2> QED
      BY <2>1, <2>2
  <1> HIDE DEF P
  <1>4. \A T \in SUBSET Members : T \in P
    BY <1>3, CoClaimsAssumption, SubsetInduction
  <1>5. PICK T \in SUBSET Members : T = Members \ {p}
    OBVIOUS
  <1>6. Good(T)
    BY <1>4 DEF P
  <1>7. Members \ T = {p}
    BY <1>5
  <1> QED
    BY <1>1, <1>6, <1>7

-----------------------------------------------------------------------------
(***************************************************************************)
(* Components                                                              *)
(***************************************************************************)
LEMMA ComponentsAreClosures ==
    ASSUME NEW es \in EdgeSets, NEW c \in Components(es)
    PROVE  \E p \in Members : p \in UNION es /\ c = Closure(es, {p})
  <1>1. PICK p \in UNION es : c = Reach(es, p)
    BY DEF Components
  <1>2. p \in Members
    BY DEF EdgeSets
  <1> QED
    BY <1>1, <1>2, ReachIsClosure

(* Two components with a common worker are in each other: else what is not *)
(* common would be closed.                                                 *)
LEMMA ComponentsMeet ==
    ASSUME NEW es \in EdgeSets, NEW p \in Members, NEW q \in Members,
           Closure(es, {p}) \cap Closure(es, {q}) # {}
    PROVE  Closure(es, {p}) \subseteq Closure(es, {q})
  <1> DEFINE c == Closure(es, {p})
             d == Closure(es, {q})
  <1>1. /\ c \in SUBSET Members /\ p \in c /\ Closed(es, c)
        /\ \A C \in SUBSET Members : p \in C /\ Closed(es, C) => c \subseteq C
    <2>1. PICK s \in SUBSET Members : s = {p}
      OBVIOUS
    <2>2. /\ Closure(es, s) \in SUBSET Members
          /\ s \subseteq Closure(es, s)
          /\ Closed(es, Closure(es, s))
          /\ \A C \in SUBSET Members :
               s \subseteq C /\ Closed(es, C) => Closure(es, s) \subseteq C
      BY ClosureIsLeast
    <2>3. c = Closure(es, s)
      BY <2>1
    <2> HIDE DEF c
    <2> QED
      BY <2>1, <2>2, <2>3
  <1>2. d \in SUBSET Members /\ Closed(es, d)
    <2>1. {q} \in SUBSET Members
      OBVIOUS
    <2> QED
      BY <2>1, ClosureIsLeast
  <1> HIDE DEF c, d
  <1>3. p \in d
    <2> SUFFICES ASSUME p \notin d PROVE FALSE
      OBVIOUS
    <2>1. Closed(es, c \ d)
      BY <1>1, <1>2 DEF Closed
    <2>2. c \subseteq c \ d
      BY <1>1, <2>1
    <2> QED
      BY <2>2 DEF c, d
  <1> QED
    BY <1>1, <1>2, <1>3 DEF c, d

LEMMA ComponentsAreWhole ==
    ASSUME NEW es \in EdgeSets
    PROVE  /\ \A c, d \in Components(es) : c \cap d # {} => c = d
           /\ \A c \in Components(es) : \A p \in c : \E e \in es : p \in e /\ e \subseteq c
           /\ \A c \in Components(es), e \in es : e \cap c # {} => e \subseteq c
  <1>1. ASSUME NEW c \in Components(es), NEW d \in Components(es), c \cap d # {} PROVE c = d
    <2>1. PICK p \in Members : c = Closure(es, {p})
      BY ComponentsAreClosures
    <2>2. PICK q \in Members : d = Closure(es, {q})
      BY ComponentsAreClosures
    <2>3. c \subseteq d
      BY <1>1, <2>1, <2>2, ComponentsMeet
    <2>4. d \subseteq c
      BY <1>1, <2>1, <2>2, ComponentsMeet
    <2> QED
      BY <2>3, <2>4
  <1>2. ASSUME NEW c \in Components(es), NEW e \in es, e \cap c # {} PROVE e \subseteq c
    <2>1. PICK p \in Members : c = Closure(es, {p})
      BY ComponentsAreClosures
    <2>2. {p} \in SUBSET Members
      OBVIOUS
    <2>3. Closed(es, c)
      BY <2>1, <2>2, ClosureIsLeast
    <2> QED
      BY <1>2, <2>3 DEF Closed
  <1>3. ASSUME NEW c \in Components(es), NEW x \in c
        PROVE  \E e \in es : x \in e /\ e \subseteq c
    <2>1. PICK p \in Members : p \in UNION es /\ c = Closure(es, {p})
      BY ComponentsAreClosures
    <2>2. {p} \in SUBSET Members
      OBVIOUS
    <2>3. /\ c \in SUBSET Members /\ p \in c /\ Closed(es, c)
          /\ \A C \in SUBSET Members : p \in C /\ Closed(es, C) => c \subseteq C
      BY <2>1, <2>2, ClosureIsLeast
    <2>4. Closed(es, c \cap UNION es)
      BY <2>3 DEF Closed
    <2>5. x \in UNION es
      BY <2>1, <2>3, <2>4
    <2>6. PICK e \in es : x \in e
      BY <2>5
    <2> QED
      BY <2>6, <1>2
  <1> QED
    BY <1>1, <1>2, <1>3

LEMMA EdgesTyped ==
    ASSUME NEW claims, claims \subseteq CoClaim
    PROVE  /\ Edges(claims) \in EdgeSets
           /\ \A c \in Components(Edges(claims)) : c \in SUBSET Members
           /\ Rings(claims) \subseteq Keys
  <1>1. Edges(claims) \in EdgeSets
    BY DEF Edges, Pairs, EdgeSets, CoClaim
  <1>2. \A c \in Components(Edges(claims)) : c \in SUBSET Members
    <2> SUFFICES ASSUME NEW c \in Components(Edges(claims)) PROVE c \in SUBSET Members
      OBVIOUS
    <2>1. PICK p \in Members : c = Closure(Edges(claims), {p})
      BY <1>1, ComponentsAreClosures
    <2> QED
      BY <2>1 DEF Closure
  <1>3. ASSUME NEW m \in Rings(claims) PROVE m \in Keys
    <2>1. m \in SUBSET Members /\ Cardinality(m) >= MinMembers
      BY <1>2 DEF Rings
    <2>2. IsFiniteSet(m)
      BY <2>1, CoClaimsAssumption, FS_Subset
    <2>3. Cardinality(m) \in Nat
      BY <2>2, FS_CardinalityType
    <2>4. Cardinality(m) >= 2
      BY <2>1, <2>3, CoClaimsAssumption
    <2> QED
      BY <2>1, <2>4 DEF Keys
  <1> QED
    BY <1>1, <1>2, <1>3

LEMMA RingsWhole == filed \subseteq CoClaim => RingsAreWhole
  <1> SUFFICES ASSUME filed \subseteq CoClaim PROVE RingsAreWhole
    OBVIOUS
  <1>1. Edges(filed) \in EdgeSets
    BY EdgesTyped
  <1>2. Rings(filed) \subseteq Components(Edges(filed))
    BY DEF Rings
  <1> QED
    BY <1>1, <1>2, ComponentsAreWhole DEF RingsAreWhole
-----------------------------------------------------------------------------
(***************************************************************************)
(* Risk                                                                    *)
(***************************************************************************)
(* No claim is from the future.                                            *)
ClaimsKept ==
    /\ halfLife \in 0..LastHalfLife
    /\ filed \subseteq CoClaim
    /\ \A c \in filed : BucketOf[c.group] <= halfLife

(* What two claims of a supported pair have in common.                     *)
LEMMA SharedGroups ==
    ASSUME NEW claims, claims \subseteq CoClaim, NEW e \in Edges(claims)
    PROVE  /\ Shared(claims, e) \subseteq Groups /\ Shared(claims, e) # {}
           /\ IsFiniteSet(Shared(claims, e)) /\ Cardinality(Shared(claims, e)) \in Nat
           /\ \A g \in Shared(claims, e) : \E c \in claims : c.group = g
           /\ Cardinality(e) = 2
  <1>1. Shared(claims, e) \subseteq Groups
    BY DEF Shared
  <1>2. IsFiniteSet(Shared(claims, e)) /\ Cardinality(Shared(claims, e)) \in Nat
    BY <1>1, CoClaimsAssumption, FS_Subset, FS_CardinalityType
  <1>3. Cardinality(Shared(claims, e)) >= MinSupport /\ Cardinality(e) = 2
    BY DEF Edges, Pairs
  <1>4. Shared(claims, e) # {}
    <2> SUFFICES ASSUME Shared(claims, e) = {} PROVE FALSE
      OBVIOUS
    <2>1. Cardinality(Shared(claims, e)) = 0
      BY FS_EmptySet
    <2> QED
      BY <1>3, <2>1, CoClaimsAssumption
  <1>5. e # {}
    <2> SUFFICES ASSUME e = {} PROVE FALSE
      OBVIOUS
    <2>1. Cardinality(e) = 0
      BY FS_EmptySet
    <2> QED
      BY <1>3, <2>1
  <1>6. ASSUME NEW g \in Shared(claims, e) PROVE \E c \in claims : c.group = g
    <2>1. PICK p \in e : TRUE
      BY <1>5
    <2>2. PICK c : c = [phone |-> p, group |-> g]
      OBVIOUS
    <2>3. c \in claims
      BY <2>2 DEF Shared
    <2> QED
      BY <2>2, <2>3
  <1> QED
    BY <1>1, <1>2, <1>3, <1>4, <1>6

(* The weight of a pair halves with each half-life, and is at most one.    *)
LEMMA RecencyFades ==
    ASSUME NEW claims, claims \subseteq CoClaim, NEW e \in Edges(claims),
           NEW now \in Nat, now < LastHalfLife, \A c \in claims : BucketOf[c.group] <= now
    PROVE  /\ Recency(claims, e, now) \in 0..2 ^ MaxAge
           /\ Recency(claims, e, now + 1) \in Nat
           /\ Recency(claims, e, now + 1) <= Recency(claims, e, now)
           /\ 2 ^ MaxAge \in Nat
  <1> DEFINE shared == Shared(claims, e)
             buckets == {BucketOf[g] : g \in shared}
             last == Max(buckets)
  <1>1. /\ shared \subseteq Groups /\ shared # {} /\ IsFiniteSet(shared)
        /\ \A g \in shared : BucketOf[g] \in Nat /\ BucketOf[g] <= now
    BY SharedGroups, CoClaimsAssumption
  <1>2. buckets \in SUBSET Nat /\ buckets # {} /\ \A b \in buckets : b <= now
    BY <1>1
  <1>3. IsFiniteSet(buckets)
    <2> HIDE DEF shared
    <2>1. [g \in shared |-> BucketOf[g]] \in Surjection(shared, buckets)
      BY DEF Surjection
    <2> QED
      BY <1>1, <2>1, FS_Surjection
  <1>4. last \in Nat /\ last <= now
    <2> HIDE DEF buckets
    <2> QED
      BY <1>2, <1>3, MaxBounds
  <1>5. EdgeAge(claims, e, now) = now - last /\ EdgeAge(claims, e, now + 1) = (now + 1) - last
    BY DEF EdgeAge
  <1> HIDE DEF last
  <1>6. PICK m \in Nat, n \in Nat : /\ m = MaxAge - EdgeAge(claims, e, now + 1)
                                   /\ n = MaxAge - EdgeAge(claims, e, now)
                                   /\ m <= n /\ n <= MaxAge /\ MaxAge \in Nat
    <2>1. LastHalfLife \in Nat
      BY CoClaimsAssumption
    <2>2. /\ LastHalfLife - ((now + 1) - last) \in Nat /\ LastHalfLife - (now - last) \in Nat
          /\ LastHalfLife - ((now + 1) - last) <= LastHalfLife - (now - last)
          /\ LastHalfLife - (now - last) <= LastHalfLife
      BY <1>4, <2>1
    <2> QED
      BY <1>5, <2>1, <2>2 DEF MaxAge
  <1>7. 2 ^ m \in Nat /\ 2 ^ n \in Nat /\ 2 ^ m <= 2 ^ n
    BY <1>6, PowersGrow
  <1>8. 2 ^ n <= 2 ^ MaxAge /\ 2 ^ MaxAge \in Nat
    BY <1>6, PowersGrow
  <1> QED
    BY <1>6, <1>7, <1>8 DEF Recency

(* Products of naturals grow with their factors.                           *)
LEMMA ProductGrows ==
    ASSUME NEW a \in Nat, NEW b \in Nat, a <= b, NEW k \in Nat
    PROVE  a * k \in Nat /\ b * k \in Nat /\ a * k <= b * k
  <1>1. b * k = a * k + (b - a) * k
    OBVIOUS
  <1>2. (b - a) * k \in Nat /\ a * k \in Nat
    <2>1. b - a \in Nat
      OBVIOUS
    <2>2. \A x, y \in Nat : x * y \in Nat
      OBVIOUS
    <2> QED
      BY <2>1, <2>2
  <1> QED
    BY <1>1, <1>2

(* The weighted sum, over the common denominator of its four parts.        *)
LEMMA WeightsAddUp ==
    ASSUME NEW f \in Nat, NEW r \in Nat, NEW s \in Nat, NEW n \in Nat, NEW l \in Nat,
           NEW x \in Nat, NEW y \in Nat, NEW z \in Nat, NEW w \in Nat,
           f <= x, s <= r, r <= y, n <= z, l <= w
    PROVE  /\ 45 * f * y * z * w + 25 * s * x * z * w + 20 * n * x * y * w + 10 * l * x * y * z
                <= 45 * f * y * z * w + 25 * r * x * z * w + 20 * n * x * y * w + 10 * l * x * y * z
           /\ 45 * f * y * z * w + 25 * r * x * z * w + 20 * n * x * y * w + 10 * l * x * y * z
                <= 100 * (x * y * z * w)
  <1> DEFINE yzw == y * z * w
             xzw == x * z * w
             xyw == x * y * w
             xyz == x * y * z
             one == x * y * z * w
  <1>0. \A a, b \in Nat : a * b \in Nat
    OBVIOUS
  <1>1. yzw \in Nat /\ xzw \in Nat /\ xyw \in Nat /\ xyz \in Nat
    BY <1>0
  <1>2. f * yzw \in Nat /\ x * yzw \in Nat /\ f * yzw <= x * yzw
    <2> HIDE DEF yzw
    <2> QED
      BY <1>1, ProductGrows
  <1>3. /\ s * xzw \in Nat /\ r * xzw \in Nat /\ y * xzw \in Nat
        /\ s * xzw <= r * xzw /\ r * xzw <= y * xzw
    <2> HIDE DEF xzw
    <2> QED
      BY <1>1, ProductGrows
  <1>4. n * xyw \in Nat /\ z * xyw \in Nat /\ n * xyw <= z * xyw
    <2> HIDE DEF xyw
    <2> QED
      BY <1>1, ProductGrows
  <1>5. l * xyz \in Nat /\ w * xyz \in Nat /\ l * xyz <= w * xyz
    <2> HIDE DEF xyz
    <2> QED
      BY <1>1, ProductGrows
  <1>6. x * yzw = one /\ y * xzw = one /\ z * xyw = one /\ w * xyz = one
    OBVIOUS
  <1>7. /\ 45 * f * y * z * w = 45 * (f * yzw) /\ 25 * s * x * z * w = 25 * (s * xzw)
        /\ 25 * r * x * z * w = 25 * (r * xzw) /\ 20 * n * x * y * w = 20 * (n * xyw)
        /\ 10 * l * x * y * z = 10 * (l * xyz)
    OBVIOUS
  <1>8. PICK F \in Nat, R \in Nat, S \in Nat, N \in Nat, L \in Nat, O \in Nat :
          /\ F = f * yzw /\ R = r * xzw /\ S = s * xzw /\ N = n * xyw /\ L = l * xyz /\ O = one
    BY <1>2, <1>3, <1>4, <1>5, <1>6
  <1>9. F <= O /\ S <= R /\ R <= O /\ N <= O /\ L <= O
    <2> HIDE DEF yzw, xzw, xyw, xyz, one
    <2> QED
      BY <1>2, <1>3, <1>4, <1>5, <1>6, <1>8
  <1>10. /\ 45 * F + 25 * S + 20 * N + 10 * L <= 45 * F + 25 * R + 20 * N + 10 * L
         /\ 45 * F + 25 * R + 20 * N + 10 * L <= 100 * O
    BY <1>9
  <1> HIDE DEF yzw, xzw, xyw, xyz
  <1> QED
    BY <1>7, <1>8, <1>10

(* The four parts of the risk of a ring are fractions of one.              *)
LEMMA RiskFades ==
    ASSUME NEW claims, claims \subseteq CoClaim, NEW key \in Rings(claims),
           NEW now \in Nat, now < LastHalfLife, \A c \in claims : BucketOf[c.group] <= now
    PROVE  /\ Risk(claims, key, now + 1).over <= Risk(claims, key, now).over
           /\ Risk(claims, key, now).over <= 100 * Risk(claims, key, now).under
  <1> DEFINE es == {e \in Edges(claims) : e \subseteq key}
             m == Cardinality(key)
             n == Cardinality(es)
             fs == [e \in es |-> Frequency(claims, e)]
             rs == [e \in es |-> Recency(claims, e, now)]
             ss == [e \in es |-> Recency(claims, e, now + 1)]
             cs == [e \in es |-> Cardinality(Shared(claims, e))]
             f == SumFunction(fs)
             r == SumFunction(rs)
             s == SumFunction(ss)
             c == SumFunction(cs)
             df == 2 * MinSupport * n
             dr == n * 2 ^ MaxAge
             dd == PairCount(m)
             da == 2 * m
             l == Least(c, da)
  <1>1. /\ Risk(claims, key, now).over =
             45 * f * dr * dd * da + 25 * r * df * dd * da + 20 * n * df * dr * da
               + 10 * l * df * dr * dd
        /\ Risk(claims, key, now).under = df * dr * dd * da
        /\ Risk(claims, key, now + 1).over =
             45 * f * dr * dd * da + 25 * s * df * dd * da + 20 * n * df * dr * da
               + 10 * l * df * dr * dd
    BY DEF Risk
  <1>2. key \in SUBSET Members /\ IsFiniteSet(key) /\ m \in Nat
    <2>1. key \in SUBSET Members
      BY EdgesTyped DEF Keys
    <2> QED
      BY <2>1, CoClaimsAssumption, FS_Subset, FS_CardinalityType
  <1>3. es \subseteq PairsOf(key)
    <2>1. \A e \in es : Cardinality(e) = 2
      BY SharedGroups
    <2> QED
      BY <2>1 DEF PairsOf
  <1>4. IsFiniteSet(es) /\ n \in Nat /\ n <= dd /\ dd \in Nat
    <2>1. /\ IsFiniteSet(PairsOf(key))
          /\ 2 * Cardinality(PairsOf(key)) <= m * (m - 1)
      BY <1>2, PairsBounded
    <2>2. IsFiniteSet(es) /\ n <= Cardinality(PairsOf(key))
      BY <1>3, <2>1, FS_Subset
    <2>3. n \in Nat /\ Cardinality(PairsOf(key)) \in Nat
      BY <2>1, <2>2, FS_CardinalityType
    <2> HIDE DEF n, m
    <2>4. PICK k \in Int : k = m * (m - 1)
      BY <1>2
    <2>5. 2 * n <= k
      BY <2>1, <2>2, <2>3, <2>4
    <2>6. n <= k \div 2 /\ k \div 2 \in Nat
      BY <2>3, <2>5
    <2> QED
      BY <2>2, <2>3, <2>4, <2>6 DEF PairCount
  <1>5. \A e \in es : /\ Recency(claims, e, now) \in 0..2 ^ MaxAge
                      /\ Recency(claims, e, now + 1) \in Nat
                      /\ Recency(claims, e, now + 1) <= Recency(claims, e, now)
    BY RecencyFades
  <1>6. 2 ^ MaxAge \in Nat
    BY CoClaimsAssumption, PowersGrow DEF MaxAge
  <1>7. \A e \in es : /\ Cardinality(Shared(claims, e)) \in Nat
                      /\ Frequency(claims, e) \in 0..(2 * MinSupport)
    BY SharedGroups, CoClaimsAssumption DEF Frequency, Least
  <1>8. \A e \in es : /\ fs[e] = Frequency(claims, e) /\ rs[e] = Recency(claims, e, now)
                      /\ ss[e] = Recency(claims, e, now + 1)
                      /\ cs[e] = Cardinality(Shared(claims, e))
    OBVIOUS
  <1>9. /\ f = SumFunctionOnSet(fs, es) /\ r = SumFunctionOnSet(rs, es)
        /\ s = SumFunctionOnSet(ss, es) /\ c = SumFunctionOnSet(cs, es)
    BY DEF SumFunction
  <1>10. MinSupport \in Nat
    BY CoClaimsAssumption
  <1> HIDE DEF es, n, fs, rs, ss, cs, f, r, s, c, m
  <1>11. f \in Nat /\ f <= df
    <2>1. PICK k \in Nat : k = 2 * MinSupport
      BY <1>10
    <2>2. \A e \in es : fs[e] \in 0..k
      BY <1>7, <1>8, <2>1
    <2>3. SumFunctionOnSet(fs, es) \in 0..(k * Cardinality(es))
      BY <1>4, <2>2, SumBounds
    <2> QED
      BY <1>4, <1>9, <2>1, <2>3 DEF n
  <1>12. r \in Nat /\ r <= dr
    <2>1. PICK k \in Nat : k = 2 ^ MaxAge
      BY <1>6
    <2>2. \A e \in es : rs[e] \in 0..k
      BY <1>5, <1>8, <2>1
    <2>3. SumFunctionOnSet(rs, es) \in 0..(k * Cardinality(es))
      BY <1>4, <2>2, SumBounds
    <2>4. k * n = n * k /\ k * n \in Nat
      BY <1>4
    <2> QED
      BY <1>4, <1>9, <2>1, <2>3, <2>4 DEF n
  <1>13. s \in Nat /\ s <= r
    <2>1. \A e \in es : ss[e] \in Nat /\ rs[e] \in Nat /\ ss[e] <= rs[e]
      BY <1>5, <1>6, <1>8
    <2>2. \A e \in es : ss[e] \in Nat
      BY <2>1
    <2>3. SumFunctionOnSet(ss, es) \in Nat
      BY <1>4, <2>2, SumNat
    <2>4. SumFunctionOnSet(ss, es) <= SumFunctionOnSet(rs, es)
      BY <1>4, <2>1, SumMonotonic
    <2> QED
      BY <1>9, <2>3, <2>4
  <1>14. l \in Nat /\ l <= da
    <2>1. \A e \in es : cs[e] \in Nat
      BY <1>7, <1>8
    <2>2. c \in Nat
      BY <1>4, <1>9, <2>1, SumNat
    <2> QED
      BY <1>2, <2>2 DEF Least
  <1>15. df \in Nat /\ dr \in Nat /\ da \in Nat
    BY <1>2, <1>4, <1>6, <1>10
  <1> HIDE DEF df, dr, dd, da, l
  <1> QED
    BY <1>1, <1>4, <1>11, <1>12, <1>13, <1>14, <1>15, WeightsAddUp

-----------------------------------------------------------------------------
(***************************************************************************)
(* Runs                                                                    *)
(***************************************************************************)
RunStates == {"none", "running", "computed", "completed", "failed"}
Cluster == [key : Keys, level : {"low", "medium", "high"}]
RunRow == [status : RunStates, since : 0..LastHalfLife, found : SUBSET Cluster]

CoClaimsKept == ClaimsKept /\ runRows \in [RunIds -> RunRow]

LEMMA ClustersTyped ==
    ASSUME NEW claims, claims \subseteq CoClaim, NEW now
    PROVE  Clusters(claims, now) \in SUBSET Cluster
  <1>1. \A k \in Rings(claims) : RiskLevel(Risk(claims, k, now)) \in {"low", "medium", "high"}
    BY DEF RiskLevel
  <1>2. Rings(claims) \subseteq Keys
    BY EdgesTyped
  <1> QED
    BY <1>1, <1>2 DEF Clusters, Cluster

LEMMA CoClaimsKeptInit == CoClaimsInit => CoClaimsKept
  <1> SUFFICES ASSUME CoClaimsInit PROVE CoClaimsKept
    OBVIOUS
  <1>1. LastHalfLife \in Nat
    BY CoClaimsAssumption
  <1>2. NoRun \in RunRow
    BY <1>1 DEF NoRun, RunRow, RunStates
  <1> QED
    BY <1>1, <1>2 DEF CoClaimsInit, CoClaimsKept, ClaimsKept

LEMMA CoClaimsKeptStep == CoClaimsKept /\ [CoClaimsNext]_coClaimVars => CoClaimsKept'
  <1> SUFFICES ASSUME CoClaimsKept, [CoClaimsNext]_coClaimVars PROVE CoClaimsKept'
    OBVIOUS
  <1> USE DEF CoClaimsKept, ClaimsKept
  <1>a. LastHalfLife \in Nat /\ BucketOf \in [Groups -> 0..LastHalfLife]
    BY CoClaimsAssumption
  <1>1. CASE CoClaimsTick
    <2>1. halfLife' \in 0..LastHalfLife /\ UNCHANGED <<filed, runRows>> /\ halfLife' = halfLife + 1
      BY <1>1, <1>a DEF CoClaimsTick
    <2>2. \A c \in filed : BucketOf[c.group] <= halfLife'
      BY <1>a, <2>1 DEF CoClaim
    <2> QED
      BY <2>1, <2>2
  <1>2. ASSUME NEW p \in Members, NEW g \in Groups, FileCoClaim(p, g) PROVE CoClaimsKept'
    <2>1. PICK new \in CoClaim : new = [phone |-> p, group |-> g]
      BY DEF CoClaim
    <2>2. filed' = filed \cup {new} /\ UNCHANGED <<halfLife, runRows>>
      BY <1>2, <2>1 DEF FileCoClaim
    <2>3. BucketOf[new.group] <= halfLife
      BY <1>2, <1>a, <2>1 DEF FileCoClaim
    <2>4. \A c \in filed' : c \in CoClaim /\ BucketOf[c.group] <= halfLife
      BY <2>2, <2>3
    <2> QED
      BY <2>2, <2>4
  <1>3. ASSUME NEW r \in RunIds, NEW row \in RunRow, runRows' = [runRows EXCEPT ![r] = row],
               UNCHANGED <<halfLife, filed>>
        PROVE  CoClaimsKept'
    BY <1>3
  <1>4. ASSUME NEW r \in RunIds, StartRun(r) PROVE CoClaimsKept'
    <2>1. PICK row : row = [runRows[r] EXCEPT !.status = "running", !.since = halfLife]
      OBVIOUS
    <2>2. row \in RunRow
      BY <2>1 DEF RunRow, RunStates
    <2>3. runRows' = [runRows EXCEPT ![r] = row]
      BY <1>4, <2>1 DEF StartRun
    <2> QED
      BY <1>3, <1>4, <2>2, <2>3 DEF StartRun
  <1>5. ASSUME NEW r \in RunIds, ComputeRun(r) PROVE CoClaimsKept'
    <2>1. PICK found \in SUBSET Cluster :
            found = Clusters(ParseClaimEvents(ClaimEventsSince(halfLife - Lookback), "datetime"),
                             halfLife)
      <3> DEFINE rows == ParseClaimEvents(ClaimEventsSince(halfLife - Lookback), "datetime")
      <3>1. rows \subseteq CoClaim
        BY DEF ParseClaimEvents
      <3> HIDE DEF rows
      <3>2. Clusters(rows, halfLife) \in SUBSET Cluster
        BY <3>1, ClustersTyped
      <3> QED
        BY <3>2 DEF rows
    <2>2. PICK row : row = [runRows[r] EXCEPT !.status = "computed", !.found = found]
      OBVIOUS
    <2>3. row \in RunRow
      BY <2>2 DEF RunRow, RunStates
    <2>4. runRows' = [runRows EXCEPT ![r] = row]
      BY <1>5, <2>1, <2>2 DEF ComputeRun
    <2> QED
      BY <1>3, <1>5, <2>3, <2>4 DEF ComputeRun
  <1>6. ASSUME NEW r \in RunIds, FinishRun(r) \/ FailRun(r) PROVE CoClaimsKept'
    <2>1. PICK status \in RunStates :
            runRows' = [runRows EXCEPT ![r] = [runRows[r] EXCEPT !.status = status]]
      BY <1>6 DEF FinishRun, FailRun, RunStates
    <2>2. PICK row : row = [runRows[r] EXCEPT !.status = status]
      OBVIOUS
    <2>3. row \in RunRow
      BY <2>2 DEF RunRow
    <2> QED
      BY <1>3, <1>6, <2>1, <2>2, <2>3 DEF FinishRun, FailRun
  <1>7. CASE UNCHANGED coClaimVars
    BY <1>7 DEF coClaimVars
  <1> QED
    BY <1>1, <1>2, <1>4, <1>5, <1>6, <1>7 DEF CoClaimsNext

LEMMA CoClaimsInvariant == CoClaimsSpec => []CoClaimsKept
  BY CoClaimsKeptInit, CoClaimsKeptStep, PTL DEF CoClaimsSpec

(* Claims, runs and what they found have their types.                      *)
THEOREM CoClaimsTyped == CoClaimsSpec => []CoClaimsTypeOK
<1>1. CoClaimsKept => CoClaimsTypeOK
  BY DEF CoClaimsKept, ClaimsKept, CoClaimsTypeOK, RunRow, RunStates, Cluster
<1> QED
  BY <1>1, CoClaimsInvariant, PTL

(* A ring is reported whole and once: clusters are disjoint, every member  *)
(* has a supported pair inside, and no supported pair leaves a cluster.    *)
THEOREM ComponentsAreRings == CoClaimsSpec => []RingsAreWhole
<1>1. CoClaimsKept => RingsAreWhole
  BY RingsWhole DEF CoClaimsKept, ClaimsKept
<1> QED
  BY <1>1, CoClaimsInvariant, PTL

(* A ring that claims no more never looks riskier as time passes, and its  *)
(* risk stays a fraction of one, whatever the ring, the pairs, the support *)
(* they need and the bound of time.                                        *)
THEOREM RisksDecay == CoClaimsSpec => RiskDecays
<1>1. CoClaimsKept /\ [CoClaimsNext]_coClaimVars =>
        [halfLife' # halfLife =>
           \A ring \in Rings(filed) :
             LET was == Risk(filed, ring, halfLife)
                 is == Risk(filed, ring, halfLife')
             IN  is.over <= was.over /\ was.over <= 100 * was.under]_coClaimVars
  <2> SUFFICES ASSUME CoClaimsKept, [CoClaimsNext]_coClaimVars, halfLife' # halfLife,
                      NEW ring \in Rings(filed)
               PROVE  /\ Risk(filed, ring, halfLife').over <= Risk(filed, ring, halfLife).over
                      /\ Risk(filed, ring, halfLife).over
                           <= 100 * Risk(filed, ring, halfLife).under
    OBVIOUS
  <2>1. halfLife < LastHalfLife /\ halfLife' = halfLife + 1
    BY DEF CoClaimsNext, CoClaimsTick, FileCoClaim, StartRun, ComputeRun, FinishRun, FailRun,
           coClaimVars
  <2>2. PICK now \in Nat : now = halfLife
    BY DEF CoClaimsKept, ClaimsKept
  <2>3. /\ filed \subseteq CoClaim
        /\ \A c \in filed : BucketOf[c.group] <= now
    BY <2>2 DEF CoClaimsKept, ClaimsKept
  <2>4. PICK claims : claims = filed
    OBVIOUS
  <2>5. /\ Risk(claims, ring, now + 1).over <= Risk(claims, ring, now).over
        /\ Risk(claims, ring, now).over <= 100 * Risk(claims, ring, now).under
    BY <2>1, <2>2, <2>3, <2>4, RiskFades
  <2> QED
    BY <2>1, <2>2, <2>4, <2>5
<1> QED
  BY <1>1, CoClaimsInvariant, PTL DEF CoClaimsSpec, RiskDecays
=============================================================================
