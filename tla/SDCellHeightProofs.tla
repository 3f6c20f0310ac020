-------------------------- MODULE SDCellHeightProofs --------------------------
(***************************************************************************)
(* The height cache follows the rows: for any numbers of sections, rows    *)
(* and widths, and any bounds.  First what the operators compute that      *)
(* renumber the rows of a section; then that each call moves the entries   *)
(* as the table view moves its rows, in the terms of Moves and Follows;    *)
(* then the inductive invariant HeightInv, and the memo it implements.     *)
(***************************************************************************)
EXTENDS SDCellAutoHeightManager, FiniteSetTheorems, SequenceTheorems,
        WellFoundedInduction, TLAPS

----------------------------------------------------------------------------
(* Induction on the natural numbers, for sets.                              *)

LEMMA LeastNatural ==
  ASSUME NEW S \in SUBSET Nat, S # {}
  PROVE  \E n \in S : \A m \in S : n <= m
<1> DEFINE R == StrictSubsetOrdering(Nat)
           T == {0..n : n \in S}
<1>1. IsWellFoundedOn(R, FiniteSubsetsOf(Nat))
  BY FS_StrictSubsetOrderingWellFounded
<1>2. T \subseteq FiniteSubsetsOf(Nat)
  <2>1. \A n \in S : IsFiniteSet(0..n) /\ 0..n \subseteq Nat
    BY FS_Interval
  <2> QED BY <2>1 DEF FiniteSubsetsOf
<1>3. T # {}
  OBVIOUS
<1>4. PICK x \in T : \A y \in T : ~(<<y, x>> \in R)
  <2> HIDE DEF R, T
  <2> QED BY <1>1, <1>2, <1>3, WFMin
<1>5. PICK n \in S : x = 0..n
  OBVIOUS
<1>6. ASSUME NEW m \in S, m < n
      PROVE  FALSE
  <2>1. 0..m \subseteq 0..n /\ n \in 0..n /\ n \notin 0..m
    BY <1>6
  <2>2. <<0..m, 0..n>> \in R
    BY <2>1 DEF StrictSubsetOrdering
  <2> QED BY <1>4, <1>5, <2>2
<1> QED BY <1>6

LEMMA Induction ==
  ASSUME NEW S \in SUBSET Nat, 0 \in S, \A n \in S : n + 1 \in S
  PROVE  S = Nat
<1> SUFFICES ASSUME Nat \ S # {} PROVE FALSE
  OBVIOUS
<1>1. PICK n \in Nat \ S : \A m \in Nat \ S : n <= m
  BY LeastNatural
<1>2. n # 0 /\ n - 1 \in Nat
  BY <1>1
<1>3. n - 1 \in S
  BY <1>1, <1>2
<1> QED BY <1>1, <1>2, <1>3

----------------------------------------------------------------------------
(* Counting the numbers of a set below another.                             *)

LEMMA BelowType ==
  ASSUME NEW D, IsFiniteSet(D), \A d \in D : d \in Nat, NEW i \in Int
  PROVE  /\ Below(D, i) \in Nat /\ Below(D, i) <= Cardinality(D)
         /\ Cardinality(D) \in Nat
BY FS_Subset, FS_CardinalityType DEF Below

(* As many as fit between a and b, and one less if a itself is not counted. *)
LEMMA BelowGap ==
  ASSUME NEW D, IsFiniteSet(D), \A d \in D : d \in Nat,
         NEW a \in Nat, NEW b \in Nat, a <= b
  PROVE  /\ Below(D, a) <= Below(D, b)
         /\ Below(D, b) - Below(D, a) <= b - a
         /\ a \notin D /\ a < b => Below(D, b) - Below(D, a) <= b - a - 1
<1> DEFINE X == {d \in D : d < a}
           Y == {d \in D : a <= d /\ d < b}
<1>1. X \cup Y = {d \in D : d < b} /\ X \cap Y = {}
  OBVIOUS
<1>2. IsFiniteSet(X) /\ IsFiniteSet(Y) /\ Cardinality(X) \in Nat
      /\ Cardinality(Y) \in Nat
  BY FS_Subset, FS_CardinalityType
<1>3. Below(D, b) = Below(D, a) + Cardinality(Y)
  <2>1. Cardinality(X \cup Y) = Cardinality(X) + Cardinality(Y)
    <3>1. Cardinality(X \cap Y) = 0
      BY <1>1, FS_EmptySet
    <3> HIDE DEF X, Y
    <3>2. Cardinality(X \cup Y)
          = Cardinality(X) + Cardinality(Y) - Cardinality(X \cap Y)
      BY <1>2, FS_Union
    <3> QED BY <1>2, <3>1, <3>2
  <2> QED BY <1>1, <2>1 DEF Below
<1>4. Cardinality(Y) <= b - a
  <2>1. Y \subseteq a..(b - 1)
    OBVIOUS
  <2>2. IsFiniteSet(a..(b - 1)) /\ Cardinality(a..(b - 1)) = b - a
    <3>1. a \in Int /\ b - 1 \in Int
      OBVIOUS
    <3>2. Cardinality(a..(b - 1)) = IF a > b - 1 THEN 0 ELSE (b - 1) - a + 1
      BY <3>1, FS_Interval
    <3>3. IsFiniteSet(a..(b - 1))
      BY <3>1, FS_Interval
    <3> QED BY <3>1, <3>2, <3>3
  <2> HIDE DEF Y
  <2> QED BY <2>1, <2>2, FS_Subset
<1>5. ASSUME a \notin D, a < b
      PROVE  Cardinality(Y) <= b - a - 1
  <2>1. Y \subseteq (a + 1)..(b - 1)
    BY <1>5
  <2>2. /\ IsFiniteSet((a + 1)..(b - 1))
        /\ Cardinality((a + 1)..(b - 1)) = b - a - 1
    BY <1>5, FS_Interval
  <2> HIDE DEF Y
  <2> QED BY <2>1, <2>2, FS_Subset
<1>6. Below(D, a) \in Nat
  BY BelowType
<1> HIDE DEF Y
<1> QED BY <1>2, <1>3, <1>4, <1>5, <1>6

LEMMA BelowZero ==
  ASSUME NEW D, IsFiniteSet(D), \A d \in D : d \in Nat, NEW i \in Nat
  PROVE  Below(D, 0) = 0 /\ Below(D, i) <= i
<1>1. {d \in D : d < 0} = {}
  OBVIOUS
<1>2. Below(D, 0) = 0
  BY <1>1, FS_EmptySet DEF Below
<1> QED BY <1>2, BelowGap, BelowType

LEMMA BelowNext ==
  ASSUME NEW D, IsFiniteSet(D), \A d \in D : d \in Nat, NEW e \in D
  PROVE  Cardinality({d \in D : d <= e}) = Below(D, e) + 1
<1>1. {d \in D : d <= e} = {d \in D : d < e} \cup {e}
  OBVIOUS
<1>2. IsFiniteSet({d \in D : d < e}) /\ e \notin {d \in D : d < e}
  BY FS_Subset
<1> QED BY <1>1, <1>2, FS_AddElement DEF Below

LEMMA BelowAll ==
  ASSUME NEW D, IsFiniteSet(D), \A d \in D : d \in Nat, NEW b \in Nat,
         \A d \in D : d < b
  PROVE  Below(D, b) = Cardinality(D) /\ Cardinality(D) <= b
<1>1. {d \in D : d < b} = D
  OBVIOUS
<1> QED BY <1>1, BelowZero DEF Below

----------------------------------------------------------------------------
(* AtPlace and PlaceWithout are inverse to each other: they number what is  *)
(* not in D.                                                                *)

LEMMA PlaceOrder ==
  ASSUME NEW D, IsFiniteSet(D), \A d \in D : d \in Nat,
         NEW a \in Nat, NEW b \in Nat, a <= b
  PROVE  /\ PlaceWithout(D, a) \in Nat /\ PlaceWithout(D, a) <= PlaceWithout(D, b)
         /\ a \notin D /\ a < b => PlaceWithout(D, a) < PlaceWithout(D, b)
<1>1. Below(D, a) \in Nat /\ Below(D, b) \in Nat /\ Below(D, a) <= a
  BY BelowZero, BelowType
<1>2. /\ Below(D, a) <= Below(D, b)
      /\ Below(D, b) - Below(D, a) <= b - a
      /\ a \notin D /\ a < b => Below(D, b) - Below(D, a) <= b - a - 1
  BY BelowGap
<1> QED BY <1>1, <1>2 DEF PlaceWithout

LEMMA SkippedType ==
  ASSUME NEW D, IsFiniteSet(D), \A d \in D : d \in Nat, NEW m \in Nat
  PROVE  /\ AtPlace(D, m) \in Nat
         /\ m <= AtPlace(D, m) /\ AtPlace(D, m) <= m + Cardinality(D)
         /\ IsFiniteSet({d \in D : PlaceWithout(D, d) <= m})
         /\ Cardinality({d \in D : PlaceWithout(D, d) <= m}) \in Nat
<1>1. {d \in D : PlaceWithout(D, d) <= m} \subseteq D
  OBVIOUS
<1>2. /\ IsFiniteSet({d \in D : PlaceWithout(D, d) <= m})
      /\ Cardinality({d \in D : PlaceWithout(D, d) <= m}) \in Nat
      /\ Cardinality({d \in D : PlaceWithout(D, d) <= m}) <= Cardinality(D)
      /\ Cardinality(D) \in Nat
  BY <1>1, FS_Subset, FS_CardinalityType
<1> QED BY <1>2 DEF AtPlace

LEMMA PlaceAt ==
  ASSUME NEW D, IsFiniteSet(D), \A d \in D : d \in Nat, NEW m \in Nat
  PROVE  AtPlace(D, m) \notin D /\ PlaceWithout(D, AtPlace(D, m)) = m
<1> DEFINE e == AtPlace(D, m)
           X == {d \in D : PlaceWithout(D, d) <= m}
           n == Cardinality(X)
           b == Below(D, e)
           t == PlaceWithout(D, e)
<1>1. e \in Nat /\ n \in Nat /\ IsFiniteSet(X) /\ e = m + n
  BY SkippedType DEF AtPlace
<1>2. b \in Nat /\ t \in Nat /\ t = e - b
  BY <1>1, BelowType, PlaceOrder DEF PlaceWithout
<1>3. \A d \in D : d < e => PlaceWithout(D, d) <= t
  BY <1>1, PlaceOrder
<1>4. \A d \in D : d > e => PlaceWithout(D, d) >= t /\ (e \notin D => PlaceWithout(D, d) > t)
  BY <1>1, PlaceOrder
<1>5. \A d \in D : PlaceWithout(D, d) \in Nat
  BY PlaceOrder
<1>6. CASE t <= m /\ e \in D
  <2>1. {d \in D : d <= e} \subseteq X
    <3> SUFFICES ASSUME NEW d \in D, d <= e PROVE PlaceWithout(D, d) <= m
      OBVIOUS
    <3>1. d = e \/ d < e
      BY <1>1
    <3> HIDE DEF e, t
    <3> QED BY <1>2, <1>3, <1>5, <1>6, <3>1 DEF t
  <2>2. b + 1 <= n
    <3> HIDE DEF e, X
    <3>1. Cardinality({d \in D : d <= e}) = b + 1
      BY <1>6, BelowNext
    <3>2. Cardinality({d \in D : d <= e}) <= n
      BY <1>1, <2>1, FS_Subset
    <3> QED BY <3>1, <3>2
  <2> HIDE DEF e, n, t, b
  <2> QED BY <1>1, <1>2, <1>6, <2>2
<1>7. CASE t > m
  <2>1. X \subseteq {d \in D : d < e}
    <3> SUFFICES ASSUME NEW d \in D, PlaceWithout(D, d) <= m PROVE d < e
      OBVIOUS
    <3>1. PlaceWithout(D, e) > m
      BY <1>7
    <3> HIDE DEF e
    <3>2. d > e => PlaceWithout(D, d) >= PlaceWithout(D, e)
      BY <1>4
    <3>3. PlaceWithout(D, d) \in Nat /\ d \in Nat
      BY <1>5
    <3> QED BY <1>1, <1>2, <3>1, <3>2, <3>3
  <2>2. n <= b
    <3>1. IsFiniteSet({d \in D : d < e})
      BY FS_Subset
    <3> HIDE DEF e, X
    <3> QED BY <2>1, <3>1, FS_Subset DEF Below
  <2> HIDE DEF e, n, t, b
  <2> QED BY <1>1, <1>2, <1>7, <2>2
<1>8. CASE t <= m /\ e \notin D
  <2>1. {d \in D : d < e} \subseteq X
    <3> HIDE DEF e, t
    <3> QED BY <1>2, <1>3, <1>5, <1>8
  <2>2. b <= n
    <3> HIDE DEF e, X
    <3> QED BY <1>1, <2>1, FS_Subset DEF Below
  <2> HIDE DEF e, n, t, b
  <2>3. t = m
    BY <1>1, <1>2, <1>8, <2>2
  <2> QED BY <1>8, <2>3 DEF e, t
<1>9. t <= m \/ t > m
  <2> HIDE DEF t
  <2> QED BY <1>2
<1> QED BY <1>6, <1>7, <1>8, <1>9

LEMMA AtPlaceWithout ==
  ASSUME NEW D, IsFiniteSet(D), \A d \in D : d \in Nat, NEW j \in Nat \ D
  PROVE  AtPlace(D, PlaceWithout(D, j)) = j
<1> DEFINE p == PlaceWithout(D, j)
<1>1. p \in Nat /\ p = j - Below(D, j) /\ Below(D, j) \in Nat
  BY PlaceOrder, BelowType DEF PlaceWithout
<1>2. \A d \in D : /\ PlaceWithout(D, d) \in Nat
                   /\ d < j => PlaceWithout(D, d) <= p
                   /\ d > j => PlaceWithout(D, d) > p
  BY PlaceOrder
<1>3. {d \in D : PlaceWithout(D, d) <= p} = {d \in D : d < j}
  <2> HIDE DEF p
  <2> QED BY <1>1, <1>2
<1> HIDE DEF p
<1>4. AtPlace(D, p) = p + Below(D, j)
  BY <1>3 DEF AtPlace, Below
<1> QED BY <1>1, <1>4 DEF p

(* One number more, below all others.                                       *)
LEMMA AtPlaceLower ==
  ASSUME NEW D, IsFiniteSet(D), \A e \in D : e \in Nat,
         NEW d \in Nat, \A e \in D : d < e, NEW m \in Nat
  PROVE  AtPlace(D \cup {d}, m) = IF m < d THEN m ELSE AtPlace(D, m + 1)
<1> DEFINE E == D \cup {d}
<1>1. IsFiniteSet(E) /\ d \notin D /\ \A e \in E : e \in Nat
  BY FS_AddElement
<1>2. ASSUME NEW e \in D
      PROVE  Below(E, e) = Below(D, e) + 1
  <2>1. {x \in E : x < e} = {x \in D : x < e} \cup {d}
    OBVIOUS
  <2>2. IsFiniteSet({x \in D : x < e}) /\ d \notin {x \in D : x < e}
    BY <1>1, FS_Subset
  <2> HIDE DEF E
  <2> QED BY <2>1, <2>2, FS_AddElement DEF Below
<1>3. Below(E, d) = 0 /\ Below(D, d + 1) = 0
  <2>1. {x \in E : x < d} = {} /\ {x \in D : x < d + 1} = {}
    OBVIOUS
  <2> HIDE DEF E
  <2> QED BY <2>1, FS_EmptySet DEF Below
<1>4. ASSUME NEW e \in D
      PROVE  /\ PlaceWithout(D, e) \in Nat /\ PlaceWithout(D, e) > d
             /\ PlaceWithout(E, e) = PlaceWithout(D, e) - 1
  <2>1. d + 1 \in Nat /\ e \in Nat /\ d + 1 <= e
    OBVIOUS
  <2>2. Below(D, e) - Below(D, d + 1) <= e - (d + 1)
    BY <2>1, BelowGap
  <2>3. Below(D, e) \in Nat
    BY BelowType
  <2> HIDE DEF E
  <2> QED BY <1>2, <1>3, <2>1, <2>2, <2>3 DEF PlaceWithout
<1>5. PlaceWithout(E, d) = d
  <2> HIDE DEF E
  <2> QED BY <1>3 DEF PlaceWithout
<1>6. CASE m < d
  <2>1. {e \in E : PlaceWithout(E, e) <= m} = {}
    <3> SUFFICES ASSUME NEW e \in E, PlaceWithout(E, e) <= m PROVE FALSE
      OBVIOUS
    <3>1. CASE e = d
      <4> HIDE DEF E
      <4> QED BY <1>5, <1>6, <3>1
    <3>2. CASE e \in D
      <4> HIDE DEF E
      <4> QED BY <1>4, <1>6, <3>2
    <3> QED BY <3>1, <3>2
  <2> HIDE DEF E
  <2>2. AtPlace(E, m) = m
    BY <2>1, FS_EmptySet DEF AtPlace
  <2> QED BY <1>6, <2>2 DEF E
<1>7. CASE ~(m < d)
  <2> DEFINE X == {e \in D : PlaceWithout(D, e) <= m + 1}
  <2>1. {e \in E : PlaceWithout(E, e) <= m} = X \cup {d}
    <3>1. ASSUME NEW e \in D
          PROVE  PlaceWithout(E, e) <= m <=> PlaceWithout(D, e) <= m + 1
      <4> HIDE DEF E
      <4> QED BY <1>4
    <3>2. PlaceWithout(E, d) <= m
      <4> HIDE DEF E
      <4> QED BY <1>5, <1>7
    <3> QED BY <3>1, <3>2
  <2>2. IsFiniteSet(X) /\ d \notin X /\ Cardinality(X) \in Nat
    BY <1>1, FS_Subset, FS_CardinalityType
  <2>3. Cardinality(X \cup {d}) = Cardinality(X) + 1
    <3> HIDE DEF X
    <3> QED BY <2>2, FS_AddElement
  <2>4. AtPlace(D, m + 1) = m + 1 + Cardinality(X)
    BY DEF AtPlace
  <2>5. AtPlace(E, m) = m + Cardinality(X \cup {d})
    <3> HIDE DEF E, X
    <3> QED BY <2>1 DEF AtPlace
  <2> HIDE DEF X
  <2> QED BY <1>7, <2>2, <2>3, <2>4, <2>5
<1> QED BY <1>6, <1>7

----------------------------------------------------------------------------
(* Several deletions told from the last row to the first are one deletion   *)
(* of all these rows.                                                       *)

MovedByDelete(f, s, D) ==
  LET From(k) == IF k[1] = s THEN <<s, AtPlace(D, k[2])>> ELSE k
  IN  Rekeyed(f, From)

LEMMA DeleteNone ==
  ASSUME NEW s, NEW f, f = [k \in DOMAIN f |-> f[k]],
         DOMAIN f \subseteq IndexPath
  PROVE  MovedByDelete(f, s, {}) = f
<1>1. \A m : AtPlace({}, m) = m + 0
  <2>1. \A m : {d \in {} : PlaceWithout({}, d) <= m} = {}
    OBVIOUS
  <2> QED BY <2>1, FS_EmptySet DEF AtPlace
<1>2. \A k \in IndexPath : k[1] = s => <<s, AtPlace({}, k[2])>> = k
  BY <1>1, HeightAssumption DEF IndexPath, Places
<1> QED BY <1>2 DEF MovedByDelete, Rekeyed

LEMMA DeleteOneMore ==
  ASSUME NEW s, NEW f, DOMAIN f \subseteq IndexPath,
         NEW D, IsFiniteSet(D), \A e \in D : e \in Nat,
         NEW d \in IndexPath, d[1] = s, \A e \in D : d[2] < e
  PROVE  ResetAfterDelete(MovedByDelete(f, s, D), d)
         = MovedByDelete(f, s, D \cup {d[2]})
<1> DEFINE g == MovedByDelete(f, s, D)
           F(k) == IF k[1] = s THEN <<s, AtPlace(D, k[2])>> ELSE k
           E(k) == IF k[1] = s THEN <<s, AtPlace(D \cup {d[2]}, k[2])>> ELSE k
           R(k) == IF k[1] = d[1] /\ k[2] >= d[2] THEN <<k[1], k[2] + 1>> ELSE k
<1>1. /\ DOMAIN g = {k \in IndexPath : F(k) \in DOMAIN f}
      /\ \A k \in DOMAIN g : g[k] = f[F(k)]
  BY DEF MovedByDelete, Rekeyed
<1>2. d[2] \in Nat
  BY HeightAssumption DEF IndexPath, Places
<1>3. ASSUME NEW k \in IndexPath, k[1] = s
      PROVE  /\ k[2] < d[2] => /\ F(k) = E(k) /\ R(k) = k
             /\ k[2] >= d[2] => F(R(k)) = E(k)
  <2>1. k[2] \in Nat /\ k = <<s, k[2]>>
    BY <1>3, HeightAssumption DEF IndexPath, Places
  <2>2. AtPlace(D \cup {d[2]}, k[2])
        = IF k[2] < d[2] THEN k[2] ELSE AtPlace(D, k[2] + 1)
    BY <1>2, <2>1, AtPlaceLower
  <2>3. k[2] < d[2] => AtPlace(D, k[2]) = k[2]
    <3> SUFFICES ASSUME k[2] < d[2] PROVE AtPlace(D, k[2]) = k[2]
      OBVIOUS
    <3>1. {e \in D : PlaceWithout(D, e) <= k[2]} = {}
      <4> SUFFICES ASSUME NEW e \in D, PlaceWithout(D, e) <= k[2] PROVE FALSE
        OBVIOUS
      <4>1. {x \in D : x < d[2]} = {}
        BY <1>2
      <4>2. Below(D, d[2]) = 0
        BY <4>1, FS_EmptySet DEF Below
      <4>3. PlaceWithout(D, d[2]) = d[2]
        BY <1>2, <4>2 DEF PlaceWithout
      <4>4. d[2] <= PlaceWithout(D, e) /\ PlaceWithout(D, e) \in Nat
        BY <1>2, <4>3, PlaceOrder
      <4> QED BY <1>2, <2>1, <4>4
    <3> QED BY <2>1, <3>1, FS_EmptySet DEF AtPlace
  <2> QED BY <1>2, <1>3, <2>1, <2>2, <2>3
<1>4. ASSUME NEW k \in IndexPath, k[1] = s
      PROVE  /\ R(k) \in DOMAIN g <=> E(k) \in DOMAIN f
             /\ R(k) \in DOMAIN g => g[R(k)] = f[E(k)]
  <2>1. k[2] \in Nat /\ k = <<s, k[2]>> /\ k[2] < MaxLength /\ s \in Sections
    BY <1>4, HeightAssumption DEF IndexPath, Places
  <2>2. CASE k[2] < d[2]
    BY <1>1, <1>3, <1>4, <2>2
  <2>3. CASE k[2] >= d[2]
    <3>1. R(k) = <<s, k[2] + 1>> /\ F(R(k)) = E(k)
      BY <1>3, <1>4, <2>3
    <3>2. E(k) = <<s, AtPlace(D, k[2] + 1)>>
      BY <1>4, <3>1
    <3>3. AtPlace(D, k[2] + 1) \in Nat /\ k[2] + 1 <= AtPlace(D, k[2] + 1)
      <4>1. k[2] + 1 \in Nat
        BY <2>1
      <4> HIDE DEF g, E, F, R
      <4> QED BY <4>1, SkippedType
    <3>4. E(k) \in DOMAIN f => R(k) \in IndexPath
      <4> SUFFICES ASSUME <<s, AtPlace(D, k[2] + 1)>> \in IndexPath
                   PROVE  <<s, k[2] + 1>> \in IndexPath
        BY <3>1, <3>2
      <4>1. AtPlace(D, k[2] + 1) <= MaxLength - 1
        BY DEF IndexPath, Places
      <4> QED BY <2>1, <3>3, <4>1, HeightAssumption DEF IndexPath, Places
    <3> HIDE DEF g, E, F, R
    <3> QED BY <1>1, <3>1, <3>4
  <2> QED BY <1>2, <2>1, <2>2, <2>3
<1>5. ASSUME NEW k \in IndexPath, k[1] # s
      PROVE  /\ R(k) \in DOMAIN g <=> E(k) \in DOMAIN f
             /\ R(k) \in DOMAIN g => g[R(k)] = f[E(k)]
  BY <1>1, <1>5
<1>6. ResetAfterDelete(g, d)
      = [k \in {j \in IndexPath : R(j) \in DOMAIN g} |-> g[R(k)]]
  <2> HIDE DEF g
  <2> QED BY DEF ResetAfterDelete, Rekeyed
<1>7. MovedByDelete(f, s, D \cup {d[2]})
      = [k \in {j \in IndexPath : E(j) \in DOMAIN f} |-> f[E(k)]]
  BY DEF MovedByDelete, Rekeyed
<1> HIDE DEF g, E, F, R
<1>8. \A k \in IndexPath : /\ R(k) \in DOMAIN g <=> E(k) \in DOMAIN f
                           /\ R(k) \in DOMAIN g => g[R(k)] = f[E(k)]
  BY <1>4, <1>5
<1> QED BY <1>6, <1>7, <1>8 DEF g

(* g[i] is the cache f after the first i deletions.                         *)
Resets(g, f, s, ds) ==
  /\ g[0] = f
  /\ \A i \in 1..Len(ds) : g[i] = ResetAfterDelete(g[i - 1], <<s, ds[i]>>)
  /\ ResetAfterDeletes(f, s, ds) = g[Len(ds)]

LEMMA ResetsUnfold ==
  ASSUME NEW f, NEW s, NEW ds, Len(ds) \in Nat
  PROVE  \E g : Resets(g, f, s, ds)
<1> DEFINE Run(g, m) == g = [i \in 0..m |-> IF i = 0 THEN f
                                    ELSE ResetAfterDelete(g[i - 1], <<s, ds[i]>>)]
           W == {m \in Nat : \E g : Run(g, m)}
<1>1. 0 \in W
  <2>1. Run([i \in 0..0 |-> f], 0)
    OBVIOUS
  <2> QED BY <2>1
<1>2. ASSUME NEW m \in W
      PROVE  m + 1 \in W
  <2>1. PICK g : Run(g, m)
    OBVIOUS
  <2> DEFINE h == [i \in 0..(m + 1) |->
                     IF i = m + 1 THEN ResetAfterDelete(g[m], <<s, ds[m + 1]>>) ELSE g[i]]
  <2>2. Run(h, m + 1)
    <3>1. ASSUME NEW i \in 0..(m + 1)
          PROVE  h[i] = IF i = 0 THEN f ELSE ResetAfterDelete(h[i - 1], <<s, ds[i]>>)
      <4>1. CASE i = m + 1
        <5>1. i # 0 /\ i - 1 = m /\ h[i - 1] = g[m] /\ m \in Nat
          BY <4>1
        <5> QED BY <4>1, <5>1
      <4>2. CASE i # m + 1 /\ i # 0
        <5>1. i \in 0..m /\ i - 1 \in 0..m /\ i - 1 # m + 1 /\ i - 1 \in 0..(m + 1)
          BY <4>2
        <5>2. h[i] = g[i] /\ h[i - 1] = g[i - 1]
          BY <4>2, <5>1
        <5> HIDE DEF h
        <5> QED BY <2>1, <4>2, <5>1, <5>2
      <4>3. CASE i = 0
        <5>1. 0 # m + 1 /\ 0 \in 0..m /\ 0 \in 0..(m + 1)
          OBVIOUS
        <5>2. h[0] = g[0]
          BY <5>1
        <5> HIDE DEF h
        <5> QED BY <2>1, <4>3, <5>1, <5>2
      <4> QED BY <4>1, <4>2, <4>3
    <3>2. h = [i \in 0..(m + 1) |-> h[i]]
      OBVIOUS
    <3> HIDE DEF h
    <3> QED BY <3>1, <3>2
  <2> HIDE DEF h
  <2> QED BY <2>2
<1>3. W = Nat
  <2> HIDE DEF W
  <2>1. W \in SUBSET Nat
    BY DEF W
  <2> QED BY <1>1, <1>2, <2>1, Induction
<1>4. \E g : Run(g, Len(ds))
  BY <1>3
<1>5. PICK g : Run(g, Len(ds)) /\ ResetAfterDeletes(f, s, ds) = g[Len(ds)]
  BY <1>4, Zenon DEF ResetAfterDeletes
<1>6. \A i \in 0..Len(ds) : g[i] = IF i = 0 THEN f
                                 ELSE ResetAfterDelete(g[i - 1], <<s, ds[i]>>)
  BY <1>5
<1>7. g[0] = f
  <2>1. 0 \in 0..Len(ds)
    OBVIOUS
  <2> QED BY <1>6, <2>1
<1>8. \A i \in 1..Len(ds) : g[i] = ResetAfterDelete(g[i - 1], <<s, ds[i]>>)
  BY <1>6
<1> QED BY <1>5, <1>7, <1>8 DEF Resets

(* deleteRowsAtIndexPaths: resets for one path after the other, although    *)
(* all paths are of the table before the call (lines 395-401).  From the    *)
(* last row to the first that comes to the same as one deletion of all.     *)
THEOREM DeletionsTogether ==
  ASSUME NEW s \in Sections, NEW n \in Nat,
         NEW ds \in [1..n -> Places], LastFirst(ds),
         NEW f, f = [k \in DOMAIN f |-> f[k]], DOMAIN f \subseteq IndexPath
  PROVE  ResetAfterDeletes(f, s, ds) = MovedByDelete(f, s, ToSet(ds))
<1> DEFINE D(i) == {ds[j] : j \in 1..i}
<1>1. DOMAIN ds = 1..n /\ Len(ds) = n
  OBVIOUS
<1>2. \A i \in 1..n : <<s, ds[i]>> \in IndexPath /\ ds[i] \in Nat
  BY HeightAssumption DEF Places, IndexPath
<1>3. PICK g : Resets(g, f, s, ds)
  BY <1>1, ResetsUnfold
<1> DEFINE S == {i \in Nat : i <= n => /\ IsFiniteSet(D(i))
                                       /\ g[i] = MovedByDelete(f, s, D(i))}
<1>4. 0 \in S
  <2>1. D(0) = {}
    OBVIOUS
  <2>2. g[0] = f
    BY <1>3 DEF Resets
  <2> HIDE DEF D
  <2> QED BY <2>1, <2>2, DeleteNone, FS_EmptySet, ZenonT(30)
<1>5. ASSUME NEW i \in S
      PROVE  i + 1 \in S
  <2> SUFFICES ASSUME i + 1 <= n
               PROVE  /\ IsFiniteSet(D(i + 1))
                      /\ g[i + 1] = MovedByDelete(f, s, D(i + 1))
    OBVIOUS
  <2> DEFINE d == ds[i + 1]
  <2>1. i + 1 \in 1..n /\ i \in 0..n /\ i <= n /\ i \in Nat
    OBVIOUS
  <2>2. IsFiniteSet(D(i)) /\ g[i] = MovedByDelete(f, s, D(i))
    BY <2>1
  <2>3. g[i + 1] = ResetAfterDelete(g[i], <<s, d>>)
    BY <1>1, <1>3, <2>1 DEF Resets
  <2>4. D(i + 1) = D(i) \cup {d}
    <3>1. 1..(i + 1) = (1..i) \cup {i + 1}
      BY <2>1
    <3> QED BY <3>1
  <2>5. \A e \in D(i) : e \in Nat /\ d < e
    <3>1. \A j \in 1..i : j \in 1..n /\ j < i + 1
      BY <2>1
    <3>2. \A j \in 1..i : ds[j] > d
      BY <1>1, <2>1, <3>1 DEF LastFirst
    <3>3. \A j \in 1..i : ds[j] \in Nat
      BY <1>2, <3>1
    <3> QED BY <1>2, <2>1, <3>2, <3>3
  <2>6. <<s, d>> \in IndexPath
    BY <1>2, <2>1
  <2> HIDE DEF D, d
  <2>7. (\A e \in D(i) : e \in Nat) /\ (\A e \in D(i) : d < e)
    BY <2>5
  <2>8. ResetAfterDelete(MovedByDelete(f, s, D(i)), <<s, d>>)
        = MovedByDelete(f, s, D(i) \cup {d})
    <3>1. <<s, d>>[1] = s /\ <<s, d>>[2] = d
      OBVIOUS
    <3> QED BY <2>2, <2>6, <2>7, <3>1, DeleteOneMore
  <2>9. IsFiniteSet(D(i) \cup {d})
    BY <2>2, FS_AddElement
  <2> QED BY <2>2, <2>3, <2>4, <2>8, <2>9
<1>6. S = Nat
  <2> HIDE DEF S
  <2>1. S \in SUBSET Nat
    BY DEF S
  <2> QED BY <1>4, <1>5, <2>1, Induction
<1>7. g[n] = MovedByDelete(f, s, D(n))
  <2>1. n \in S
    BY <1>6
  <2> HIDE DEF D
  <2> QED BY <2>1
<1>8. ToSet(ds) = D(n)
  BY <1>1 DEF ToSet
<1> HIDE DEF D
<1> QED BY <1>1, <1>3, <1>7, <1>8 DEF Resets

----------------------------------------------------------------------------
(* What a change of the rows and its announcement have in common: from r to *)
(* r2 the index paths K are those of new rows, and every other path k shows *)
(* what F[k] showed; from f to g every entry goes along.                    *)

ShownIn(r) == {k \in IndexPath : k[2] < Len(r[k[1]])}
At(r, k) == r[k[1]][k[2] + 1]
InRows(r) == {At(r, k) : k \in ShownIn(r)}
Differ(r) == \A k, l \in ShownIn(r) : At(r, k) = At(r, l) => k = l

Moves(r, r2, F, K) ==
  /\ \A k \in IndexPath \ K :
       F[k] \in ShownIn(r) => k \in ShownIn(r2) /\ At(r2, k) = At(r, F[k])
  /\ \A k \in ShownIn(r2) \ K : F[k] \in ShownIn(r)
  /\ \A k, l \in ShownIn(r2) \ K : F[k] = F[l] => k = l
  /\ \A k \in ShownIn(r2) \cap K : At(r2, k) \notin InRows(r)
  /\ \A k, l \in ShownIn(r2) \cap K : At(r2, k) = At(r2, l) => k = l

Follows(r, f, g, F, K) ==
  /\ DOMAIN g \subseteq IndexPath
  /\ \A k \in DOMAIN g :
       /\ F[k] \in DOMAIN f /\ g[k] = f[F[k]]
       /\ F[k] \in ShownIn(r) => k \notin K
  /\ \A k \in IndexPath \ K : F[k] \in DOMAIN f => k \in DOMAIN g

LEMMA RowsStayDifferent ==
  ASSUME NEW r, NEW r2, NEW F, NEW K, Moves(r, r2, F, K), Differ(r)
  PROVE  Differ(r2)
<1> SUFFICES ASSUME NEW k \in ShownIn(r2), NEW l \in ShownIn(r2),
                    At(r2, k) = At(r2, l)
             PROVE  k = l
  BY DEF Differ
<1>1. ShownIn(r2) \subseteq IndexPath
  BY DEF ShownIn
<1>2. \A j \in ShownIn(r2) \ K :
        /\ F[j] \in ShownIn(r) /\ At(r2, j) = At(r, F[j])
        /\ At(r2, j) \in InRows(r)
  BY <1>1 DEF Moves, InRows
<1>3. CASE k \in K /\ l \in K
  BY <1>3 DEF Moves
<1>4. CASE k \in K /\ l \notin K
  BY <1>2, <1>4 DEF Moves
<1>5. CASE k \notin K /\ l \in K
  BY <1>2, <1>5 DEF Moves
<1>6. CASE k \notin K /\ l \notin K
  <2>1. F[k] = F[l]
    BY <1>2, <1>6 DEF Differ
  <2> QED BY <1>6, <2>1 DEF Moves
<1> QED BY <1>3, <1>4, <1>5, <1>6

(* Entries of rows that are there stay with them.                           *)
LEMMA EntriesStayFit ==
  ASSUME NEW r, NEW r2, NEW F, NEW K, NEW f, NEW g,
         Moves(r, r2, F, K), Follows(r, f, g, F, K),
         \A j \in DOMAIN f : j \in ShownIn(r) /\ f[j].row = At(r, j)
  PROVE  \A k \in DOMAIN g : k \in ShownIn(r2) /\ g[k].row = At(r2, k)
<1> SUFFICES ASSUME NEW k \in DOMAIN g
             PROVE  k \in ShownIn(r2) /\ g[k].row = At(r2, k)
  OBVIOUS
<1>1. F[k] \in DOMAIN f /\ g[k] = f[F[k]] /\ k \in IndexPath
  BY DEF Follows
<1>2. F[k] \in ShownIn(r) /\ g[k].row = At(r, F[k])
  BY <1>1
<1>3. k \in IndexPath \ K
  BY <1>1, <1>2 DEF Follows
<1> QED BY <1>2, <1>3 DEF Moves

(* And those of rows that are still there are kept, the others not.         *)
LEMMA EntriesKept ==
  ASSUME NEW r, NEW r2, NEW F, NEW K, NEW f, NEW g,
         Moves(r, r2, F, K), Follows(r, f, g, F, K), Differ(r),
         \A j \in DOMAIN f : j \in ShownIn(r) /\ f[j].row = At(r, j)
  PROVE  {g[k] : k \in DOMAIN g}
         = {v \in {f[j] : j \in DOMAIN f} : v.row \in InRows(r2)}
<1>1. \A k \in DOMAIN g : k \in ShownIn(r2) /\ g[k].row = At(r2, k)
  BY EntriesStayFit
<1>2. ASSUME NEW k \in DOMAIN g
      PROVE  /\ g[k] \in {f[j] : j \in DOMAIN f}
             /\ g[k].row \in InRows(r2)
  <2>1. F[k] \in DOMAIN f /\ g[k] = f[F[k]]
    BY DEF Follows
  <2>2. k \in ShownIn(r2) /\ g[k].row = At(r2, k)
    BY <1>1
  <2> QED BY <2>1, <2>2 DEF InRows
<1>3. ASSUME NEW j \in DOMAIN f, f[j].row \in InRows(r2)
      PROVE  \E k \in DOMAIN g : f[j] = g[k]
  <2>1. PICK k \in ShownIn(r2) : At(r2, k) = At(r, j)
    BY <1>3 DEF InRows
  <2>2. j \in ShownIn(r) /\ At(r, j) \in InRows(r) /\ k \in IndexPath
    BY DEF InRows, ShownIn
  <2>3. k \notin K
    BY <2>1, <2>2 DEF Moves
  <2>4. F[k] \in ShownIn(r) /\ At(r, F[k]) = At(r, j)
    BY <2>1, <2>2, <2>3 DEF Moves
  <2>5. F[k] = j
    BY <2>2, <2>4 DEF Differ
  <2>6. k \in DOMAIN g
    BY <2>2, <2>3, <2>5 DEF Follows
  <2>7. g[k] = f[j]
    BY <2>5, <2>6 DEF Follows
  <2> QED BY <2>6, <2>7
<1> QED BY <1>2, <1>3

(* In one section.                                                          *)
SectionMap(s, G) ==
  [k \in IndexPath |-> IF k[1] = s THEN <<s, G[k[2]]>> ELSE k]

Sectioned(r) ==
  /\ DOMAIN r = Sections
  /\ \A x \in Sections : r[x] \in Seq(Rows) /\ Len(r[x]) <= MaxLength

(* The section s becomes q, with new rows at the places P; every other      *)
(* place i shows what place G[i] showed.                                    *)
SectionChange(r, s, q, P, G) ==
  /\ Sectioned(r) /\ s \in Sections
  /\ Len(q) \in Nat /\ Len(q) <= MaxLength
  /\ G \in [Places -> Int]
  /\ \A i \in Places \ P : G[i] \in 0..(Len(r[s]) - 1) =>
       i < Len(q) /\ q[i + 1] = r[s][G[i] + 1]
  /\ \A i \in 0..(Len(q) - 1) : i \notin P => G[i] \in 0..(Len(r[s]) - 1)
  /\ \A i, j \in 0..(Len(q) - 1) :
       i \notin P /\ j \notin P /\ G[i] = G[j] => i = j
  /\ \A i \in 0..(Len(q) - 1) : i \in P => q[i + 1] \notin InRows(r)
  /\ \A i, j \in 0..(Len(q) - 1) :
       i \in P /\ j \in P /\ q[i + 1] = q[j + 1] => i = j

LEMMA SectionMoves ==
  ASSUME NEW r, NEW s, NEW q, NEW P, NEW G, SectionChange(r, s, q, P, G)
  PROVE  Moves(r, [r EXCEPT ![s] = q], SectionMap(s, G), {s} \X P)
<1>0. /\ DOMAIN r = Sections /\ s \in Sections
      /\ \A x \in Sections : Len(r[x]) \in Nat /\ Len(r[x]) <= MaxLength
      /\ Len(q) \in Nat /\ Len(q) <= MaxLength /\ G \in [Places -> Int]
  BY DEF SectionChange, Sectioned
<1>a. \A i \in Places \ P : G[i] \in 0..(Len(r[s]) - 1) =>
        i < Len(q) /\ q[i + 1] = r[s][G[i] + 1]
  BY DEF SectionChange
<1>b. \A i \in 0..(Len(q) - 1) : i \notin P => G[i] \in 0..(Len(r[s]) - 1)
  BY DEF SectionChange
<1>c. \A i, j \in 0..(Len(q) - 1) :
        i \notin P /\ j \notin P /\ G[i] = G[j] => i = j
  BY DEF SectionChange
<1>d. \A i \in 0..(Len(q) - 1) : i \in P => q[i + 1] \notin InRows(r)
  BY DEF SectionChange
<1>e. \A i, j \in 0..(Len(q) - 1) :
        i \in P /\ j \in P /\ q[i + 1] = q[j + 1] => i = j
  BY DEF SectionChange
<1> DEFINE r2 == [r EXCEPT ![s] = q]
           F == SectionMap(s, G)
           K == {s} \X P
<1>1. \A k \in IndexPath : /\ k[1] \in Sections /\ k[2] \in Places /\ k[2] \in Nat
                           /\ k = <<k[1], k[2]>>
  BY HeightAssumption DEF IndexPath, Places
<1>2. /\ \A i \in 0..(Len(q) - 1) : i \in Places
      /\ \A i \in 0..(Len(r[s]) - 1) : i \in Places
  BY <1>0, HeightAssumption DEF Places
<1>3. ASSUME NEW k \in IndexPath, k[1] # s
      PROVE  /\ F[k] = k /\ k \notin K
             /\ k \in ShownIn(r2) <=> k \in ShownIn(r)
             /\ At(r2, k) = At(r, k)
  BY <1>0, <1>1, <1>3 DEF SectionMap, ShownIn, At
<1>4. ASSUME NEW k \in IndexPath, k[1] = s
      PROVE  /\ F[k] = <<s, G[k[2]]>>
             /\ k \in K <=> k[2] \in P
             /\ k \in ShownIn(r2) <=> k[2] \in 0..(Len(q) - 1)
             /\ At(r2, k) = q[k[2] + 1] /\ G[k[2]] \in Int
  <2>1. r2[k[1]] = q
    BY <1>0, <1>4
  <2>2. k \in ShownIn(r2) <=> k[2] < Len(q)
    BY <2>1 DEF ShownIn
  <2> QED BY <1>0, <1>1, <1>4, <2>1, <2>2 DEF SectionMap, At
<1>5. ASSUME NEW i \in Int
      PROVE  /\ <<s, i>> \in ShownIn(r) <=> i \in 0..(Len(r[s]) - 1)
             /\ At(r, <<s, i>>) = r[s][i + 1]
  <2>1. <<s, i>> \in IndexPath <=> i \in Places
    BY <1>0 DEF IndexPath
  <2>2. <<s, i>> \in ShownIn(r) <=> i \in Places /\ i < Len(r[s])
    BY <2>1 DEF ShownIn
  <2> QED BY <1>0, <1>2, <2>2, HeightAssumption DEF At, Places
<1>6. ShownIn(r2) \subseteq IndexPath /\ ShownIn(r) \subseteq IndexPath
  BY DEF ShownIn
<1> HIDE DEF r2, F, K
<1>7. ASSUME NEW k \in IndexPath \ K, F[k] \in ShownIn(r)
      PROVE  k \in ShownIn(r2) /\ At(r2, k) = At(r, F[k])
  <2>1. CASE k[1] # s
    BY <1>3, <1>7, <2>1
  <2>2. CASE k[1] = s
    <3>1. G[k[2]] \in 0..(Len(r[s]) - 1) /\ k[2] \in Places \ P
      BY <1>1, <1>4, <1>5, <1>7, <2>2
    <3>2. k[2] < Len(q) /\ q[k[2] + 1] = r[s][G[k[2]] + 1]
      BY <1>a, <3>1
    <3>3. k[2] \in 0..(Len(q) - 1)
      BY <1>1, <3>2
    <3> QED BY <1>4, <1>5, <2>2, <3>2, <3>3
  <2> QED BY <2>1, <2>2
<1>8. ASSUME NEW k \in ShownIn(r2) \ K
      PROVE  F[k] \in ShownIn(r)
  <2>1. CASE k[1] # s
    BY <1>3, <1>6, <2>1
  <2>2. CASE k[1] = s
    <3>1. /\ k[2] \in 0..(Len(q) - 1) /\ k[2] \notin P
          /\ F[k] = <<s, G[k[2]]>> /\ G[k[2]] \in Int
      BY <1>4, <1>6, <2>2
    <3>2. G[k[2]] \in 0..(Len(r[s]) - 1)
      BY <1>b, <3>1
    <3> QED BY <1>5, <3>1, <3>2
  <2> QED BY <2>1, <2>2
<1>9. ASSUME NEW k \in ShownIn(r2) \ K, NEW l \in ShownIn(r2) \ K, F[k] = F[l]
      PROVE  k = l
  <2>1. k[1] = l[1]
    BY <1>1, <1>3, <1>4, <1>6, <1>9
  <2>2. CASE k[1] # s
    BY <1>3, <1>6, <1>9, <2>1, <2>2
  <2>3. CASE k[1] = s
    <3>1. /\ k[2] \in 0..(Len(q) - 1) /\ k[2] \notin P
          /\ l[2] \in 0..(Len(q) - 1) /\ l[2] \notin P
          /\ G[k[2]] = G[l[2]]
      <4>1. /\ k[2] \in 0..(Len(q) - 1) /\ k[2] \notin P
            /\ F[k] = <<s, G[k[2]]>>
        BY <1>4, <1>6, <2>3
      <4>2. /\ l[2] \in 0..(Len(q) - 1) /\ l[2] \notin P
            /\ F[l] = <<s, G[l[2]]>>
        BY <1>4, <1>6, <2>1, <2>3
      <4>3. <<s, G[k[2]]>> = <<s, G[l[2]]>>
        BY <1>9, <4>1, <4>2
      <4>4. G[k[2]] = G[l[2]]
        BY <4>3
      <4> QED BY <4>1, <4>2, <4>4
    <3>2. k[2] = l[2]
      BY <1>c, <3>1
    <3>3. k = <<k[1], k[2]>> /\ l = <<l[1], l[2]>>
      BY <1>1, <1>6
    <3>4. <<k[1], k[2]>> = <<l[1], l[2]>>
      BY <2>1, <3>2
    <3> QED BY <3>3, <3>4, Zenon
  <2> QED BY <2>2, <2>3
<1>10. ASSUME NEW k \in ShownIn(r2) \cap K
       PROVE  /\ k[1] = s /\ k[2] \in 0..(Len(q) - 1) /\ k[2] \in P
              /\ At(r2, k) = q[k[2] + 1]
  BY <1>3, <1>4, <1>6
<1>11. ASSUME NEW k \in ShownIn(r2) \cap K, NEW l \in ShownIn(r2) \cap K,
              At(r2, k) = At(r2, l)
       PROVE  k = l
  <2>1. k[2] = l[2]
    BY <1>e, <1>10, <1>11
  <2> QED BY <1>1, <1>6, <1>10, <2>1
<1>12. ASSUME NEW k \in ShownIn(r2) \cap K
       PROVE  At(r2, k) \notin InRows(r)
  BY <1>d, <1>10
<1> QED BY <1>7, <1>8, <1>9, <1>11, <1>12 DEF Moves, r2, F, K

----------------------------------------------------------------------------
(* The changes of a section.                                                *)

LEMMA AppendMoves ==
  ASSUME NEW r, Sectioned(r), NEW s \in Sections, NEW n \in Nat,
         NEW q \in [1..n -> Rows \ InRows(r)], IsInjective(q),
         Len(r[s] \o q) <= MaxLength
  PROVE  /\ r[s] \o q \in Seq(Rows)
         /\ Moves(r, [r EXCEPT ![s] = r[s] \o q],
                  SectionMap(s, [i \in Places |-> i]),
                  {s} \X (Len(r[s])..(Len(r[s]) + n - 1)))
<1> DEFINE a == r[s]
           b == a \o q
           P == Len(a)..(Len(a) + n - 1)
           G == [i \in Places |-> i]
<1>1. a \in Seq(Rows) /\ Len(a) \in Nat /\ q \in Seq(Rows) /\ Len(q) = n
  BY SeqDef DEF Sectioned
<1>2. /\ b \in Seq(Rows) /\ Len(b) = Len(a) + n /\ Len(b) \in Nat
      /\ Len(b) <= MaxLength
      /\ \A i \in 1..(Len(a) + n) :
           b[i] = IF i <= Len(a) THEN a[i] ELSE q[i - Len(a)]
  BY <1>1
<1>3. \A x \in Sections : Len(r[x]) \in Nat /\ Len(r[x]) <= MaxLength
  BY DEF Sectioned
<1>4. G \in [Places -> Int] /\ \A i \in Places : G[i] = i /\ i \in Nat
  BY HeightAssumption DEF Places
<1>5. \A i \in 0..(Len(b) - 1) : i \in Places
  BY <1>2, HeightAssumption DEF Places
<1> HIDE DEF a, b, G
<1>6. \A i \in Places \ P : G[i] \in 0..(Len(a) - 1) =>
        i < Len(b) /\ b[i + 1] = a[G[i] + 1]
  BY <1>1, <1>2, <1>4
<1>7. \A i \in 0..(Len(b) - 1) : i \notin P => G[i] \in 0..(Len(a) - 1)
  BY <1>1, <1>2, <1>4, <1>5
<1>8. \A i, j \in 0..(Len(b) - 1) :
        i \notin P /\ j \notin P /\ G[i] = G[j] => i = j
  BY <1>4, <1>5
<1>9. ASSUME NEW i \in 0..(Len(b) - 1), i \in P
      PROVE  i + 1 - Len(a) \in 1..n /\ b[i + 1] = q[i + 1 - Len(a)]
  BY <1>1, <1>2, <1>9
<1>10. \A i \in 0..(Len(b) - 1) : i \in P => b[i + 1] \notin InRows(r)
  BY <1>9
<1>11. ASSUME NEW i \in 0..(Len(b) - 1), NEW j \in 0..(Len(b) - 1),
              i \in P, j \in P, b[i + 1] = b[j + 1]
       PROVE  i = j
  <2>1. i + 1 - Len(a) = j + 1 - Len(a)
    BY <1>9, <1>11 DEF IsInjective
  <2> QED BY <1>1, <2>1
<1> HIDE DEF P
<1>12. \A i, j \in 0..(Len(b) - 1) :
         i \in P /\ j \in P /\ b[i + 1] = b[j + 1] => i = j
  BY <1>11
<1>13. SectionChange(r, s, b, P, G)
  BY <1>2, <1>4, <1>6, <1>7, <1>8, <1>10, <1>12 DEF SectionChange, a
<1> QED BY <1>2, <1>13, SectionMoves DEF a, b, G, P

LEMMA PrependMoves ==
  ASSUME NEW r, Sectioned(r), NEW s \in Sections, NEW n \in Nat,
         NEW q \in [1..n -> Rows \ InRows(r)], IsInjective(q),
         Len(q \o r[s]) <= MaxLength
  PROVE  /\ q \o r[s] \in Seq(Rows)
         /\ Moves(r, [r EXCEPT ![s] = q \o r[s]],
                  SectionMap(s, [i \in Places |-> i - n]), {s} \X (0..(n - 1)))
<1> DEFINE a == r[s]
           b == q \o a
           P == 0..(n - 1)
           G == [i \in Places |-> i - n]
<1>1. a \in Seq(Rows) /\ Len(a) \in Nat /\ q \in Seq(Rows) /\ Len(q) = n
  BY SeqDef DEF Sectioned
<1>2. /\ b \in Seq(Rows) /\ Len(b) = Len(a) + n /\ Len(b) \in Nat
      /\ Len(b) <= MaxLength
      /\ \A i \in 1..(Len(a) + n) :
           b[i] = IF i <= n THEN q[i] ELSE a[i - n]
  BY <1>1
<1>4. G \in [Places -> Int] /\ \A i \in Places : G[i] = i - n /\ i \in Nat
  BY HeightAssumption DEF Places
<1>5. \A i \in 0..(Len(b) - 1) : i \in Places
  BY <1>2, HeightAssumption DEF Places
<1> HIDE DEF a, b, G
<1>6. \A i \in Places \ P : G[i] \in 0..(Len(a) - 1) =>
        i < Len(b) /\ b[i + 1] = a[G[i] + 1]
  BY <1>1, <1>2, <1>4
<1>7. \A i \in 0..(Len(b) - 1) : i \notin P => G[i] \in 0..(Len(a) - 1)
  BY <1>1, <1>2, <1>4, <1>5
<1>8. \A i, j \in 0..(Len(b) - 1) :
        i \notin P /\ j \notin P /\ G[i] = G[j] => i = j
  BY <1>4, <1>5
<1>9. ASSUME NEW i \in 0..(Len(b) - 1), i \in P
      PROVE  i + 1 \in 1..n /\ b[i + 1] = q[i + 1]
  BY <1>1, <1>2, <1>9
<1>10. \A i \in 0..(Len(b) - 1) : i \in P => b[i + 1] \notin InRows(r)
  BY <1>9
<1>11. ASSUME NEW i \in 0..(Len(b) - 1), NEW j \in 0..(Len(b) - 1),
              i \in P, j \in P, b[i + 1] = b[j + 1]
       PROVE  i = j
  <2>1. i + 1 = j + 1
    BY <1>9, <1>11 DEF IsInjective
  <2> QED BY <1>1, <2>1
<1> HIDE DEF P
<1>12. \A i, j \in 0..(Len(b) - 1) :
         i \in P /\ j \in P /\ b[i + 1] = b[j + 1] => i = j
  BY <1>11
<1>13. SectionChange(r, s, b, P, G)
  BY <1>2, <1>4, <1>6, <1>7, <1>8, <1>10, <1>12 DEF SectionChange, a
<1> QED BY <1>2, <1>13, SectionMoves DEF a, b, G, P

LEMMA ReplaceMoves ==
  ASSUME NEW r, Sectioned(r), NEW s \in Sections,
         NEW P, {s} \X P \subseteq ShownIn(r),
         NEW q \in [P -> Rows \ InRows(r)], IsInjective(q),
         NEW b, b = Replaced(r[s], P, q)
  PROVE  /\ b \in Seq(Rows) /\ Len(b) <= MaxLength
         /\ Moves(r, [r EXCEPT ![s] = b],
                  SectionMap(s, [i \in Places |-> i]), {s} \X P)
<1> DEFINE a == r[s]
           G == [i \in Places |-> i]
<1>1. a \in Seq(Rows) /\ Len(a) \in Nat /\ Len(a) <= MaxLength
      /\ DOMAIN a = 1..Len(a) /\ \A i \in 1..Len(a) : a[i] \in Rows
  BY DEF Sectioned
<1>2. /\ b \in Seq(Rows) /\ Len(b) = Len(a)
      /\ \A i \in 1..Len(a) :
           b[i] = IF i - 1 \in P THEN q[i - 1] ELSE a[i]
  <2>0. b = [i \in DOMAIN a |-> IF i - 1 \in P THEN q[i - 1] ELSE a[i]]
    BY DEF Replaced
  <2>1. b \in [1..Len(a) -> Rows]
    BY <1>1, <2>0
  <2>2. b \in Seq(Rows) /\ Len(b) = Len(a)
    BY <1>1, <2>1, SeqDef
  <2> QED BY <1>1, <2>0, <2>2
<1>4. G \in [Places -> Int] /\ \A i \in Places : G[i] = i /\ i \in Nat
  BY HeightAssumption DEF Places
<1>5. \A i \in 0..(Len(a) - 1) : i \in Places /\ i + 1 \in 1..Len(a) /\ (i + 1) - 1 = i
  BY <1>1, HeightAssumption DEF Places
<1> HIDE DEF a, G
<1>6. \A i \in Places \ P : G[i] \in 0..(Len(a) - 1) =>
        i < Len(b) /\ b[i + 1] = a[G[i] + 1]
  <2> SUFFICES ASSUME NEW i \in Places, i \notin P, G[i] \in 0..(Len(a) - 1)
               PROVE  i < Len(b) /\ b[i + 1] = a[G[i] + 1]
    OBVIOUS
  <2>1. i \in 0..(Len(a) - 1) /\ G[i] = i
    BY <1>4
  <2>2. i + 1 \in 1..Len(a) /\ (i + 1) - 1 = i /\ i < Len(a)
    BY <1>1, <1>5, <2>1
  <2>3. b[i + 1] = a[i + 1]
    BY <1>2, <2>2
  <2> QED BY <1>2, <2>1, <2>2, <2>3
<1>7. \A i \in 0..(Len(b) - 1) : i \notin P => G[i] \in 0..(Len(a) - 1)
  BY <1>1, <1>2, <1>4, <1>5
<1>8. \A i, j \in 0..(Len(b) - 1) :
        i \notin P /\ j \notin P /\ G[i] = G[j] => i = j
  BY <1>2, <1>4, <1>5
<1>9. \A i \in 0..(Len(b) - 1) : i \in P => b[i + 1] = q[i]
  BY <1>2, <1>5
<1>10. \A i \in 0..(Len(b) - 1) : i \in P => b[i + 1] \notin InRows(r)
  BY <1>9
<1>11. \A i, j \in 0..(Len(b) - 1) :
         i \in P /\ j \in P /\ b[i + 1] = b[j + 1] => i = j
  BY <1>9 DEF IsInjective
<1>12. SectionChange(r, s, b, P, G)
  BY <1>1, <1>2, <1>4, <1>6, <1>7, <1>8, <1>10, <1>11 DEF SectionChange, a
<1> QED BY <1>1, <1>2, <1>12, SectionMoves DEF G

LEMMA RemoveMoves ==
  ASSUME NEW r, Sectioned(r), NEW s \in Sections,
         NEW D, \A d \in D : d \in 0..(Len(r[s]) - 1)
  PROVE  /\ Remaining(r[s], D) \in Seq(Rows)
         /\ Len(Remaining(r[s], D)) <= MaxLength
         /\ Moves(r, [r EXCEPT ![s] = Remaining(r[s], D)],
                  SectionMap(s, [i \in Places |-> AtPlace(D, i)]), {s} \X {})
<1> DEFINE a == r[s]
           b == Remaining(a, D)
           n == Cardinality(D)
           G == [i \in Places |-> AtPlace(D, i)]
<1>1. a \in Seq(Rows) /\ Len(a) \in Nat /\ Len(a) <= MaxLength
      /\ \A i \in 1..Len(a) : a[i] \in Rows
  BY DEF Sectioned
<1>2. (\A d \in D : d \in Nat) /\ (\A d \in D : d < Len(a))
  BY <1>1
<1>3. IsFiniteSet(D) /\ n \in Nat /\ n <= Len(a) /\ Below(D, Len(a)) = n
  <2>1. D \subseteq 0..(Len(a) - 1)
    OBVIOUS
  <2>2. IsFiniteSet(0..(Len(a) - 1))
    BY <1>1, FS_Interval
  <2>3. IsFiniteSet(D)
    BY <2>1, <2>2, FS_Subset
  <2> HIDE DEF a
  <2> QED BY <1>1, <1>2, <2>3, BelowAll, FS_CardinalityType
<1>4. ASSUME NEW i \in Nat
      PROVE  /\ AtPlace(D, i) \in Nat /\ AtPlace(D, i) <= i + n
             /\ AtPlace(D, i) \notin D
             /\ PlaceWithout(D, AtPlace(D, i)) = i
  BY <1>2, <1>3, SkippedType, PlaceAt
<1>5. ASSUME NEW i \in Nat, AtPlace(D, i) < Len(a)
      PROVE  i < Len(a) - n
  <2>1. PlaceWithout(D, AtPlace(D, i)) < PlaceWithout(D, Len(a))
    <3>1. AtPlace(D, i) \in Nat /\ AtPlace(D, i) \notin D /\ Len(a) \in Nat
      BY <1>1, <1>4
    <3>2. AtPlace(D, i) <= Len(a)
      BY <1>1, <1>5, <3>1
    <3> HIDE DEF a
    <3> QED BY <1>2, <1>3, <1>5, <3>1, <3>2, PlaceOrder
  <2>2. PlaceWithout(D, Len(a)) = Len(a) - n
    BY <1>3 DEF PlaceWithout
  <2> QED BY <1>4, <2>1, <2>2
<1>6. /\ b \in Seq(Rows) /\ Len(b) = Len(a) - n
      /\ \A i \in 1..(Len(a) - n) : b[i] = a[AtPlace(D, i - 1) + 1]
  <2>1. \A i \in 1..(Len(a) - n) : AtPlace(D, i - 1) + 1 \in 1..Len(a)
    <3> SUFFICES ASSUME NEW i \in 1..(Len(a) - n)
                 PROVE  AtPlace(D, i - 1) + 1 \in 1..Len(a)
      OBVIOUS
    <3>1. i - 1 \in Nat /\ i \in Nat /\ i <= Len(a) - n
      BY <1>1, <1>3
    <3>2. AtPlace(D, i - 1) \in Nat /\ AtPlace(D, i - 1) <= (i - 1) + n
      BY <1>4, <3>1
    <3> HIDE DEF a, n
    <3> QED BY <1>1, <1>3, <3>1, <3>2
  <2>2. b \in [1..(Len(a) - n) -> Rows]
    <3> HIDE DEF a
    <3> QED BY <1>1, <2>1 DEF Remaining
  <2>3. Len(a) - n \in Nat
    BY <1>1, <1>3
  <2>4. b \in Seq(Rows) /\ Len(b) = Len(a) - n
    <3> HIDE DEF a, b, n
    <3> QED BY <2>2, <2>3, SeqDef
  <2> QED BY <2>4 DEF Remaining
<1>7. G \in [Places -> Int] /\ \A i \in Places : G[i] = AtPlace(D, i) /\ i \in Nat
  BY <1>4, HeightAssumption DEF Places
<1>8. \A i \in 0..(Len(b) - 1) : i \in Places /\ i \in Nat /\ i + 1 \in 1..(Len(a) - n)
  BY <1>1, <1>3, <1>6, HeightAssumption DEF Places
<1> HIDE DEF a, b, n, G
<1>9. \A i \in Places : G[i] \in 0..(Len(a) - 1) =>
        i < Len(b) /\ b[i + 1] = a[G[i] + 1]
  <2> SUFFICES ASSUME NEW i \in Places, G[i] \in 0..(Len(a) - 1)
               PROVE  i < Len(b) /\ b[i + 1] = a[G[i] + 1]
    OBVIOUS
  <2>1. i \in Nat /\ G[i] = AtPlace(D, i) /\ AtPlace(D, i) < Len(a)
    BY <1>1, <1>7
  <2>2. i < Len(a) - n
    BY <1>5, <2>1
  <2>3. i + 1 \in 1..(Len(a) - n) /\ (i + 1) - 1 = i
    BY <1>1, <1>3, <2>1, <2>2
  <2> QED BY <1>6, <2>1, <2>2, <2>3
<1>10. \A i \in 0..(Len(b) - 1) : G[i] \in 0..(Len(a) - 1)
  <2> SUFFICES ASSUME NEW i \in 0..(Len(b) - 1)
               PROVE  G[i] \in 0..(Len(a) - 1)
    OBVIOUS
  <2>1. i \in Nat /\ i < Len(a) - n /\ G[i] = AtPlace(D, i)
    BY <1>1, <1>3, <1>7, <1>8
  <2>2. G[i] \in Nat /\ G[i] <= i + n
    BY <1>4, <2>1
  <2> QED BY <1>1, <1>3, <2>1, <2>2
<1>11. \A i, j \in 0..(Len(b) - 1) : G[i] = G[j] => i = j
  BY <1>4, <1>7, <1>8
<1>12. Len(b) \in Nat /\ Len(b) <= MaxLength
  BY <1>1, <1>3, <1>6, HeightAssumption
<1>13. SectionChange(r, s, b, {}, G)
  BY <1>7, <1>9, <1>10, <1>11, <1>12 DEF SectionChange, a
<1> QED BY <1>6, <1>12, <1>13, SectionMoves DEF a, b, G

(* An empty section has nothing that could move.                            *)
LEMMA InsertMoves ==
  ASSUME NEW r, Sectioned(r), NEW s \in Sections,
         NEW P, \A i \in P : i \in Places,
         \A i \in P : i < Len(r[s]) + Cardinality(P),
         NEW q \in [P -> Rows \ InRows(r)], IsInjective(q),
         Len(Inserted(r[s], P, q)) <= MaxLength
  PROVE  /\ Inserted(r[s], P, q) \in Seq(Rows)
         /\ Moves(r, [r EXCEPT ![s] = Inserted(r[s], P, q)],
                  SectionMap(s, [i \in Places |-> PlaceWithout(P, i)]), {s} \X P)
         /\ r[s] = <<>> =>
              Moves(r, [r EXCEPT ![s] = Inserted(r[s], P, q)],
                    SectionMap(s, [i \in Places |-> i]), {s} \X P)
<1> DEFINE a == r[s]
           b == Inserted(a, P, q)
           n == Cardinality(P)
           G == [i \in Places |-> PlaceWithout(P, i)]
           I == [i \in Places |-> i]
<1>1. a \in Seq(Rows) /\ Len(a) \in Nat /\ Len(a) <= MaxLength
      /\ \A i \in 1..Len(a) : a[i] \in Rows
  BY DEF Sectioned
<1>2. \A i \in P : i \in Nat
  BY HeightAssumption DEF Places
<1>3. /\ IsFiniteSet(P) /\ n \in Nat /\ Len(a) + n \in Nat
      /\ Below(P, Len(a) + n) = n
  <2>1. P \subseteq 0..(MaxLength - 1)
    BY DEF Places
  <2>2. IsFiniteSet(0..(MaxLength - 1))
    BY HeightAssumption, FS_Interval
  <2>3. IsFiniteSet(P) /\ n \in Nat
    BY <2>1, <2>2, FS_Subset, FS_CardinalityType
  <2>4. Len(a) + n \in Nat /\ \A i \in P : i < Len(a) + n
    BY <1>1, <2>3
  <2> HIDE DEF a
  <2> QED BY <1>2, <2>3, <2>4, BelowAll
<1>4. ASSUME NEW i \in Nat
      PROVE  /\ PlaceWithout(P, i) \in Nat
             /\ i <= PlaceWithout(P, i) + n
  <2>1. Below(P, i) <= n /\ Below(P, i) \in Nat
    BY <1>2, <1>3, BelowType
  <2>2. PlaceWithout(P, i) \in Nat
    BY <1>2, <1>3, PlaceOrder
  <2> HIDE DEF n
  <2> QED BY <1>3, <2>1, <2>2 DEF PlaceWithout
<1>5. ASSUME NEW i \in Nat, i \notin P, i < Len(a) + n
      PROVE  PlaceWithout(P, i) < Len(a)
  <2>1. PlaceWithout(P, i) < PlaceWithout(P, Len(a) + n)
    <3>1. i <= Len(a) + n
      BY <1>3, <1>5
    <3> HIDE DEF a, n
    <3> QED BY <1>2, <1>3, <1>5, <3>1, PlaceOrder
  <2>2. PlaceWithout(P, Len(a) + n) = Len(a)
    BY <1>1, <1>3 DEF PlaceWithout
  <2> QED BY <1>4, <2>1, <2>2
<1>6. /\ b \in Seq(Rows) /\ Len(b) = Len(a) + n
      /\ \A i \in 1..(Len(a) + n) :
           b[i] = IF i - 1 \in P THEN q[i - 1]
                  ELSE a[PlaceWithout(P, i - 1) + 1]
  <2>1. ASSUME NEW i \in 1..(Len(a) + n), i - 1 \notin P
        PROVE  a[PlaceWithout(P, i - 1) + 1] \in Rows
    <3>1. i - 1 \in Nat /\ i - 1 < Len(a) + n
      BY <1>3
    <3>2. PlaceWithout(P, i - 1) \in Nat /\ PlaceWithout(P, i - 1) < Len(a)
      BY <1>4, <1>5, <2>1, <3>1
    <3>3. PlaceWithout(P, i - 1) + 1 \in 1..Len(a)
      BY <1>1, <3>2
    <3> QED BY <1>1, <3>3
  <2>2. b \in [1..(Len(a) + n) -> Rows]
    <3> HIDE DEF a
    <3> QED BY <2>1 DEF Inserted
  <2>3. b \in Seq(Rows) /\ Len(b) = Len(a) + n
    <3> HIDE DEF a, b, n
    <3> QED BY <1>3, <2>2, SeqDef
  <2> QED BY <2>3 DEF Inserted
<1>7. Len(b) \in Nat /\ Len(b) <= MaxLength
  BY <1>3, <1>6
<1>8. \A i \in 0..(Len(b) - 1) :
        /\ i \in Places /\ i \in Nat /\ i < Len(a) + n
        /\ i + 1 \in 1..(Len(a) + n) /\ (i + 1) - 1 = i
  BY <1>3, <1>6, <1>7, HeightAssumption DEF Places
<1>9. /\ G \in [Places -> Int]
      /\ \A i \in Places : G[i] = PlaceWithout(P, i) /\ i \in Nat
      /\ I \in [Places -> Int] /\ \A i \in Places : I[i] = i
  BY <1>4, HeightAssumption DEF Places
<1> HIDE DEF a, b, n, G, I
<1>10. \A i \in Places \ P : G[i] \in 0..(Len(a) - 1) =>
         i < Len(b) /\ b[i + 1] = a[G[i] + 1]
  <2> SUFFICES ASSUME NEW i \in Places, i \notin P, G[i] \in 0..(Len(a) - 1)
               PROVE  i < Len(b) /\ b[i + 1] = a[G[i] + 1]
    OBVIOUS
  <2>1. i \in Nat /\ G[i] = PlaceWithout(P, i)
    BY <1>9
  <2>2. i < Len(a) + n
    BY <1>1, <1>3, <1>4, <2>1
  <2>3. i + 1 \in 1..(Len(a) + n) /\ (i + 1) - 1 = i
    BY <1>3, <2>1, <2>2
  <2> QED BY <1>6, <2>1, <2>2, <2>3
<1>11. \A i \in 0..(Len(b) - 1) : i \notin P => G[i] \in 0..(Len(a) - 1)
  <2> SUFFICES ASSUME NEW i \in 0..(Len(b) - 1), i \notin P
               PROVE  G[i] \in 0..(Len(a) - 1)
    OBVIOUS
  <2>1. i \in Nat /\ i < Len(a) + n /\ G[i] = PlaceWithout(P, i)
    BY <1>8, <1>9
  <2>2. G[i] \in Nat /\ G[i] < Len(a)
    BY <1>4, <1>5, <2>1
  <2> QED BY <1>1, <2>2
<1>12. ASSUME NEW i \in 0..(Len(b) - 1), NEW j \in 0..(Len(b) - 1),
              i \notin P, j \notin P, G[i] = G[j]
       PROVE  i = j
  <2>1. i \in Nat /\ j \in Nat /\ PlaceWithout(P, i) = PlaceWithout(P, j)
    BY <1>8, <1>9, <1>12
  <2>2. PlaceWithout(P, i) \in Nat
    BY <1>4, <2>1
  <2>3. CASE i < j
    <3>1. PlaceWithout(P, i) < PlaceWithout(P, j)
      BY <1>2, <1>3, <1>12, <2>1, <2>3, PlaceOrder
    <3> QED BY <2>1, <2>2, <3>1
  <2>4. CASE j < i
    <3>1. PlaceWithout(P, j) < PlaceWithout(P, i)
      BY <1>2, <1>3, <1>12, <2>1, <2>4, PlaceOrder
    <3> QED BY <2>1, <2>2, <3>1
  <2> QED BY <2>1, <2>3, <2>4
<1>13. \A i \in 0..(Len(b) - 1) : i \in P => b[i + 1] = q[i]
  BY <1>6, <1>8
<1>14. \A i \in 0..(Len(b) - 1) : i \in P => b[i + 1] \notin InRows(r)
  BY <1>13
<1>15. \A i, j \in 0..(Len(b) - 1) :
         i \in P /\ j \in P /\ b[i + 1] = b[j + 1] => i = j
  BY <1>13 DEF IsInjective
<1>16. \A i, j \in 0..(Len(b) - 1) :
         i \notin P /\ j \notin P /\ G[i] = G[j] => i = j
  BY <1>12
<1>17. SectionChange(r, s, b, P, G)
  BY <1>7, <1>9, <1>10, <1>11, <1>14, <1>15, <1>16 DEF SectionChange, a
<1>18. ASSUME a = <<>>
       PROVE  SectionChange(r, s, b, P, I)
  <2>1. Len(a) = 0
    BY <1>18
  <2>2. 0..(Len(a) - 1) = {}
    BY <2>1
  <2>3. \A i \in 0..(Len(b) - 1) : i \in P
    BY <1>11, <2>2
  <2> QED BY <1>7, <1>9, <1>14, <1>15, <2>2, <2>3 DEF SectionChange, a
<1> QED BY <1>6, <1>17, <1>18, SectionMoves DEF a, b, G, I

(* Turned around, or with its first row at the end.                         *)
LEMMA ReorderMoves ==
  ASSUME NEW r, Sectioned(r), NEW s \in Sections,
         NEW b,
         \/ b \in {<<>>, Reverse(r[s])}
         \/ r[s] # <<>> /\ b = Tail(r[s]) \o <<Head(r[s])>>
  PROVE  /\ b \in Seq(Rows) /\ Len(b) <= MaxLength
         /\ \E F : Moves(r, [r EXCEPT ![s] = b], F, {s} \X {})
<1> DEFINE a == r[s]
           L == Len(a)
           G == [i \in Places |-> IF b = <<>> THEN 0 - 1
                                  ELSE IF b = Reverse(a) THEN L - 1 - i
                                  ELSE IF i = L - 1 THEN 0 ELSE i + 1]
<1>1. a \in Seq(Rows) /\ L \in Nat /\ L <= MaxLength
      /\ \A i \in 1..L : a[i] \in Rows
  BY DEF Sectioned
<1>2. \A i \in Places : i \in Nat
  BY HeightAssumption DEF Places
<1>3. G \in [Places -> Int]
  BY <1>1, <1>2
<1>4. CASE b = <<>>
  <2>1. /\ b \in Seq(Rows) /\ Len(b) = 0 /\ Len(b) <= MaxLength
        /\ 0..(Len(b) - 1) = {}
    BY <1>4, HeightAssumption
  <2>2. \A i \in Places : G[i] \notin 0..(L - 1)
    BY <1>1, <1>4
  <2> HIDE DEF G, L
  <2>3. SectionChange(r, s, b, {}, G)
    BY <1>3, <2>1, <2>2 DEF SectionChange, L
  <2> QED BY <2>1, <2>3, SectionMoves
<1>5. CASE b # <<>> /\ b = Reverse(a)
  <2>1. /\ b \in Seq(Rows) /\ Len(b) = L
        /\ \A i \in 1..L : b[i] = a[L - i + 1]
    BY <1>1, <1>5, SeqDef DEF Reverse
  <2>2. \A i \in Places : G[i] = L - 1 - i
    BY <1>5
  <2>3. \A i \in Places : G[i] \in 0..(L - 1) =>
          i < Len(b) /\ b[i + 1] = a[G[i] + 1]
    <3> SUFFICES ASSUME NEW i \in Places, L - 1 - i \in 0..(L - 1)
                 PROVE  i < Len(b) /\ b[i + 1] = a[(L - 1 - i) + 1]
      BY <2>2
    <3>1. i \in Nat /\ i + 1 \in 1..L /\ i < L
      BY <1>1, <1>2
    <3>2. b[i + 1] = a[L - (i + 1) + 1] /\ L - (i + 1) + 1 = (L - 1 - i) + 1
      BY <1>1, <2>1, <3>1
    <3> HIDE DEF L
    <3> QED BY <2>1, <3>1, <3>2
  <2>4. \A i \in 0..(Len(b) - 1) : i \in Places
    BY <1>1, <2>1, HeightAssumption DEF Places
  <2>5. \A i \in 0..(Len(b) - 1) : G[i] \in 0..(L - 1)
    BY <1>1, <2>1, <2>2, <2>4
  <2>6. \A i, j \in 0..(Len(b) - 1) : G[i] = G[j] => i = j
    BY <1>1, <2>2, <2>4
  <2> HIDE DEF G
  <2>7. SectionChange(r, s, b, {}, G)
    BY <1>1, <1>3, <2>1, <2>3, <2>5, <2>6 DEF SectionChange
  <2> QED BY <1>1, <2>1, <2>7, SectionMoves
<1>6. CASE b # <<>> /\ b # Reverse(a)
  <2>0. a # <<>> /\ b = Tail(a) \o <<Head(a)>> /\ L > 0
    BY <1>1, <1>6
  <2>1. /\ b \in Seq(Rows) /\ Len(b) = L
        /\ \A i \in 1..L : b[i] = IF i = L THEN a[1] ELSE a[i + 1]
    BY <1>1, <2>0
  <2>2. \A i \in Places : G[i] = IF i = L - 1 THEN 0 ELSE i + 1
    BY <1>6
  <2>3. \A i \in Places : G[i] \in 0..(L - 1) =>
          i < Len(b) /\ b[i + 1] = a[G[i] + 1]
    <3> SUFFICES ASSUME NEW i \in Places,
                        (IF i = L - 1 THEN 0 ELSE i + 1) \in 0..(L - 1)
                 PROVE  /\ i < Len(b)
                        /\ b[i + 1] = a[(IF i = L - 1 THEN 0 ELSE i + 1) + 1]
      BY <2>2
    <3>1. i \in Nat /\ i + 1 \in 1..L /\ i < L
      BY <1>1, <1>2, <2>0
    <3>2. b[i + 1] = IF i + 1 = L THEN a[1] ELSE a[(i + 1) + 1]
      BY <2>1, <3>1
    <3> HIDE DEF L
    <3> QED BY <1>1, <2>1, <3>1, <3>2
  <2>4. \A i \in 0..(Len(b) - 1) : i \in Places
    BY <1>1, <2>1, HeightAssumption DEF Places
  <2>5. \A i \in 0..(Len(b) - 1) : G[i] \in 0..(L - 1)
    <3> SUFFICES ASSUME NEW i \in 0..(Len(b) - 1)
                 PROVE  (IF i = L - 1 THEN 0 ELSE i + 1) \in 0..(L - 1)
      BY <2>2, <2>4
    <3> HIDE DEF L
    <3> QED BY <1>1, <2>0, <2>1
  <2>6. \A i, j \in 0..(Len(b) - 1) : G[i] = G[j] => i = j
    BY <1>1, <2>2, <2>4
  <2> HIDE DEF G
  <2>7. SectionChange(r, s, b, {}, G)
    BY <1>1, <1>3, <2>1, <2>3, <2>5, <2>6 DEF SectionChange
  <2> QED BY <1>1, <2>1, <2>7, SectionMoves
<1> QED BY <1>4, <1>5, <1>6

----------------------------------------------------------------------------
(* The changes of a cache.                                                  *)

LEMMA SectionMapValue ==
  ASSUME NEW s, NEW G, NEW k \in IndexPath
  PROVE  SectionMap(s, G)[k] = IF k[1] = s THEN <<s, G[k[2]]>> ELSE k
BY DEF SectionMap

LEMMA PathParts ==
  ASSUME NEW k \in IndexPath
  PROVE  /\ k[1] \in Sections /\ k[2] \in Places /\ k[2] \in Nat
         /\ k = <<k[1], k[2]>>
BY HeightAssumption DEF IndexPath, Places

LEMMA StayFollows ==
  ASSUME NEW r, NEW s, NEW P,
         r[s] = <<>> \/ \A i \in P : i >= Len(r[s]), \A i \in P : i \in Nat,
         NEW f, DOMAIN f \subseteq IndexPath
  PROVE  Follows(r, f, f, SectionMap(s, [i \in Places |-> i]), {s} \X P)
<1> DEFINE F == SectionMap(s, [i \in Places |-> i])
<1>1. ASSUME NEW k \in IndexPath
      PROVE  F[k] = k
  <2>1. k[2] \in Places /\ k = <<k[1], k[2]>>
    BY PathParts
  <2>2. F[k] = IF k[1] = s THEN <<s, [i \in Places |-> i][k[2]]>> ELSE k
    BY SectionMapValue
  <2>3. [i \in Places |-> i][k[2]] = k[2]
    BY <2>1
  <2> QED BY <2>1, <2>2, <2>3
<1>2. ASSUME NEW k \in IndexPath, k \in ShownIn(r)
      PROVE  k \notin {s} \X P
  <2> SUFFICES ASSUME k[1] = s, k[2] \in P PROVE FALSE
    OBVIOUS
  <2>1. k[2] \in Nat /\ k[2] < Len(r[s])
    BY <1>2, PathParts DEF ShownIn
  <2>2. CASE r[s] = <<>>
    BY <2>1, <2>2
  <2>3. CASE \A i \in P : i >= Len(r[s])
    <3>1. k[2] >= Len(r[s])
      BY <2>3
    <3> QED BY <2>1, <3>1
  <2> QED BY <2>2, <2>3
<1> HIDE DEF F
<1> QED BY <1>1, <1>2 DEF Follows, F

LEMMA CountFollows ==
  ASSUME NEW r, NEW s, NEW n \in Nat, NEW f, DOMAIN f \subseteq IndexPath
  PROVE  Follows(r, f, MovedByCount(f, s, n),
                 SectionMap(s, [i \in Places |-> i - n]), {s} \X (0..(n - 1)))
<1> DEFINE F == SectionMap(s, [i \in Places |-> i - n])
           g == MovedByCount(f, s, n)
           E(k) == IF k[1] = s THEN <<s, k[2] - n>> ELSE k
<1>1. ASSUME NEW k \in IndexPath
      PROVE  F[k] = E(k)
  <2>1. k[2] \in Places
    BY PathParts
  <2>2. F[k] = IF k[1] = s THEN <<s, [i \in Places |-> i - n][k[2]]>> ELSE k
    BY SectionMapValue
  <2> QED BY <2>1, <2>2
<1>2. g = [k \in {j \in IndexPath : E(j) \in DOMAIN f} |-> f[E(k)]]
  BY DEF MovedByCount, Rekeyed
<1>3. ASSUME NEW k \in IndexPath, E(k) \in ShownIn(r)
      PROVE  k \notin {s} \X (0..(n - 1))
  <2> SUFFICES ASSUME k[1] = s, k[2] \in 0..(n - 1) PROVE FALSE
    OBVIOUS
  <2>1. <<s, k[2] - n>> \in IndexPath
    BY <1>3 DEF ShownIn
  <2>2. k[2] - n \in Nat
    BY <2>1, HeightAssumption DEF IndexPath, Places
  <2> QED BY <2>2
<1> HIDE DEF F, g, E
<1> QED BY <1>1, <1>2, <1>3 DEF Follows, F, g

LEMMA WithoutFollows ==
  ASSUME NEW r, NEW s, NEW P, NEW f, DOMAIN f \subseteq IndexPath
  PROVE  Follows(r, f, Without(f, {s} \X P),
                 SectionMap(s, [i \in Places |-> i]), {s} \X P)
<1> DEFINE F == SectionMap(s, [i \in Places |-> i])
<1>1. ASSUME NEW k \in IndexPath
      PROVE  F[k] = k
  <2>1. k[2] \in Places /\ k = <<k[1], k[2]>>
    BY PathParts
  <2>2. F[k] = IF k[1] = s THEN <<s, [i \in Places |-> i][k[2]]>> ELSE k
    BY SectionMapValue
  <2>3. [i \in Places |-> i][k[2]] = k[2]
    BY <2>1
  <2> QED BY <2>1, <2>2, <2>3
<1> HIDE DEF F
<1> QED BY <1>1 DEF Follows, Without, F

LEMMA DeleteFollows ==
  ASSUME NEW r, NEW s, NEW D, NEW f
  PROVE  Follows(r, f, MovedByDelete(f, s, D),
                 SectionMap(s, [i \in Places |-> AtPlace(D, i)]), {s} \X {})
<1> DEFINE F == SectionMap(s, [i \in Places |-> AtPlace(D, i)])
           g == MovedByDelete(f, s, D)
           E(k) == IF k[1] = s THEN <<s, AtPlace(D, k[2])>> ELSE k
<1>1. ASSUME NEW k \in IndexPath
      PROVE  F[k] = E(k)
  <2>1. k[2] \in Places
    BY PathParts
  <2>2. F[k] = IF k[1] = s THEN <<s, [i \in Places |-> AtPlace(D, i)][k[2]]>>
               ELSE k
    BY SectionMapValue
  <2> QED BY <2>1, <2>2
<1>2. g = [k \in {j \in IndexPath : E(j) \in DOMAIN f} |-> f[E(k)]]
  BY DEF MovedByDelete, Rekeyed
<1> HIDE DEF F, g, E
<1> QED BY <1>1, <1>2 DEF Follows, F, g

LEMMA InsertFollows ==
  ASSUME NEW s, NEW P, NEW f, rows[s] # <<>>
  PROVE  Follows(rows, f, MovedByInsert(f, s, P),
                 SectionMap(s, [i \in Places |-> PlaceWithout(P, i)]), {s} \X P)
<1> DEFINE F == SectionMap(s, [i \in Places |-> PlaceWithout(P, i)])
           g == MovedByInsert(f, s, P)
           E(k) == IF k[1] = s THEN <<s, PlaceWithout(P, k[2])>> ELSE k
           K == {s} \X P
<1>1. ASSUME NEW k \in IndexPath
      PROVE  F[k] = E(k)
  <2>1. k[2] \in Places
    BY PathParts
  <2>2. F[k] = IF k[1] = s THEN <<s, [i \in Places |-> PlaceWithout(P, i)][k[2]]>>
               ELSE k
    BY SectionMapValue
  <2> QED BY <2>1, <2>2
<1>2. g = [k \in {j \in IndexPath : E(j) \in DOMAIN f} \ K |-> f[E(k)]]
  BY DEF MovedByInsert, Rekeyed, Without
<1> HIDE DEF F, g, E, K
<1> QED BY <1>1, <1>2 DEF Follows, F, g, K

(* Every entry was there before, under some path.                           *)
FromBefore(f, g) ==
  \A k \in DOMAIN g : k \in IndexPath /\ \E j \in DOMAIN f : g[k] = f[j]

LEMMA FollowsFromBefore ==
  ASSUME NEW r, NEW f, NEW g, NEW F, NEW K, Follows(r, f, g, F, K)
  PROVE  FromBefore(f, g)
<1> SUFFICES ASSUME NEW k \in DOMAIN g
             PROVE  k \in IndexPath /\ \E j \in DOMAIN f : g[k] = f[j]
  BY DEF FromBefore
<1>1. F[k] \in DOMAIN f /\ g[k] = f[F[k]] /\ k \in IndexPath
  BY DEF Follows
<1> QED BY <1>1

LEMMA ResetFromBefore ==
  ASSUME NEW f, NEW g, FromBefore(f, g), NEW d
  PROVE  FromBefore(f, ResetAfterDelete(g, d))
<1> DEFINE R(k) == IF k[1] = d[1] /\ k[2] >= d[2] THEN <<k[1], k[2] + 1>> ELSE k
           h == [k \in {j \in IndexPath : R(j) \in DOMAIN g} |-> g[R(k)]]
<1>1. ResetAfterDelete(g, d) = h
  BY DEF ResetAfterDelete, Rekeyed
<1> HIDE DEF R
<1>2. FromBefore(f, h)
  BY DEF FromBefore
<1> QED BY <1>1, <1>2

LEMMA ResetsFromBefore ==
  ASSUME NEW s, NEW ds, Len(ds) \in Nat, NEW f, DOMAIN f \subseteq IndexPath
  PROVE  FromBefore(f, ResetAfterDeletes(f, s, ds))
<1>1. PICK g : Resets(g, f, s, ds)
  BY ResetsUnfold
<1> DEFINE W == {i \in Nat : i <= Len(ds) => FromBefore(f, g[i])}
<1>2. 0 \in W
  <2>1. g[0] = f
    BY <1>1 DEF Resets
  <2> QED BY <2>1 DEF FromBefore
<1>3. ASSUME NEW i \in W
      PROVE  i + 1 \in W
  <2> SUFFICES ASSUME i + 1 <= Len(ds)
               PROVE  FromBefore(f, g[i + 1])
    OBVIOUS
  <2>1. i + 1 \in 1..Len(ds) /\ i <= Len(ds) /\ i \in Nat /\ (i + 1) - 1 = i
    OBVIOUS
  <2>2. g[i + 1] = ResetAfterDelete(g[i], <<s, ds[i + 1]>>)
    BY <1>1, <2>1 DEF Resets
  <2>3. FromBefore(f, g[i])
    BY <2>1
  <2> QED BY <2>2, <2>3, ResetFromBefore
<1>4. W = Nat
  <2> HIDE DEF W
  <2>1. W \in SUBSET Nat
    BY DEF W
  <2> QED BY <1>2, <1>3, <2>1, Induction
<1>5. FromBefore(f, g[Len(ds)])
  <2>1. Len(ds) \in W
    BY <1>4
  <2> QED BY <2>1
<1> QED BY <1>1, <1>5 DEF Resets

(* What is cached for a path depends on the paths in the cache alone.       *)
LEMMA MovesKeepKeys ==
  ASSUME NEW f, NEW h, DOMAIN f \subseteq DOMAIN h
  PROVE  /\ \A s, n : DOMAIN MovedByCount(f, s, n) \subseteq DOMAIN MovedByCount(h, s, n)
         /\ \A K : DOMAIN Without(f, K) \subseteq DOMAIN Without(h, K)
         /\ \A s, P : DOMAIN MovedByInsert(f, s, P)
                     \subseteq DOMAIN MovedByInsert(h, s, P)
         /\ \A d : DOMAIN ResetAfterDelete(f, d) \subseteq DOMAIN ResetAfterDelete(h, d)
<1>1. \A s, n : DOMAIN MovedByCount(f, s, n) \subseteq DOMAIN MovedByCount(h, s, n)
  BY DEF MovedByCount, Rekeyed
<1>2. \A K : DOMAIN Without(f, K) \subseteq DOMAIN Without(h, K)
  BY DEF Without
<1>3. \A s, P : DOMAIN MovedByInsert(f, s, P) \subseteq DOMAIN MovedByInsert(h, s, P)
  BY DEF MovedByInsert, Rekeyed, Without
<1>4. \A d : DOMAIN ResetAfterDelete(f, d) \subseteq DOMAIN ResetAfterDelete(h, d)
  BY DEF ResetAfterDelete, Rekeyed
<1> QED BY <1>1, <1>2, <1>3, <1>4

LEMMA ResetsKeepKeys ==
  ASSUME NEW s, NEW ds, Len(ds) \in Nat,
         NEW f, NEW h, DOMAIN f \subseteq DOMAIN h
  PROVE  DOMAIN ResetAfterDeletes(f, s, ds) \subseteq DOMAIN ResetAfterDeletes(h, s, ds)
<1>1. PICK g : Resets(g, f, s, ds)
  BY ResetsUnfold
<1>2. PICK e : Resets(e, h, s, ds)
  BY ResetsUnfold
<1> DEFINE W == {i \in Nat : i <= Len(ds) => DOMAIN g[i] \subseteq DOMAIN e[i]}
<1>3. 0 \in W
  <2>1. g[0] = f /\ e[0] = h
    BY <1>1, <1>2 DEF Resets
  <2> QED BY <2>1
<1>4. ASSUME NEW i \in W
      PROVE  i + 1 \in W
  <2> SUFFICES ASSUME i + 1 <= Len(ds)
               PROVE  DOMAIN g[i + 1] \subseteq DOMAIN e[i + 1]
    OBVIOUS
  <2>1. i + 1 \in 1..Len(ds) /\ i <= Len(ds) /\ i \in Nat /\ (i + 1) - 1 = i
    OBVIOUS
  <2>2. /\ g[i + 1] = ResetAfterDelete(g[i], <<s, ds[i + 1]>>)
        /\ e[i + 1] = ResetAfterDelete(e[i], <<s, ds[i + 1]>>)
    BY <1>1, <1>2, <2>1 DEF Resets
  <2>3. DOMAIN g[i] \subseteq DOMAIN e[i]
    BY <2>1
  <2> QED BY <2>2, <2>3, MovesKeepKeys
<1>5. W = Nat
  <2> HIDE DEF W
  <2>1. W \in SUBSET Nat
    BY DEF W
  <2> QED BY <1>3, <1>4, <2>1, Induction
<1>6. DOMAIN g[Len(ds)] \subseteq DOMAIN e[Len(ds)]
  <2>1. Len(ds) \in W
    BY <1>5
  <2> QED BY <2>1
<1> QED BY <1>1, <1>2, <1>6 DEF Resets

----------------------------------------------------------------------------
(* The changes of the rows with the calls that announce them.               *)

Tabled(f) == f = [k \in DOMAIN f |-> f[k]]

LEMMA ResetTabled ==
  ASSUME NEW f, NEW d
  PROVE  Tabled(ResetAfterDelete(f, d))
BY DEF Tabled, ResetAfterDelete, Rekeyed

LEMMA StaysTabled ==
  ASSUME NEW f, Tabled(f)
  PROVE  /\ \A s, n : Tabled(MovedByCount(f, s, n))
         /\ \A K : Tabled(Without(f, K))
         /\ \A s, P : Tabled(MovedByInsert(f, s, P))
         /\ \A s, ds : Len(ds) \in Nat => Tabled(ResetAfterDeletes(f, s, ds))
<1>1. \A s, n : Tabled(MovedByCount(f, s, n))
  BY DEF Tabled, MovedByCount, Rekeyed
<1>2. \A h, K : Tabled(Without(h, K))
  BY DEF Tabled, Without
<1>3. \A s, P : Tabled(MovedByInsert(f, s, P))
  BY <1>2 DEF MovedByInsert
<1>4. ASSUME NEW s, NEW ds, Len(ds) \in Nat
      PROVE  Tabled(ResetAfterDeletes(f, s, ds))
  <2>1. PICK g : Resets(g, f, s, ds)
    BY <1>4, ResetsUnfold
  <2>2. CASE Len(ds) = 0
    BY <2>1, <2>2 DEF Resets
  <2>3. CASE Len(ds) # 0
    <3>1. Len(ds) \in 1..Len(ds)
      BY <1>4, <2>3
    <3>2. g[Len(ds)] = ResetAfterDelete(g[Len(ds) - 1], <<s, ds[Len(ds)]>>)
      BY <2>1, <3>1 DEF Resets
    <3> QED BY <2>1, <3>2, ResetTabled DEF Resets
  <2> QED BY <2>2, <2>3
<1> QED BY <1>1, <1>2, <1>3, <1>4

Carried ==
  \E F, K :
    /\ Moves(rows, rows', F, K)
    /\ misled' \/ /\ Follows(rows, heights, heights', F, K)
                  /\ Follows(rows, frames, frames', F, K)

RowsStep ==
  /\ Sectioned(rows') /\ Carried
  /\ UNCHANGED <<tableWidth, contentViewWidth, pending>>
  /\ misled => misled'
  /\ misled' => misled \/ InRows(rows') \subseteq InRows(rows)
  /\ FromBefore(heights, heights') /\ FromBefore(frames, frames')
  /\ Tabled(heights') /\ Tabled(frames')
  /\ DOMAIN frames \subseteq DOMAIN heights
     => DOMAIN frames' \subseteq DOMAIN heights'
  /\ DOMAIN heights \subseteq DOMAIN frames
     => DOMAIN heights' \subseteq DOMAIN frames'

LEMMA TypeFacts ==
  ASSUME TypeOK
  PROVE  /\ Sectioned(rows) /\ Shown = ShownIn(rows) /\ InTable = InRows(rows)
         /\ \A k : RowAt(k) = At(rows, k)
         /\ DOMAIN heights \subseteq IndexPath /\ DOMAIN frames \subseteq IndexPath
         /\ Tabled(heights) /\ Tabled(frames)
<1>1. Sectioned(rows)
  BY DEF TypeOK, Sectioned
<1>2. Shown = ShownIn(rows) /\ \A k : RowAt(k) = At(rows, k)
  BY DEF Shown, ShownIn, RowAt, At
<1>3. InTable = InRows(rows)
  BY <1>2 DEF InTable, InRows
<1>4. /\ DOMAIN heights \subseteq IndexPath /\ DOMAIN frames \subseteq IndexPath
      /\ Tabled(heights) /\ Tabled(frames)
  BY DEF TypeOK, IsCache, Tabled
<1> QED BY <1>1, <1>2, <1>3, <1>4

LEMMA ChangedSection ==
  ASSUME TypeOK, NEW s \in Sections, NEW q \in Seq(Rows), RowsChange(s, q)
  PROVE  /\ Sectioned(rows') /\ rows' = [rows EXCEPT ![s] = q]
         /\ ~crashed /\ Len(q) <= MaxLength
         /\ UNCHANGED <<tableWidth, contentViewWidth, pending>>
BY DEF TypeOK, RowsChange, Sectioned

LEMMA FreshRows ==
  ASSUME TypeOK, NEW P, NEW q \in NewRows(P)
  PROVE  q \in [P -> Rows \ InRows(rows)] /\ IsInjective(q)
<1>1. InRows(rows) \subseteq Used
  BY TypeFacts DEF Used
<1> QED BY <1>1 DEF NewRows

LEMMA AppendStep ==
  ASSUME TypeOK, NEW s \in Sections, NEW n \in Nat,
         reloadDataWithExistedHeightCache(s, n)
  PROVE  RowsStep
<1>1. PICK q \in NewRows(1..n) : RowsChange(s, rows[s] \o q)
  BY DEF reloadDataWithExistedHeightCache
<1>2. UNCHANGED <<heights, frames, misled, crashed>>
  BY DEF reloadDataWithExistedHeightCache
<1> DEFINE P == Len(rows[s])..(Len(rows[s]) + n - 1)
           F == SectionMap(s, [i \in Places |-> i])
<1>3. q \in [1..n -> Rows \ InRows(rows)] /\ IsInjective(q)
  BY FreshRows
<1>4. Sectioned(rows) /\ Len(rows[s] \o q) <= MaxLength
  BY <1>1, TypeFacts DEF RowsChange
<1>5. /\ rows[s] \o q \in Seq(Rows)
      /\ Moves(rows, [rows EXCEPT ![s] = rows[s] \o q], F, {s} \X P)
  BY <1>3, <1>4, AppendMoves
<1>6. /\ Sectioned(rows') /\ rows' = [rows EXCEPT ![s] = rows[s] \o q]
      /\ UNCHANGED <<tableWidth, contentViewWidth, pending>>
  BY <1>1, <1>5, ChangedSection
<1>7. Len(rows[s]) \in Nat
  BY <1>4 DEF Sectioned
<1>8. (\A i \in P : i \in Nat) /\ (\A i \in P : i >= Len(rows[s]))
  BY <1>7
<1> HIDE DEF P
<1>9. /\ Follows(rows, heights, heights, F, {s} \X P)
      /\ Follows(rows, frames, frames, F, {s} \X P)
  BY <1>8, TypeFacts, StayFollows
<1>10. FromBefore(heights, heights) /\ FromBefore(frames, frames)
  BY TypeFacts DEF FromBefore
<1> HIDE DEF F
<1>11. Carried
  BY <1>2, <1>5, <1>6, <1>9 DEF Carried
<1>12. Tabled(heights') /\ Tabled(frames')
  BY <1>2, TypeFacts
<1> QED BY <1>2, <1>6, <1>10, <1>11, <1>12 DEF RowsStep

LEMMA PrependStep ==
  ASSUME TypeOK, NEW s \in Sections, NEW n \in Nat,
         reloadDataWithInsertingData(s, n)
  PROVE  RowsStep
<1>1. PICK q \in NewRows(1..n) : RowsChange(s, q \o rows[s])
  BY DEF reloadDataWithInsertingData
<1>2. /\ heights' = MovedByCount(heights, s, n)
      /\ frames' = MovedByCount(frames, s, n)
      /\ UNCHANGED <<misled, crashed>>
  BY DEF reloadDataWithInsertingData
<1> DEFINE P == 0..(n - 1)
           F == SectionMap(s, [i \in Places |-> i - n])
<1>3. q \in [1..n -> Rows \ InRows(rows)] /\ IsInjective(q)
  BY FreshRows
<1>4. Sectioned(rows) /\ Len(q \o rows[s]) <= MaxLength
  BY <1>1, TypeFacts DEF RowsChange
<1>5. /\ q \o rows[s] \in Seq(Rows)
      /\ Moves(rows, [rows EXCEPT ![s] = q \o rows[s]], F, {s} \X P)
  BY <1>3, <1>4, PrependMoves
<1>6. /\ Sectioned(rows') /\ rows' = [rows EXCEPT ![s] = q \o rows[s]]
      /\ UNCHANGED <<tableWidth, contentViewWidth, pending>>
  BY <1>1, <1>5, ChangedSection
<1>7. /\ Follows(rows, heights, heights', F, {s} \X P)
      /\ Follows(rows, frames, frames', F, {s} \X P)
  BY <1>2, TypeFacts, CountFollows
<1> HIDE DEF F, P
<1>8. FromBefore(heights, heights') /\ FromBefore(frames, frames')
  BY <1>7, FollowsFromBefore
<1>9. Carried
  BY <1>5, <1>6, <1>7 DEF Carried
<1>10. /\ DOMAIN frames \subseteq DOMAIN heights
          => DOMAIN frames' \subseteq DOMAIN heights'
       /\ DOMAIN heights \subseteq DOMAIN frames
          => DOMAIN heights' \subseteq DOMAIN frames'
  BY <1>2, MovesKeepKeys
<1>11. Tabled(heights') /\ Tabled(frames')
  BY <1>2, TypeFacts, StaysTabled
<1> QED BY <1>2, <1>6, <1>8, <1>9, <1>10, <1>11 DEF RowsStep

LEMMA ReplaceStep ==
  ASSUME TypeOK, NEW s \in Sections, NEW P, reloadRows(s, P)
  PROVE  RowsStep
<1>1. PICK q \in NewRows(P) : RowsChange(s, Replaced(rows[s], P, q))
  BY DEF reloadRows
<1>2. /\ heights' = Without(heights, {s} \X P)
      /\ frames' = Without(frames, {s} \X P)
      /\ UNCHANGED <<misled, crashed>> /\ {s} \X P \subseteq Shown
  BY DEF reloadRows
<1> DEFINE F == SectionMap(s, [i \in Places |-> i])
           b == Replaced(rows[s], P, q)
<1>3. q \in [P -> Rows \ InRows(rows)] /\ IsInjective(q)
  BY FreshRows
<1>4. Sectioned(rows) /\ {s} \X P \subseteq ShownIn(rows)
  BY <1>2, TypeFacts
<1>5. /\ b \in Seq(Rows)
      /\ Moves(rows, [rows EXCEPT ![s] = b], F, {s} \X P)
  BY <1>3, <1>4, ReplaceMoves
<1> HIDE DEF b
<1>6. /\ Sectioned(rows') /\ rows' = [rows EXCEPT ![s] = b]
      /\ UNCHANGED <<tableWidth, contentViewWidth, pending>>
  BY <1>1, <1>5, ChangedSection DEF b
<1>7. /\ Follows(rows, heights, heights', F, {s} \X P)
      /\ Follows(rows, frames, frames', F, {s} \X P)
  BY <1>2, TypeFacts, WithoutFollows
<1> HIDE DEF F
<1>8. FromBefore(heights, heights') /\ FromBefore(frames, frames')
  BY <1>7, FollowsFromBefore
<1>9. Carried
  BY <1>5, <1>6, <1>7 DEF Carried
<1>10. /\ DOMAIN frames \subseteq DOMAIN heights
          => DOMAIN frames' \subseteq DOMAIN heights'
       /\ DOMAIN heights \subseteq DOMAIN frames
          => DOMAIN heights' \subseteq DOMAIN frames'
  BY <1>2, MovesKeepKeys
<1>11. Tabled(heights') /\ Tabled(frames')
  BY <1>2, TypeFacts, StaysTabled
<1> QED BY <1>2, <1>6, <1>8, <1>9, <1>10, <1>11 DEF RowsStep

LEMMA RemovedRows ==
  ASSUME NEW r, NEW r2, NEW F, NEW s, Moves(r, r2, F, {s} \X {})
  PROVE  InRows(r2) \subseteq InRows(r)
<1> SUFFICES ASSUME NEW k \in ShownIn(r2)
             PROVE  At(r2, k) \in InRows(r)
  BY DEF InRows
<1>1. k \notin {s} \X {} /\ k \in IndexPath
  BY DEF ShownIn
<1>2. F[k] \in ShownIn(r)
  BY <1>1 DEF Moves
<1>3. At(r2, k) = At(r, F[k])
  BY <1>1, <1>2 DEF Moves
<1> QED BY <1>2, <1>3 DEF InRows

LEMMA DeleteStep ==
  ASSUME TypeOK, NEW s \in Sections, NEW n \in Nat, NEW ds \in [1..n -> Places],
         deleteRows(s, ds)
  PROVE  RowsStep
<1> DEFINE D == ToSet(ds)
           F == SectionMap(s, [i \in Places |-> AtPlace(D, i)])
           q == Remaining(rows[s], D)
<1>1. /\ {s} \X D \subseteq Shown /\ RowsChange(s, q)
      /\ heights' = ResetAfterDeletes(heights, s, ds)
      /\ frames' = ResetAfterDeletes(frames, s, ds)
      /\ misled' = (misled \/ ~LastFirst(ds))
  BY DEF deleteRows
<1>2. Len(ds) = n
  OBVIOUS
<1>3. Sectioned(rows) /\ {s} \X D \subseteq ShownIn(rows)
  BY <1>1, TypeFacts
<1>4. \A d \in D : d \in 0..(Len(rows[s]) - 1)
  <2> SUFFICES ASSUME NEW d \in D
               PROVE  d \in 0..(Len(rows[s]) - 1)
    OBVIOUS
  <2>1. d \in Nat
    BY HeightAssumption DEF ToSet, Places
  <2>2. <<s, d>> \in ShownIn(rows)
    BY <1>3
  <2>3. d < Len(rows[s])
    BY <2>2 DEF ShownIn
  <2>4. Len(rows[s]) \in Nat
    BY <1>3 DEF Sectioned
  <2> QED BY <2>1, <2>3, <2>4
<1> HIDE DEF D
<1>5. /\ q \in Seq(Rows)
      /\ Moves(rows, [rows EXCEPT ![s] = q], F, {s} \X {})
  BY <1>3, <1>4, RemoveMoves
<1> HIDE DEF q
<1>6. /\ Sectioned(rows') /\ rows' = [rows EXCEPT ![s] = q]
      /\ UNCHANGED <<tableWidth, contentViewWidth, pending>>
  BY <1>1, <1>5, ChangedSection
<1>7. Moves(rows, rows', F, {s} \X {})
  BY <1>5, <1>6
<1>8. misled' \/ /\ Follows(rows, heights, heights', F, {s} \X {})
                 /\ Follows(rows, frames, frames', F, {s} \X {})
  <2> SUFFICES ASSUME LastFirst(ds)
               PROVE  /\ Follows(rows, heights, heights', F, {s} \X {})
                      /\ Follows(rows, frames, frames', F, {s} \X {})
    BY <1>1
  <2>1. /\ heights' = MovedByDelete(heights, s, D)
        /\ frames' = MovedByDelete(frames, s, D)
    BY <1>1, TypeFacts, DeletionsTogether DEF Tabled, D
  <2> QED BY <2>1, DeleteFollows
<1> HIDE DEF F
<1>9. Carried
  BY <1>7, <1>8 DEF Carried
<1>10. FromBefore(heights, heights') /\ FromBefore(frames, frames')
  BY <1>1, <1>2, TypeFacts, ResetsFromBefore
<1>11. InRows(rows') \subseteq InRows(rows)
  BY <1>7, RemovedRows
<1>12. /\ DOMAIN frames \subseteq DOMAIN heights
          => DOMAIN frames' \subseteq DOMAIN heights'
       /\ DOMAIN heights \subseteq DOMAIN frames
          => DOMAIN heights' \subseteq DOMAIN frames'
  BY <1>1, <1>2, ResetsKeepKeys
<1>13. Tabled(heights') /\ Tabled(frames')
  BY <1>1, <1>2, TypeFacts, StaysTabled
<1> QED BY <1>1, <1>6, <1>9, <1>10, <1>11, <1>12, <1>13 DEF RowsStep

LEMMA InsertStep ==
  ASSUME TypeOK, NEW s \in Sections, NEW P, \A i \in P : i \in Places,
         insertRows(s, P)
  PROVE  RowsStep
<1>1. PICK q \in NewRows(P) : RowsChange(s, Inserted(rows[s], P, q))
  BY DEF insertRows
<1>2. /\ heights' = MovedByInsert(heights, s, P)
      /\ frames' = MovedByInsert(frames, s, P)
      /\ UNCHANGED misled
      /\ \A i \in P : i < Len(rows[s]) + Cardinality(P)
  BY DEF insertRows
<1> DEFINE F == IF rows[s] = <<>> THEN SectionMap(s, [i \in Places |-> i])
                ELSE SectionMap(s, [i \in Places |-> PlaceWithout(P, i)])
           b == Inserted(rows[s], P, q)
<1>3. q \in [P -> Rows \ InRows(rows)] /\ IsInjective(q)
  BY FreshRows
<1>4. Sectioned(rows) /\ Len(b) <= MaxLength
  BY <1>1, TypeFacts DEF RowsChange
<1>5. /\ b \in Seq(Rows)
      /\ Moves(rows, [rows EXCEPT ![s] = b],
               SectionMap(s, [i \in Places |-> PlaceWithout(P, i)]), {s} \X P)
      /\ rows[s] = <<>> =>
           Moves(rows, [rows EXCEPT ![s] = b],
                 SectionMap(s, [i \in Places |-> i]), {s} \X P)
  BY <1>2, <1>3, <1>4, InsertMoves
<1> HIDE DEF b
<1>6. /\ Sectioned(rows') /\ rows' = [rows EXCEPT ![s] = b]
      /\ UNCHANGED <<tableWidth, contentViewWidth, pending>>
  BY <1>1, <1>5, ChangedSection DEF b
<1>7. Moves(rows, rows', F, {s} \X P)
  BY <1>5, <1>6
<1>8. ASSUME NEW f, DOMAIN f \subseteq IndexPath
      PROVE  Follows(rows, f, MovedByInsert(f, s, P), F, {s} \X P)
  <2>1. CASE rows[s] = <<>>
    <3>1. \A i \in P : i \in Nat
      BY HeightAssumption DEF Places
    <3>2. MovedByInsert(f, s, P) = f
      BY <2>1 DEF MovedByInsert
    <3> QED BY <1>8, <2>1, <3>1, <3>2, StayFollows
  <2>2. CASE rows[s] # <<>>
    BY <1>8, <2>2, InsertFollows
  <2> QED BY <2>1, <2>2
<1>9. /\ Follows(rows, heights, heights', F, {s} \X P)
      /\ Follows(rows, frames, frames', F, {s} \X P)
  BY <1>2, <1>8, TypeFacts
<1> HIDE DEF F
<1>10. FromBefore(heights, heights') /\ FromBefore(frames, frames')
  BY <1>9, FollowsFromBefore
<1>11. Carried
  BY <1>7, <1>9 DEF Carried
<1>12. /\ DOMAIN frames \subseteq DOMAIN heights
          => DOMAIN frames' \subseteq DOMAIN heights'
       /\ DOMAIN heights \subseteq DOMAIN frames
          => DOMAIN heights' \subseteq DOMAIN frames'
  BY <1>2, MovesKeepKeys
<1>13. Tabled(heights') /\ Tabled(frames')
  BY <1>2, TypeFacts, StaysTabled
<1> QED BY <1>2, <1>6, <1>10, <1>11, <1>12, <1>13 DEF RowsStep

LEMMA MoveStep ==
  ASSUME TypeOK, NEW s \in Sections, moveRow(s)
  PROVE  RowsStep
<1> DEFINE b == Tail(rows[s]) \o <<Head(rows[s])>>
<1>1. /\ RowsChange(s, b) /\ misled' /\ Len(rows[s]) > 1
      /\ UNCHANGED <<heights, frames>>
  BY DEF moveRow
<1>2. Sectioned(rows) /\ rows[s] # <<>>
  BY <1>1, TypeFacts
<1>3. b \in Seq(Rows) /\ \E F : Moves(rows, [rows EXCEPT ![s] = b], F, {s} \X {})
  BY <1>2, ReorderMoves
<1> HIDE DEF b
<1>4. /\ Sectioned(rows') /\ rows' = [rows EXCEPT ![s] = b]
      /\ UNCHANGED <<tableWidth, contentViewWidth, pending>>
  BY <1>1, <1>3, ChangedSection
<1>5. PICK F : Moves(rows, rows', F, {s} \X {})
  BY <1>3, <1>4
<1>6. Carried
  BY <1>1, <1>5 DEF Carried
<1>7. InRows(rows') \subseteq InRows(rows)
  BY <1>5, RemovedRows
<1>8. FromBefore(heights, heights') /\ FromBefore(frames, frames')
  BY <1>1, TypeFacts DEF FromBefore
<1>9. Tabled(heights') /\ Tabled(frames')
  BY <1>1, TypeFacts
<1> QED BY <1>1, <1>4, <1>6, <1>7, <1>8, <1>9 DEF RowsStep

(* Each change of the rows of a section is a reload or a RowsStep; an       *)
(* exception is raised only before a reload for a new width, or after a     *)
(* change the cache does not support.                                       *)
LEMMA NothingIncomplete ==
  ASSUME HeightInv, NEW s, Incomplete(s)
  PROVE  pending > 0 \/ misled
<1> SUFFICES ASSUME ~misled, pending = 0
             PROVE  FALSE
  BY DEF HeightInv, TypeOK
<1>1. PICK k \in DOMAIN heights : k \notin Shown \cap DOMAIN frames
  BY DEF Incomplete
<1>2. k \in DOMAIN frames
  BY DEF HeightInv, FramesHaveHeights
<1>3. k \in Shown
  BY DEF HeightInv, CachesFit, Fits
<1> QED BY <1>1, <1>2, <1>3

LEMMA RowsChangedStep ==
  ASSUME HeightInv, NEW s \in Sections, RowsChanged(s), ~reloadData(s)
  PROVE  /\ RowsStep /\ misled' \in BOOLEAN /\ crashed' \in BOOLEAN
         /\ crashed' => pending > 0 \/ misled
<1>1. /\ TypeOK /\ crashed \in BOOLEAN /\ misled \in BOOLEAN
      /\ crashed => pending > 0 \/ misled
  BY DEF HeightInv, TypeOK, CrashesOnlyWhenTurning
<1>2. 1..MaxAtOnce \subseteq Nat
  BY HeightAssumption
<1>3. CASE moveRow(s)
  BY <1>1, <1>3, MoveStep DEF moveRow
<1>4. CASE \E n \in 1..MaxAtOnce : reloadDataWithExistedHeightCache(s, n)
  BY <1>1, <1>2, <1>4, AppendStep DEF reloadDataWithExistedHeightCache
<1>5. CASE \E n \in 1..MaxAtOnce : reloadDataWithInsertingData(s, n)
  BY <1>1, <1>2, <1>5, PrependStep DEF reloadDataWithInsertingData
<1>6. CASE \E P \in PlaceSets : insertRows(s, P)
  <2>1. PICK P \in PlaceSets : insertRows(s, P)
    BY <1>6
  <2>2. \A i \in P : i \in Places
    BY DEF PlaceSets
  <2>3. RowsStep
    BY <1>1, <2>1, <2>2, InsertStep
  <2>4. misled' = misled
    BY <2>1 DEF insertRows
  <2>5. crashed' = crashed \/ (Incomplete(s) /\ crashed' = TRUE)
    BY <2>1 DEF insertRows
  <2>6. CASE crashed' = crashed
    BY <1>1, <2>3, <2>4, <2>6
  <2>7. CASE Incomplete(s) /\ crashed' = TRUE
    BY <1>1, <2>3, <2>4, <2>7, NothingIncomplete
  <2> QED BY <2>5, <2>6, <2>7
<1>7. CASE \E P \in PlaceSets : reloadRows(s, P)
  BY <1>1, <1>7, ReplaceStep DEF reloadRows
<1>8. CASE \E ds \in PlaceLists : deleteRows(s, ds)
  <2>1. PICK ds \in PlaceLists : deleteRows(s, ds)
    BY <1>8
  <2>2. PICK n \in 1..MaxAtOnce : ds \in [1..n -> Places]
    BY DEF PlaceLists
  <2>3. RowsStep
    BY <1>1, <1>2, <2>1, <2>2, DeleteStep
  <2>4. misled' = (misled \/ ~LastFirst(ds)) /\ crashed' = crashed
    BY <2>1 DEF deleteRows
  <2> QED BY <1>1, <2>3, <2>4 DEF LastFirst
<1> QED BY <1>3, <1>4, <1>5, <1>6, <1>7, <1>8 DEF RowsChanged

(* The rows of the next state, in the terms of the model.                   *)
LEMMA NextRows ==
  ASSUME Sectioned(rows')
  PROVE  /\ Shown' = ShownIn(rows') /\ InTable' = InRows(rows')
         /\ \A k : RowAt(k)' = At(rows', k)
<1>1. Shown' = ShownIn(rows') /\ \A k : RowAt(k)' = At(rows', k)
  BY DEF Shown, ShownIn, RowAt, At
<1> QED BY <1>1 DEF InTable, InRows

LEMMA CacheFromBefore ==
  ASSUME NEW f, NEW g, IsCache(f), FromBefore(f, g), Tabled(g)
  PROVE  IsCache(g)
<1>1. \A k \in DOMAIN g : g[k] \in Value
  BY DEF IsCache, FromBefore
<1> QED BY <1>1 DEF IsCache, FromBefore, Tabled

FitsNext(g) ==
  \A k \in DOMAIN g :
    k \in Shown' /\ g[k].row = RowAt(k)'
    /\ (pending' = 0 => g[k].width = contentViewWidth')

LEMMA FitsKept ==
  ASSUME Sectioned(rows), Sectioned(rows'),
         UNCHANGED <<pending, contentViewWidth>>,
         NEW F, NEW K, Moves(rows, rows', F, K),
         NEW f, NEW g, Follows(rows, f, g, F, K), FromBefore(f, g), Fits(f)
  PROVE  FitsNext(g)
<1>1. /\ Shown = ShownIn(rows) /\ \A k : RowAt(k) = At(rows, k)
      /\ Shown' = ShownIn(rows') /\ \A k : RowAt(k)' = At(rows', k)
  BY NextRows DEF Shown, ShownIn, RowAt, At
<1>2. \A j \in DOMAIN f : j \in ShownIn(rows) /\ f[j].row = At(rows, j)
  BY <1>1 DEF Fits
<1>3. \A k \in DOMAIN g : k \in ShownIn(rows') /\ g[k].row = At(rows', k)
  BY <1>2, EntriesStayFit
<1>4. \A k \in DOMAIN g : pending' = 0 => g[k].width = contentViewWidth'
  BY DEF Fits, FromBefore
<1> QED BY <1>1, <1>3, <1>4 DEF FitsNext

LEMMA RowsStepKeeps ==
  ASSUME HeightInv, RowsStep, misled' \in BOOLEAN, crashed' \in BOOLEAN,
         crashed' => pending > 0 \/ misled
  PROVE  HeightInv'
<1>1. TypeOK /\ Sectioned(rows) /\ Sectioned(rows')
  BY TypeFacts DEF HeightInv, RowsStep
<1>2. TypeOK'
  <2>1. IsCache(heights') /\ IsCache(frames')
    BY <1>1, CacheFromBefore DEF TypeOK, RowsStep
  <2> QED BY <1>1, <2>1 DEF TypeOK, RowsStep, Sectioned, IsCache, Value
<1>3. PICK F, K :
        /\ Moves(rows, rows', F, K)
        /\ misled' \/ /\ Follows(rows, heights, heights', F, K)
                      /\ Follows(rows, frames, frames', F, K)
  BY DEF RowsStep, Carried
<1>4. CachesFit'
  <2> SUFFICES ASSUME ~misled'
               PROVE  Fits(heights)' /\ Fits(frames)'
    BY DEF CachesFit
  <2>1. Fits(heights) /\ Fits(frames)
    BY DEF HeightInv, CachesFit, RowsStep
  <2>2. /\ UNCHANGED <<pending, contentViewWidth>>
        /\ FromBefore(heights, heights') /\ FromBefore(frames, frames')
    BY DEF RowsStep
  <2>3. FitsNext(heights') /\ FitsNext(frames')
    BY <1>1, <1>3, <2>1, <2>2, FitsKept
  <2> QED BY <2>3 DEF Fits, FitsNext
<1>5. CrashesOnlyWhenTurning'
  BY DEF CrashesOnlyWhenTurning, RowsStep
<1>6. NothingMeasured'
  BY DEF HeightInv, NothingMeasured, RowsStep, FromBefore
<1>7. FramesHaveHeights'
  BY DEF HeightInv, FramesHaveHeights, RowsStep
<1>8. RowsDiffer'
  <2>1. Differ(rows)
    BY <1>1, TypeFacts DEF HeightInv, RowsDiffer, Differ
  <2>2. Differ(rows')
    BY <1>3, <2>1, RowsStayDifferent
  <2> QED BY <1>1, <2>2, NextRows DEF RowsDiffer, Differ
<1> QED BY <1>2, <1>4, <1>5, <1>6, <1>7, <1>8 DEF HeightInv

LEMMA InitHeights ==
  ASSUME Init
  PROVE  HeightInv
<1>1. IsCache(heights) /\ IsCache(frames) /\ DOMAIN heights = {} /\ DOMAIN frames = {}
  BY DEF Init, IsCache, Empty
<1>2. Shown = {}
  BY HeightAssumption DEF Init, Shown, IndexPath, Places
<1>3. TypeOK
  <2>1. \A s \in Sections : rows[s] \in Seq(Rows) /\ Len(rows[s]) <= MaxLength
    BY HeightAssumption DEF Init
  <2>2. 0 \in 0..MaxPending
    BY HeightAssumption
  <2> QED BY <1>1, <2>1, <2>2 DEF Init, TypeOK
<1> QED BY <1>1, <1>2, <1>3
        DEF Init, HeightInv, CachesFit, Fits, CrashesOnlyWhenTurning,
            NothingMeasured, FramesHaveHeights, RowsDiffer

(* A step that clears the caches.                                           *)
LEMMA ClearedKeeps ==
  ASSUME clearHeightCache, UNCHANGED crashed, ~crashed, HeightInv,
         Sectioned(rows'), RowsDiffer', UNCHANGED tableWidth,
         UNCHANGED contentViewWidth, pending' \in 0..MaxPending
  PROVE  HeightInv'
<1>1. /\ heights' = Empty /\ frames' = Empty /\ misled' = FALSE
      /\ DOMAIN heights' = {} /\ DOMAIN frames' = {}
  BY DEF clearHeightCache, Empty
<1>2. IsCache(heights') /\ IsCache(frames')
  BY <1>1 DEF IsCache, Empty
<1>3. TypeOK'
  BY <1>1, <1>2 DEF HeightInv, TypeOK, Sectioned, IsCache, Value
<1> QED BY <1>1, <1>3
        DEF HeightInv, CachesFit, Fits, CrashesOnlyWhenTurning,
            NothingMeasured, FramesHaveHeights

LEMMA ReloadMoves ==
  ASSUME HeightInv, NEW s \in Sections, reloadData(s)
  PROVE  /\ Sectioned(rows') /\ RowsDiffer'
         /\ InRows(rows') \subseteq InRows(rows)
<1>1. TypeOK /\ Sectioned(rows)
  BY TypeFacts DEF HeightInv
<1>2. PICK b \in {<<>>, Reverse(rows[s])} : RowsChange(s, b)
  BY DEF reloadData
<1>3. /\ b \in Seq(Rows)
      /\ \E F : Moves(rows, [rows EXCEPT ![s] = b], F, {s} \X {})
  BY <1>1, <1>2, ReorderMoves
<1>4. Sectioned(rows') /\ rows' = [rows EXCEPT ![s] = b]
  BY <1>1, <1>2, <1>3, ChangedSection
<1>5. PICK F : Moves(rows, rows', F, {s} \X {})
  BY <1>3, <1>4
<1>6. Differ(rows)
  BY <1>1, TypeFacts DEF HeightInv, RowsDiffer, Differ
<1>7. Differ(rows')
  BY <1>5, <1>6, RowsStayDifferent
<1>8. RowsDiffer'
  <2>1. Sectioned(rows')
    BY <1>4
  <2> QED BY <1>7, <2>1, NextRows DEF RowsDiffer, Differ
<1> QED BY <1>4, <1>5, <1>8, RemovedRows

(* A step that tells the manager the width of the table view.               *)
LEMMA WidthKnown ==
  ASSUME HeightInv, setContentViewWidth, UNCHANGED tableVars
  PROVE  /\ contentViewWidth' = tableWidth /\ contentViewWidth' \in Widths
         /\ contentViewWidth' # 0 /\ pending' \in 0..MaxPending
         /\ pending' = 0 => pending = 0 /\ ~Turned
         /\ pending > 0 => pending' > 0
         /\ Sectioned(rows') /\ Shown' = Shown /\ \A k : RowAt(k)' = RowAt(k)
         /\ RowsDiffer'
<1>1. TypeOK /\ Sectioned(rows)
  BY TypeFacts DEF HeightInv
<1>2. pending \in Nat /\ tableWidth \in Widths
  BY <1>1 DEF TypeOK
<1>3. /\ contentViewWidth' = tableWidth /\ pending' <= MaxPending
      /\ pending' = pending + (IF Turned THEN 1 ELSE 0)
  BY DEF setContentViewWidth
<1>4. Sectioned(rows') /\ Shown' = Shown /\ \A k : RowAt(k)' = RowAt(k)
  BY <1>1 DEF tableVars, Shown, RowAt, Sectioned
<1>5. RowsDiffer'
  BY <1>4 DEF HeightInv, RowsDiffer
<1> HIDE DEF Turned
<1>6. tableWidth # 0
  BY <1>2, HeightAssumption
<1> QED BY <1>2, <1>3, <1>4, <1>5, <1>6

LEMMA FramesLeftFacts ==
  ASSUME HeightInv
  PROVE  /\ IsCache(FramesLeft) /\ DOMAIN FramesLeft \subseteq DOMAIN frames
         /\ Turned \/ FramesLeft = frames
         /\ ~misled => Fits(FramesLeft)
<1>1. IsCache(Empty) /\ DOMAIN Empty = {}
  BY DEF IsCache, Empty
<1>2. CASE Turned
  BY <1>1, <1>2 DEF FramesLeft, Fits
<1>3. CASE ~Turned
  BY <1>3 DEF FramesLeft, HeightInv, TypeOK, CachesFit
<1> QED BY <1>2, <1>3

LEMMA WithCache ==
  ASSUME NEW f, IsCache(f), NEW k \in IndexPath, NEW v \in Value
  PROVE  IsCache(With(f, k, v)) /\ DOMAIN With(f, k, v) = DOMAIN f \cup {k}
BY DEF IsCache, With

LEMMA MeasuredFacts ==
  ASSUME HeightInv, NEW k \in Shown
  PROVE  /\ Measured(k) \in Value /\ RowAt(k) \in Rows /\ k \in IndexPath
         /\ ~misled => Measured(k).row = RowAt(k)
         /\ ~misled /\ pending = 0 /\ ~Turned => Measured(k).width = tableWidth
         /\ k \notin DOMAIN heights =>
              Measured(k) = [row |-> RowAt(k), width |-> tableWidth]
<1>1. k \in IndexPath /\ k[1] \in Sections /\ k[2] \in Nat /\ k[2] < Len(rows[k[1]])
  BY HeightAssumption DEF Shown, IndexPath, Places
<1>2. rows[k[1]] \in Seq(Rows)
  BY <1>1 DEF HeightInv, TypeOK
<1>3. k[2] + 1 \in 1..Len(rows[k[1]])
  BY <1>1, <1>2
<1>4. RowAt(k) \in Rows
  BY <1>2, <1>3 DEF RowAt
<1>5. tableWidth \in Widths
  BY DEF HeightInv, TypeOK
<1>6. CASE k \in DOMAIN FramesLeft
  <2>1. Measured(k) = FramesLeft[k]
    BY <1>6 DEF Measured
  <2>2. Measured(k) \in Value
    BY <1>6, <2>1, FramesLeftFacts DEF IsCache
  <2>3. k \in DOMAIN heights
    BY <1>6, FramesLeftFacts DEF HeightInv, FramesHaveHeights
  <2>4. ~misled => Measured(k).row = RowAt(k)
    BY <1>6, <2>1, FramesLeftFacts DEF Fits
  <2>5. ASSUME ~misled, pending = 0, ~Turned
        PROVE  Measured(k).width = tableWidth
    <3>1. Measured(k).width = contentViewWidth
      BY <1>6, <2>1, <2>5, FramesLeftFacts DEF Fits
    <3>2. contentViewWidth # 0
      BY <2>3 DEF HeightInv, NothingMeasured
    <3> QED BY <2>5, <3>1, <3>2 DEF Turned
  <2> QED BY <1>1, <1>4, <2>2, <2>3, <2>4, <2>5
<1>7. CASE k \notin DOMAIN FramesLeft
  <2>1. Measured(k) = [row |-> RowAt(k), width |-> tableWidth]
    BY <1>7 DEF Measured
  <2> QED BY <1>1, <1>4, <1>5, <2>1 DEF Value
<1> QED BY <1>6, <1>7

LEMMA WithFits ==
  ASSUME HeightInv, NEW k \in Shown, setContentViewWidth, UNCHANGED tableVars,
         ~misled, NEW f, Fits(f),
         DOMAIN f # {} => contentViewWidth # 0
  PROVE  FitsNext(f) /\ FitsNext(With(f, k, Measured(k)))
<1>1. /\ contentViewWidth' = tableWidth
      /\ pending' = 0 => pending = 0 /\ ~Turned
      /\ Shown' = Shown /\ \A j : RowAt(j)' = RowAt(j)
  BY WidthKnown
<1>2. ASSUME NEW j \in DOMAIN f
      PROVE  /\ j \in Shown' /\ f[j].row = RowAt(j)'
             /\ pending' = 0 => f[j].width = contentViewWidth'
  <2>1. j \in Shown' /\ f[j].row = RowAt(j)'
    BY <1>1 DEF Fits
  <2>2. ASSUME pending' = 0
        PROVE  f[j].width = contentViewWidth'
    BY <1>1, <2>2 DEF Fits, Turned
  <2> QED BY <2>1, <2>2
<1>3. /\ Measured(k).row = RowAt(k)
      /\ pending' = 0 => Measured(k).width = contentViewWidth'
  BY <1>1, MeasuredFacts
<1> QED BY <1>1, <1>2, <1>3 DEF With, FitsNext

LEMMA CellHeightKeeps ==
  ASSUME HeightInv, NEW k, cellHeight(k)
  PROVE  HeightInv'
<1>1. /\ k \in Shown /\ setContentViewWidth /\ ~crashed
      /\ UNCHANGED tableVars /\ UNCHANGED crashed /\ UNCHANGED misled
  BY DEF cellHeight
<1> DEFINE v == Measured(k)
<1>2. /\ contentViewWidth' \in Widths /\ contentViewWidth' # 0
      /\ pending' \in 0..MaxPending
      /\ pending' = 0 => pending = 0 /\ ~Turned
      /\ Sectioned(rows') /\ RowsDiffer'
  BY <1>1, WidthKnown
<1>3. v \in Value /\ k \in IndexPath
  BY <1>1, MeasuredFacts
<1>4. \/ heights' = heights /\ frames' = FramesLeft
      \/ heights' = With(heights, k, v) /\ frames' = With(FramesLeft, k, v)
  BY DEF cellHeight
<1> HIDE DEF v
<1>5. IsCache(heights) /\ IsCache(FramesLeft)
  BY FramesLeftFacts DEF HeightInv, TypeOK
<1>w. /\ IsCache(With(heights, k, v)) /\ IsCache(With(FramesLeft, k, v))
      /\ DOMAIN With(heights, k, v) = DOMAIN heights \cup {k}
      /\ DOMAIN With(FramesLeft, k, v) = DOMAIN FramesLeft \cup {k}
  BY <1>3, <1>5, WithCache
<1>6. IsCache(heights') /\ IsCache(frames')
  BY <1>4, <1>5, <1>w
<1>7. TypeOK'
  BY <1>1, <1>2, <1>6 DEF HeightInv, TypeOK, tableVars, Sectioned, IsCache, Value
<1>8. CachesFit'
  <2> SUFFICES ASSUME ~misled
               PROVE  Fits(heights)' /\ Fits(frames)'
    BY <1>1 DEF CachesFit
  <2>1. Fits(heights) /\ Fits(FramesLeft)
    BY FramesLeftFacts DEF HeightInv, CachesFit
  <2>2. /\ DOMAIN heights # {} => contentViewWidth # 0
        /\ DOMAIN FramesLeft # {} => contentViewWidth # 0
    BY FramesLeftFacts DEF HeightInv, NothingMeasured
  <2>3. FitsNext(heights) /\ FitsNext(With(heights, k, v))
    BY <1>1, <2>1, <2>2, WithFits DEF v
  <2>4. FitsNext(FramesLeft) /\ FitsNext(With(FramesLeft, k, v))
    BY <1>1, <2>1, <2>2, WithFits DEF v
  <2>5. FitsNext(heights') /\ FitsNext(frames')
    BY <1>4, <2>3, <2>4
  <2> QED BY <2>5 DEF Fits, FitsNext
<1>9. FramesHaveHeights'
  <2>1. /\ DOMAIN FramesLeft \subseteq DOMAIN heights
        /\ pending' = 0 => DOMAIN heights \subseteq DOMAIN FramesLeft
    BY <1>2, FramesLeftFacts DEF HeightInv, FramesHaveHeights
  <2>2. CASE heights' = heights /\ frames' = FramesLeft
    BY <2>1, <2>2 DEF FramesHaveHeights
  <2>3. CASE heights' = With(heights, k, v) /\ frames' = With(FramesLeft, k, v)
    BY <1>w, <2>1, <2>3 DEF FramesHaveHeights
  <2> QED BY <1>4, <2>2, <2>3
<1> QED BY <1>1, <1>2, <1>7, <1>8, <1>9
        DEF HeightInv, CrashesOnlyWhenTurning, NothingMeasured

LEMMA TotalKeeps ==
  ASSUME HeightInv, cellsTotalHeight
  PROVE  HeightInv'
<1>1. /\ ~crashed /\ UNCHANGED tableVars /\ UNCHANGED crashed
      /\ DOMAIN heights = {}
  BY DEF cellsTotalHeight
<1>2. Sectioned(rows) /\ UNCHANGED rows /\ UNCHANGED tableWidth
  BY <1>1, TypeFacts DEF HeightInv, tableVars
<1>3. CASE clearHeightCache /\ UNCHANGED <<contentViewWidth, pending>>
  <2>1. Sectioned(rows') /\ RowsDiffer'
    BY <1>2 DEF HeightInv, RowsDiffer, Shown, RowAt, Sectioned
  <2>2. pending' \in 0..MaxPending
    BY <1>3 DEF HeightInv, TypeOK
  <2> QED BY <1>1, <1>2, <1>3, <2>1, <2>2, ClearedKeeps
<1>4. CASE /\ setContentViewWidth
           /\ heights' = [k \in Shown |-> [row |-> RowAt(k), width |-> tableWidth]]
           /\ frames' = heights' /\ misled' = FALSE
  <2>1. /\ contentViewWidth' = tableWidth /\ contentViewWidth' \in Widths
        /\ contentViewWidth' # 0 /\ pending' \in 0..MaxPending
        /\ Sectioned(rows') /\ Shown' = Shown /\ \A k : RowAt(k)' = RowAt(k)
        /\ RowsDiffer'
    BY <1>1, <1>4, WidthKnown
  <2>2. \A k \in Shown : [row |-> RowAt(k), width |-> tableWidth] \in Value
    BY MeasuredFacts DEF HeightInv, TypeOK, Value
  <2>3. IsCache(heights') /\ frames' = heights'
    BY <1>4, <2>2 DEF IsCache, Shown
  <2>4. FitsNext(heights')
    BY <1>4, <2>1 DEF FitsNext
  <2>5. TypeOK'
    BY <1>1, <1>2, <1>4, <2>1, <2>3
       DEF HeightInv, TypeOK, Sectioned, IsCache, Value
  <2>6. Fits(heights)' /\ Fits(frames)'
    BY <2>3, <2>4 DEF Fits, FitsNext
  <2> QED BY <1>1, <1>4, <2>1, <2>3, <2>5, <2>6
          DEF HeightInv, CachesFit, CrashesOnlyWhenTurning, NothingMeasured,
              FramesHaveHeights
<1> QED BY <1>3, <1>4 DEF cellsTotalHeight

LEMMA BlockKeeps ==
  ASSUME HeightInv, WidthBlock
  PROVE  HeightInv'
<1>1. /\ ~crashed /\ pending > 0 /\ pending' = pending - 1 /\ clearHeightCache
      /\ UNCHANGED rows /\ UNCHANGED tableWidth
      /\ UNCHANGED contentViewWidth /\ UNCHANGED crashed
  BY DEF WidthBlock, tableVars
<1>2. Sectioned(rows)
  BY TypeFacts DEF HeightInv
<1>3. Sectioned(rows') /\ RowsDiffer'
  BY <1>1, <1>2 DEF HeightInv, RowsDiffer, Shown, RowAt, Sectioned
<1>4. pending' \in 0..MaxPending
  BY <1>1, HeightAssumption DEF HeightInv, TypeOK
<1> QED BY <1>1, <1>3, <1>4, ClearedKeeps

LEMMA ReloadKeeps ==
  ASSUME HeightInv, NEW s \in Sections, reloadData(s)
  PROVE  HeightInv'
<1>1. /\ ~crashed /\ clearHeightCache /\ UNCHANGED crashed
      /\ UNCHANGED tableWidth /\ UNCHANGED contentViewWidth /\ UNCHANGED pending
  BY DEF reloadData, RowsChange
<1>2. pending' \in 0..MaxPending
  BY <1>1 DEF HeightInv, TypeOK
<1> QED BY <1>1, <1>2, ReloadMoves, ClearedKeeps

(* The heights do not depend on the width of the table view itself.         *)
LEMMA TurnKeeps ==
  ASSUME HeightInv,
         UNCHANGED <<rows, contentViewWidth, heights, frames, pending, crashed,
                     misled>>,
         tableWidth' \in Widths
  PROVE  HeightInv'
<1>1. TypeOK'
  BY DEF HeightInv, TypeOK, IsCache, Value
<1>2. Shown' = Shown /\ \A k : RowAt(k)' = RowAt(k)
  BY DEF Shown, RowAt
<1>3. CachesFit'
  BY <1>2 DEF HeightInv, CachesFit, Fits
<1> QED BY <1>1, <1>2, <1>3
        DEF HeightInv, CrashesOnlyWhenTurning, NothingMeasured,
            FramesHaveHeights, RowsDiffer

(* HeightInv is inductive: one step for each action of Next.                *)
LEMMA HeightStep ==
  ASSUME HeightInv, [Next]_vars
  PROVE  HeightInv'
<1>1. ASSUME NEW s \in Sections, RowsChanged(s)
      PROVE  HeightInv'
  <2>1. CASE reloadData(s)
    BY <2>1, ReloadKeeps
  <2>2. CASE ~reloadData(s)
    BY <1>1, <2>2, RowsChangedStep, RowsStepKeeps
  <2> QED BY <2>1, <2>2
<1>2. ASSUME NEW k \in IndexPath, cellHeight(k)
      PROVE  HeightInv'
  BY <1>2, CellHeightKeeps
<1>3. CASE cellsTotalHeight
  BY <1>3, TotalKeeps
<1>4. CASE WidthBlock
  BY <1>4, BlockKeeps
<1>5. CASE Turn
  BY <1>5, TurnKeeps DEF Turn
<1>6. CASE UNCHANGED vars
  <2>1. tableWidth' \in Widths
    BY <1>6 DEF vars, tableVars, HeightInv, TypeOK
  <2> QED BY <1>6, <2>1, TurnKeeps DEF vars, tableVars
<1> QED BY <1>1, <1>2, <1>3, <1>4, <1>5, <1>6 DEF Next

(* The caches fit the rows, frames never outlive their heights, and rows    *)
(* differ: what the code maintains through every call (lines 112-351).      *)
THEOREM HeightInvariance == Spec => []HeightInv
<1>1. Init => HeightInv
  BY InitHeights
<1>2. HeightInv /\ [Next]_vars => HeightInv'
  BY HeightStep
<1> QED BY <1>1, <1>2, PTL DEF Spec

(* Every key of the two dictionaries is an index path of a possible row,    *)
(* every entry a height for a row and a width (lines 118-121, 339-351).     *)
THEOREM HeightTypeTheorem == Spec => []TypeOK
<1>1. HeightInv => TypeOK
  BY DEF HeightInv
<1> QED BY <1>1, HeightInvariance, PTL

(* No cached height or frame is ever that of another row, unless a change   *)
(* the cache does not support was made since the last reload (132-239).     *)
THEOREM CachesFitTheorem == Spec => []CachesFit
<1>1. HeightInv => CachesFit
  BY DEF HeightInv
<1> QED BY <1>1, HeightInvariance, PTL

(* Inserting rows never meets a height without frames, or one beyond the    *)
(* section, but while a reload for a new width is waiting (lines 207-221).  *)
THEOREM CrashTheorem == Spec => []CrashesOnlyWhenTurning
<1>1. HeightInv => CrashesOnlyWhenTurning
  BY DEF HeightInv
<1> QED BY <1>1, HeightInvariance, PTL

----------------------------------------------------------------------------
(* The memo.                                                                *)

MemoNow == IF misled THEN {} ELSE Remembered

LEMMA RowsShown ==
  ASSUME NEW r, Sectioned(r)
  PROVE  InRows(r) \subseteq Rows
<1> SUFFICES ASSUME NEW k \in ShownIn(r)
             PROVE  At(r, k) \in Rows
  BY DEF InRows
<1>1. k \in IndexPath /\ k[1] \in Sections /\ k[2] \in Nat /\ k[2] < Len(r[k[1]])
  BY HeightAssumption DEF ShownIn, IndexPath, Places
<1>2. r[k[1]] \in Seq(Rows)
  BY <1>1 DEF Sectioned
<1>3. k[2] + 1 \in 1..Len(r[k[1]])
  BY <1>1, <1>2
<1> QED BY <1>2, <1>3 DEF At

LEMMA MemoChange ==
  ASSUME HeightInv, HeightInv', RowsStep, misled' \in BOOLEAN
  PROVE  \/ \E T \in SUBSET Rows : Memo!Change(T)
         \/ \E T \in SUBSET InTable : Memo!Lose(T)
<1>1. /\ TypeOK /\ Sectioned(rows) /\ Sectioned(rows')
      /\ InTable = InRows(rows) /\ InTable' = InRows(rows')
  BY TypeFacts, NextRows DEF HeightInv, RowsStep
<1>2. InTable' \subseteq Rows
  BY <1>1, RowsShown
<1>3. CASE misled
  <2>1. misled'
    BY <1>3 DEF RowsStep
  <2>2. Memo!Change(InTable')
    BY <1>3, <2>1 DEF Memo!Change, HeightInv, TypeOK
  <2> QED BY <1>2, <2>2
<1>4. CASE ~misled /\ misled'
  <2>1. InTable' \subseteq InTable
    BY <1>1, <1>4 DEF RowsStep
  <2>2. Memo!Lose(InTable')
    BY <1>4 DEF Memo!Lose, HeightInv, TypeOK
  <2> QED BY <2>1, <2>2
<1>5. CASE ~misled /\ ~misled'
  <2>1. PICK F, K : Moves(rows, rows', F, K) /\ Follows(rows, heights, heights', F, K)
    BY <1>5 DEF RowsStep, Carried
  <2>2. Differ(rows)
    BY <1>1, TypeFacts DEF HeightInv, RowsDiffer, Differ
  <2>3. \A j \in DOMAIN heights : j \in ShownIn(rows) /\ heights[j].row = At(rows, j)
    BY <1>1, <1>5, TypeFacts DEF HeightInv, CachesFit, Fits
  <2>4. {heights'[k] : k \in DOMAIN heights'}
        = {v \in {heights[j] : j \in DOMAIN heights} : v.row \in InRows(rows')}
    BY <2>1, <2>2, <2>3, EntriesKept
  <2>5. Remembered' = {v \in Remembered : v.row \in InTable'}
    BY <1>1, <2>4 DEF Remembered
  <2>6. misled' = misled
    BY <1>5 DEF HeightInv, TypeOK
  <2>7. Memo!Change(InTable')
    BY <1>5, <2>5, <2>6 DEF Memo!Change
  <2> QED BY <1>2, <2>7
<1> QED BY <1>3, <1>4, <1>5

LEMMA MemoClear ==
  ASSUME HeightInv, clearHeightCache, InTable' \subseteq InTable
  PROVE  \E T \in SUBSET InTable : Memo!Reload(T)
<1>1. misled' = FALSE /\ Remembered' = {}
  BY DEF clearHeightCache, Empty, Remembered
<1>2. Memo!Reload(InTable')
  BY <1>1 DEF Memo!Reload
<1> QED BY <1>2

LEMMA MemoMeasure ==
  ASSUME HeightInv, NEW k, cellHeight(k)
  PROVE  \/ \E r \in Rows, w \in Widths : Memo!Measure(r, w)
         \/ UNCHANGED <<InTable, MemoNow, misled>>
<1>1. k \in Shown /\ UNCHANGED tableVars /\ UNCHANGED misled
  BY DEF cellHeight
<1>2. InTable' = InTable
  BY <1>1 DEF InTable, Shown, RowAt, tableVars
<1>3. CASE misled
  BY <1>1, <1>2, <1>3 DEF MemoNow
<1>4. CASE heights' = heights
  BY <1>1, <1>2, <1>4 DEF MemoNow, Remembered
<1>5. CASE ~misled /\ heights' # heights
  <2> DEFINE v == [row |-> RowAt(k), width |-> tableWidth]
  <2>1. k \notin DOMAIN heights /\ heights' = With(heights, k, Measured(k))
    BY <1>5 DEF cellHeight
  <2>2. Measured(k) = v /\ RowAt(k) \in Rows /\ tableWidth \in Widths
    BY <1>1, <2>1, MeasuredFacts DEF HeightInv, TypeOK
  <2>3. RowAt(k) \in InTable
    BY <1>1 DEF InTable
  <2>4. \A u \in Remembered : u.row # RowAt(k)
    <3> SUFFICES ASSUME NEW j \in DOMAIN heights, heights[j].row = RowAt(k)
                 PROVE  FALSE
      BY DEF Remembered
    <3>1. j \in Shown /\ RowAt(j) = RowAt(k)
      BY <1>5 DEF HeightInv, CachesFit, Fits
    <3>2. j = k
      BY <1>1, <3>1 DEF HeightInv, RowsDiffer
    <3> QED BY <2>1, <3>2
  <2>5. Remembered' = Remembered \cup {v}
    <3>1. Remembered' = {With(heights, k, v)[j] : j \in DOMAIN heights \cup {k}}
      BY <2>1, <2>2 DEF Remembered, With
    <3>2. \A j \in DOMAIN heights : With(heights, k, v)[j] = heights[j]
      BY <2>1 DEF With
    <3>3. With(heights, k, v)[k] = v
      BY DEF With
    <3> HIDE DEF v
    <3> QED BY <3>1, <3>2, <3>3 DEF Remembered
  <2>6. Memo!Measure(RowAt(k), tableWidth)
    BY <1>1, <1>2, <1>5, <2>3, <2>4, <2>5 DEF Memo!Measure
  <2> QED BY <2>2, <2>6
<1> QED BY <1>3, <1>4, <1>5

LEMMA MemoTotal ==
  ASSUME HeightInv, cellsTotalHeight
  PROVE  \/ \E w \in Widths : Memo!MeasureAll(w)
         \/ \E T \in SUBSET InTable : Memo!Reload(T)
<1>1. DOMAIN heights = {} /\ UNCHANGED tableVars
  BY DEF cellsTotalHeight
<1>2. InTable' = InTable
  BY <1>1 DEF InTable, Shown, RowAt, tableVars
<1>3. CASE clearHeightCache
  BY <1>2, <1>3, MemoClear
<1>4. CASE /\ heights' = [k \in Shown |-> [row |-> RowAt(k), width |-> tableWidth]]
           /\ misled' = FALSE
  <2>1. Remembered = {} /\ tableWidth \in Widths
    BY <1>1 DEF Remembered, HeightInv, TypeOK
  <2>2. Remembered' = {[row |-> r, width |-> tableWidth] : r \in InTable}
    BY <1>4 DEF Remembered, InTable
  <2>3. Memo!MeasureAll(tableWidth)
    BY <1>2, <1>4, <2>1, <2>2 DEF Memo!MeasureAll
  <2> QED BY <2>1, <2>3
<1> QED BY <1>3, <1>4 DEF cellsTotalHeight

LEMMA MemoInit ==
  ASSUME Init
  PROVE  Memo!Init
<1>1. Shown = {}
  BY HeightAssumption DEF Init, Shown, IndexPath, Places
<1>2. InTable = {} /\ Remembered = {}
  BY <1>1 DEF Init, InTable, Remembered, Empty
<1> QED BY <1>2 DEF Memo!Init, Init

LEMMA MemoStep ==
  ASSUME HeightInv, HeightInv', [Next]_vars
  PROVE  [Memo!Next]_(Memo!memoVars)
<1>1. ASSUME NEW s \in Sections, RowsChanged(s)
      PROVE  Memo!Next
  <2>1. CASE reloadData(s)
    <3>1. clearHeightCache /\ TypeOK
      BY <2>1 DEF reloadData, HeightInv
    <3>2. InTable' \subseteq InTable
      BY <2>1, <3>1, ReloadMoves, TypeFacts, NextRows
    <3> QED BY <3>1, <3>2, MemoClear DEF Memo!Next
  <2>2. CASE ~reloadData(s)
    <3>1. RowsStep /\ misled' \in BOOLEAN
      BY <1>1, <2>2, RowsChangedStep
    <3> QED BY <3>1, MemoChange DEF Memo!Next
  <2> QED BY <2>1, <2>2
<1>2. ASSUME NEW k \in IndexPath, cellHeight(k)
      PROVE  [Memo!Next]_(Memo!memoVars)
  BY <1>2, MemoMeasure DEF Memo!Next, Memo!memoVars, MemoNow
<1>3. CASE cellsTotalHeight
  BY <1>3, MemoTotal DEF Memo!Next
<1>4. CASE WidthBlock
  <2>1. clearHeightCache /\ InTable' \subseteq InTable
    BY <1>4 DEF WidthBlock, InTable, Shown, RowAt, tableVars
  <2> QED BY <2>1, MemoClear DEF Memo!Next
<1>5. CASE UNCHANGED <<rows, heights, misled>>
  BY <1>5 DEF Memo!memoVars, InTable, Shown, RowAt, Remembered
<1>6. CASE Turn
  BY <1>5, <1>6 DEF Turn
<1>7. CASE UNCHANGED vars
  BY <1>5, <1>7 DEF vars, tableVars
<1> QED BY <1>1, <1>2, <1>3, <1>4, <1>6, <1>7 DEF Next

(* The two dictionaries under their shifting index paths are a memo of the  *)
(* rows: no call forgets a height of a row that stays, none is computed     *)
(* twice (the promise of the header, lines 67-78).                          *)
THEOREM MemoTheorem == Spec => ImplementsMemo
<1>1. Init => Memo!Init
  BY MemoInit
<1>2. HeightInv /\ HeightInv' /\ [Next]_vars => [Memo!Next]_(Memo!memoVars)
  BY MemoStep
<1> QED BY <1>1, <1>2, HeightInvariance, PTL DEF Spec, Memo!Spec, ImplementsMemo
=============================================================================
