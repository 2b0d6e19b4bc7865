---------------------------- MODULE TotalsProofs ----------------------------
(***************************************************************************)
(* What Total computes: the sum of a function's values, however long.      *)
(***************************************************************************)
EXTENDS Totals, FiniteSets, FiniteSetTheorems, WellFoundedInduction, TLAPS

(* The element the fold takes out of T first, and the fold's table of the  *)
(* sums over all subsets of S.                                             *)
Pick(T) == CHOOSE x \in T : TRUE

Sums(f, S, g) == g = [T \in SUBSET S |->
                        IF T = {} THEN 0 ELSE f[Pick(T)] + g[T \ {Pick(T)}]]

(* Any set of subsets of a finite set has a minimal member: what stands in *)
(* for induction below.                                                    *)
LEMMA MinimalSubset ==
  ASSUME NEW S, IsFiniteSet(S), NEW B \in SUBSET (SUBSET S), B # {}
  PROVE  \E T \in B : \A U \in B : U \subseteq T => U = T
<1> DEFINE R == StrictSubsetOrdering(S)
<1>1. IsWellFoundedOn(R, FiniteSubsetsOf(S))
  BY FS_StrictSubsetOrderingWellFounded
<1>2. B \subseteq FiniteSubsetsOf(S)
  BY FS_Subset DEF FiniteSubsetsOf
<1>3. PICK T \in B : \A U \in B : ~ (<<U, T>> \in R)
  <2> HIDE DEF R
  <2> QED BY <1>1, <1>2, WFMin
<1>4. ASSUME NEW U \in B, U \subseteq T, U # T PROVE FALSE
  <2>1. <<U, T>> \in R
    BY <1>4 DEF StrictSubsetOrdering
  <2> QED BY <1>3, <2>1
<1> QED BY <1>4

LEMMA PickIn == ASSUME NEW T, T # {} PROVE Pick(T) \in T
BY DEF Pick

(* A collection of subsets that holds the empty set, and a set whenever it *)
(* holds that set without its picked element, holds them all.              *)
LEMMA SubsetInduction ==
  ASSUME NEW S, IsFiniteSet(S), NEW G,
         {} \in G,
         \A T \in SUBSET S : T # {} /\ T \ {Pick(T)} \in G => T \in G
  PROVE  \A T \in SUBSET S : T \in G
<1> SUFFICES ASSUME NEW T0 \in SUBSET S, T0 \notin G PROVE FALSE
  OBVIOUS
<1> DEFINE B == {T \in SUBSET S : T \notin G}
<1>1. B \in SUBSET (SUBSET S) /\ B # {}
  OBVIOUS
<1>2. PICK T \in B : \A U \in B : U \subseteq T => U = T
  <2> HIDE DEF B
  <2> QED BY <1>1, MinimalSubset
<1>3. T # {} /\ Pick(T) \in T
  BY PickIn
<1>4. T \ {Pick(T)} \in SUBSET S /\ T \ {Pick(T)} # T /\ T \ {Pick(T)} \subseteq T
  BY <1>3
<1>5. T \ {Pick(T)} \notin B
  BY <1>2, <1>4
<1> QED BY <1>3, <1>4, <1>5

(* What the table holds. *)
Table(f, S, g) ==
  /\ g[{}] = 0
  /\ \A T \in SUBSET S : T # {} => g[T] = f[Pick(T)] + g[T \ {Pick(T)}]

LEMMA SumsAt ==
  ASSUME NEW f, NEW S, NEW g, Sums(f, S, g)
  PROVE  Table(f, S, g)
<1> DEFINE Row(T) == IF T = {} THEN 0 ELSE f[Pick(T)] + g[T \ {Pick(T)}]
<1>1. g = [T \in SUBSET S |-> Row(T)]
  BY DEF Sums
<1>2. \A T \in SUBSET S : g[T] = Row(T)
  <2> HIDE DEF Row
  <2> QED BY <1>1
<1>3. {} \in SUBSET S
  OBVIOUS
<1> QED BY <1>2, <1>3 DEF Table

(* Two tables agree where both are defined. *)
LEMMA SumsAgree ==
  ASSUME NEW f, NEW S, NEW V \in SUBSET S, IsFiniteSet(V),
         NEW g, Sums(f, S, g), NEW h, Sums(f, V, h)
  PROVE  \A T \in SUBSET V : g[T] = h[T]
<1> DEFINE G == {T \in SUBSET V : g[T] = h[T]}
<1>1. {} \in G
  BY SumsAt DEF Table
<1>2. ASSUME NEW T \in SUBSET V, T # {}, T \ {Pick(T)} \in G PROVE T \in G
  <2>1. T \in SUBSET S /\ T # {}
    BY <1>2
  <2>2. g[T] = f[Pick(T)] + g[T \ {Pick(T)}]
    <3> HIDE DEF G
    <3> QED BY <2>1, SumsAt DEF Table
  <2>3. h[T] = f[Pick(T)] + h[T \ {Pick(T)}]
    <3> HIDE DEF G
    <3> QED BY <2>1, SumsAt DEF Table
  <2> QED BY <1>2, <2>2, <2>3
<1>3. \A T \in SUBSET V : T \in G
  <2> HIDE DEF G
  <2> QED BY <1>1, <1>2, SubsetInduction
<1> QED BY <1>3

(* There is one. *)
LEMMA SumsExist ==
  ASSUME NEW f, NEW S, IsFiniteSet(S)
  PROVE  \E g : Sums(f, S, g)
<1> DEFINE B == {T \in SUBSET S : ~ \E g : Sums(f, T, g)}
<1> SUFFICES ASSUME S \in B PROVE FALSE
  OBVIOUS
<1>1. B \in SUBSET (SUBSET S) /\ B # {}
  OBVIOUS
<1>2. PICK T \in B : \A U \in B : U \subseteq T => U = T
  <2> HIDE DEF B
  <2> QED BY <1>1, MinimalSubset
<1> DEFINE t(U) == CHOOSE g : Sums(f, U, g)
           v(U) == IF U = T
                   THEN IF T = {} THEN 0
                        ELSE f[Pick(T)] + t(T \ {Pick(T)})[T \ {Pick(T)}]
                   ELSE t(U)[U]
           g == [U \in SUBSET T |-> v(U)]
           Row(U) == IF U = {} THEN 0 ELSE f[Pick(U)] + g[U \ {Pick(U)}]
<1>3. \A U \in SUBSET T : U # T => Sums(f, U, t(U))
  <2> SUFFICES ASSUME NEW U \in SUBSET T, U # T PROVE Sums(f, U, t(U))
    OBVIOUS
  <2>1. U \in SUBSET S
    OBVIOUS
  <2>2. U \notin B
    BY <1>2
  <2>3. \E h : Sums(f, U, h)
    BY <2>1, <2>2
  <2> QED BY <2>3
<1>4. \A U \in SUBSET T : g[U] = v(U)
  OBVIOUS
<1>5. ASSUME NEW U \in SUBSET T PROVE g[U] = Row(U)
  <2>1. CASE U = T
    <3>1. CASE T = {}
      BY <1>4, <2>1, <3>1
    <3>2. CASE T # {}
      <4> DEFINE W == T \ {Pick(T)}
      <4>1. W \in SUBSET T /\ W # T
        BY <3>2, PickIn
      <4>2. g[W] = t(W)[W]
        BY <1>4, <4>1
      <4>3. g[T] = f[Pick(T)] + t(W)[W]
        BY <1>4, <3>2
      <4> QED BY <2>1, <3>2, <4>2, <4>3
    <3> QED BY <3>1, <3>2
  <2>2. CASE U # T /\ U = {}
    <3>1. Sums(f, U, t(U))
      BY <1>3, <2>2
    <3>2. t(U)[U] = 0
      <4> HIDE DEF t
      <4> QED BY <2>2, <3>1, SumsAt DEF Table
    <3> QED BY <1>4, <2>2, <3>2
  <2>3. CASE U # T /\ U # {}
    <3> DEFINE W == U \ {Pick(U)}
    <3>1. W \in SUBSET T /\ W # T /\ W \in SUBSET U
      BY <2>3, PickIn
    <3>2. Sums(f, U, t(U)) /\ Sums(f, W, t(W))
      BY <1>3, <2>3, <3>1
    <3>3. IsFiniteSet(W)
      <4>1. W \subseteq S
        OBVIOUS
      <4> QED BY <4>1, FS_Subset
    <3>4. t(U)[W] = t(W)[W]
      <4> HIDE DEF t, W
      <4> QED BY <3>1, <3>2, <3>3, SumsAgree
    <3>5. t(U)[U] = f[Pick(U)] + t(U)[W]
      <4> HIDE DEF t
      <4> QED BY <2>3, <3>2, SumsAt DEF Table
    <3>6. g[W] = t(W)[W] /\ g[U] = t(U)[U]
      BY <1>4, <2>3, <3>1
    <3> QED BY <2>3, <3>4, <3>5, <3>6
  <2> QED BY <2>1, <2>2, <2>3
<1>6. g = [U \in SUBSET T |-> Row(U)]
  <2>1. DOMAIN g = SUBSET T
    OBVIOUS
  <2> HIDE DEF Row
  <2>2. \A U \in SUBSET T : g[U] = Row(U)
    BY <1>5
  <2> QED BY <2>1, <2>2
<1>7. Sums(f, T, g)
  BY <1>6 DEF Sums
<1> HIDE DEF g
<1> QED BY <1>2, <1>7

LEMMA TotalIs ==
  ASSUME NEW S, IsFiniteSet(S), NEW f, DOMAIN f = S
  PROVE  \E g : Table(f, S, g) /\ Total(f) = g[S]
<1>1. Total(f) = (CHOOSE g : Sums(f, DOMAIN f, g))[DOMAIN f]
  BY DEF Total, FoldFunction, FoldFunctionOnSet, MapThenFoldSet, Sums, Pick
<1>2. \E g : Sums(f, S, g)
  BY SumsExist
<1> QED BY <1>1, <1>2, SumsAt

-----------------------------------------------------------------------------
(* A total of integers is one. *)
LEMMA TotalType ==
  ASSUME NEW S, IsFiniteSet(S), NEW f \in [S -> Int]
  PROVE  Total(f) \in Int
<1>1. PICK g : Table(f, S, g) /\ Total(f) = g[S]
  BY TotalIs
<1>a. /\ g[{}] = 0
      /\ \A T \in SUBSET S : T # {} => g[T] = f[Pick(T)] + g[T \ {Pick(T)}]
  BY <1>1 DEF Table
<1> DEFINE G == {T \in SUBSET S : g[T] \in Int}
<1>2. {} \in G
  BY <1>a
<1>3. ASSUME NEW T \in SUBSET S, T # {}, T \ {Pick(T)} \in G PROVE T \in G
  <2>1. g[T] = f[Pick(T)] + g[T \ {Pick(T)}]
    BY <1>a, <1>3
  <2>2. Pick(T) \in S
    BY <1>3, PickIn
  <2> QED BY <1>3, <2>1, <2>2
<1>4. S \in G
  <2> HIDE DEF G
  <2> QED BY <1>2, <1>3, SubsetInduction
<1> QED BY <1>1, <1>4

(* One value changes: the total changes by as much. *)
LEMMA TotalUpdate ==
  ASSUME NEW S, IsFiniteSet(S), NEW f \in [S -> Int], NEW h \in [S -> Int],
         NEW x \in S, \A y \in S \ {x} : h[y] = f[y]
  PROVE  Total(h) = Total(f) + (h[x] - f[x])
<1>1. PICK g : Table(f, S, g) /\ Total(f) = g[S]
  BY TotalIs
<1>2. PICK k : Table(h, S, k) /\ Total(h) = k[S]
  BY TotalIs
<1>a. /\ g[{}] = 0
      /\ \A T \in SUBSET S : T # {} => g[T] = f[Pick(T)] + g[T \ {Pick(T)}]
  BY <1>1 DEF Table
<1>b. /\ k[{}] = 0
      /\ \A T \in SUBSET S : T # {} => k[T] = h[Pick(T)] + k[T \ {Pick(T)}]
  BY <1>2 DEF Table
<1> DEFINE Change(T) == IF x \in T THEN h[x] - f[x] ELSE 0
           G == {T \in SUBSET S : g[T] \in Int /\ k[T] = g[T] + Change(T)}
<1>3. {} \in G
  BY <1>a, <1>b
<1>4. ASSUME NEW T \in SUBSET S, T # {}, T \ {Pick(T)} \in G PROVE T \in G
  <2> DEFINE p == Pick(T)
             W == T \ {p}
  <2>1. g[T] = f[p] + g[W] /\ k[T] = h[p] + k[W]
    BY <1>a, <1>b, <1>4
  <2>2. p \in T /\ p \in S
    BY <1>4, PickIn
  <2>3. g[W] \in Int /\ k[W] = g[W] + Change(W)
    BY <1>4
  <2>4. CASE p = x
    <3>1. Change(W) = 0 /\ Change(T) = h[p] - f[p]
      BY <2>2, <2>4
    <3>2. f[p] \in Int /\ h[p] \in Int
      BY <2>2
    <3> HIDE DEF Change, W, p
    <3>3. g[T] \in Int /\ k[T] = g[T] + Change(T)
      BY <2>1, <2>3, <3>1, <3>2
    <3> QED BY <3>3
  <2>5. CASE p # x
    <3>1. Change(W) = Change(T) /\ Change(T) \in Int /\ h[p] = f[p] /\ f[p] \in Int
      BY <2>2, <2>5
    <3> HIDE DEF Change, W, p
    <3>2. g[T] \in Int /\ k[T] = g[T] + Change(T)
      BY <2>1, <2>3, <3>1
    <3> QED BY <3>2
  <2> QED BY <2>4, <2>5
<1>5. S \in G
  <2> HIDE DEF G
  <2> QED BY <1>3, <1>4, SubsetInduction
<1> QED BY <1>1, <1>2, <1>5

(* Nothing adds up to nothing. *)
LEMMA TotalZero ==
  ASSUME NEW S, IsFiniteSet(S), NEW f \in [S -> Int], \A x \in S : f[x] = 0
  PROVE  Total(f) = 0
<1>1. PICK g : Table(f, S, g) /\ Total(f) = g[S]
  BY TotalIs
<1>a. /\ g[{}] = 0
      /\ \A T \in SUBSET S : T # {} => g[T] = f[Pick(T)] + g[T \ {Pick(T)}]
  BY <1>1 DEF Table
<1> DEFINE G == {T \in SUBSET S : g[T] = 0}
<1>2. {} \in G
  BY <1>a
<1>3. ASSUME NEW T \in SUBSET S, T # {}, T \ {Pick(T)} \in G PROVE T \in G
  <2>1. g[T] = f[Pick(T)] + g[T \ {Pick(T)}]
    BY <1>a, <1>3
  <2>2. Pick(T) \in S
    BY <1>3, PickIn
  <2> QED BY <1>3, <2>1, <2>2
<1>4. S \in G
  <2> HIDE DEF G
  <2> QED BY <1>2, <1>3, SubsetInduction
<1> QED BY <1>1, <1>4

(* Where no value is negative, as many of them are positive at most as the *)
(* total says.                                                             *)
LEMMA TotalCounts ==
  ASSUME NEW S, IsFiniteSet(S), NEW f \in [S -> Nat]
  PROVE  /\ IsFiniteSet({x \in S : f[x] > 0})
         /\ Cardinality({x \in S : f[x] > 0}) <= Total(f)
<1>1. PICK g : Table(f, S, g) /\ Total(f) = g[S]
  BY TotalIs
<1>a. /\ g[{}] = 0
      /\ \A T \in SUBSET S : T # {} => g[T] = f[Pick(T)] + g[T \ {Pick(T)}]
  BY <1>1 DEF Table
<1> DEFINE P(T) == {x \in T : f[x] > 0}
           G == {T \in SUBSET S : /\ IsFiniteSet(P(T))
                                   /\ g[T] \in Nat
                                   /\ Cardinality(P(T)) <= g[T]}
<1>2. {} \in G
  <2>1. P({}) = {}
    OBVIOUS
  <2>2. g[{}] = 0
    BY <1>a
  <2> QED BY <2>1, <2>2, FS_EmptySet
<1>3. ASSUME NEW T \in SUBSET S, T # {}, T \ {Pick(T)} \in G PROVE T \in G
  <2> DEFINE p == Pick(T)
             W == T \ {p}
  <2>1. g[T] = f[p] + g[W]
    BY <1>a, <1>3
  <2>2. p \in T /\ f[p] \in Nat
    BY <1>3, PickIn
  <2>3. IsFiniteSet(P(W)) /\ g[W] \in Nat /\ Cardinality(P(W)) <= g[W]
    BY <1>3
  <2>4. CASE f[p] = 0
    <3>1. P(T) = P(W)
      BY <2>2, <2>4
    <3> HIDE DEF P, W, p
    <3>2. IsFiniteSet(P(T)) /\ g[T] \in Nat /\ Cardinality(P(T)) <= g[T]
      BY <2>1, <2>3, <2>4, <3>1
    <3> QED BY <3>2
  <2>5. CASE f[p] > 0
    <3>1. P(T) = P(W) \cup {p} /\ p \notin P(W)
      BY <2>2, <2>5
    <3> HIDE DEF P, W, p
    <3>2. /\ IsFiniteSet(P(T))
          /\ Cardinality(P(T)) = Cardinality(P(W)) + 1
      BY <2>3, <3>1, FS_AddElement
    <3>3. Cardinality(P(W)) \in Nat
      BY <2>3, FS_CardinalityType
    <3>4. g[T] \in Nat /\ Cardinality(P(T)) <= g[T]
      BY <2>1, <2>2, <2>3, <2>5, <3>2, <3>3
    <3> QED BY <3>2, <3>4
  <2> QED BY <2>2, <2>4, <2>5
<1>4. S \in G
  <2> HIDE DEF G
  <2> QED BY <1>2, <1>3, SubsetInduction
<1> QED BY <1>1, <1>4
=============================================================================
