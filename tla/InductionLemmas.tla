----------------------------- MODULE InductionLemmas -----------------------------
(* Induction and recursion over the natural numbers, least and greatest elements   *)
(* and sorting, stated for sets and functions rather than for formulas: an          *)
(* induction hypothesis is the set of the numbers it holds for, the step of a        *)
(* recursion is a function.                                                           *)
EXTENDS Ordering, FiniteSetsExt, FiniteSetTheorems, WellFoundedInduction, TLAPS

-----------------------------------------------------------------------------
(* Every set of natural numbers that is not empty has a least element. *)
LEMMA LeastElement ==
  ASSUME NEW T \in SUBSET Nat, T # {}
  PROVE  \E x \in T : \A y \in T : x <= y
<1> DEFINE R == OpToRel(<, Nat)
<1>1. \E x \in T : \A y \in T : ~(<<y, x>> \in R)
  <2> HIDE DEF R
  <2> QED BY NatLessThanWellFounded, WFMin DEF R
<1>2. \A x, y \in T : x < y => <<x, y>> \in R
  BY DEF OpToRel
<1>3. PICK x \in T : \A y \in T : ~(<<y, x>> \in R)
  BY <1>1
<1>4. \A y \in T : ~(y < x)
  BY <1>2, <1>3
<1> QED BY <1>4

(* Min is that element. *)
LEMMA MinIsLeast ==
  ASSUME NEW T \in SUBSET Nat, T # {}
  PROVE  Min(T) \in T /\ \A y \in T : Min(T) <= y
BY LeastElement DEF Min

(* A set of numbers up to a bound has a greatest element, which is its Max. *)
LEMMA MaxIsGreatest ==
  ASSUME NEW T \in SUBSET Int, T # {}, \E b \in Int : \A t \in T : t <= b
  PROVE  Max(T) \in T /\ \A y \in T : y <= Max(T)
<1>0. PICK b \in Int : \A t \in T : t <= b
  OBVIOUS
<1> DEFINE below == {b - t : t \in T}
<1>1. below \in SUBSET Nat /\ below # {}
  <2>1. \A t \in T : b - t \in Nat /\ b - t \in below
    BY <1>0
  <2> QED BY <2>1
<1>2. PICK d \in below : \A e \in below : d <= e
  BY <1>1, LeastElement
<1>3. PICK x \in T : d = b - x
  BY <1>2
<1>4. \A y \in T : x >= y
  BY <1>2, <1>3
<1> QED BY <1>4 DEF Max

(* What holds for 0, and for each number if it holds for the one before, holds for  *)
(* every number up to N: P is the set of the numbers it holds for.                   *)
LEMMA IntervalInduction ==
  ASSUME NEW N \in Nat, NEW P, 0 \in P,
         \A i \in 1 .. N : i - 1 \in P => i \in P
  PROVE  \A i \in 0 .. N : i \in P
<1> DEFINE missing == (0 .. N) \ P
<1>1. SUFFICES ASSUME missing # {} PROVE FALSE
  OBVIOUS
<1>2. missing \in SUBSET Nat
  OBVIOUS
<1>3. PICK x \in missing : \A y \in missing : x <= y
  BY <1>1, <1>2, LeastElement
<1>4. x \in 1 .. N /\ x - 1 \in 0 .. N
  BY <1>3
<1>5. x - 1 \in P
  BY <1>3, <1>4
<1> QED BY <1>3, <1>4, <1>5

(* A recursion along 1 .. N that begins with first and goes on by F, from S to S.    *)
Stays(F, N, S) == F \in [1 .. N -> [S -> S]]
GoesOn(g, first, F, N, S) ==
  g \in [0 .. N -> S] /\ g[0] = first /\ \A k \in 1 .. N : g[k] = F[k][g[k - 1]]

(* It defines a function. *)
LEMMA RecursionDefines ==
  ASSUME NEW N \in Nat, NEW S, NEW first \in S, NEW F, Stays(F, N, S)
  PROVE  \E g : GoesOn(g, first, F, N, S)
<1> DEFINE Defined == {n \in 0 .. N : \E g : GoesOn(g, first, F, n, S)}
<1>1. 0 \in Defined
  <2> DEFINE g == [k \in 0 .. 0 |-> first]
  <2>1. g \in [0 .. 0 -> S] /\ g[0] = first
    OBVIOUS
  <2>2. \A k \in 1 .. 0 : g[k] = F[k][g[k - 1]]
    OBVIOUS
  <2>3. GoesOn(g, first, F, 0, S)
    BY <2>1, <2>2 DEF GoesOn
  <2> HIDE DEF g
  <2> QED BY <2>3
<1>2. ASSUME NEW i \in 1 .. N, i - 1 \in Defined PROVE i \in Defined
  <2>0. PICK g : GoesOn(g, first, F, i - 1, S)
    BY <1>2
  <2>1. g \in [0 .. i - 1 -> S] /\ g[0] = first /\ \A k \in 1 .. i - 1 : g[k] = F[k][g[k - 1]]
    BY <2>0 DEF GoesOn
  <2> DEFINE h == [k \in 0 .. i |-> IF k = i THEN F[i][g[i - 1]] ELSE g[k]]
  <2>2. h \in [0 .. i -> S]
    <3>1. g[i - 1] \in S /\ F[i][g[i - 1]] \in S
      BY <2>1 DEF Stays
    <3>2. \A k \in 0 .. i : k # i => g[k] \in S
      BY <2>1
    <3> QED BY <3>1, <3>2
  <2>3. h[0] = first /\ \A k \in 1 .. i : h[k] = F[k][h[k - 1]]
    <3>1. h[0] = first /\ h[i] = F[i][g[i - 1]]
      BY <2>1
    <3>2. \A k \in 0 .. i - 1 : h[k] = g[k]
      OBVIOUS
    <3>3. ASSUME NEW k \in 1 .. i PROVE h[k] = F[k][h[k - 1]]
      <4>1. k - 1 \in 0 .. i - 1 /\ h[k - 1] = g[k - 1]
        BY <3>2
      <4> HIDE DEF h
      <4>2. CASE k = i
        BY <3>1, <4>1, <4>2
      <4>3. CASE k # i
        <5>1. k \in 1 .. i - 1
          BY <4>3
        <5> QED BY <5>1, <4>1, <3>2, <2>1
      <4> QED BY <4>2, <4>3
    <3> HIDE DEF h
    <3> QED BY <3>1, <3>3
  <2> HIDE DEF h
  <2>4. GoesOn(h, first, F, i, S)
    BY <2>2, <2>3 DEF GoesOn
  <2> QED BY <2>4
<1>3. N \in Defined
  <2> HIDE DEF Defined
  <2> QED BY <1>1, <1>2, IntervalInduction
<1> QED BY <1>3

-----------------------------------------------------------------------------
(* A finite set that a relation orders strictly and totally is listed whole, each    *)
(* element before the ones it comes before.                                            *)
LEMMA OrderedSorts ==
  ASSUME NEW S, IsFiniteSet(S), NEW before,
         \A x \in S : <<x, x>> \notin before,
         \A x, y, z \in S : <<x, y>> \in before /\ <<y, z>> \in before => <<x, z>> \in before,
         \A x, y \in S : x = y \/ <<x, y>> \in before \/ <<y, x>> \in before
  PROVE  /\ Ordered(S, before) \in [1 .. Cardinality(S) -> S]
         /\ \A x \in S : \E k \in 1 .. Cardinality(S) : Ordered(S, before)[k] = x
         /\ \A i, j \in 1 .. Cardinality(S) : i < j => <<Ordered(S, before)[i], Ordered(S, before)[j]>> \in before
<1> DEFINE n == Cardinality(S)
           Before(x) == {y \in S : <<y, x>> \in before}
           rank == [x \in S |-> Cardinality(Before(x))]
<1>1. n \in Nat
  BY FS_CardinalityType
<1>2. ASSUME NEW x \in S PROVE IsFiniteSet(Before(x)) /\ Cardinality(Before(x)) \in Nat
  <2>1. Before(x) \in SUBSET S
    OBVIOUS
  <2> QED BY <2>1, FS_Subset, FS_CardinalityType
<1>3. ASSUME NEW x \in S, NEW T \in SUBSET S, IsFiniteSet(T), Before(x) \subseteq T, x \in T
      PROVE  Cardinality(Before(x)) < Cardinality(T)
  <2>1. x \notin Before(x)
    OBVIOUS
  <2>2. Before(x) \cup {x} \in SUBSET T
    BY <1>3
  <2>3. Cardinality(Before(x) \cup {x}) = Cardinality(Before(x)) + 1
    BY <1>2, <2>1, FS_AddElement
  <2>4. Cardinality(Before(x) \cup {x}) <= Cardinality(T)
    BY <1>3, <2>2, FS_Subset
  <2>5. Cardinality(T) \in Nat
    BY <1>3, FS_CardinalityType
  <2> HIDE DEF Before
  <2> QED BY <1>2, <2>3, <2>4, <2>5
<1>4. rank \in [S -> 0 .. n - 1]
  <2>1. ASSUME NEW x \in S PROVE Cardinality(Before(x)) \in 0 .. n - 1
    <3>1. Cardinality(Before(x)) < n
      BY <1>3
    <3> QED BY <3>1, <1>1, <1>2
  <2> QED BY <2>1
<1>5. ASSUME NEW x \in S, NEW y \in S, <<x, y>> \in before PROVE rank[x] < rank[y]
  <2>1. Before(x) \subseteq Before(y) /\ x \in Before(y) /\ Before(y) \in SUBSET S
    BY <1>5
  <2>2. Cardinality(Before(x)) < Cardinality(Before(y))
    <3> HIDE DEF Before
    <3> QED BY <1>2, <1>3, <2>1
  <2> QED BY <2>2
<1>6. ASSUME NEW x \in S, NEW y \in S, rank[x] = rank[y] PROVE x = y
  <2> HIDE DEF rank
  <2>1. rank[x] \in Int /\ rank[y] \in Int
    BY <1>1, <1>4
  <2>2. ~(<<x, y>> \in before) /\ ~(<<y, x>> \in before)
    BY <1>5, <1>6, <2>1
  <2> QED BY <2>2
<1>7. rank \in Surjection(S, 0 .. n - 1)
  <2>1. \A x, y \in S : rank[x] = rank[y] => x = y
    BY <1>6
  <2>2. rank \in Injection(S, 0 .. n - 1)
    <3> HIDE DEF rank
    <3> QED BY <1>4, <2>1 DEF Injection, IsInjective
  <2>3. IsFiniteSet(0 .. n - 1) /\ Cardinality(0 .. n - 1) = n
    <3>1. /\ IsFiniteSet(0 .. n - 1)
          /\ Cardinality(0 .. n - 1) = IF 0 > n - 1 THEN 0 ELSE n - 1 - 0 + 1
      <4>1. 0 \in Int /\ n - 1 \in Int
        BY ONLY <1>1
      <4> HIDE DEF n
      <4> QED BY ONLY <4>1, FS_Interval
    <3> QED BY <1>1, <3>1
  <2> HIDE DEF rank
  <2> QED BY <2>2, <2>3, FS_Injection
<1>8. \A k \in 1 .. n : \E x \in S : rank[x] = k - 1
  <2> HIDE DEF rank
  <2> QED BY <1>1, <1>7 DEF Surjection
<1> DEFINE o == Ordered(S, before)
<1>9. \A k \in 1 .. n : o[k] \in S /\ rank[o[k]] = k - 1
  BY <1>8 DEF Ordered
<1>10. o \in [1 .. n -> S]
  <2> DEFINE Kth(k) == CHOOSE x \in S : Cardinality(Before(x)) = k - 1
  <2>1. o = [k \in 1 .. n |-> Kth(k)]
    BY DEF Ordered
  <2> HIDE DEF Kth, o, n, rank
  <2> QED BY <2>1, <1>9
<1> HIDE DEF rank, n, o
<1>11. ASSUME NEW x \in S PROVE \E k \in 1 .. n : o[k] = x
  <2>1. rank[x] + 1 \in 1 .. n /\ rank[x] \in Int
    BY <1>1, <1>4
  <2>2. o[rank[x] + 1] \in S /\ rank[o[rank[x] + 1]] = rank[x]
    BY <1>9, <2>1
  <2>3. o[rank[x] + 1] = x
    BY <1>6, <2>2
  <2> QED BY <2>1, <2>3
<1>12. ASSUME NEW i \in 1 .. n, NEW j \in 1 .. n, i < j PROVE <<o[i], o[j]>> \in before
  <2>1. o[i] \in S /\ o[j] \in S /\ rank[o[i]] = i - 1 /\ rank[o[j]] = j - 1
    BY <1>9
  <2>2. i \in Int /\ j \in Int
    OBVIOUS
  <2>3. o[i] # o[j] /\ ~(<<o[j], o[i]>> \in before)
    BY <1>5, <1>12, <2>1, <2>2
  <2> QED BY <2>1, <2>3
<1> QED BY <1>10, <1>11, <1>12 DEF o, n
=============================================================================
