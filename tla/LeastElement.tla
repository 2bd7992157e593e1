---------------------------- MODULE LeastElement ----------------------------
(***************************************************************************)
(* Facts about sets of naturals that scans of tables rely on: the first    *)
(* slot that fits is a slot that fits, and a large enough set has an i-th  *)
(* smallest element.                                                       *)
(***************************************************************************)
EXTENDS Integers, FiniteSets, FiniteSetsExt, FiniteSetTheorems, WellFoundedInduction, TLAPS

\* The least element of a nonempty set of naturals is one of its elements, and
\* none of them is smaller: what a scan from slot 0 upwards finds.
LEMMA MinIn ==
    ASSUME NEW S, S \subseteq Nat, S # {}
    PROVE  Min(S) \in S /\ \A y \in S : Min(S) =< y
<1> DEFINE R == OpToRel(<, Nat)
<1>1. IsWellFoundedOn(R, Nat)
  BY NatLessThanWellFounded
<1>2. \A x, y \in Nat : x < y => <<x, y>> \in R
  BY DEF OpToRel
<1> HIDE DEF R
<1>3. PICK x \in S : \A y \in S : <<y, x>> \notin R
  BY <1>1, WFMin
<1>4. \A y \in S : x =< y
  <2> TAKE y \in S
  <2>1. x \in Nat /\ y \in Nat
    OBVIOUS
  <2>2. ~(y < x)
    BY <1>2, <1>3, <2>1
  <2> QED
    BY <2>1, <2>2
<1> QED
  BY <1>4 DEF Min

\* The elements of S below x.
Smaller(S, x) == {y \in S : y < x}

\* A finite set of naturals with more than i elements has one with exactly i
\* smaller ones: the page that the i-th of several kalloc calls returns.
LEMMA Ranked ==
    ASSUME NEW N \in Nat, NEW S, S \subseteq 0..N, NEW i \in Nat, i < Cardinality(S)
    PROVE  \E x \in S : Cardinality(Smaller(S, x)) = i
<1> DEFINE B(n) == {y \in S : y < n}
           T == {n \in Nat : i < Cardinality(B(n))}
<1>0. \A y \in S : y \in Nat /\ y =< N
  OBVIOUS
<1>1. IsFiniteSet(S)
  <2>1. IsFiniteSet(0..N)
    BY FS_Interval
  <2> QED
    BY <2>1, FS_Subset
<1>2. ASSUME NEW n PROVE IsFiniteSet(B(n)) /\ Cardinality(B(n)) \in Nat
  BY <1>1, FS_Subset, FS_CardinalityType
<1>3. N + 1 \in T
  <2>1. B(N + 1) = S
    <3>1. \A y \in S : y < N + 1
      BY <1>0
    <3> QED
      BY <3>1
  <2> HIDE DEF B
  <2> QED
    BY <2>1
<1>4. PICK n \in T : \A m \in T : n =< m
  <2>1. T \subseteq Nat /\ T # {}
    BY <1>3
  <2> HIDE DEF T
  <2> QED
    BY <2>1, MinIn
<1>5. n \in Nat /\ i < Cardinality(B(n))
  BY <1>4
<1>6. n # 0
  <2>1. ASSUME n = 0 PROVE FALSE
    <3>1. B(n) = {}
      <4>1. \A y \in S : ~(y < n)
        BY <1>0, <2>1
      <4> QED
        BY <4>1
    <3>2. Cardinality(B(n)) = 0
      BY <3>1, FS_EmptySet
    <3> QED
      BY <1>5, <3>2
  <2> QED
    BY <2>1
<1> DEFINE m == n - 1
<1>7. m \in Nat /\ m < n
  BY <1>5, <1>6
<1>8. Cardinality(B(m)) =< i
  <2>1. m \notin T
    BY <1>4, <1>5, <1>7
  <2>2. ~(i < Cardinality(B(m)))
    BY <1>7, <2>1
  <2>3. Cardinality(B(m)) \in Nat
    BY <1>2
  <2> HIDE DEF B, m
  <2> QED
    BY <2>2, <2>3
<1>9. CASE m \in S
  <2>1. B(n) = B(m) \cup {m} /\ m \notin B(m)
    <3>1. \A y \in S : y < n <=> y < m \/ y = m
      BY <1>0, <1>5, <1>7
    <3>2. m < n /\ ~(m < m)
      BY <1>7
    <3> HIDE DEF m
    <3> QED
      BY <1>9, <3>1, <3>2
  <2> HIDE DEF B
  <2>2. Cardinality(B(n)) = Cardinality(B(m)) + 1
    BY <1>2, <2>1, FS_AddElement
  <2>3. Cardinality(B(m)) = i
    BY <1>2, <1>5, <1>8, <2>2
  <2> USE DEF B
  <2> QED
    BY <1>9, <2>3 DEF Smaller
<1>10. CASE m \notin S
  <2>1. B(n) = B(m)
    <3>1. \A y \in S : y < n <=> y < m \/ y = m
      BY <1>0, <1>5, <1>7
    <3> HIDE DEF m
    <3> QED
      BY <1>10, <3>1
  <2> HIDE DEF B
  <2> QED
    BY <1>2, <1>5, <1>8, <2>1
<1> QED
  BY <1>9, <1>10
=============================================================================
