-------------------------- MODULE SelectionsProofs --------------------------
(* What keeping some elements of a list keeps, for every list.               *)
EXTENDS Selections, FiniteSetTheorems, TLAPS

(* Every set of natural numbers has a least one.                             *)
LEMMA Least ==
    ASSUME NEW T \in SUBSET Nat, T # {}
    PROVE  \E x \in T : \A y \in T : x <= y
<1>1. \E x \in T : \A y \in T : ~ (<<y, x>> \in OpToRel(<, Nat))
  BY NatLessThanWellFounded, WFMin
<1>2. ASSUME NEW x \in Nat, NEW y \in Nat, y < x
      PROVE  <<y, x>> \in OpToRel(<, Nat)
  <2>1. <<y, x>> \in Nat \X Nat
    OBVIOUS
  <2>2. <<y, x>>[1] < <<y, x>>[2]
    BY <1>2
  <2>3. <<y, x>> \in {ss \in Nat \X Nat : ss[1] < ss[2]}
    BY <2>1, <2>2
  <2> QED
    BY <2>3 DEF OpToRel
<1>3. ASSUME NEW x \in Nat, NEW y \in Nat, ~ (y < x)
      PROVE  x <= y
  BY <1>3
<1> QED
  BY <1>1, <1>2, <1>3

Ascends(p, K) ==
    /\ p \in [1..Cardinality(K) -> K]
    /\ \A i, j \in 1..Cardinality(K) : i < j => p[i] < p[j]

(* A finite set of numbers can be listed in ascending order: the least number *)
(* goes before the list of the others.  (There is no smallest counterexample.)*)
LEMMA AscendingExists ==
    ASSUME NEW K \in SUBSET Nat, IsFiniteSet(K)
    PROVE  \E p : Ascends(p, K)
<1> DEFINE Bad == {n \in Nat : \E L \in SUBSET Nat : /\ IsFiniteSet(L) /\ Cardinality(L) = n
                                                     /\ ~ \E p : Ascends(p, L)}
<1>1. ASSUME Bad # {} PROVE FALSE
  <2>1. PICK n \in Bad : \A m \in Bad : n <= m
    BY <1>1, Least
  <2>2. PICK L \in SUBSET Nat : /\ IsFiniteSet(L) /\ Cardinality(L) = n
                                /\ ~ \E p : Ascends(p, L)
    BY <2>1
  <2>3. n \in Nat
    BY <2>1
  <2>4. CASE n = 0
    <3>1. L = {}
      BY <2>2, <2>4, FS_EmptySet
    <3>2. Ascends([i \in 1..0 |-> 0], L)
      BY <2>2, <2>4, <3>1 DEF Ascends
    <3> QED
      BY <2>2, <3>2
  <2>5. CASE n # 0
    <3>1. L # {}
      BY <2>2, <2>5, FS_EmptySet
    <3>2. PICK x \in L : \A y \in L : x <= y
      BY <3>1, Least
    <3>3. /\ IsFiniteSet(L \ {x}) /\ Cardinality(L \ {x}) = n - 1
          /\ L \ {x} \in SUBSET Nat /\ n - 1 \in Nat
      BY <2>2, <2>3, <2>5, <3>2, FS_RemoveElement
    <3>4. n - 1 \notin Bad
      BY <2>1, <2>3
    <3>5. PICK p : Ascends(p, L \ {x})
      BY <3>3, <3>4
    <3>6. /\ p \in [1..(n - 1) -> L \ {x}]
          /\ \A i, j \in 1..(n - 1) : i < j => p[i] < p[j]
      BY <3>3, <3>5 DEF Ascends
    <3> DEFINE q == [i \in 1..n |-> IF i = 1 THEN x ELSE p[i - 1]]
    <3>7. \A i \in 2..n : i - 1 \in 1..(n - 1) /\ q[i] = p[i - 1] /\ p[i - 1] \in L \ {x}
      BY <2>3, <3>6
    <3>8. \A y \in L \ {x} : x < y
      BY <3>2
    <3>9. q \in [1..n -> L]
      <4>1. ASSUME NEW i \in 1..n PROVE q[i] \in L
        <5>1. i = 1 \/ i \in 2..n
          BY <2>3
        <5> QED
          BY <3>2, <3>7, <5>1
      <4> QED
        BY <4>1
    <3>10. ASSUME NEW i \in 1..n, NEW j \in 1..n, i < j PROVE q[i] < q[j]
      <4>1. j \in 2..n
        BY <2>3, <3>10
      <4>2. CASE i = 1
        BY <3>7, <3>8, <4>1, <4>2
      <4>3. CASE i \in 2..n
        <5>1. i - 1 < j - 1
          BY <2>3, <3>10, <4>1
        <5> QED
          BY <3>6, <3>7, <4>1, <4>3, <5>1
      <4> QED
        BY <2>3, <4>2, <4>3
    <3>11. Ascends(q, L)
      BY <2>2, <3>9, <3>10 DEF Ascends
    <3> QED
      BY <2>2, <3>11
  <2> QED
    BY <2>4, <2>5
<1>2. Cardinality(K) \in Nat
  BY FS_CardinalityType
<1> QED
  BY <1>1, <1>2

(* The list of a finite set of numbers ascends, and holds all of them.        *)
LEMMA AscendingFacts ==
    ASSUME NEW K \in SUBSET Nat, IsFiniteSet(K)
    PROVE  /\ Cardinality(K) \in Nat
           /\ Ascending(K) \in [1..Cardinality(K) -> K]
           /\ \A i, j \in 1..Cardinality(K) : i < j => Ascending(K)[i] < Ascending(K)[j]
           /\ \A k \in K : \E i \in 1..Cardinality(K) : Ascending(K)[i] = k
<1> DEFINE n == Cardinality(K)
           a == Ascending(K)
<1>1. n \in Nat
  BY FS_CardinalityType
<1>2. a \in [1..n -> K] /\ \A i, j \in 1..n : i < j => a[i] < a[j]
  <2>1. \E p \in [1..n -> K] : \A i, j \in 1..n : i < j => p[i] < p[j]
    BY AscendingExists DEF Ascends
  <2> QED
    BY <2>1 DEF Ascending
<1> HIDE DEF a
<1>3. \A k \in K : \E i \in 1..n : a[i] = k
  <2>1. a \in Injection(1..n, K)
    <3>1. ASSUME NEW i \in 1..n, NEW j \in 1..n, a[i] = a[j] PROVE i = j
      <4>1. a[i] \in Nat /\ a[j] \in Nat
        BY <1>2
      <4> QED
        BY <1>1, <1>2, <3>1, <4>1
    <3> QED
      BY <1>2, <3>1 DEF Injection, IsInjective
  <2>2. IsFiniteSet(1..n) /\ Cardinality(1..n) = n
    BY <1>1, FS_Interval
  <2>3. a \in Surjection(1..n, K)
    BY <2>1, <2>2, FS_Injection
  <2> QED
    BY <2>3 DEF Surjection
<1> QED
  BY <1>1, <1>2, <1>3 DEF a

(* What is kept of a list s is a list of elements of s, in their order, with   *)
(* each element that is to be kept.                                            *)
LEMMA SelectedFacts ==
    ASSUME NEW S, NEW s \in Seq(S), NEW K \in SUBSET DOMAIN s
    PROVE  /\ Selected(s, K) \in Seq(S) /\ Len(Selected(s, K)) = Cardinality(K)
           /\ Cardinality(K) \in Nat
           /\ Ascending(K) \in [1..Cardinality(K) -> K]
           /\ \A k \in 1..Cardinality(K) : Selected(s, K)[k] = s[Ascending(K)[k]]
           /\ \A i, j \in 1..Cardinality(K) : i < j => Ascending(K)[i] < Ascending(K)[j]
           /\ \A k \in K : \E i \in 1..Cardinality(K) : Ascending(K)[i] = k
<1>1. K \in SUBSET Nat /\ IsFiniteSet(K)
  <2>1. DOMAIN s = 1..Len(s) /\ Len(s) \in Nat
    OBVIOUS
  <2>2. IsFiniteSet(1..Len(s))
    BY <2>1, FS_Interval
  <2> QED
    BY <2>1, <2>2, FS_Subset
<1> DEFINE n == Cardinality(K)
           p == Ascending(K)
<1>2. /\ n \in Nat /\ p \in [1..n -> K]
      /\ \A i, j \in 1..n : i < j => p[i] < p[j]
      /\ \A k \in K : \E i \in 1..n : p[i] = k
  BY <1>1, AscendingFacts
<1>3. Selected(s, K) = [k \in 1..n |-> s[p[k]]]
  BY DEF Selected
<1> HIDE DEF n, p
<1>4. \A k \in 1..n : s[p[k]] \in S
  BY <1>2
<1>5. Selected(s, K) \in Seq(S) /\ Len(Selected(s, K)) = n
  BY <1>2, <1>3, <1>4
<1>6. \A k \in 1..n : Selected(s, K)[k] = s[p[k]]
  BY <1>3
<1> QED
  BY <1>2, <1>5, <1>6 DEF n, p
=============================================================================
