---------------------------- MODULE Selections ----------------------------
(***************************************************************************)
(* What a loop makes of a list when it keeps some of its elements: they    *)
(* stay in their order.                                                    *)
(***************************************************************************)
EXTENDS Naturals, Sequences, FiniteSets

\* The numbers of a finite set, from the smallest to the largest
Ascending(K) ==
    CHOOSE p \in [1..Cardinality(K) -> K] : \A i, j \in 1..Cardinality(K) : i < j => p[i] < p[j]

\* The elements of s at the positions K
Selected(s, K) == LET p == Ascending(K) IN [k \in 1..Cardinality(K) |-> s[p[k]]]
=============================================================================
