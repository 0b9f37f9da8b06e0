----------------------------- MODULE Selections -----------------------------
(***************************************************************************)
(* The numbers of a finite set in increasing order, and the elements of a  *)
(* sequence at given positions in the order they have in it.  Both are     *)
(* defined by counting, not by recursion, so that proofs can use them.     *)
(***************************************************************************)
EXTENDS Integers, FiniteSets

\* How many numbers of S are not above i, and the number that has k such.
Rank(S, i) == Cardinality({j \in S : j <= i})
Nth(S, k) == CHOOSE i \in S : Rank(S, i) = k

Ascending(S) == [k \in 1 .. Cardinality(S) |-> Nth(S, k)]
Selection(s, K) == [k \in 1 .. Cardinality(K) |-> s[Nth(K, k)]]
=============================================================================
