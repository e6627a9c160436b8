------------------------------- MODULE Order -------------------------------
(***************************************************************************)
(* A finite set of numbers as the sequence of them in ascending order.     *)
(***************************************************************************)
EXTENDS Integers, FiniteSets

Rank(S, n) == Cardinality({m \in S : m <= n})
Sorted(S) == [k \in 1 .. Cardinality(S) |-> CHOOSE n \in S : Rank(S, n) = k]
=============================================================================
