----------------------------- MODULE Selections -----------------------------
(***************************************************************************)
(* The entries of a sequence that a list comprehension with a condition    *)
(* keeps, and the least entry under an order.                              *)
(***************************************************************************)
EXTENDS Naturals, Sequences, FiniteSets

\* How many of the positions P come before n, n included.
Rank(P, n) == Cardinality({m \in P : m <= n})

\* The i-th of the positions P, and the entries of s at them, in order.
Nth(P, i) == CHOOSE n \in P : Rank(P, n) = i
Selected(s, P) == [i \in 1 .. Cardinality(P) |-> s[Nth(P, i)]]
=============================================================================
