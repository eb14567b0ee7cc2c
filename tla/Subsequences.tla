---------------------------- MODULE Subsequences ----------------------------
(***************************************************************************)
(* What is left of a sequence when some of its elements are taken out,     *)
(* said by their positions: unlike SelectSeq, without recursion.           *)
(***************************************************************************)
EXTENDS Naturals, FiniteSets, Sequences

\* The n-th smallest of a finite set of numbers.
Nth(K, n) == CHOOSE i \in K : Cardinality({j \in K : j <= i}) = n

\* The elements at these positions, in order.
Kept(s, K) == [n \in 1 .. Cardinality(K) |-> s[Nth(K, n)]]
=============================================================================
