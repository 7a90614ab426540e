------------------------------- MODULE Order --------------------------------
(***************************************************************************)
(* ORDER BY and WHERE, without recursion: a set of numbers as an           *)
(* increasing sequence, and the elements of a sequence at some of its      *)
(* positions, in their order.                                              *)
(***************************************************************************)
EXTENDS Integers, FiniteSets

Upto(S, x) == {y \in S : y <= x}

\* The i-th element is the one with i elements up to it.
Sorted(S) ==
  [i \in 1..Cardinality(S) |-> CHOOSE x \in S : Cardinality(Upto(S, x)) = i]

\* The elements of q at the positions J.
At(q, J) == LET at == Sorted(J) IN [i \in DOMAIN at |-> q[at[i]]]
=============================================================================
