-------------------------------- MODULE Ordering --------------------------------
(* Sorting, as the standard library and SQLite do it: the elements of a set in    *)
(* the order of a relation, which is given as a set of pairs.  The k-th element    *)
(* is the one that k - 1 others come before.                                       *)
EXTENDS Integers, FiniteSets

Ordered(S, before) ==
  [k \in 1 .. Cardinality(S) |-> CHOOSE x \in S : Cardinality({y \in S : <<y, x>> \in before}) = k - 1]
=============================================================================
