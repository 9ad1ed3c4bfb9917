-------------------------------- MODULE Ordering --------------------------------
(* Records are numbers, and what is told of some of them is told in the     *)
(* order of their numbers, whatever order they came in.                     *)
EXTENDS Integers, FiniteSets

(* The members of a finite set of numbers, from the least to the greatest. *)
InOrder(S) ==
  [i \in 1..Cardinality(S) |-> CHOOSE r \in S : Cardinality({q \in S : q < r}) = i - 1]
=============================================================================
