-------------------------- MODULE MCCircuitBreaker --------------------------
(* Small instances of CircuitBreaker for TLC: two connections that share a *)
(* key may carry different policies.                                       *)
EXTENDS CircuitBreaker, TLC

OnePolicy   == {[threshold |-> 1, recovery |-> 1, work |-> 1]}
TwoPolicies == {[threshold |-> 1, recovery |-> 1, work |-> 3],
                [threshold |-> 2, recovery |-> 1, work |-> 1]}
Symmetry == Permutations(Requests) \cup Permutations(Keys)
=============================================================================
