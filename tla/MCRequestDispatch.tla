-------------------------- MODULE MCRequestDispatch --------------------------
(* Small instances of RequestDispatch for TLC.                             *)
EXTENDS RequestDispatch, TLC

CONSTANTS k1, k2

Plain    == [interval |-> 1, key |-> NoToken, download |-> FALSE,
             retries |-> FALSE, redirects |-> 0]
Slow     == [interval |-> 2, key |-> k1, download |-> FALSE,
             retries |-> TRUE, redirects |-> 0]
Download == [interval |-> 1, key |-> k1, download |-> TRUE,
             retries |-> TRUE, redirects |-> 1]
Unpaced  == [interval |-> 0, key |-> k2, download |-> FALSE,
             retries |-> FALSE, redirects |-> 0]

Mixed     == {Plain, Slow, Download, Unpaced}
Symmetry  == Permutations(Requests)
=============================================================================
