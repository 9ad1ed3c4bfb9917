---------------------------- MODULE MCRequestRate ----------------------------
(* Small instances of RequestRate for TLC: one request per tick.           *)
EXTENDS RequestRate, TLC

OnlyPlain == {[interval |-> 1, key |-> NoToken, download |-> FALSE,
               retries |-> FALSE, redirects |-> 0]}
Symmetry  == Permutations(Requests)
=============================================================================
