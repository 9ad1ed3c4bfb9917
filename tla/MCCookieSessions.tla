-------------------------- MODULE MCCookieSessions --------------------------
(* Small instances of CookieSessions for TLC.                              *)
EXTENDS CookieSessions, TLC

Symmetry == Permutations(Tasks)
=============================================================================
