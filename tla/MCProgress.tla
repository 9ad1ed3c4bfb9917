------------------------------- MODULE MCProgress -------------------------------
(* Liveness, on small instances without symmetry: the calls of the cookie  *)
(* registry and the requests of the dispatch share no state. A behaviour   *)
(* runs one of the two, under its fairness, and leaves the other where it  *)
(* began.                                                                  *)
EXTENDS Naturals, FiniteSets

CONSTANTS Tasks, Origins, Nonces, Capacity, MaxPooled, MaxGeneration, MaxSequence

CONSTANTS Requests, TokenKeys, NoToken, MaxConcurrent, MaxAttempts,
          MaxCachedTokens, Delays, Lives, MaxAhead, k1, k2

VARIABLES
  part,
  slots, grown, owner, clients, leases, sequence, issued, orphaned,
  pc, drawn, dying, holds, asked, target, using,
  ahead, permits, refresher, life, requestPc, kind, exchanging, attempt, hops, timer

sessionVars == <<slots, grown, owner, clients, leases, sequence, issued, orphaned,
                 pc, drawn, dying, holds, asked, target, using>>
dispatchVars == <<ahead, permits, refresher, life, requestPc, kind, exchanging,
                  attempt, hops, timer>>

(* A request without a token that is retried, a download that needs one,   *)
(* and one with another token that no rate limits.                         *)
Mixed ==
  {[interval |-> 1, key |-> NoToken, download |-> FALSE, retries |-> FALSE, redirects |-> 0],
   [interval |-> 2, key |-> k1, download |-> FALSE, retries |-> TRUE, redirects |-> 0],
   [interval |-> 1, key |-> k1, download |-> TRUE, retries |-> TRUE, redirects |-> 1],
   [interval |-> 0, key |-> k2, download |-> FALSE, retries |-> FALSE, redirects |-> 0]}

Sessions == INSTANCE CookieSessions
Dispatch == INSTANCE RequestDispatch WITH Kinds <- Mixed, pc <- requestPc

ProgressInit ==
  part \in {"sessions", "dispatch"} /\ Sessions!Init /\ Dispatch!Init

ProgressNext ==
  \/ part = "sessions" /\ Sessions!Next /\ UNCHANGED <<part, dispatchVars>>
  \/ part = "dispatch" /\ Dispatch!Next /\ UNCHANGED <<part, sessionVars>>

ProgressSpec ==
  /\ ProgressInit
  /\ [][ProgressNext]_<<part, sessionVars, dispatchVars>>
  /\ \/ part = "sessions" /\ Sessions!Fairness
     \/ part = "dispatch" /\ Dispatch!Fairness

(* CookieSessions: every open, close and admission ends.                   *)
CallsReturn == Sessions!CallsReturn

(* RequestDispatch: every request ends.                                    *)
EveryRequestEnds == Dispatch!EveryRequestEnds
=============================================================================
