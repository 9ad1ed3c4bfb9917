--------------------------- MODULE SessionService ---------------------------
(***************************************************************************)
(* What cookie sessions promise a caller, with no slots, generations,      *)
(* leases or locks: a session is opened once, lives until it ends, and is  *)
(* never live again; an operation enters only a live session, the one it   *)
(* asked for, and keeps it until it leaves; and the sessions that take     *)
(* memory, the live ones and those ended but still in use, are at most     *)
(* Limit.                                                                  *)
(***************************************************************************)
EXTENDS Naturals, FiniteSets

CONSTANTS Sessions, Users, Limit, Nobody

VARIABLES
  live,      \* sessions a handle can still enter
  ended,     \* sessions that were live and never will be again
  inside     \* the session each user is in, or Nobody

svars == <<live, ended, inside>>

SInit == live = {} /\ ended = {} /\ inside = [u \in Users |-> Nobody]

InUse == {inside[u] : u \in Users} \ {Nobody}

OpenSession(s) ==
  /\ s \notin live \cup ended
  /\ Cardinality(live \cup InUse) < Limit
  /\ live' = live \cup {s}
  /\ UNCHANGED <<ended, inside>>

\* By its handle, or by eviction.
EndSession(s) ==
  /\ s \in live
  /\ live' = live \ {s}
  /\ ended' = ended \cup {s}
  /\ UNCHANGED inside

Enter(u, s) ==
  /\ inside[u] = Nobody
  /\ s \in live
  /\ inside' = [inside EXCEPT ![u] = s]
  /\ UNCHANGED <<live, ended>>

Leave(u) ==
  /\ inside[u] # Nobody
  /\ inside' = [inside EXCEPT ![u] = Nobody]
  /\ UNCHANGED <<live, ended>>

SNext ==
  \/ \E s \in Sessions : OpenSession(s) \/ EndSession(s)
  \/ \E u \in Users : Leave(u) \/ \E s \in Sessions : Enter(u, s)

SSpec == SInit /\ [][SNext]_svars
=============================================================================
