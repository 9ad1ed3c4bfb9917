--------------------------- MODULE RequestDispatch ---------------------------
(***************************************************************************)
(* How a request gets on the wire.  It obtains its OAuth token (from the   *)
(* cache, or by an exchange that only one request makes at a time), then   *)
(* each attempt reserves the next slot of the engine's only rate limiter,  *)
(* waits for it, takes a permit of the engine's semaphore, and is sent.    *)
(* The token exchange is itself a request: it goes through the same        *)
(* limiter, the same semaphore and the same retry loop while the refresh   *)
(* lock is held.                                                           *)
(*                                                                         *)
(* Time is relative: timers, the limiter's next_allowed and the life of a  *)
(* token count down to zero with Tick, and a request that may go on is not *)
(* bound to go on at once.  A request's future may be dropped anywhere.    *)
(***************************************************************************)
EXTENDS Integers, FiniteSetsExt

CONSTANTS
  Requests,         \* requests that may run at once
  TokenKeys,        \* token URL, credentials and transport settings
  NoToken,          \* the key of a request with no OAuth
  Kinds,            \* what requests are like, see Kind
  MaxConcurrent,    \* max_concurrent_requests
  MaxAttempts,      \* retry.max_attempts
  MaxCachedTokens,  \* MAX_CACHED_TOKENS
  Delays,           \* waits between two attempts
  Lives,            \* seconds a token may be used for, margin deducted
  MaxAhead          \* bound: no request starts while slots are taken further ahead

ASSUME ConcurrencyAssumption == MaxConcurrent \in Nat \ {0}
ASSUME AttemptsAssumption    == MaxAttempts \in Nat \ {0}
ASSUME CachedAssumption      == MaxCachedTokens \in Nat \ {0}
ASSUME DurationsAssumption   == Delays \subseteq Nat /\ Lives \subseteq Nat \ {0}
ASSUME AheadAssumption       == MaxAhead \in Nat
ASSUME NoTokenAssumption     == NoToken \notin TokenKeys

\* interval: ticks between two requests at the connection's or the engine's
\* rate, zero with no rate.  retries: the method is idempotent, or the policy
\* retries it all the same.
Kind == [interval: Nat, key: TokenKeys \cup {NoToken}, download: BOOLEAN,
         retries: BOOLEAN, redirects: Nat]
ASSUME KindsAssumption == Kinds \subseteq Kind

VARIABLES
  ahead,      \* next_allowed - now, zero when it has passed
  permits,    \* the requests that hold a permit
  refresher,  \* the request that holds the refresh lock, if any
  life,       \* per key, what the cached token has left; zero: none
  pc, kind, exchanging, attempt, hops, timer   \* per request

vars == <<ahead, permits, refresher, life, pc, kind, exchanging,
          attempt, hops, timer>>

Locations == {"idle", "token", "refresh", "reserve", "slot", "sent", "backoff"}

Init ==
  /\ ahead = 0 /\ permits = {} /\ refresher = {}
  /\ life = [k \in TokenKeys |-> 0]
  /\ pc = [r \in Requests |-> "idle"]
  /\ kind = [r \in Requests |-> {}]
  /\ exchanging = {}
  /\ attempt = [r \in Requests |-> 1]
  /\ hops = [r \in Requests |-> 0]
  /\ timer = [r \in Requests |-> 0]

-----------------------------------------------------------------------------

Goto(r, where) == pc' = [pc EXCEPT ![r] = where]
Of(r) == CHOOSE k \in kind[r] : TRUE
Valid(k) == k # NoToken /\ life[k] > 0

Start(r, k) ==
  /\ pc[r] = "idle"
  /\ ahead <= MaxAhead
  /\ kind' = [kind EXCEPT ![r] = {k}]
  /\ Goto(r, IF k.key = NoToken THEN "reserve" ELSE "token")
  /\ UNCHANGED <<ahead, permits, refresher, life, exchanging, attempt,
                 hops, timer>>

\* oauth_token, before the refresh lock.
LookUpToken(r) ==
  /\ pc[r] = "token"
  /\ Goto(r, IF Valid(Of(r).key) THEN "reserve" ELSE "refresh")
  /\ UNCHANGED <<ahead, permits, refresher, life, kind, exchanging,
                 attempt, hops, timer>>

\* Faulty variant: no second look.
TrustFirstLook(r) == FALSE

\* The second look at the cache, under the refresh lock.
FoundUnderLock(r)  == Valid(Of(r).key)

LockRefresh(r) ==
  /\ pc[r] = "refresh"
  /\ refresher = {}
  /\ IF FoundUnderLock(r)
     THEN UNCHANGED <<refresher, exchanging>>
     ELSE refresher' = {r} /\ exchanging' = exchanging \cup {r}
  /\ Goto(r, "reserve")
  /\ UNCHANGED <<ahead, permits, life, kind, attempt, hops, timer>>

\* Faulty variant: the next slot counted from now.
NextFromNow(interval) == interval

\* admit_request, the limiter: the slot is taken whether or not it is used.
NextAllowed(interval) == ahead + interval

ReserveSlot(r) ==
  /\ pc[r] = "reserve"
  /\ IF Of(r).interval = 0
     THEN UNCHANGED <<ahead, timer>>
     ELSE /\ ahead' = NextAllowed(Of(r).interval)
          /\ timer' = [timer EXCEPT ![r] = ahead]
  /\ Goto(r, "slot")
  /\ UNCHANGED <<permits, refresher, life, kind, exchanging, attempt, hops>>

\* admit_request, the semaphore, and the send that follows.
Send(r) ==
  /\ pc[r] = "slot" /\ timer[r] = 0
  /\ Cardinality(permits) < MaxConcurrent
  /\ permits' = permits \cup {r}
  /\ Goto(r, "sent")
  /\ UNCHANGED <<ahead, refresher, life, kind, exchanging, attempt, hops, timer>>

-----------------------------------------------------------------------------
(* What becomes of a request that was sent.                                *)

\* send_once_response follows a redirect to the same origin.
Redirected(r) ==
  /\ pc[r] = "sent"
  /\ r \notin exchanging
  /\ hops[r] < Of(r).redirects
  /\ hops' = [hops EXCEPT ![r] = @ + 1]
  /\ permits' = permits \ {r}
  /\ Goto(r, "reserve")
  /\ UNCHANGED <<ahead, refresher, life, kind, exchanging, attempt, timer>>

Retries(r) ==
  IF r \in exchanging THEN attempt[r] < 2
                      ELSE Of(r).retries /\ attempt[r] < MaxAttempts

BackOff(r, d) ==
  /\ pc[r] = "sent" /\ Retries(r)
  /\ timer' = [timer EXCEPT ![r] = d]
  /\ Goto(r, "backoff")
  /\ UNCHANGED <<ahead, refresher, life, kind, exchanging, attempt, hops>>

\* A retryable transport error, or a retryable status of a request that is no
\* download: the permit is given back before the wait.
RetryLater(r, d) == BackOff(r, d) /\ permits' = permits \ {r}

\* A retryable status of a download: the response, and with it the permit, is
\* kept until the wait is over.
RetryDownload(r, d) ==
  /\ BackOff(r, d)
  /\ Of(r).download /\ r \notin exchanging
  /\ UNCHANGED permits

NextAttempt(r) ==
  /\ pc[r] = "backoff" /\ timer[r] = 0
  /\ attempt' = [attempt EXCEPT ![r] = @ + 1]
  /\ hops' = [hops EXCEPT ![r] = 0]
  /\ permits' = permits \ {r}
  /\ Goto(r, "reserve")
  /\ UNCHANGED <<ahead, refresher, life, kind, exchanging, timer>>

\* The tokens that leave a full cache are those that expire first.
Live == {k \in TokenKeys : life[k] > 0}
Victims(S) ==
  /\ S \subseteq Live
  /\ Cardinality(Live \ S) = Min({Cardinality(Live), MaxCachedTokens - 1})
  /\ \A k \in S, j \in Live \ S : life[k] <= life[j]

StoreToken(key, n) ==
  \E S \in SUBSET TokenKeys :
    /\ Victims(S)
    /\ life' = [k \in TokenKeys |-> IF k = key THEN n
                                    ELSE IF k \in S THEN 0 ELSE life[k]]

\* The exchange succeeds: the request goes on with its token.
TokenObtained(r, n) ==
  /\ pc[r] = "sent"
  /\ r \in exchanging
  /\ StoreToken(Of(r).key, n)
  /\ refresher' = refresher \ {r}
  /\ exchanging' = exchanging \ {r}
  /\ permits' = permits \ {r}
  /\ attempt' = [attempt EXCEPT ![r] = 1]
  /\ Goto(r, "reserve")
  /\ UNCHANGED <<ahead, kind, hops, timer>>

\* Faulty variant: the refresh lock is given back by success only.
ForgetAllButLock(r) ==
  /\ exchanging' = exchanging \ {r}
  /\ permits' = permits \ {r}
  /\ attempt' = [attempt EXCEPT ![r] = 1]
  /\ hops' = [hops EXCEPT ![r] = 0]
  /\ timer' = [timer EXCEPT ![r] = 0]
  /\ kind' = [kind EXCEPT ![r] = {}]
  /\ Goto(r, "idle")
  /\ UNCHANGED <<ahead, refresher, life>>

\* What dropping the future of a request gives back: lock, permit and timer.
Forget(r) ==
  /\ refresher' = refresher \ {r}
  /\ exchanging' = exchanging \ {r}
  /\ permits' = permits \ {r}
  /\ attempt' = [attempt EXCEPT ![r] = 1]
  /\ hops' = [hops EXCEPT ![r] = 0]
  /\ timer' = [timer EXCEPT ![r] = 0]
  /\ kind' = [kind EXCEPT ![r] = {}]
  /\ Goto(r, "idle")
  /\ UNCHANGED <<ahead, life>>

\* A response was read, or the request or its token exchange failed for good.
Finish(r) == pc[r] = "sent" /\ Forget(r)

Drop(r) == pc[r] # "idle" /\ Forget(r)

-----------------------------------------------------------------------------

Earlier(n) == IF n > 0 THEN n - 1 ELSE 0

Tick ==
  /\ ahead' = Earlier(ahead)
  /\ timer' = [r \in Requests |-> Earlier(timer[r])]
  /\ life' = [k \in TokenKeys |-> Earlier(life[k])]
  /\ UNCHANGED <<permits, refresher, pc, kind, exchanging, attempt, hops>>

Answered(r) ==
  \/ Redirected(r) \/ Finish(r)
  \/ \E d \in Delays : RetryLater(r, d) \/ RetryDownload(r, d)
  \/ \E n \in Lives : TokenObtained(r, n)

Next ==
  \/ \E r \in Requests :
       \/ \E k \in Kinds : Start(r, k)
       \/ LookUpToken(r) \/ LockRefresh(r)
       \/ ReserveSlot(r) \/ Send(r) \/ NextAttempt(r)
       \/ Redirected(r) \/ Finish(r) \/ Drop(r)
       \/ \E d \in Delays : RetryLater(r, d) \/ RetryDownload(r, d)
       \/ \E n \in Lives : TokenObtained(r, n)
  \/ Tick

Spec == Init /\ [][Next]_vars

(* Time passes and tasks are scheduled; a request that was sent is answered *)
(* or times out (every request has a timeout); the mutex and the semaphore  *)
(* are handed over in FIFO order.  Nothing forces a request to be started   *)
(* or dropped.                                                              *)
Fairness ==
  /\ WF_vars(Tick)
  /\ \A r \in Requests : /\ WF_vars(LookUpToken(r)) /\ SF_vars(LockRefresh(r))
                         /\ WF_vars(ReserveSlot(r)) /\ SF_vars(Send(r))
                         /\ WF_vars(Answered(r)) /\ WF_vars(NextAttempt(r))
-----------------------------------------------------------------------------
(* Properties.                                                             *)

\* Every variable keeps its shape.
TypeOK ==
  /\ ahead \in Nat
  /\ permits \subseteq Requests /\ exchanging \subseteq Requests
  /\ refresher \subseteq Requests
  /\ life \in [TokenKeys -> Nat]
  /\ pc \in [Requests -> Locations]
  /\ kind \in [Requests -> SUBSET Kinds]
  /\ attempt \in [Requests -> 1..Max({2, MaxAttempts})]
  /\ hops \in [Requests -> Nat]
  /\ timer \in [Requests -> Nat]

\* Two requests that wait for slots in the future never share one, and the gap
\* between them is at least the interval of the earlier one, whatever mix of
\* rates the connections use and however many requests were dropped while they
\* waited (admit_request).
Limited(r) == pc[r] = "slot" /\ timer[r] > 0
SlotsAreSpaced ==
  \A r, q \in Requests :
    (r # q /\ Limited(r) /\ Limited(q) /\ timer[r] <= timer[q])
      => timer[q] >= timer[r] + Of(r).interval

\* A token is fetched only when none is valid: the request that stored the
\* last one ends the wait of all those behind it (oauth_token).
NoRedundantExchange ==
  [][\A r \in Requests :
       (r \in exchanging /\ r \notin exchanging' /\ pc'[r] = "reserve")
         => life[Of(r).key] = 0]_vars

\* Every request ends, and those that wait for the refresh lock, for a slot or
\* for a permit get it, even though the lock is held across an exchange that
\* needs a permit and downloads keep theirs while they back off.
EveryRequestEnds == \A r \in Requests : pc[r] # "idle" ~> pc[r] = "idle"
=============================================================================
