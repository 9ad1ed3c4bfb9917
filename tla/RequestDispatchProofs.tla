-------------------------- MODULE RequestDispatchProofs --------------------------
(***************************************************************************)
(* Theorems about when requests are made: RequestDispatch and RequestRate, *)
(* for any number of requests, any mix of rates and any durations, and     *)
(* Backoff, for any widths of its words, any settings and any doubles.     *)
(*                                                                         *)
(* Slots: a slot that is waited for ends before the limiter's next one     *)
(* (BehindNext), and a timer runs only in a wait (NoStrayTimer), so that a *)
(* request with no rate does not seem to wait for a slot.                  *)
(*                                                                         *)
(* Rate: when every request is paced by one interval and finds a permit,   *)
(* the requests of the last second are as far apart as the interval        *)
(* (SentApart), and so are at most the rate.                               *)
(*                                                                         *)
(* Tokens: the request that makes the exchange is the one that holds the   *)
(* refresh lock, and no token for its key is cached meanwhile              *)
(* (ExchangesAlone).                                                       *)
(*                                                                         *)
(* Waits: each step of a backoff holds the delay of its definition exactly *)
(* in two words (AdvancedIs), and each truncation adds less than a unit to *)
(* what the delay lacks of the ideal, so that it lacks less than a         *)
(* millisecond until the cap is reached (Near). The delays are defined by  *)
(* recursion: that they exist, and that what holds of the first and of the *)
(* next holds of all, is proved from the least member of a set of naturals *)
(* (Induction, Recursion).                                                 *)
(***************************************************************************)
EXTENDS RequestRate, Backoff, FiniteSetTheorems, WellFoundedInduction, TLAPS

\* The request of r, once it has started.
Known(r) == kind[r] = {Of(r)} /\ Of(r) \in Kinds

DispatchType ==
  /\ ahead \in Nat
  /\ pc \in [Requests -> Locations]
  /\ timer \in [Requests -> Nat]
  /\ life \in [TokenKeys -> Nat]
  /\ refresher \in SUBSET Requests /\ exchanging \in SUBSET Requests
  /\ DOMAIN kind = Requests
  /\ \A r \in Requests : pc[r] # "idle" => Known(r)

NoStrayTimer == \A r \in Requests : pc[r] \notin {"slot", "backoff"} => timer[r] = 0
BehindNext ==
  \A r \in Requests :
    Limited(r) => Of(r).interval > 0 /\ timer[r] + Of(r).interval <= ahead

ExchangesAlone ==
  /\ \A r \in Requests : pc[r] \in {"token", "refresh"} => Of(r).key \in TokenKeys
  /\ \A r \in exchanging :
       /\ refresher = {r} /\ pc[r] \in {"reserve", "slot", "sent", "backoff"}
       /\ Of(r).key \in TokenKeys /\ life[Of(r).key] = 0

SlotInv  == DispatchType /\ NoStrayTimer /\ BehindNext /\ SlotsAreSpaced
TokenInv == DispatchType /\ ExchangesAlone

-----------------------------------------------------------------------------
(* What a step does to the requests.                                       *)

\* A request that runs is of a kind in use.
LEMMA KnownKind ==
  ASSUME NEW r, Known(r)
  PROVE  /\ Of(r).interval \in Nat /\ Of(r).key \in TokenKeys \cup {NoToken}
BY KindsAssumption DEF Known, Kind

\* The kind of a request is chosen as it starts, and kept until it ends.
LEMMA StartKnows ==
  ASSUME NEW r \in Requests, NEW k \in Kinds, DOMAIN kind = Requests, Start(r, k)
  PROVE  /\ Known(r)' /\ Of(r)' = k
         /\ \A q \in Requests \ {r} : kind'[q] = kind[q] /\ Of(q)' = Of(q)
<1>1. kind' = [kind EXCEPT ![r] = {k}]
  BY DEF Start
<1>2. kind'[r] = {k} /\ \A q \in Requests \ {r} : kind'[q] = kind[q]
  BY <1>1
<1>3. Of(r)' = k
  BY <1>2 DEF Of
<1> QED BY <1>2, <1>3 DEF Known, Of

\* A step of a request that has started, other than its end, by which it goes
\* from one place to the next.
Moves(r, where) ==
  /\ pc[r] # "idle" /\ where \in Locations \ {"idle"}
  /\ pc' = [pc EXCEPT ![r] = where]
  /\ UNCHANGED kind

\* A request that goes on keeps its kind, and the others theirs.
LEMMA MovesKeepType ==
  ASSUME DispatchType, NEW r \in Requests, NEW where, Moves(r, where)
  PROVE  /\ pc' \in [Requests -> Locations] /\ DOMAIN kind' = Requests
         /\ \A q \in Requests : pc'[q] # "idle" => Known(q)'
         /\ \A q \in Requests : Of(q)' = Of(q)
<1>1. \A q \in Requests : Of(q)' = Of(q) /\ (Known(q)' <=> Known(q))
  BY DEF Moves, Of, Known
<1>2. \A q \in Requests : pc'[q] # "idle" => pc[q] # "idle"
  BY DEF Moves, DispatchType
<1>3. pc' \in [Requests -> Locations]
  BY DEF Moves, DispatchType
<1> QED BY <1>1, <1>2, <1>3 DEF DispatchType, Moves

\* No request has begun.
LEMMA DispatchStarts == Init => SlotInv /\ TokenInv
<1> SUFFICES ASSUME Init PROVE SlotInv /\ TokenInv
  OBVIOUS
<1>1. DispatchType
  BY DEF Init, DispatchType, Locations
<1>2. NoStrayTimer /\ BehindNext /\ SlotsAreSpaced
  BY DEF Init, NoStrayTimer, BehindNext, SlotsAreSpaced, Limited
<1>3. ExchangesAlone
  BY DEF Init, ExchangesAlone
<1> QED BY <1>1, <1>2, <1>3 DEF SlotInv, TokenInv

\* No step loses the shape of the state.
LEMMA TypeStep == DispatchType /\ [Next]_vars => DispatchType'
<1> SUFFICES ASSUME DispatchType, [Next]_vars PROVE DispatchType'
  OBVIOUS
<1>1. CASE UNCHANGED vars
  BY <1>1 DEF vars, DispatchType, Known, Of
<1>2. ASSUME NEW r \in Requests, NEW k \in Kinds, Start(r, k)
      PROVE  DispatchType'
  <2>1. /\ pc' \in [Requests -> Locations]
        /\ \A q \in Requests \ {r} : pc'[q] = pc[q]
    BY <1>2 DEF Start, Goto, DispatchType, Locations
  <2>2. /\ Known(r)' /\ \A q \in Requests \ {r} : kind'[q] = kind[q] /\ Of(q)' = Of(q)
    BY <1>2, StartKnows DEF DispatchType
  <2>3. \A q \in Requests : pc'[q] # "idle" => Known(q)'
    BY <2>1, <2>2 DEF Known, DispatchType
  <2> QED BY <1>2, <2>1, <2>3 DEF Start, DispatchType
<1>3. ASSUME NEW r \in Requests, LookUpToken(r)
      PROVE  DispatchType'
  <2>1. PICK where \in {"reserve", "refresh"} : Moves(r, where)
    BY <1>3 DEF LookUpToken, Goto, Moves, Locations
  <2> QED BY <1>3, <2>1, MovesKeepType DEF LookUpToken, DispatchType
<1>4. ASSUME NEW r \in Requests, LockRefresh(r)
      PROVE  DispatchType'
  <2>1. Moves(r, "reserve")
    BY <1>4 DEF LockRefresh, Goto, Moves, Locations
  <2>2. refresher' \in SUBSET Requests /\ exchanging' \in SUBSET Requests
    BY <1>4 DEF LockRefresh, DispatchType
  <2> QED BY <1>4, <2>1, <2>2, MovesKeepType DEF LockRefresh, DispatchType
<1>5. ASSUME NEW r \in Requests, ReserveSlot(r)
      PROVE  DispatchType'
  <2>1. Moves(r, "slot")
    BY <1>5 DEF ReserveSlot, Goto, Moves, Locations
  <2>2. ahead' \in Nat /\ timer' \in [Requests -> Nat]
    <3>1. ahead \in Nat /\ Of(r).interval \in Nat /\ timer \in [Requests -> Nat]
      BY <1>5, KnownKind DEF DispatchType, ReserveSlot
    <3> QED BY <1>5, <3>1 DEF ReserveSlot, NextAllowed
  <2> QED BY <1>5, <2>1, <2>2, MovesKeepType DEF ReserveSlot, DispatchType
<1>6. ASSUME NEW r \in Requests, Send(r)
      PROVE  DispatchType'
  <2>1. Moves(r, "sent")
    BY <1>6 DEF Send, Goto, Moves, Locations
  <2> QED BY <1>6, <2>1, MovesKeepType DEF Send, DispatchType
<1>7. ASSUME NEW r \in Requests, NextAttempt(r) \/ Redirected(r)
      PROVE  DispatchType'
  <2>1. Moves(r, "reserve")
    BY <1>7 DEF NextAttempt, Redirected, Goto, Moves, Locations
  <2> QED BY <1>7, <2>1, MovesKeepType DEF NextAttempt, Redirected, DispatchType
<1>8. ASSUME NEW r \in Requests, NEW d \in Delays, BackOff(r, d)
      PROVE  DispatchType'
  <2>1. Moves(r, "backoff")
    BY <1>8 DEF BackOff, Goto, Moves, Locations
  <2>2. timer' \in [Requests -> Nat]
    BY <1>8, DurationsAssumption DEF BackOff, DispatchType
  <2> QED BY <1>8, <2>1, <2>2, MovesKeepType DEF BackOff, DispatchType
<1>9. ASSUME NEW r \in Requests, NEW n \in Lives, TokenObtained(r, n)
      PROVE  DispatchType'
  <2>1. Moves(r, "reserve")
    BY <1>9 DEF TokenObtained, Goto, Moves, Locations
  <2>2. life' \in [TokenKeys -> Nat]
    BY <1>9, DurationsAssumption DEF TokenObtained, StoreToken, DispatchType
  <2>3. refresher' \in SUBSET Requests /\ exchanging' \in SUBSET Requests
    BY <1>9 DEF TokenObtained, DispatchType
  <2> QED BY <1>9, <2>1, <2>2, <2>3, MovesKeepType DEF TokenObtained, DispatchType
<1>10. ASSUME NEW r \in Requests, Forget(r)
       PROVE  DispatchType'
  <2>1. /\ pc' \in [Requests -> Locations] /\ pc'[r] = "idle"
        /\ \A q \in Requests \ {r} : pc'[q] = pc[q]
    BY <1>10 DEF Forget, Goto, DispatchType, Locations
  <2>2. DOMAIN kind' = Requests /\ \A q \in Requests \ {r} : kind'[q] = kind[q]
    BY <1>10 DEF Forget, DispatchType
  <2>3. \A q \in Requests : pc'[q] # "idle" => Known(q)'
    BY <2>1, <2>2 DEF Known, Of, DispatchType
  <2>4. timer' \in [Requests -> Nat]
    BY <1>10 DEF Forget, DispatchType
  <2> QED BY <1>10, <2>1, <2>2, <2>3, <2>4 DEF Forget, DispatchType
<1>11. CASE Tick
  <2>1. /\ ahead' \in Nat /\ timer' \in [Requests -> Nat] /\ life' \in [TokenKeys -> Nat]
    BY <1>11 DEF Tick, Earlier, DispatchType
  <2> QED BY <1>11, <2>1 DEF Tick, DispatchType, Known, Of
<1> QED BY <1>1, <1>2, <1>3, <1>4, <1>5, <1>6, <1>7, <1>8, <1>9, <1>10, <1>11
        DEF Next, Finish, Drop, RetryLater, RetryDownload

-----------------------------------------------------------------------------
(* Slots.                                                                  *)

\* A step after which nobody waits for a slot who did not before.
LEMMA NoNewWait ==
  ASSUME DispatchType, BehindNext, SlotsAreSpaced, ahead' = ahead,
         \A q \in Requests : Limited(q)' => /\ Limited(q) /\ timer'[q] = timer[q]
                                          /\ Of(q)' = Of(q)
  PROVE  BehindNext' /\ SlotsAreSpaced'
BY DEF BehindNext, SlotsAreSpaced

\* Every step keeps what is known of slots: one case for each action.
LEMMA SlotStep == SlotInv /\ [Next]_vars => SlotInv'
<1> SUFFICES ASSUME SlotInv, [Next]_vars PROVE SlotInv'
  OBVIOUS
<1>0. DispatchType' /\ DispatchType /\ NoStrayTimer /\ BehindNext /\ SlotsAreSpaced
  BY TypeStep DEF SlotInv
<1>1. CASE UNCHANGED vars
  BY <1>0, <1>1 DEF vars, SlotInv, NoStrayTimer, BehindNext, SlotsAreSpaced, Limited, Of
<1>2. ASSUME NEW r \in Requests, NEW k \in Kinds, Start(r, k)
      PROVE  SlotInv'
  <2>1. /\ pc'[r] \notin {"slot", "backoff"} /\ timer' = timer /\ ahead' = ahead /\ timer[r] = 0
        /\ \A q \in Requests \ {r} : pc'[q] = pc[q] /\ Of(q)' = Of(q)
    BY <1>0, <1>2, StartKnows DEF Start, Goto, DispatchType, NoStrayTimer
  <2> QED BY <1>0, <2>1, NoNewWait DEF SlotInv, NoStrayTimer, Limited
<1>3. ASSUME NEW r \in Requests, LookUpToken(r) \/ LockRefresh(r) \/ Send(r)
      PROVE  SlotInv'
  <2>1. PICK where \in {"reserve", "refresh", "sent"} : Moves(r, where)
    BY <1>3 DEF LookUpToken, LockRefresh, Send, Goto, Moves, Locations
  <2>2. /\ timer' = timer /\ ahead' = ahead /\ timer[r] = 0
    BY <1>0, <1>3 DEF LookUpToken, LockRefresh, Send, NoStrayTimer
  <2>3. \A q \in Requests : Of(q)' = Of(q)
    BY <1>0, <2>1, MovesKeepType DEF Locations
  <2> QED BY <1>0, <2>1, <2>2, <2>3, NoNewWait DEF SlotInv, NoStrayTimer, Limited, Moves, DispatchType
<1>4. ASSUME NEW r \in Requests, NextAttempt(r) \/ Redirected(r)
      PROVE  SlotInv'
  <2>1. Moves(r, "reserve")
    BY <1>4 DEF NextAttempt, Redirected, Goto, Moves, Locations
  <2>2. /\ timer' = timer /\ ahead' = ahead /\ timer[r] = 0
    BY <1>0, <1>4 DEF NextAttempt, Redirected, NoStrayTimer
  <2>3. \A q \in Requests : Of(q)' = Of(q)
    BY <1>0, <2>1, MovesKeepType DEF Locations
  <2> QED BY <1>0, <2>1, <2>2, <2>3, NoNewWait DEF SlotInv, NoStrayTimer, Limited, Moves, DispatchType
<1>5. ASSUME NEW r \in Requests, NEW n \in Lives, TokenObtained(r, n)
      PROVE  SlotInv'
  <2>1. Moves(r, "reserve")
    BY <1>5 DEF TokenObtained, Goto, Moves, Locations
  <2>2. /\ timer' = timer /\ ahead' = ahead /\ timer[r] = 0
    BY <1>0, <1>5 DEF TokenObtained, NoStrayTimer
  <2>3. \A q \in Requests : Of(q)' = Of(q)
    BY <1>0, <2>1, MovesKeepType DEF Locations
  <2> QED BY <1>0, <2>1, <2>2, <2>3, NoNewWait DEF SlotInv, NoStrayTimer, Limited, Moves, DispatchType
<1>6. ASSUME NEW r \in Requests, NEW d \in Delays, BackOff(r, d)
      PROVE  SlotInv'
  <2>1. Moves(r, "backoff") /\ ahead' = ahead
    BY <1>6 DEF BackOff, Goto, Moves, Locations
  <2>2. /\ pc'[r] = "backoff"
        /\ \A q \in Requests \ {r} : pc'[q] = pc[q] /\ timer'[q] = timer[q]
    BY <1>0, <1>6 DEF BackOff, Goto, DispatchType
  <2>3. \A q \in Requests : Of(q)' = Of(q)
    BY <1>0, <2>1, MovesKeepType DEF Locations
  <2> QED BY <1>0, <2>1, <2>2, <2>3, NoNewWait DEF SlotInv, NoStrayTimer, Limited
<1>7. ASSUME NEW r \in Requests, Forget(r)
      PROVE  SlotInv'
  <2>1. /\ pc'[r] = "idle" /\ timer'[r] = 0 /\ ahead' = ahead
        /\ \A q \in Requests \ {r} : pc'[q] = pc[q] /\ timer'[q] = timer[q] /\ kind'[q] = kind[q]
    BY <1>0, <1>7 DEF Forget, Goto, DispatchType
  <2> QED BY <1>0, <2>1, NoNewWait DEF SlotInv, NoStrayTimer, Limited, Of
<1>8. ASSUME NEW r \in Requests, ReserveSlot(r)
      PROVE  SlotInv'
  <2>1. /\ Moves(r, "slot") /\ pc[r] = "reserve" /\ timer[r] = 0
    BY <1>0, <1>8 DEF ReserveSlot, Goto, Moves, Locations, NoStrayTimer
  <2>2. \A q \in Requests : Of(q)' = Of(q)
    BY <1>0, <2>1, MovesKeepType DEF Locations
  <2>3. /\ pc'[r] = "slot" /\ \A q \in Requests \ {r} : pc'[q] = pc[q] /\ timer'[q] = timer[q]
    BY <1>0, <1>8 DEF ReserveSlot, Goto, DispatchType
  <2>4. NoStrayTimer'
    BY <1>0, <2>3 DEF NoStrayTimer
  <2>5. CASE Of(r).interval = 0
    BY <1>0, <1>8, <2>1, <2>2, <2>3, <2>4, <2>5, NoNewWait DEF ReserveSlot, SlotInv, Limited
  <2>6. CASE Of(r).interval # 0
    <3>1. Of(r).interval \in Nat /\ ahead \in Nat /\ timer \in [Requests -> Nat]
      BY <1>0, <2>1, KnownKind DEF DispatchType
    <3>2. ahead' = ahead + Of(r).interval /\ timer'[r] = ahead
      BY <1>8, <2>6, <3>1 DEF ReserveSlot, NextAllowed
    <3>3. \A q \in Requests \ {r} : Limited(q)' <=> Limited(q)
      BY <2>3 DEF Limited
    <3>4. \A q \in Requests : Limited(q) => Of(q).interval \in Nat
      BY <1>0, KnownKind DEF Limited, DispatchType
    <3>5. \A q \in Requests \ {r} : Limited(q)' =>
            Of(q)'.interval > 0 /\ timer'[q] + Of(q)'.interval <= ahead
      BY <1>0, <2>2, <2>3, <3>3 DEF BehindNext
    <3>6. BehindNext'
      <4> SUFFICES ASSUME NEW q \in Requests, Limited(q)'
                   PROVE  Of(q)'.interval > 0 /\ timer'[q] + Of(q)'.interval <= ahead'
        BY DEF BehindNext
      <4>1. CASE q = r
        BY <2>2, <2>6, <3>1, <3>2, <4>1
      <4>2. CASE q # r
        BY <2>2, <2>3, <3>1, <3>2, <3>3, <3>4, <3>5, <4>2
      <4> QED BY <4>1, <4>2
    <3>7. SlotsAreSpaced'
      <4> SUFFICES ASSUME NEW p \in Requests, NEW q \in Requests, p # q,
                          Limited(p)', Limited(q)', timer'[p] <= timer'[q]
                   PROVE  timer'[q] >= timer'[p] + Of(p)'.interval
        BY DEF SlotsAreSpaced
      <4>1. CASE p # r /\ q # r
        BY <1>0, <2>2, <2>3, <3>3, <4>1 DEF SlotsAreSpaced
      <4>2. CASE q = r
        BY <3>1, <3>2, <3>5, <2>2, <2>3, <3>3, <3>4, <4>2
      <4>3. CASE p = r
        <5>1. Of(q).interval > 0 /\ timer[q] + Of(q).interval <= ahead /\ timer'[q] = timer[q]
          BY <1>0, <2>3, <3>3, <4>3 DEF BehindNext
        <5>2. timer[q] \in Nat /\ Of(q).interval \in Nat /\ ahead <= timer[q]
          BY <3>1, <3>2, <3>3, <3>4, <4>3, <5>1
        <5> QED BY <3>1, <5>1, <5>2
      <4> QED BY <4>1, <4>2, <4>3
    <3> QED BY <1>0, <2>4, <3>6, <3>7 DEF SlotInv
  <2> QED BY <2>5, <2>6
<1>9. CASE Tick
  <2>1. /\ pc' = pc /\ kind' = kind /\ ahead \in Nat /\ timer \in [Requests -> Nat]
        /\ ahead' = IF ahead > 0 THEN ahead - 1 ELSE 0
        /\ \A q \in Requests : timer'[q] = IF timer[q] > 0 THEN timer[q] - 1 ELSE 0
    BY <1>0, <1>9 DEF Tick, Earlier, DispatchType
  <2>2. \A q \in Requests :
          /\ Of(q)' = Of(q)
          /\ Limited(q)' => Limited(q) /\ timer'[q] = timer[q] - 1 /\ Of(q).interval \in Nat
    BY <1>0, <2>1, KnownKind DEF Of, Limited, DispatchType
  <2>3. NoStrayTimer'
    BY <1>0, <2>1 DEF NoStrayTimer
  <2>4. BehindNext'
    BY <1>0, <2>1, <2>2 DEF BehindNext
  <2>5. SlotsAreSpaced'
    BY <1>0, <2>1, <2>2 DEF SlotsAreSpaced
  <2> QED BY <1>0, <2>3, <2>4, <2>5 DEF SlotInv
<1> QED BY <1>1, <1>2, <1>3, <1>4, <1>5, <1>6, <1>7, <1>8, <1>9
        DEF Next, Finish, Drop, RetryLater, RetryDownload

\* Slots waited for are apart by the interval of the earlier one, whatever the
\* rates and whoever gave up while it waited (admit_request).
THEOREM SlotsStayApart == Spec => []SlotsAreSpaced
<1>1. SlotInv => SlotsAreSpaced
  BY DEF SlotInv
<1> QED BY <1>1, DispatchStarts, SlotStep, PTL DEF Spec

-----------------------------------------------------------------------------
(* Tokens.                                                                 *)

\* A step of a request that leaves the exchange, and the cached tokens of other
\* keys, as they are.
LEMMA ExchangeKept ==
  ASSUME TokenInv, NEW r \in Requests, NEW where \in {"reserve", "slot", "sent", "backoff"},
         Moves(r, where), pc[r] \notin {"token", "refresh"},
         UNCHANGED <<refresher, exchanging, life>>
  PROVE  ExchangesAlone'
<1>1. \A q \in Requests : Of(q)' = Of(q)
  BY MovesKeepType DEF TokenInv, Locations
<1>2. \A q \in Requests : pc'[q] = IF q = r THEN where ELSE pc[q]
  BY DEF Moves, TokenInv, DispatchType
<1> QED BY <1>1, <1>2 DEF TokenInv, DispatchType, ExchangesAlone

\* Every step keeps what is known of tokens: one case for each action.
LEMMA TokenStep == TokenInv /\ [Next]_vars => TokenInv'
<1> SUFFICES ASSUME TokenInv, [Next]_vars PROVE TokenInv'
  OBVIOUS
<1>0. DispatchType' /\ DispatchType /\ ExchangesAlone
  BY TypeStep DEF TokenInv
<1> SUFFICES ExchangesAlone'
  BY <1>0 DEF TokenInv
<1>1. CASE UNCHANGED vars
  BY <1>0, <1>1 DEF vars, ExchangesAlone, Of
<1>2. ASSUME NEW r \in Requests, NEW k \in Kinds, Start(r, k)
      PROVE  ExchangesAlone'
  <2>1. /\ pc[r] = "idle" /\ Of(r)' = k
        /\ pc'[r] = IF k.key = NoToken THEN "reserve" ELSE "token"
        /\ \A q \in Requests \ {r} : pc'[q] = pc[q] /\ Of(q)' = Of(q)
    BY <1>0, <1>2, StartKnows DEF Start, Goto, DispatchType
  <2>2. k.key \in TokenKeys \cup {NoToken}
    BY KindsAssumption DEF Kind
  <2>3. r \notin exchanging
    BY <1>0, <2>1 DEF ExchangesAlone
  <2> QED BY <1>0, <1>2, <2>1, <2>2, <2>3 DEF ExchangesAlone, Start, DispatchType
<1>3. ASSUME NEW r \in Requests, LookUpToken(r)
      PROVE  ExchangesAlone'
  <2>1. PICK where \in {"reserve", "refresh"} : Moves(r, where)
    BY <1>3 DEF LookUpToken, Goto, Moves, Locations
  <2>2. \A q \in Requests : Of(q)' = Of(q)
    BY <1>0, <2>1, MovesKeepType DEF Locations
  <2>3. pc[r] = "token" /\ r \notin exchanging /\ UNCHANGED <<refresher, exchanging, life>>
    BY <1>0, <1>3 DEF LookUpToken, ExchangesAlone
  <2>4. \A q \in Requests : pc'[q] = IF q = r THEN where ELSE pc[q]
    BY <1>0, <2>1 DEF Moves, DispatchType
  <2> QED BY <1>0, <2>2, <2>3, <2>4 DEF ExchangesAlone, DispatchType
<1>4. ASSUME NEW r \in Requests, LockRefresh(r)
      PROVE  ExchangesAlone'
  <2>1. Moves(r, "reserve") /\ pc[r] = "refresh" /\ refresher = {} /\ life' = life
    BY <1>4 DEF LockRefresh, Goto, Moves, Locations
  <2>2. \A q \in Requests : Of(q)' = Of(q)
    BY <1>0, <2>1, MovesKeepType DEF Locations
  <2>3. \A q \in Requests : pc'[q] = IF q = r THEN "reserve" ELSE pc[q]
    BY <1>0, <2>1 DEF Moves, DispatchType
  <2>4. exchanging = {} /\ Of(r).key \in TokenKeys
    BY <1>0, <2>1 DEF ExchangesAlone
  <2>5. NoToken \notin TokenKeys /\ life[Of(r).key] \in Nat
    BY <1>0, <2>4, NoTokenAssumption DEF DispatchType
  <2>6. exchanging' = {} \/ /\ exchanging' = {r} /\ refresher' = {r} /\ life[Of(r).key] = 0
    BY <1>4, <2>4, <2>5 DEF LockRefresh, FoundUnderLock, Valid
  <2> QED BY <1>0, <2>1, <2>2, <2>3, <2>4, <2>6 DEF ExchangesAlone, DispatchType
<1>5. ASSUME NEW r \in Requests, ReserveSlot(r)
      PROVE  ExchangesAlone'
  <2>1. Moves(r, "slot")
    BY <1>5 DEF ReserveSlot, Goto, Moves, Locations
  <2> QED BY <1>5, <2>1, ExchangeKept DEF ReserveSlot
<1>6. ASSUME NEW r \in Requests, Send(r)
      PROVE  ExchangesAlone'
  <2>1. Moves(r, "sent")
    BY <1>6 DEF Send, Goto, Moves, Locations
  <2> QED BY <1>6, <2>1, ExchangeKept DEF Send
<1>7. ASSUME NEW r \in Requests, NextAttempt(r) \/ Redirected(r)
      PROVE  ExchangesAlone'
  <2>1. Moves(r, "reserve")
    BY <1>7 DEF NextAttempt, Redirected, Goto, Moves, Locations
  <2> QED BY <1>7, <2>1, ExchangeKept DEF NextAttempt, Redirected
<1>8. ASSUME NEW r \in Requests, NEW d \in Delays, BackOff(r, d)
      PROVE  ExchangesAlone'
  <2>1. Moves(r, "backoff")
    BY <1>8 DEF BackOff, Goto, Moves, Locations
  <2> QED BY <1>8, <2>1, ExchangeKept DEF BackOff
<1>9. ASSUME NEW r \in Requests, NEW n \in Lives, TokenObtained(r, n)
      PROVE  ExchangesAlone'
  <2>1. Moves(r, "reserve")
    BY <1>9 DEF TokenObtained, Goto, Moves, Locations
  <2>2. \A q \in Requests : Of(q)' = Of(q)
    BY <1>0, <2>1, MovesKeepType DEF Locations
  <2>3. \A q \in Requests : pc'[q] = IF q = r THEN "reserve" ELSE pc[q]
    BY <1>0, <2>1 DEF Moves, DispatchType
  <2>4. exchanging' = {}
    BY <1>0, <1>9 DEF TokenObtained, ExchangesAlone
  <2> QED BY <1>0, <2>2, <2>3, <2>4 DEF ExchangesAlone
<1>10. ASSUME NEW r \in Requests, Forget(r)
       PROVE  ExchangesAlone'
  <2>1. /\ pc'[r] = "idle" /\ refresher' = refresher \ {r} /\ exchanging' = exchanging \ {r}
        /\ life' = life
        /\ \A q \in Requests \ {r} : pc'[q] = pc[q] /\ kind'[q] = kind[q]
    BY <1>0, <1>10 DEF Forget, Goto, DispatchType
  <2>2. \A q \in Requests \ {r} : Of(q)' = Of(q)
    BY <2>1 DEF Of
  <2> QED BY <1>0, <2>1, <2>2 DEF ExchangesAlone, DispatchType
<1>11. CASE Tick
  <2>1. /\ UNCHANGED <<refresher, exchanging, pc, kind>>
        /\ \A k \in TokenKeys : life[k] = 0 => life'[k] = 0
    BY <1>11 DEF Tick, Earlier
  <2>2. \A q \in Requests : Of(q)' = Of(q)
    BY <2>1 DEF Of
  <2> QED BY <1>0, <2>1, <2>2 DEF ExchangesAlone, DispatchType
<1> QED BY <1>1, <1>2, <1>3, <1>4, <1>5, <1>6, <1>7, <1>8, <1>9, <1>10, <1>11
        DEF Next, Finish, Drop, RetryLater, RetryDownload

\* A token is fetched only when none is cached (oauth_token).
THEOREM ExchangesAreNeeded == Spec => NoRedundantExchange
<1>1. TokenInv /\ [Next]_vars =>
        [\A r \in Requests :
           (r \in exchanging /\ r \notin exchanging' /\ pc'[r] = "reserve")
             => life[Of(r).key] = 0]_vars
  BY DEF TokenInv, ExchangesAlone
<1> QED BY <1>1, DispatchStarts, TokenStep, PTL DEF Spec, NoRedundantExchange
-----------------------------------------------------------------------------
(* What the service sees (RequestRate)                                     *)

\* The shortest interval in use.
Gap == Min({k.interval : k \in Kinds})

\* Every kind of request has a rate, and there is a permit for every request.
AllPaced == Kinds # {} /\ \A k \in Kinds : k.interval > 0
PermitsForAll == IsFiniteSet(Requests) /\ Cardinality(Requests) <= MaxConcurrent

Slotted(r) == pc[r] = "slot"

\* Slots, taken or to come, and the requests sent are a gap apart from one another;
\* no two of the requests sent were sent at one time.
SlotsApart ==
  /\ \A r \in Requests : Slotted(r) => timer[r] + Gap <= ahead
  /\ \A r, q \in Requests :
       r # q /\ Slotted(r) /\ Slotted(q) /\ timer[r] <= timer[q] => timer[r] + Gap <= timer[q]

SentApart ==
  /\ recent \subseteq [age: Ages, number: {0}]
  /\ \A s \in recent : Gap <= s.age + ahead
  /\ \A s \in recent, r \in Requests : Slotted(r) => Gap <= s.age + timer[r]
  /\ \A s, t \in recent : s.age < t.age => s.age + Gap <= t.age

PermitsAreUsed == \A r \in permits : r \in Requests /\ pc[r] \in {"sent", "backoff"}

RateInv == DispatchType /\ PermitsAreUsed /\ SlotsApart /\ SentApart

\* There is a shortest interval, of at least one tick.
LEMMA GapOfKinds ==
  ASSUME AllPaced
  PROVE  /\ Gap \in Nat /\ Gap > 0
         /\ \A k \in Kinds : k.interval \in Nat /\ Gap <= k.interval
<1> DEFINE T == {k.interval : k \in Kinds}
           R == OpToRel(<, Nat)
<1>1. T \in SUBSET Nat /\ T # {} /\ \A n \in T : n > 0
  BY KindsAssumption DEF AllPaced, Kind
<1>2. IsWellFoundedOn(R, Nat)
  BY NatLessThanWellFounded
<1>3. ASSUME NEW x \in Nat, NEW y \in Nat, x < y PROVE <<x, y>> \in R
  BY <1>3 DEF OpToRel
<1> HIDE DEF R
<1>4. PICK n \in T : \A k \in T : ~(<<k, n>> \in R)
  BY <1>1, <1>2, WFMin
<1>5. \A k \in T : n <= k
  <2> TAKE k \in T
  <2>1. n \in Nat /\ k \in Nat /\ ~(k < n)
    BY <1>1, <1>3, <1>4
  <2> QED BY <2>1
<1>6. Gap \in T /\ \A k \in T : Gap <= k
  BY <1>5 DEF Gap, Min
<1> QED BY <1>1, <1>6

\* A request that waits for its slot finds a permit.
LEMMA PermitIsFree ==
  ASSUME PermitsForAll, PermitsAreUsed, NEW r \in Requests, Slotted(r)
  PROVE  ~(Cardinality(permits) >= MaxConcurrent)
<1>1. permits \subseteq Requests \ {r}
  BY DEF PermitsAreUsed, Slotted
<1>2. IsFiniteSet(Requests \ {r}) /\ Cardinality(Requests \ {r}) = Cardinality(Requests) - 1
  BY FS_RemoveElement DEF PermitsForAll
<1>3. Cardinality(permits) <= Cardinality(Requests \ {r}) /\ Cardinality(permits) \in Nat
  BY <1>1, <1>2, FS_Subset, FS_CardinalityType
<1>4. Cardinality(Requests) \in Nat /\ MaxConcurrent \in Nat
  BY FS_CardinalityType, ConcurrencyAssumption DEF PermitsForAll
<1> QED BY <1>2, <1>3, <1>4 DEF PermitsForAll

\* A step that takes no slot and sends nothing.
Elsewhere(r) ==
  /\ r \in Requests /\ ahead' = ahead /\ permits' \subseteq permits
  /\ pc' = [pc EXCEPT ![r] = pc'[r]] /\ timer' = [timer EXCEPT ![r] = timer'[r]]
  /\ pc'[r] \notin {"slot", "sent"} /\ (pc'[r] # "backoff" => r \notin permits')

\* Such a step keeps the slots and what was sent.
LEMMA ElsewhereKeeps ==
  ASSUME RateInv, DispatchType', NEW r \in Requests, Elsewhere(r)
  PROVE  /\ PermitsAreUsed' /\ SlotsApart' /\ ~SentNow
         /\ recent' = recent => SentApart'
<1>1. \A q \in Requests : Slotted(q)' => Slotted(q) /\ timer'[q] = timer[q]
  BY DEF Elsewhere, Slotted, RateInv, DispatchType
<1>2. PermitsAreUsed'
  BY DEF Elsewhere, RateInv, DispatchType, PermitsAreUsed
<1>3. SlotsApart'
  <2>1. ahead' = ahead
    BY DEF Elsewhere
  <2> QED BY <1>1, <2>1 DEF RateInv, SlotsApart
<1>4. ~SentNow
  BY DEF Elsewhere, SentNow, RateInv, DispatchType
<1>5. recent' = recent => SentApart'
  <2>1. ahead' = ahead
    BY DEF Elsewhere
  <2> QED BY <1>1, <2>1 DEF RateInv, SentApart
<1> QED BY <1>2, <1>3, <1>4, <1>5

\* A step of a request keeps slots and requests sent apart.
LEMMA RequestKeepsRate ==
  ASSUME RateInv, DispatchType', AllPaced, NEW r \in Requests,
         \/ \E k \in Kinds : Start(r, k)
         \/ LookUpToken(r) \/ LockRefresh(r)
         \/ ReserveSlot(r) \/ Send(r) \/ NextAttempt(r)
         \/ Redirected(r) \/ Finish(r) \/ Drop(r)
         \/ \E d \in Delays : RetryLater(r, d) \/ RetryDownload(r, d)
         \/ \E n \in Lives : TokenObtained(r, n),
         recent' = IF SentNow THEN recent \cup {[age |-> 0, number |-> AtOnce]} ELSE recent
  PROVE  RateInv'
<1>1. /\ Gap \in Nat /\ Gap > 0 /\ Gap' = Gap
      /\ \A k \in Kinds : k.interval \in Nat /\ Gap <= k.interval
  BY GapOfKinds DEF Gap
<1>2. /\ ahead \in Nat /\ ahead' \in Nat /\ timer \in [Requests -> Nat]
      /\ pc \in [Requests -> Locations] /\ PermitsAreUsed /\ SlotsApart /\ SentApart
      /\ pc[r] # "idle" => Of(r) \in Kinds
  BY DEF RateInv, DispatchType, Known
<1>3. \A s \in recent : s.age \in Nat
  BY <1>2, SecondAssumption DEF SentApart, Ages
<1>4. CASE Elsewhere(r)
  <2>1. recent' = recent
    BY <1>4, ElsewhereKeeps
  <2> QED BY <1>4, <2>1, ElsewhereKeeps DEF RateInv
<1>5. CASE ReserveSlot(r)
  <2>1. /\ pc' = [pc EXCEPT ![r] = "slot"] /\ pc[r] = "reserve" /\ permits' = permits
        /\ ahead' = ahead + Of(r).interval /\ timer' = [timer EXCEPT ![r] = ahead]
        /\ Gap <= Of(r).interval /\ Of(r).interval \in Nat
    BY <1>1, <1>2, <1>5 DEF ReserveSlot, Goto, AllPaced, NextAllowed
  <2>2. \A q \in Requests \ {r} : (Slotted(q)' <=> Slotted(q)) /\ timer'[q] = timer[q]
    BY <1>2, <2>1 DEF Slotted
  <2>3. timer'[r] = ahead
    BY <1>2, <2>1
  <2>4. SlotsApart'
    <3>1. ASSUME NEW q \in Requests, Slotted(q)' PROVE timer'[q] + Gap <= ahead'
      <4>1. CASE q = r
        BY <1>1, <1>2, <2>1, <2>3, <4>1
      <4>2. CASE q # r
        <5>1. timer[q] + Gap <= ahead /\ timer[q] \in Nat
          BY <1>2, <2>2, <3>1, <4>2 DEF SlotsApart
        <5> QED BY <1>1, <1>2, <2>1, <2>2, <4>2, <5>1
      <4> QED BY <4>1, <4>2
    <3>2. ASSUME NEW q \in Requests, NEW z \in Requests, q # z, Slotted(q)', Slotted(z)',
                 timer'[q] <= timer'[z]
          PROVE  timer'[q] + Gap <= timer'[z]
      <4>1. CASE q # r /\ z # r
        BY <1>2, <2>2, <3>2, <4>1 DEF SlotsApart
      <4>2. CASE z = r
        BY <1>2, <2>2, <2>3, <3>2, <4>2 DEF SlotsApart
      <4>3. CASE q = r
        <5>1. timer[z] + Gap <= ahead /\ timer[z] \in Nat /\ ahead <= timer[z]
          BY <1>2, <2>2, <2>3, <3>2, <4>3 DEF SlotsApart
        <5> QED BY <1>1, <1>2, <5>1
      <4> QED BY <4>1, <4>2, <4>3
    <3> QED BY <1>1, <3>1, <3>2 DEF SlotsApart
  <2>5. recent' = recent
    BY <1>2, <2>1 DEF SentNow
  <2>6. SentApart'
    <3>1. ASSUME NEW s \in recent PROVE Gap <= s.age + ahead'
      <4>1. Gap <= s.age + ahead /\ s.age \in Nat
        BY <1>2, <1>3 DEF SentApart
      <4> QED BY <1>1, <1>2, <2>1, <4>1
    <3>2. ASSUME NEW s \in recent, NEW q \in Requests, Slotted(q)' PROVE Gap <= s.age + timer'[q]
      BY <1>2, <2>2, <2>3, <3>2 DEF SentApart
    <3> QED BY <1>1, <1>2, <2>5, <3>1, <3>2 DEF SentApart
  <2>7. PermitsAreUsed'
    BY <1>2, <2>1 DEF PermitsAreUsed
  <2> QED BY <2>4, <2>6, <2>7 DEF RateInv
<1>6. CASE Send(r)
  <2>1. /\ pc' = [pc EXCEPT ![r] = "sent"] /\ Slotted(r) /\ timer[r] = 0
        /\ permits' = permits \cup {r} /\ ahead' = ahead /\ timer' = timer
    BY <1>6 DEF Send, Goto, Slotted
  <2>2. \A q \in Requests : Slotted(q)' => Slotted(q) /\ q # r
    BY <1>2, <2>1 DEF Slotted
  <2>3. \A s \in recent : Gap <= s.age
    BY <1>2, <1>3, <2>1 DEF SentApart
  <2>4. {s \in recent : s.age = 0} = {}
    BY <1>1, <1>3, <2>3
  <2>5. AtOnce = 0
    BY <2>4, FS_EmptySet DEF AtOnce
  <2>6. SentNow
    BY <1>2, <2>1 DEF SentNow, Slotted
  <2>7. recent' = recent \cup {[age |-> 0, number |-> 0]}
    BY <2>5, <2>6
  <2>8. SentApart'
    <3> DEFINE now == [age |-> 0, number |-> 0]
    <3>1. now \in [age: Ages, number: {0}] /\ now.age = 0
      BY SecondAssumption DEF Ages
    <3> HIDE DEF now
    <3>2. Gap <= ahead
      BY <1>1, <1>2, <2>1 DEF SlotsApart
    <3>3. \A q \in Requests : Slotted(q)' => Gap <= timer[q]
      BY <1>1, <1>2, <2>1, <2>2 DEF SlotsApart
    <3>4. recent' = recent \cup {now}
      BY <2>7 DEF now
    <3>5. recent' \subseteq [age: Ages, number: {0}]
      BY <1>2, <3>1, <3>4 DEF SentApart
    <3>6. \A s \in recent' : Gap <= s.age + ahead
      BY <1>1, <1>2, <3>1, <3>2, <3>4 DEF SentApart
    <3>7. \A s \in recent', q \in Requests : Slotted(q)' => Gap <= s.age + timer[q]
      BY <1>1, <1>2, <2>2, <3>1, <3>3, <3>4 DEF SentApart
    <3>8. \A s, t \in recent' : s.age < t.age => s.age + Gap <= t.age
      BY <1>1, <1>2, <1>3, <2>3, <3>1, <3>4 DEF SentApart
    <3> QED BY <1>1, <2>1, <3>5, <3>6, <3>7, <3>8 DEF SentApart, Ages
  <2>9. PermitsAreUsed'
    BY <1>2, <2>1 DEF PermitsAreUsed
  <2>10. SlotsApart'
    BY <1>1, <1>2, <2>1, <2>2 DEF SlotsApart
  <2> QED BY <2>8, <2>9, <2>10 DEF RateInv
<1>7. CASE \/ \E k \in Kinds : Start(r, k)
           \/ LookUpToken(r) \/ LockRefresh(r)
  <2>1. r \notin permits
    BY <1>2, <1>7 DEF PermitsAreUsed, Start, LookUpToken, LockRefresh
  <2>2. Elsewhere(r)
    BY <1>2, <1>7, <2>1 DEF Elsewhere, Start, LookUpToken, LockRefresh, Goto
  <2> QED BY <1>4, <2>2
<1>8. CASE NextAttempt(r) \/ Redirected(r) \/ Finish(r) \/ Drop(r)
  <2>1. Elsewhere(r)
    BY <1>2, <1>8 DEF Elsewhere, NextAttempt, Redirected, Finish, Drop, Forget, Goto
  <2> QED BY <1>4, <2>1
<1>9. CASE \/ \E d \in Delays : RetryLater(r, d) \/ RetryDownload(r, d)
           \/ \E n \in Lives : TokenObtained(r, n)
  <2>1. Elsewhere(r)
    BY <1>2, <1>9 DEF Elsewhere, RetryLater, RetryDownload, BackOff, TokenObtained, Goto
  <2> QED BY <1>4, <2>1
<1> QED BY <1>5, <1>6, <1>7, <1>8, <1>9

\* A tick ends no wait for a slot before its request is sent, and ages all alike.
LEMMA TickKeepsRate ==
  ASSUME RateInv, DispatchType', AllPaced, PermitsForAll, Tick, Prompt,
         recent' = {s \in Older : s.age \in Ages}
  PROVE  RateInv'
<1>1. Gap \in Nat /\ Gap > 0 /\ Gap' = Gap
  BY GapOfKinds DEF Gap
<1>2. /\ ahead \in Nat /\ timer \in [Requests -> Nat]
      /\ PermitsAreUsed /\ SlotsApart /\ SentApart
  BY DEF RateInv, DispatchType
<1>3. /\ ahead' = Earlier(ahead) /\ \A r \in Requests : timer'[r] = Earlier(timer[r])
      /\ pc' = pc /\ permits' = permits
  BY DEF Tick
<1>4. ASSUME NEW r \in Requests, Slotted(r)
      PROVE  /\ timer[r] > 0 /\ timer'[r] = timer[r] - 1 /\ timer[r] \in Nat
             /\ timer[r] + Gap <= ahead /\ ahead' = ahead - 1
  <2>1. timer[r] > 0 /\ timer[r] \in Nat
    BY <1>2, <1>4, PermitIsFree DEF Prompt, Slotted
  <2>2. timer[r] + Gap <= ahead
    BY <1>2, <1>4 DEF SlotsApart
  <2> QED BY <1>1, <1>2, <1>3, <2>1, <2>2 DEF Earlier
<1>5. SlotsApart'
  <2>1. \A r \in Requests : Slotted(r)' => Slotted(r)
    BY <1>3 DEF Slotted
  <2>2. ASSUME NEW r \in Requests, Slotted(r) PROVE timer'[r] + Gap <= ahead'
    BY <1>1, <1>2, <1>4, <2>2
  <2>3. ASSUME NEW r \in Requests, NEW q \in Requests, r # q, Slotted(r), Slotted(q),
               timer'[r] <= timer'[q]
        PROVE  timer'[r] + Gap <= timer'[q]
    <3>1. /\ timer'[r] = timer[r] - 1 /\ timer[r] \in Nat
          /\ timer'[q] = timer[q] - 1 /\ timer[q] \in Nat
      BY <1>4, <2>3
    <3>2. timer[r] <= timer[q]
      BY <2>3, <3>1
    <3>3. timer[r] + Gap <= timer[q]
      BY <1>2, <2>3, <3>2 DEF SlotsApart
    <3> QED BY <1>1, <3>1, <3>3
  <2> QED BY <1>1, <2>1, <2>2, <2>3 DEF SlotsApart
<1>6. ASSUME NEW s \in recent'
      PROVE  /\ s \in [age: Ages, number: {0}]
             /\ \E t \in recent : s.age = t.age + 1 /\ t.age \in Nat
  <2>1. PICK t \in recent : s = [t EXCEPT !.age = @ + 1]
    BY <1>6 DEF Older
  <2>2. t \in [age: Ages, number: {0}] /\ t.age \in Nat
    BY <1>2, SecondAssumption DEF SentApart, Ages
  <2>3. s.age = t.age + 1 /\ s.number = 0 /\ s = [age |-> s.age, number |-> s.number]
    BY <2>1, <2>2
  <2>4. s.age \in Ages
    BY <1>6
  <2> QED BY <2>2, <2>3, <2>4
<1>7. SentApart'
  <2>1. recent' \subseteq [age: Ages, number: {0}]
    BY <1>6
  <2>2. ASSUME NEW s \in recent' PROVE Gap <= s.age + ahead'
    <3>1. PICK t \in recent : s.age = t.age + 1 /\ t.age \in Nat
      BY <1>6
    <3>2. Gap <= t.age + ahead
      BY <1>2 DEF SentApart
    <3> QED BY <1>1, <1>2, <1>3, <3>1, <3>2 DEF Earlier
  <2>3. ASSUME NEW s \in recent', NEW r \in Requests, Slotted(r) PROVE Gap <= s.age + timer'[r]
    <3>1. PICK t \in recent : s.age = t.age + 1 /\ t.age \in Nat
      BY <1>6
    <3>2. Gap <= t.age + timer[r]
      BY <1>2, <2>3 DEF SentApart
    <3> QED BY <1>1, <1>4, <2>3, <3>1, <3>2
  <2>4. ASSUME NEW s \in recent', NEW t \in recent', s.age < t.age PROVE s.age + Gap <= t.age
    <3>1. PICK u \in recent : s.age = u.age + 1 /\ u.age \in Nat
      BY <1>6
    <3>2. PICK v \in recent : t.age = v.age + 1 /\ v.age \in Nat
      BY <1>6
    <3>3. u.age + Gap <= v.age
      BY <1>2, <2>4, <3>1, <3>2 DEF SentApart
    <3> QED BY <1>1, <3>1, <3>2, <3>3
  <2> QED BY <1>1, <1>3, <2>1, <2>2, <2>3, <2>4 DEF SentApart, Slotted, Ages
<1>8. PermitsAreUsed'
  BY <1>2, <1>3 DEF PermitsAreUsed
<1> QED BY <1>5, <1>7, <1>8 DEF RateInv

\* What lies a gap apart falls into different gaps.
LEMMA GapsDiffer ==
  ASSUME NEW a \in Nat, NEW b \in Nat, NEW g \in Nat, g > 0, a + g <= b
  PROVE  a \div g \in Nat /\ b \div g \in Nat /\ a \div g < b \div g
<1> DEFINE p == a \div g
           q == b \div g
<1>1. p \in Nat /\ q \in Nat /\ p * g <= a /\ b < (q + 1) * g
  OBVIOUS
<1> HIDE DEF p, q
<1>2. (p + 1) * g <= b
  BY <1>1
<1>3. (p + 1) * g < (q + 1) * g
  BY <1>1, <1>2
<1>4. p + 1 < q + 1
  BY <1>1, <1>3
<1> QED BY <1>1, <1>4 DEF p, q

\* There are as many gaps in a second as the rate says.
LEMMA GapsInSecond ==
  ASSUME NEW g \in Nat, g > 0
  PROVE  /\ (Second - 1) \div g \in Nat
         /\ (Second + g - 1) \div g = (Second - 1) \div g + 1
         /\ \A a \in Ages : a \in Nat /\ a \div g \in 0..((Second - 1) \div g)
<1> DEFINE n == Second - 1
<1>1. n \in Nat /\ Second = n + 1
  BY SecondAssumption
<1> HIDE DEF n
<1>2. n \div g \in Nat
  BY <1>1
<1>3. (n + g) \div g = n \div g + 1
  BY <1>1
<1>4. \A a \in 0..n : a \in Nat /\ a \div g \in 0..(n \div g)
  BY <1>1
<1> QED BY <1>1, <1>2, <1>3, <1>4 DEF n, Ages

\* No two of the requests sent are in one gap.
LEMMA RateOfInv ==
  ASSUME RateInv, AllPaced
  PROVE  NeverFasterThanRate
<1>1. Gap \in Nat /\ Gap > 0
  BY GapOfKinds
<1> DEFINE last == (Second - 1) \div Gap
           T == 0..last
           f == [s \in recent |-> s.age \div Gap]
<1>2. last \in Nat /\ Rate = last + 1
  BY <1>1, GapsInSecond DEF Rate, Gap
<1>3. \A s \in recent : s \in [age: Ages, number: {0}] /\ s.age \in Nat /\ f[s] \in T
  BY <1>1, GapsInSecond DEF RateInv, SentApart
<1>4. ASSUME NEW s \in recent, NEW t \in recent, f[s] = f[t] PROVE s = t
  <2>1. ~(s.age < t.age)
    BY <1>1, <1>3, <1>4, GapsDiffer DEF RateInv, SentApart
  <2>2. ~(t.age < s.age)
    BY <1>1, <1>3, <1>4, GapsDiffer DEF RateInv, SentApart
  <2>3. s.age = t.age
    BY <1>3, <2>1, <2>2
  <2> QED BY <1>3, <2>3
<1>5. IsFiniteSet(T) /\ Cardinality(T) = last + 1
  BY <1>2, FS_Interval
<1> HIDE DEF T, last
<1>6. f \in Injection(recent, T)
  BY <1>3, <1>4 DEF Injection, IsInjective
<1>7. Cardinality(recent) <= Cardinality(T)
  BY <1>5, <1>6, FS_Injection
<1> QED BY <1>2, <1>5, <1>7 DEF NeverFasterThanRate

\* As long as there is a permit for every request, the service never sees more requests
\* in a second than the highest rate allows, whatever mix of rates, retries, redirects,
\* token exchanges and dropped requests (admit_request, exact.rs:32).
THEOREM RateIsKept ==
  ASSUME AllPaced, PermitsForAll
  PROVE  RateSpec => []NeverFasterThanRate
<1>1. RateInit => RateInv
  <2> SUFFICES ASSUME RateInit PROVE RateInv
    OBVIOUS
  <2>1. DispatchType
    BY DispatchStarts DEF RateInit, SlotInv
  <2>2. PermitsAreUsed /\ SlotsApart /\ SentApart
    BY DEF RateInit, Init, PermitsAreUsed, SlotsApart, SentApart, Slotted
  <2> QED BY <2>1, <2>2 DEF RateInv
<1>2. RateInv /\ [RateNext]_rateVars => RateInv'
  <2> SUFFICES ASSUME RateInv, [RateNext]_rateVars PROVE RateInv'
    OBVIOUS
  <2>1. DispatchType'
    <3>1. [Next]_vars
      BY DEF RateNext, rateVars, Next
    <3> QED BY <3>1, TypeStep DEF RateInv
  <2>2. CASE UNCHANGED rateVars
    BY <2>1, <2>2 DEF rateVars, vars, RateInv, PermitsAreUsed, SlotsApart, SentApart, Slotted, Gap
  <2>3. CASE Tick /\ Prompt /\ recent' = {s \in Older : s.age \in Ages}
    BY <2>1, <2>3, TickKeepsRate
  <2>4. CASE /\ Next /\ pc' # pc
             /\ recent' = IF SentNow THEN recent \cup {[age |-> 0, number |-> AtOnce]} ELSE recent
    <3>1. ~Tick
      BY <2>4 DEF Tick
    <3> QED BY <2>1, <2>4, <3>1, RequestKeepsRate DEF Next
  <2> QED BY <2>2, <2>3, <2>4 DEF RateNext
<1>3. RateInv => NeverFasterThanRate
  BY RateOfInv
<1> QED BY <1>1, <1>2, <1>3, PTL DEF RateSpec

-----------------------------------------------------------------------------
(* Induction and recursion, first-order.                                   *)

\* A set of naturals has a least member.
LEMMA LeastMember ==
  ASSUME NEW T \in SUBSET Nat, T # {}
  PROVE  \E m \in T : \A k \in T : m <= k
<1> DEFINE R == OpToRel(<, Nat)
<1>1. IsWellFoundedOn(R, Nat)
  BY NatLessThanWellFounded
<1>2. ASSUME NEW x \in Nat, NEW y \in Nat, x < y PROVE <<x, y>> \in R
  BY <1>2 DEF OpToRel
<1> HIDE DEF R
<1>3. PICK m \in T : \A k \in T : ~(<<k, m>> \in R)
  BY <1>1, WFMin
<1>4. ASSUME NEW k \in T PROVE m <= k
  <2>1. m \in Nat /\ k \in Nat
    OBVIOUS
  <2>2. ~ (k < m)
    BY <1>2, <1>3, <2>1
  <2> QED BY <2>1, <2>2
<1> QED BY <1>4

\* Induction: a set of naturals with 0 that is closed under successors is all of them.
LEMMA Induction ==
  ASSUME NEW T, 0 \in T, \A n \in Nat : n \in T => n + 1 \in T
  PROVE  Nat \subseteq T
<1> SUFFICES ASSUME Nat \ T # {} PROVE FALSE
  OBVIOUS
<1>1. PICK m \in Nat \ T : \A k \in Nat \ T : m <= k
  BY LeastMember
<1>2. m # 0 /\ m - 1 \in Nat
  BY <1>1
<1>3. m - 1 \in T
  BY <1>1, <1>2
<1>4. (m - 1) + 1 = m
  BY <1>2
<1> QED BY <1>1, <1>2, <1>3, <1>4

\* The first n steps of a recursion.
Steps(f, n, S, first, step) ==
  f \in [0..n -> S] /\ f[0] = first /\ \A i \in 0..(n - 1) : f[i + 1] = step[f[i]]

\* They are the same ones, however many are taken.
LEMMA StepsAgree ==
  ASSUME NEW S, NEW first \in S, NEW step \in [S -> S], NEW f, NEW g, NEW m \in Nat, NEW k \in Nat,
         Steps(f, m, S, first, step), Steps(g, k, S, first, step)
  PROVE  \A n \in Nat : n <= m /\ n <= k => f[n] = g[n]
<1> DEFINE U == {n \in Nat : n <= m /\ n <= k => f[n] = g[n]}
<1>1. 0 \in U
  BY DEF Steps
<1>2. ASSUME NEW n \in Nat, n \in U PROVE n + 1 \in U
  <2>1. ASSUME n + 1 <= m, n + 1 <= k PROVE f[n + 1] = g[n + 1]
    <3>1. f[n] = g[n]
      BY <1>2, <2>1
    <3>2. n \in 0..(m - 1) /\ n \in 0..(k - 1)
      BY <2>1
    <3>3. f[n + 1] = step[f[n]] /\ g[n + 1] = step[g[n]]
      BY <3>2 DEF Steps
    <3> QED BY <3>1, <3>3
  <2> QED BY <2>1
<1>3. Nat \subseteq U
  <2> HIDE DEF U
  <2> QED BY <1>1, <1>2, Induction
<1> QED BY <1>3

\* All steps of it.
Follows(f, S, first, step) ==
  f \in [Nat -> S] /\ f[0] = first /\ \A n \in Nat : f[n + 1] = step[f[n]]

\* There is a function that takes them all.
LEMMA Recursion ==
  ASSUME NEW S, NEW first \in S, NEW step \in [S -> S]
  PROVE  \E f : Follows(f, S, first, step)
<1> DEFINE T == {n \in Nat : \E f : Steps(f, n, S, first, step)}
<1>1. 0 \in T
  <2>1. Steps([i \in 0..0 |-> first], 0, S, first, step)
    BY DEF Steps
  <2> QED BY <2>1
<1>2. ASSUME NEW n \in Nat, n \in T PROVE n + 1 \in T
  <2>1. PICK f : Steps(f, n, S, first, step)
    BY <1>2
  <2> DEFINE g == [i \in 0..(n + 1) |-> IF i <= n THEN f[i] ELSE step[f[n]]]
  <2>2. f[n] \in S /\ step[f[n]] \in S
    BY <2>1 DEF Steps
  <2>3. g \in [0..(n + 1) -> S]
    BY <2>1, <2>2 DEF Steps
  <2>4. g[0] = first
    BY <2>1 DEF Steps
  <2>5. ASSUME NEW i \in 0..n PROVE g[i + 1] = step[g[i]]
    <3>1. CASE i = n
      BY <3>1
    <3>2. CASE i < n
      <4>1. i \in 0..(n - 1) /\ i + 1 <= n /\ i + 1 \in 0..(n + 1)
        BY <3>2
      <4>2. f[i + 1] = step[f[i]]
        BY <2>1, <4>1 DEF Steps
      <4> QED BY <4>1, <4>2
    <3> QED BY <3>1, <3>2
  <2> HIDE DEF g
  <2>6. Steps(g, n + 1, S, first, step)
    BY <2>3, <2>4, <2>5 DEF Steps
  <2> QED BY <2>6
<1>3. Nat \subseteq T
  <2> HIDE DEF T
  <2> QED BY <1>1, <1>2, Induction
<1> DEFINE pick == [n \in Nat |-> CHOOSE f : Steps(f, n, S, first, step)]
           h == [n \in Nat |-> pick[n][n]]
<1>7. ASSUME NEW n \in Nat PROVE Steps(pick[n], n, S, first, step)
  BY <1>3
<1> HIDE DEF pick
<1>8. h \in [Nat -> S] /\ h[0] = first
  <2>1. \A n \in Nat : pick[n][n] \in S
    BY <1>7 DEF Steps
  <2>2. pick[0][0] = first
    BY <1>7 DEF Steps
  <2> QED BY <2>1, <2>2
<1>9. ASSUME NEW n \in Nat PROVE h[n + 1] = step[h[n]]
  <2>1. Steps(pick[n], n, S, first, step) /\ Steps(pick[n + 1], n + 1, S, first, step)
    BY <1>7
  <2>2. pick[n][n] = pick[n + 1][n]
    BY <2>1, StepsAgree
  <2>3. n + 1 \in Nat /\ n \in 0..((n + 1) - 1)
    OBVIOUS
  <2>4. pick[n + 1][n + 1] = step[pick[n + 1][n]]
    BY <2>1, <2>3 DEF Steps
  <2> QED BY <2>2, <2>4
<1> HIDE DEF h
<1> QED BY <1>8, <1>9 DEF Follows

\* Powers of two are naturals, each twice the one before.
LEMMA TwoIs == Two \in [Nat -> Nat] /\ Two[0] = 1 /\ \A n \in Nat : Two[n + 1] = 2 * Two[n]
<1> DEFINE step == [v \in Nat |-> 2 * v]
<1>1. step \in [Nat -> Nat] /\ 1 \in Nat
  OBVIOUS
<1> HIDE DEF step
<1>2. PICK f : Follows(f, Nat, 1, step)
  BY <1>1, Recursion
<1>3. f = [n \in Nat |-> IF n = 0 THEN 1 ELSE 2 * f[n - 1]]
  <2>1. ASSUME NEW n \in Nat, n # 0 PROVE f[n] = 2 * f[n - 1]
    <3>1. n - 1 \in Nat /\ (n - 1) + 1 = n
      BY <2>1
    <3>2. f[n] = step[f[n - 1]] /\ f[n - 1] \in Nat
      BY <1>2, <3>1 DEF Follows
    <3> QED BY <3>2 DEF step
  <2> QED BY <1>2, <2>1 DEF Follows
<1>4. Two = [n \in Nat |-> IF n = 0 THEN 1 ELSE 2 * Two[n - 1]]
  BY <1>3 DEF Two
<1>5. Two[0] = 1 /\ \A n \in Nat : Two[n + 1] = 2 * Two[n]
  BY <1>4
<1> DEFINE T == {n \in Nat : Two[n] \in Nat}
<1>6. 0 \in T /\ \A n \in Nat : n \in T => n + 1 \in T
  BY <1>5
<1>7. Nat \subseteq T
  <2> HIDE DEF T
  <2> QED BY <1>6, Induction
<1> QED BY <1>4, <1>5, <1>7

-----------------------------------------------------------------------------
(* Products and quotients.                                                 *)

\* Products of naturals are naturals.
LEMMA ProductIsNat == ASSUME NEW a \in Nat, NEW b \in Nat PROVE a * b \in Nat
OBVIOUS

\* Products grow with their factors.
LEMMA ProductGrows ==
  ASSUME NEW a \in Nat, NEW b \in Nat, NEW c \in Nat, a <= b
  PROVE  a * c <= b * c /\ c * a <= c * b
<1>1. PICK k \in Nat : b = a + k
  <2> b - a \in Nat /\ b = a + (b - a)
    OBVIOUS
  <2> QED OBVIOUS
<1>2. k * c \in Nat
  BY ProductIsNat
<1>3. b * c = a * c + k * c /\ c * b = c * a + k * c
  BY <1>1
<1>4. a * c \in Nat /\ c * a \in Nat
  BY ProductIsNat
<1> QED BY <1>2, <1>3, <1>4

\* Products are ordered as their factors are.
LEMMA ProductOrder ==
  ASSUME NEW a \in Nat, NEW b \in Nat, NEW c \in Nat, c >= 1
  PROVE  (a * c < b * c => a < b) /\ (a * c <= b * c => a <= b) /\ (a < b => a * c < b * c)
<1>1. a * c \in Nat /\ b * c \in Nat
  BY ProductIsNat
<1>2. a < b \/ a = b \/ b < a
  OBVIOUS
<1>3. ASSUME a < b PROVE a * c < b * c
  <2>1. a + 1 <= b /\ a + 1 \in Nat
    BY <1>3
  <2>2. (a + 1) * c <= b * c
    BY <2>1, ProductGrows
  <2>3. (a + 1) * c = a * c + c
    OBVIOUS
  <2> QED BY <2>2, <2>3, <1>1
<1>4. ASSUME b < a PROVE b * c < a * c
  <2>1. b + 1 <= a /\ b + 1 \in Nat
    BY <1>4
  <2>2. (b + 1) * c <= a * c
    BY <2>1, ProductGrows
  <2>3. (b + 1) * c = b * c + c
    OBVIOUS
  <2> QED BY <2>2, <2>3, <1>1
<1> QED BY <1>1, <1>2, <1>3, <1>4

\* Division, and what it determines.
LEMMA DivisionIs ==
  ASSUME NEW n \in Nat, NEW d \in Nat, d >= 1
  PROVE  /\ n \div d \in Nat /\ n % d \in Nat /\ n % d < d
         /\ n = (n \div d) * d + (n % d)
<1>1. n \div d \in Int /\ n % d \in 0..(d - 1) /\ n = d * (n \div d) + (n % d)
  BY SMT
<1> DEFINE q == n \div d
           r == n % d
<1>2. q \in Int /\ r \in Nat /\ r < d /\ n = d * q + r
  BY <1>1
<1> HIDE DEF q, r
<1>3. q >= 0
  <2> SUFFICES ASSUME q < 0 PROVE FALSE
    BY <1>2
  <2> DEFINE k == -q
  <2>1. k \in Nat /\ 1 <= k /\ q = -k
    BY <1>2
  <2> HIDE DEF k
  <2>2. 1 * d <= k * d /\ k * d \in Nat
    BY <2>1, ProductGrows, ProductIsNat
  <2>3. d * q = -(k * d)
    BY <2>1
  <2> QED BY <1>2, <2>2, <2>3
<1>4. d * q = q * d
  BY <1>2
<1> QED BY <1>2, <1>3, <1>4 DEF q, r

\* What determines a quotient and its remainder.
LEMMA QuotientIs ==
  ASSUME NEW n \in Nat, NEW d \in Nat, NEW q \in Nat, NEW r \in Nat, r < d, n = q * d + r
  PROVE  n \div d = q /\ n % d = r
<1>1. d >= 1
  OBVIOUS
<1> DEFINE p == n \div d
           s == n % d
<1>2. p \in Nat /\ s \in Nat /\ s < d /\ n = p * d + s
  BY <1>1, DivisionIs
<1> HIDE DEF p, s
<1>3. p * d \in Nat /\ q * d \in Nat
  BY <1>2, ProductIsNat
<1>4. ~ (p < q)
  <2> SUFFICES ASSUME p + 1 <= q PROVE FALSE
    BY <1>2
  <2>1. (p + 1) * d <= q * d
    BY <1>2, ProductGrows
  <2>2. (p + 1) * d = p * d + d
    BY <1>2
  <2> QED BY <1>2, <1>3, <2>1, <2>2
<1>5. ~ (q < p)
  <2> SUFFICES ASSUME q + 1 <= p PROVE FALSE
    BY <1>2
  <2>1. (q + 1) * d <= p * d
    BY <1>2, ProductGrows
  <2>2. (q + 1) * d = q * d + d
    OBVIOUS
  <2> QED BY <1>2, <1>3, <2>1, <2>2
<1>6. p = q
  BY <1>2, <1>4, <1>5
<1>7. s = r
  BY <1>2, <1>3, <1>6
<1> QED BY <1>6, <1>7 DEF p, s

\* The quotient against a bound.
LEMMA QuotientBound ==
  ASSUME NEW n \in Nat, NEW d \in Nat, d >= 1, NEW c \in Nat
  PROVE  /\ n < c * d <=> n \div d < c
         /\ c * d <= n <=> c <= n \div d
<1>1. n \div d \in Nat /\ n % d \in Nat /\ n % d < d /\ n = (n \div d) * d + (n % d)
  BY DivisionIs
<1> DEFINE q == n \div d
           r == n % d
<1> HIDE DEF q, r
<1>2. q \in Nat /\ q * d \in Nat /\ c * d \in Nat /\ q * d <= n /\ n < q * d + d
  <2>1. q \in Nat /\ r \in Nat /\ r < d /\ n = q * d + r
    BY <1>1 DEF q, r
  <2>2. q * d \in Nat /\ c * d \in Nat
    BY <2>1, ProductIsNat
  <2> QED BY <2>1, <2>2
<1>3. ASSUME q < c PROVE n < c * d
  <2>1. q + 1 <= c /\ q + 1 \in Nat
    BY <1>2, <1>3
  <2>2. (q + 1) * d <= c * d
    BY <2>1, ProductGrows
  <2>3. (q + 1) * d = q * d + d
    BY <1>2
  <2> QED BY <1>2, <2>2, <2>3
<1>4. ASSUME c <= q PROVE c * d <= n
  <2>1. c * d <= q * d
    BY <1>2, <1>4, ProductGrows
  <2> QED BY <1>2, <2>1
<1>5. (n < c * d) = ~ (c * d <= n) /\ (q < c) = ~ (c <= q)
  BY <1>2
<1>6. (n < c * d <=> q < c) /\ (c * d <= n <=> c <= q)
  BY <1>3, <1>4, <1>5
<1> QED BY <1>6 DEF q

-----------------------------------------------------------------------------
(* Powers of two.                                                          *)

\* Exponents add up.
LEMMA TwoAdds == \A m \in Nat : \A n \in Nat : Two[m + n] = Two[m] * Two[n]
<1> SUFFICES ASSUME NEW m \in Nat PROVE \A n \in Nat : Two[m + n] = Two[m] * Two[n]
  OBVIOUS
<1> DEFINE T == {n \in Nat : Two[m + n] = Two[m] * Two[n]}
<1>1. 0 \in T
  <2>1. Two[m] \in Nat /\ Two[0] = 1 /\ m + 0 = m
    BY TwoIs
  <2> QED BY <2>1
<1>2. ASSUME NEW n \in Nat, n \in T PROVE n + 1 \in T
  <2>1. m + n \in Nat /\ m + (n + 1) = (m + n) + 1
    OBVIOUS
  <2>2. Two[m + (n + 1)] = 2 * Two[m + n] /\ Two[n + 1] = 2 * Two[n]
    BY <2>1, TwoIs
  <2>3. Two[m] \in Nat /\ Two[n] \in Nat /\ Two[m + n] = Two[m] * Two[n]
    BY <1>2, TwoIs
  <2> HIDE DEF T
  <2>4. 2 * (Two[m] * Two[n]) = Two[m] * (2 * Two[n])
    BY <2>3
  <2>5. Two[m + (n + 1)] = Two[m] * Two[n + 1]
    BY <2>2, <2>3, <2>4
  <2> QED BY <2>5 DEF T
<1>3. Nat \subseteq T
  <2> HIDE DEF T
  <2> QED BY <1>1, <1>2, Induction
<1> QED BY <1>3

\* Powers of two are one at least.
LEMMA TwoPositive == \A n \in Nat : Two[n] \in Nat /\ Two[n] >= 1
<1> DEFINE T == {n \in Nat : Two[n] >= 1}
<1>1. 0 \in T
  BY TwoIs
<1>2. ASSUME NEW n \in Nat, n \in T PROVE n + 1 \in T
  <2>1. Two[n] \in Nat /\ Two[n] >= 1 /\ Two[n + 1] = 2 * Two[n]
    BY <1>2, TwoIs
  <2> QED BY <2>1
<1>3. Nat \subseteq T
  <2> HIDE DEF T
  <2> QED BY <1>1, <1>2, Induction
<1>4. \A n \in Nat : Two[n] \in Nat
  BY TwoIs
<1> QED BY <1>3, <1>4

\* And they grow.
LEMMA TwoGrows ==
  ASSUME NEW m \in Nat, NEW n \in Nat, m <= n
  PROVE  Two[m] <= Two[n]
<1>1. PICK k \in Nat : n = m + k
  <2> n - m \in Nat /\ n = m + (n - m)
    OBVIOUS
  <2> QED OBVIOUS
<1>2. Two[n] = Two[m] * Two[k]
  BY <1>1, TwoAdds
<1>3. Two[m] \in Nat /\ Two[k] \in Nat /\ 1 <= Two[k]
  BY TwoPositive
<1>4. Two[m] * 1 <= Two[m] * Two[k]
  BY <1>3, ProductGrows
<1> QED BY <1>2, <1>3, <1>4

\* Every natural is below some power of two.
LEMMA BelowTwo == \A n \in Nat : n < Two[n]
<1> DEFINE T == {n \in Nat : n < Two[n]}
<1>1. 0 \in T
  BY TwoIs
<1>2. ASSUME NEW n \in Nat, n \in T PROVE n + 1 \in T
  <2>1. Two[n] \in Nat /\ n < Two[n] /\ Two[n + 1] = 2 * Two[n]
    BY <1>2, TwoIs
  <2> QED BY <2>1
<1>3. Nat \subseteq T
  <2> HIDE DEF T
  <2> QED BY <1>1, <1>2, Induction
<1> QED BY <1>3

-----------------------------------------------------------------------------
(* The widths of the words.                                                *)

\* The numbers that the widths of the words determine.
LEMMA Widths ==
  /\ HalfWord \in Nat /\ HalfWord >= 1 /\ Word \in Nat /\ Word >= 2 /\ HalfWord < Word
  /\ FractionBits \in Nat /\ FractionBits + 1 \in Nat /\ FractionBits + 1 <= HalfWord
  /\ Two[Word] = Two[HalfWord] * Two[HalfWord]
  /\ Two[HalfWord] \in Nat /\ Two[HalfWord] >= 2 /\ Two[Word] \in Nat /\ Two[Word] >= 1
  /\ MaxU64 \in Nat /\ MaxU64 >= 1 /\ MaxU64 + 1 = Two[HalfWord]
  /\ Two[FractionBits] \in Nat /\ Two[FractionBits] >= 1
  /\ Two[FractionBits + 1] = 2 * Two[FractionBits] /\ Two[FractionBits + 1] <= Two[HalfWord]
<1>1. /\ HalfWord \in Nat /\ HalfWord >= 1 /\ Word \in Nat /\ Word >= 2 /\ HalfWord < Word
      /\ FractionBits \in Nat /\ FractionBits + 1 \in Nat /\ FractionBits + 1 <= HalfWord
      /\ Word = HalfWord + HalfWord /\ HalfWord - 1 \in Nat
  BY WidthAssumption DEF Word
<1>2. Two[Word] = Two[HalfWord] * Two[HalfWord]
  BY <1>1, TwoAdds
<1>3. Two[HalfWord] = 2 * Two[HalfWord - 1]
  <2>1. HalfWord = (HalfWord - 1) + 1
    BY <1>1
  <2> QED BY <1>1, <2>1, TwoIs
<1>4. /\ Two[HalfWord] \in Nat /\ Two[Word] \in Nat /\ Two[Word] >= 1
      /\ Two[HalfWord - 1] \in Nat /\ Two[HalfWord - 1] >= 1
      /\ Two[FractionBits] \in Nat /\ Two[FractionBits] >= 1
  BY <1>1, TwoPositive
<1>5. Two[HalfWord] >= 2
  BY <1>3, <1>4
<1>6. MaxU64 \in Nat /\ MaxU64 >= 1 /\ MaxU64 + 1 = Two[HalfWord]
  BY <1>4, <1>5 DEF MaxU64
<1>7. Two[FractionBits + 1] = 2 * Two[FractionBits]
  BY <1>1, TwoIs
<1>8. Two[FractionBits + 1] <= Two[HalfWord]
  BY <1>1, TwoGrows
<1> QED BY <1>1, <1>2, <1>4, <1>5, <1>6, <1>7, <1>8

\* Half a word times half a word fits the word.
LEMMA HalvesFit ==
  ASSUME NEW b \in Nat, NEW x \in Nat, NEW y \in Nat, x < b, y < b
  PROVE  x * y \in Nat /\ x * y < b * b
<1>1. x * y <= x * b /\ x * y \in Nat
  BY ProductGrows, ProductIsNat
<1>2. x * b < b * b
  BY ProductOrder
<1>3. x * b \in Nat /\ b * b \in Nat
  BY ProductIsNat
<1> QED BY <1>1, <1>2, <1>3

\* A double is at least the least mantissa, and below the next power.
LEMMA DyadicIs ==
  ASSUME NEW x \in Doubles, dyadic(x) # NoValue
  PROVE  /\ dyadic(x) \in [m: Nat, e: Int]
         /\ dyadic(x).m >= 1 /\ dyadic(x).m < Two[FractionBits + 1]
<1>1. /\ x.negative \in BOOLEAN /\ x.field \in Nat /\ x.fraction \in Nat
      /\ x.fraction < Two[FractionBits]
  BY Widths, ExponentAssumption DEF Doubles
<1>2. MinExponent \in Int
  BY ExponentAssumption
<1>3. CASE x.field = 0
  <2>1. dyadic(x) = [m |-> x.fraction, e |-> MinExponent] /\ x.fraction # 0
    BY <1>3 DEF dyadic
  <2> QED BY <1>1, <1>2, <2>1, Widths
<1>4. CASE x.field # 0
  <2>1. dyadic(x) = [m |-> x.fraction + Two[FractionBits], e |-> x.field - 1 + MinExponent]
    BY <1>4 DEF dyadic
  <2> QED BY <1>1, <1>2, <2>1, Widths
<1> QED BY <1>3, <1>4

\* What a double is multiplied and divided by.
LEMMA ScaleIs ==
  ASSUME NEW d \in [m: Nat, e: Int]
  PROVE  /\ Up(d) \in Nat /\ Up(d) >= 1 /\ Down(d) \in Nat /\ Down(d) >= 1
         /\ d.e >= 0 => d.e \in Nat /\ Up(d) = Two[d.e] /\ Down(d) = 1
         /\ d.e < 0 => -d.e \in Nat /\ -d.e >= 1 /\ Up(d) = 1 /\ Down(d) = Two[-d.e]
<1>1. d.e \in Int /\ Two[0] = 1
  BY TwoIs
<1>2. CASE d.e >= 0
  <2>1. d.e \in Nat /\ Two[d.e] \in Nat /\ Two[d.e] >= 1 /\ (d.e > 0 \/ d.e = 0)
    BY <1>1, <1>2, TwoPositive
  <2>2. Up(d) = Two[d.e] /\ Down(d) = 1
    BY <1>1, <1>2, <2>1 DEF Up, Down
  <2> QED BY <1>2, <2>1, <2>2
<1>3. CASE d.e < 0
  <2>1. -d.e \in Nat /\ -d.e >= 1 /\ ~ (d.e > 0) /\ ~ (d.e >= 0)
    BY <1>1, <1>3
  <2>2. Two[-d.e] \in Nat /\ Two[-d.e] >= 1
    BY <2>1, TwoPositive
  <2>3. Up(d) = 1 /\ Down(d) = Two[-d.e]
    BY <1>1, <1>3, <2>1 DEF Up, Down
  <2> QED BY <2>1, <2>2, <2>3
<1> QED BY <1>1, <1>2, <1>3

\* A factor of one at least has no more bits behind the point than its mantissa has.
LEMMA FactorIs ==
  ASSUME NEW x \in Doubles, ValidFactor(x)
  PROVE  /\ dyadic(x) \in [m: Nat, e: Int] /\ dyadic(x) # NoValue
         /\ dyadic(x).m >= 1 /\ dyadic(x).m < Two[FractionBits + 1]
         /\ dyadic(x).m < Two[HalfWord]
         /\ Down(dyadic(x)) <= dyadic(x).m * Up(dyadic(x))
         /\ Down(dyadic(x)) <= Two[FractionBits]
         /\ dyadic(x).e < 0 => -dyadic(x).e <= FractionBits
<1> DEFINE d == dyadic(x)
<1>1. d # NoValue /\ AtLeast(d, 1)
  BY DEF ValidFactor
<1>2. d \in [m: Nat, e: Int] /\ d.m >= 1 /\ d.m < Two[FractionBits + 1]
  BY <1>1, DyadicIs
<1> HIDE DEF d
<1>3. Down(d) <= d.m * Up(d)
  <2>1. d.m * Up(d) >= 1 * Down(d)
    BY <1>1 DEF AtLeast
  <2> QED BY <2>1, <1>2, ScaleIs
<1>4. CASE d.e >= 0
  <2>1. Down(d) = 1 /\ d.e \in Int
    BY <1>2, <1>4, ScaleIs
  <2> QED BY <1>1, <1>2, <1>3, <1>4, <2>1, Widths DEF d
<1>5. CASE d.e < 0
  <2> DEFINE k == -d.e
  <2>1. k \in Nat /\ Down(d) = Two[k] /\ Up(d) = 1
    BY <1>2, <1>5, ScaleIs
  <2> HIDE DEF k
  <2>2. Two[k] <= d.m /\ Two[k] \in Nat
    BY <1>2, <1>3, <2>1, TwoIs
  <2>3. ~ (FractionBits + 1 <= k)
    <3> SUFFICES ASSUME FractionBits + 1 <= k PROVE FALSE
      OBVIOUS
    <3>1. Two[FractionBits + 1] <= Two[k]
      BY <2>1, TwoGrows, Widths
    <3> QED BY <1>2, <2>2, <3>1, Widths
  <2>4. k <= FractionBits
    BY <2>1, <2>3, Widths
  <2>5. Two[k] <= Two[FractionBits]
    BY <2>1, <2>4, TwoGrows, Widths
  <2> QED BY <1>1, <1>2, <1>3, <1>5, <2>1, <2>4, <2>5, Widths DEF d, k
<1>6. d.e \in Int
  BY <1>2
<1> QED BY <1>4, <1>5, <1>6

-----------------------------------------------------------------------------
(* One step of the backoff, in two words.                                  *)

\* The identity behind the product of two words and a mantissa: what is
\* carried from the low word to the high one is not lost.
LEMMA ProductParts ==
  ASSUME NEW b \in Nat, NEW w \in Nat, NEW m \in Nat, NEW fh \in Nat, NEW fl \in Nat,
         NEW lq \in Nat, NEW lr \in Nat, NEW sq \in Nat, NEW sr \in Nat,
         fh * m = lq * b + lr,
         fl * m + lr * b = sq * (b * b) + sr
  PROVE  (w * m + lq + sq) * (b * b) + sr = (w * (b * b) + (fh * b + fl)) * m
<1>1. (fh * m) * b = lq * (b * b) + lr * b
  <2>1. (fh * m) * b = (lq * b + lr) * b
    OBVIOUS
  <2>2. (lq * b + lr) * b = lq * (b * b) + lr * b
    OBVIOUS
  <2> QED BY <2>1, <2>2
<1>2. (w * (b * b) + (fh * b + fl)) * m = (w * m) * (b * b) + (fh * m) * b + fl * m
  OBVIOUS
<1>3. (w * m + lq + sq) * (b * b) = (w * m) * (b * b) + lq * (b * b) + sq * (b * b)
  OBVIOUS
<1>4. /\ (w * m) * (b * b) \in Nat /\ lq * (b * b) \in Nat /\ sq * (b * b) \in Nat
      /\ (fh * m) * b \in Nat /\ fl * m \in Nat /\ lr * b \in Nat
  <2>1. b * b \in Nat /\ w * m \in Nat /\ fh * m \in Nat
    BY ProductIsNat
  <2> QED BY <2>1, ProductIsNat
<1> QED BY <1>1, <1>2, <1>3, <1>4

\* Two words.
Words(h, l) == h * Two[Word] + l

\* The high and the low word of the product hold it.
LEMMA ProductIs ==
  ASSUME NEW k, k.whole \in Nat, k.whole < Two[HalfWord],
         k.fraction \in Nat, k.fraction < Two[Word],
         k.mantissa \in Nat, k.mantissa < Two[HalfWord]
  PROVE  /\ Product(k)[1] \in Nat /\ Product(k)[2] \in Nat
         /\ Product(k)[1] < Two[Word] /\ Product(k)[2] < Two[Word]
         /\ Words(Product(k)[1], Product(k)[2]) = Words(k.whole, k.fraction) * k.mantissa
<1> DEFINE b == Two[HalfWord]
           w == k.whole
           f == k.fraction
           m == k.mantissa
           fh == f \div b
           fl == f % b
           lq == (fh * m) \div b
           lr == (fh * m) % b
           sum == fl * m + lr * b
           sq == sum \div (b * b)
           sr == sum % (b * b)
<1>1. /\ b \in Nat /\ b >= 2 /\ Two[Word] = b * b /\ b * b \in Nat /\ b * b >= 1
      /\ w \in Nat /\ w < b /\ f \in Nat /\ f < b * b /\ m \in Nat /\ m < b
  BY Widths
<1> HIDE DEF b, w, f, m
<1>2. fh \in Nat /\ fl \in Nat /\ fl < b /\ f = fh * b + fl /\ fh < b
  BY <1>1, DivisionIs, QuotientBound
<1> HIDE DEF fh, fl
<1>3. fh * m \in Nat /\ fh * m < b * b /\ fl * m \in Nat
  BY <1>1, <1>2, HalvesFit
<1>4. lq \in Nat /\ lr \in Nat /\ lr < b /\ fh * m = lq * b + lr
  <2> DEFINE x == fh * m
  <2>1. x \in Nat /\ b \in Nat /\ b >= 1
    BY <1>1, <1>3
  <2> HIDE DEF x
  <2>2. x \div b \in Nat /\ x % b \in Nat /\ x % b < b /\ x = (x \div b) * b + (x % b)
    BY <2>1, DivisionIs
  <2> QED BY <2>2 DEF x
<1> HIDE DEF lq, lr
<1>5. ((fh * m) * b) % (b * b) = lr * b
  <2>1. lr * b < b * b /\ lr * b \in Nat
    BY <1>1, <1>4, ProductOrder, ProductIsNat
  <2>2. (fh * m) * b = lq * (b * b) + lr * b
    <3>1. (fh * m) * b = (lq * b + lr) * b
      BY <1>4
    <3>2. (lq * b + lr) * b = lq * (b * b) + lr * b
      BY <1>1, <1>4
    <3> QED BY <3>1, <3>2
  <2>3. (fh * m) * b \in Nat
    BY <1>1, <1>3, ProductIsNat
  <2> DEFINE n == (fh * m) * b
             d == b * b
             r == lr * b
  <2>4. n \in Nat /\ d \in Nat /\ lq \in Nat /\ r \in Nat /\ r < d /\ n = lq * d + r
    BY <1>1, <1>4, <2>1, <2>2, <2>3
  <2> HIDE DEF n, d, r
  <2>5. n % d = r
    BY <2>4, QuotientIs
  <2> QED BY <2>5 DEF n, d, r
<1>6. sum \in Nat
  <2>1. lr * b \in Nat
    BY <1>1, <1>4, ProductIsNat
  <2> QED BY <1>3, <2>1
<1>7. sq \in Nat /\ sr \in Nat /\ sr < b * b /\ sum = sq * (b * b) + sr
  <2> HIDE DEF sum
  <2> QED BY <1>1, <1>6, DivisionIs
<1>8. Product(k) = <<w * m + lq + sq, sr>>
  BY <1>1, <1>5 DEF Product, Wrap, w, f, m, b, fh, fl, lq, lr
<1> DEFINE hi == w * m + lq + sq
<1>9. hi \in Nat
  <2>1. w * m \in Nat
    BY <1>1, ProductIsNat
  <2> QED BY <1>4, <1>7, <2>1
<1>10. hi * (b * b) + sr = (w * (b * b) + f) * m
  <2>1. fl * m + lr * b = sq * (b * b) + sr
    BY <1>7
  <2> HIDE DEF sq, sr
  <2>2. (w * m + lq + sq) * (b * b) + sr = (w * (b * b) + (fh * b + fl)) * m
    BY <1>1, <1>2, <1>4, <1>7, <2>1, ProductParts
  <2> QED BY <1>2, <2>2
<1> HIDE DEF hi, sq, sr
<1>11. hi < b * b
  <2> DEFINE V == w * (b * b) + f
  <2>1. V \in Nat /\ V < b * (b * b)
    <3>1. w + 1 <= b /\ w + 1 \in Nat
      BY <1>1
    <3>2. (w + 1) * (b * b) <= b * (b * b)
      BY <1>1, <3>1, ProductGrows
    <3>3. (w + 1) * (b * b) = w * (b * b) + b * b
      BY <1>1
    <3>4. w * (b * b) \in Nat /\ b * (b * b) \in Nat
      BY <1>1, ProductIsNat
    <3> QED BY <1>1, <3>2, <3>3, <3>4
  <2> HIDE DEF V
  <2>2. V * m <= V * b /\ V * b < (b * (b * b)) * b
    <3>1. b * (b * b) \in Nat
      BY <1>1, ProductIsNat
    <3> QED BY <1>1, <2>1, <3>1, ProductGrows, ProductOrder
  <2>3. (b * (b * b)) * b = (b * b) * (b * b)
    BY <1>1
  <2>4. hi * (b * b) <= V * m
    <3>1. hi * (b * b) \in Nat
      BY <1>1, <1>9, ProductIsNat
    <3> QED BY <1>10, <1>7, <3>1 DEF V
  <2>5. hi * (b * b) < (b * b) * (b * b)
    <3>1. hi * (b * b) \in Nat /\ V * m \in Nat /\ V * b \in Nat /\ (b * b) * (b * b) \in Nat
      BY <1>1, <1>9, <2>1, ProductIsNat
    <3> QED BY <2>2, <2>3, <2>4, <3>1
  <2> QED BY <1>1, <1>9, <2>5, ProductOrder
<1>12. Product(k)[1] = hi /\ Product(k)[2] = sr
  BY <1>8 DEF hi
<1>13. Words(hi, sr) = Words(k.whole, k.fraction) * k.mantissa
  BY <1>1, <1>10 DEF Words, w, f, m
<1> QED BY <1>1, <1>7, <1>9, <1>11, <1>12, <1>13

\* The number of bits of a word.
LEMMA BitsAre ==
  ASSUME NEW v \in Nat, v < Two[Word]
  PROVE  /\ BitsOf(v) \in Nat /\ BitsOf(v) <= Word /\ v < Two[BitsOf(v)]
         /\ v >= 1 => BitsOf(v) >= 1 /\ Two[BitsOf(v) - 1] <= v
<1> DEFINE T == {n \in Nat : v < Two[n]}
           Is(n) == v < Two[n] /\ (n = 0 \/ v >= Two[n - 1])
<1>1. Word \in T
  BY Widths
<1>2. PICK n \in T : \A k \in T : n <= k
  <2> HIDE DEF T
  <2>1. T \in SUBSET Nat
    BY DEF T
  <2> QED BY <1>1, <2>1, LeastMember
<1>3. n \in 0..Word
  BY <1>1, <1>2, Widths
<1>4. Is(n)
  <2>1. ASSUME n # 0 PROVE v >= Two[n - 1]
    <3>1. n - 1 \in Nat /\ ~ (n <= n - 1)
      BY <1>2, <2>1
    <3>2. ~ (v < Two[n - 1]) /\ Two[n - 1] \in Nat
      BY <1>2, <3>1, TwoIs
    <3> QED BY <3>2
  <2> QED BY <1>2, <2>1
<1>5. BitsOf(v) \in 0..Word /\ Is(BitsOf(v))
  <2> HIDE DEF Is
  <2>1. BitsOf(v) = CHOOSE k \in 0..Word : Is(k)
    BY DEF BitsOf, Is
  <2> QED BY <1>3, <1>4, <2>1
<1>6. v >= 1 => BitsOf(v) # 0
  BY <1>5, TwoIs
<1> QED BY <1>5, <1>6, Widths

\* A number below the word is what is left of it there.
LEMMA WrapIs == ASSUME NEW v \in Nat, v < Two[Word] PROVE Wrap(v) = v
<1>1. Two[Word] \in Nat /\ v = 0 * Two[Word] + v
  BY Widths
<1> QED BY <1>1, QuotientIs DEF Wrap

\* A power of two below the word divides it.
LEMMA WordSplits ==
  ASSUME NEW by \in Nat, by < Word
  PROVE  /\ Word - by \in Nat /\ Two[by] \in Nat /\ Two[Word - by] \in Nat
         /\ Two[by] >= 1 /\ Two[Word - by] >= 1 /\ Two[Word] = Two[by] * Two[Word - by]
<1>1. Word - by \in Nat /\ Word = by + (Word - by)
  BY Widths
<1>2. Two[Word] = Two[by] * Two[Word - by]
  BY <1>1, TwoAdds
<1> QED BY <1>1, <1>2, TwoPositive

\* Two words shifted to the left, when what leaves them at the top is zero.
LEMMA LeftShiftIs ==
  ASSUME NEW h \in Nat, NEW l \in Nat, NEW by \in Nat, l < Two[Word], Words(h, l) >= 1,
         Words(h, l) * Two[by] < Two[Word] * Two[Word]
  PROVE  LET s == shift_left(h, l, by)
         IN  /\ s[1] \in Nat /\ s[2] \in Nat /\ s[2] < Two[Word]
             /\ Words(s[1], s[2]) = Words(h, l) * Two[by]
<1> DEFINE B == Two[Word]
           p == Two[by]
<1>1. B \in Nat /\ B >= 1 /\ p \in Nat /\ p >= 1 /\ l < B
  BY Widths, TwoPositive
<1>2. (h * B + l) * p < B * B /\ h * B + l >= 1
  BY DEF Words
<1>3. h * p < B
  <2> HIDE DEF B, p
  <2>1. (h * p) * B + l * p = (h * B + l) * p
    BY <1>1
  <2>2. h * p \in Nat /\ l * p \in Nat /\ (h * p) * B \in Nat /\ B * B \in Nat
    BY <1>1, ProductIsNat
  <2>3. (h * p) * B < B * B
    BY <1>2, <2>1, <2>2
  <2> QED BY <1>1, <2>2, <2>3, ProductOrder
<1>4. CASE by = 0
  <2>1. shift_left(h, l, by) = <<h, l>> /\ p = 1
    BY <1>4, TwoIs DEF shift_left
  <2>2. Words(h, l) \in Nat
    BY ProductIsNat, <1>1 DEF Words
  <2> QED BY <1>1, <2>1, <2>2
<1>5. CASE by # 0 /\ by < Word
  <2> DEFINE q == Two[Word - by]
             lq == l \div q
             lr == l % q
  <2>1. q \in Nat /\ q >= 1 /\ B = p * q
    BY <1>5, WordSplits
  <2>2. shift_left(h, l, by) = <<Wrap(h * p) + lq, Wrap(l * p)>>
    BY <1>5 DEF shift_left
  <2> HIDE DEF B, p, q
  <2>3. lq \in Nat /\ lr \in Nat /\ lr < q /\ l = lq * q + lr
    BY <2>1, DivisionIs
  <2> HIDE DEF lq, lr
  <2>4. Wrap(h * p) = h * p /\ h * p \in Nat
    BY <1>1, <1>3, WrapIs, ProductIsNat DEF B
  <2>5. lr * p \in Nat /\ lr * p < B
    <3>1. lr * p < q * p
      BY <1>1, <2>1, <2>3, ProductOrder
    <3> QED BY <1>1, <2>1, <2>3, <3>1, ProductIsNat
  <2>6. l * p = lq * B + lr * p /\ l * p \in Nat
    <3>1. (lq * q + lr) * p = lq * (p * q) + lr * p
      BY <1>1, <2>1, <2>3
    <3> QED BY <1>1, <2>1, <2>3, <3>1, ProductIsNat
  <2>7. Wrap(l * p) = lr * p
    <3> DEFINE n == l * p
               r == lr * p
    <3>1. n \in Nat /\ B \in Nat /\ r \in Nat /\ r < B /\ n = lq * B + r
      BY <1>1, <2>5, <2>6
    <3> HIDE DEF n, r
    <3>2. n % B = r
      BY <2>3, <3>1, QuotientIs
    <3> QED BY <3>2 DEF n, r, Wrap, B
  <2>8. (h * p + lq) * B + lr * p = (h * B + l) * p
    <3>1. (h * p + lq) * B + lr * p = (h * p) * B + (lq * B + lr * p)
      BY <1>1, <2>3
    <3>2. (h * B + l) * p = (h * p) * B + l * p
      BY <1>1
    <3> QED BY <2>6, <3>1, <3>2
  <2> QED BY <2>2, <2>3, <2>4, <2>5, <2>7, <2>8 DEF Words, B, p
<1>6. CASE by >= Word
  <2>1. by - Word \in Nat /\ by = Word + (by - Word) /\ by # 0 /\ ~ (by < Word)
    BY <1>6, Widths
  <2> DEFINE q == Two[by - Word]
  <2>2. p = B * q /\ q \in Nat /\ q >= 1
    <3> DEFINE j == by - Word
    <3>1. j \in Nat /\ by = Word + j /\ Word \in Nat
      BY <2>1, Widths
    <3> HIDE DEF j
    <3>2. Two[Word + j] = Two[Word] * Two[j] /\ Two[j] \in Nat /\ Two[j] >= 1
      BY <3>1, TwoAdds, TwoPositive
    <3> QED BY <3>1, <3>2 DEF j
  <2> HIDE DEF q
  <2>3. h = 0
    <3> HIDE DEF B, p
    <3> SUFFICES ASSUME h >= 1 PROVE FALSE
      OBVIOUS
    <3>1. 1 * p <= h * p
      BY <1>1, ProductGrows
    <3>2. B * 1 <= B * q
      BY <1>1, <2>2, ProductGrows
    <3>3. h * p \in Nat /\ B * q \in Nat
      BY <1>1, <2>2, ProductIsNat
    <3> QED BY <1>1, <1>3, <2>2, <3>1, <3>2, <3>3
  <2>4. l >= 1 /\ (h * B + l) * p = (l * q) * B /\ l * q \in Nat
    <3> HIDE DEF B, p
    <3>1. h * B + l = l
      BY <1>1, <2>3
    <3>2. l * (B * q) = (l * q) * B
      BY <1>1, <2>2
    <3> QED BY <1>2, <2>2, <3>1, <3>2, ProductIsNat
  <2>5. l * q < B
    <3> HIDE DEF B, p
    <3> DEFINE z == l * q
    <3>1. z \in Nat /\ z * B < B * B
      BY <1>2, <2>4
    <3> HIDE DEF z
    <3>2. z < B
      BY <1>1, <3>1, ProductOrder
    <3> QED BY <3>2 DEF z
  <2>6. by - Word < Word
    <3> SUFFICES ASSUME Word <= by - Word PROVE FALSE
      BY <2>1, Widths
    <3>1. B <= q
      BY <2>1, TwoGrows, Widths DEF q
    <3> HIDE DEF B, p
    <3>2. 1 * q <= l * q
      BY <2>2, <2>4, ProductGrows
    <3> QED BY <1>1, <2>2, <2>4, <2>5, <3>1, <3>2
  <2>7. shift_left(h, l, by) = <<l * q, 0>>
    <3>1. Wrap(l * q) = l * q
      BY <2>4, <2>5, WrapIs
    <3> QED BY <2>1, <2>6, <3>1 DEF shift_left, q
  <2>8. Words(l * q, 0) = Words(h, l) * p
    <3> HIDE DEF p
    <3>1. (l * q) * B \in Nat
      BY <1>1, <2>4, ProductIsNat
    <3> QED BY <2>4, <3>1 DEF Words
  <2> QED BY <1>1, <2>4, <2>7, <2>8
<1> QED BY <1>4, <1>5, <1>6, Widths

\* The identity behind a shift to the right: what leaves the high word at the
\* bottom enters the low one at the top.
LEMMA RightParts ==
  ASSUME NEW p \in Nat, NEW q \in Nat, NEW hq \in Nat, NEW hr \in Nat, NEW lq \in Nat, NEW lr \in Nat
  PROVE  (hq * p + hr) * (p * q) + (lq * p + lr) = (hq * (p * q) + (lq + hr * q)) * p + lr
OBVIOUS

\* Two words shifted to the right, by less than a word.
LEMMA RightShiftIs ==
  ASSUME NEW h \in Nat, NEW l \in Nat, NEW by \in Nat, l < Two[Word], by < Word
  PROVE  LET s == shift_right(h, l, by)
         IN  /\ s[1] \in Nat /\ s[2] \in Nat /\ s[2] < Two[Word]
             /\ Words(s[1], s[2]) = Words(h, l) \div Two[by]
<1> DEFINE B == Two[Word]
           p == Two[by]
           q == Two[Word - by]
<1>1. B \in Nat /\ B >= 1 /\ p \in Nat /\ p >= 1 /\ q \in Nat /\ q >= 1 /\ B = p * q /\ l < B
  BY Widths, WordSplits
<1>2. CASE by = 0
  <2>1. shift_right(h, l, by) = <<h, l>> /\ p = 1
    BY <1>2, TwoIs DEF shift_right
  <2>2. Words(h, l) \in Nat
    BY ProductIsNat, <1>1 DEF Words
  <2>3. Words(h, l) \div 1 = Words(h, l)
    BY <2>2
  <2> QED BY <1>1, <2>1, <2>3
<1>3. CASE by # 0
  <2> DEFINE hq == h \div p
             hr == h % p
             lq == l \div p
             lr == l % p
  <2>1. shift_right(h, l, by) = <<hq, lq + Wrap(h * q)>>
    BY <1>3 DEF shift_right
  <2> HIDE DEF B, p, q
  <2>2. /\ hq \in Nat /\ hr \in Nat /\ hr < p /\ h = hq * p + hr
        /\ lq \in Nat /\ lr \in Nat /\ lr < p /\ l = lq * p + lr
    BY <1>1, DivisionIs
  <2>3. lq < q
    <3>1. l < q * p
      BY <1>1
    <3> QED BY <1>1, <3>1, QuotientBound
  <2> HIDE DEF hq, hr, lq, lr
  <2>4. Wrap(h * q) = hr * q /\ hr * q \in Nat
    <3> DEFINE n == h * q
               r == hr * q
    <3>1. hr * q < p * q
      BY <1>1, <2>2, ProductOrder
    <3>2. (hq * p + hr) * q = hq * (p * q) + hr * q
      BY <1>1, <2>2
    <3>3. n \in Nat /\ B \in Nat /\ r \in Nat /\ r < B /\ n = hq * B + r
      BY <1>1, <2>2, <3>1, <3>2, ProductIsNat
    <3> HIDE DEF n, r
    <3>4. n % B = r
      BY <2>2, <3>3, QuotientIs
    <3> QED BY <3>3, <3>4 DEF n, r, Wrap, B
  <2>5. lq + hr * q < B
    <3>1. hr + 1 <= p /\ hr + 1 \in Nat
      BY <1>1, <2>2
    <3>2. (hr + 1) * q <= p * q
      BY <1>1, <3>1, ProductGrows
    <3>3. (hr + 1) * q = hr * q + q
      BY <1>1, <2>2
    <3> QED BY <1>1, <2>2, <2>3, <2>4, <3>2, <3>3
  <2>6. Words(h, l) \div p = hq * B + (lq + hr * q)
    <3> DEFINE n == Words(h, l)
               z == hq * B + (lq + hr * q)
    <3>1. n = z * p + lr
      <4>1. (hq * p + hr) * (p * q) + (lq * p + lr) = (hq * (p * q) + (lq + hr * q)) * p + lr
        BY <1>1, <2>2, RightParts
      <4>2. n = h * B + l
        BY DEF Words, B
      <4> QED BY <1>1, <2>2, <4>1, <4>2
    <3>2. n \in Nat /\ z \in Nat
      <4>1. h * B \in Nat /\ hq * B \in Nat
        BY <1>1, <2>2, ProductIsNat
      <4> QED BY <2>2, <2>4, <4>1 DEF Words, B
    <3> HIDE DEF n, z
    <3>3. n \div p = z
      BY <1>1, <2>2, <3>1, <3>2, QuotientIs
    <3> QED BY <3>3 DEF n, z
  <2>7. Words(hq, lq + hr * q) = Words(h, l) \div p
    BY <2>6 DEF Words, B
  <2> QED BY <2>1, <2>2, <2>4, <2>5, <2>7 DEF p, B
<1> QED BY <1>2, <1>3

\* What Settings are.
Setting ==
  [loop: {"poll", "retry"}, base: 0..MaxU64, factor: Doubles,
   cap: 0..MaxU64, respect: BOOLEAN, maxAfter: Nat]

\* The next D_n of a setting.
Step(s, v) ==
  LeastOf(s.cap * Two[Word], (v * FactorOf(s).m * Up(FactorOf(s))) \div Down(FactorOf(s)))

\* A backoff of a setting: its whole part is at most the cap.
Held(k, s) ==
  k \in [whole: 0..s.cap, fraction: 0..(Two[Word] - 1), mantissa: {FactorOf(s).m},
         exponent: {FactorOf(s).e}, cap: {s.cap}]

\* A number of units against the cap, by its high word.
LEMMA CapDecides ==
  ASSUME NEW cap \in Nat, NEW h \in Nat, NEW l \in Nat, l < Two[Word]
  PROVE  /\ h >= cap => LeastOf(cap * Two[Word], Words(h, l)) = cap * Two[Word]
         /\ h < cap => LeastOf(cap * Two[Word], Words(h, l)) = Words(h, l)
<1> DEFINE B == Two[Word]
<1>1. B \in Nat /\ l < B
  BY Widths
<1>2. Words(h, l) = h * B + l
  BY DEF Words
<1> HIDE DEF B
<1>3. h * B \in Nat /\ cap * B \in Nat
  BY <1>1, ProductIsNat
<1>4. ASSUME h >= cap PROVE cap * B <= h * B + l
  <2>1. cap * B <= h * B
    BY <1>1, <1>4, ProductGrows
  <2> QED BY <1>3, <2>1
<1>5. ASSUME h < cap PROVE h * B + l < cap * B
  <2>1. h + 1 <= cap /\ h + 1 \in Nat
    BY <1>5
  <2>2. (h + 1) * B <= cap * B
    BY <1>1, <2>1, ProductGrows
  <2>3. (h + 1) * B = h * B + B
    BY <1>1
  <2> QED BY <1>1, <1>3, <2>2, <2>3
<1>6. ASSUME h >= cap PROVE LeastOf(cap * B, Words(h, l)) = cap * B
  BY <1>2, <1>4, <1>6 DEF LeastOf
<1>7. ASSUME h < cap PROVE LeastOf(cap * B, Words(h, l)) = Words(h, l)
  BY <1>2, <1>3, <1>5, <1>7 DEF LeastOf
<1> QED BY <1>6, <1>7 DEF B

\* What a shift over the free bits of the words leaves is above any cap.
LEMMA OverTheTop ==
  ASSUME NEW h \in Nat, NEW l \in Nat, NEW by \in Nat, h < Two[Word], l < Two[Word],
         h # 0 \/ l # 0
  PROVE  LET free == IF h = 0 THEN 2 * Word - BitsOf(l) ELSE Word - BitsOf(h)
         IN  /\ by > free => Two[Word] * Two[Word] <= Words(h, l) * Two[by]
             /\ by <= free => Words(h, l) * Two[by] < Two[Word] * Two[Word]
<1> DEFINE B == Two[Word]
           p == Two[by]
           free == IF h = 0 THEN 2 * Word - BitsOf(l) ELSE Word - BitsOf(h)
           low == IF h = 0 THEN BitsOf(l) - 1 ELSE Word + BitsOf(h) - 1
           n == Words(h, l)
<1>1. /\ B \in Nat /\ B >= 1 /\ p \in Nat /\ p >= 1 /\ h < B /\ l < B /\ n = h * B + l /\ n \in Nat
      /\ Word \in Nat
  <2>1. h * Two[Word] \in Nat
    BY ProductIsNat, Widths
  <2> QED BY <2>1, Widths, TwoPositive DEF Words
<1>2. low \in Nat /\ Two[low] <= n /\ n < Two[low + 1] /\ low + 1 + free = 2 * Word /\ free \in Nat
  <2>1. CASE h = 0
    <3> DEFINE k == BitsOf(l)
    <3>1. k \in Nat /\ k <= Word /\ l < Two[k] /\ k >= 1 /\ Two[k - 1] <= l /\ n = l
      BY <1>1, <2>1, BitsAre
    <3> HIDE DEF k, n
    <3>2. low = k - 1 /\ free = 2 * Word - k
      BY <2>1 DEF k
    <3>3. low \in Nat /\ low + 1 = k /\ low + 1 + free = 2 * Word /\ free \in Nat
      BY <1>1, <3>1, <3>2
    <3> HIDE DEF low, free
    <3> QED BY <3>1, <3>2, <3>3
  <2>2. CASE h # 0
    <3> DEFINE k == BitsOf(h)
               i == k - 1
    <3>1. k \in Nat /\ k <= Word /\ h < Two[k] /\ k >= 1 /\ Two[i] <= h
      BY <1>1, <2>2, BitsAre
    <3> HIDE DEF k, n
    <3>2. low = Word + k - 1 /\ free = Word - k
      BY <2>2 DEF k
    <3>3. /\ low \in Nat /\ low + 1 = k + Word /\ low = i + Word /\ i \in Nat
          /\ low + 1 + free = 2 * Word /\ free \in Nat
      BY <1>1, <3>1, <3>2
    <3> HIDE DEF low, free, i
    <3>4. Two[k + Word] = Two[k] * B /\ Two[i + Word] = Two[i] * B
      BY <1>1, <3>1, <3>3, TwoAdds
    <3>5. Two[k] \in Nat /\ Two[i] \in Nat
      BY <3>1, <3>3, TwoPositive
    <3> HIDE DEF B
    <3>6. Two[i] * B <= h * B /\ h * B \in Nat /\ Two[i] * B \in Nat
      BY <1>1, <3>1, <3>5, ProductGrows, ProductIsNat
    <3>7. h * B + l < Two[k] * B
      <4>1. h + 1 <= Two[k] /\ h + 1 \in Nat
        BY <3>1, <3>5
      <4>2. (h + 1) * B <= Two[k] * B
        BY <1>1, <3>5, <4>1, ProductGrows
      <4>3. (h + 1) * B = h * B + B /\ Two[k] * B \in Nat
        BY <1>1, <3>5, ProductIsNat
      <4> QED BY <1>1, <3>6, <4>2, <4>3
    <3> QED BY <1>1, <3>3, <3>4, <3>6, <3>7
  <2> QED BY <2>1, <2>2
<1>3. Two[2 * Word] = B * B
  <2>1. 2 * Word = Word + Word
    BY <1>1
  <2> QED BY <1>1, <2>1, TwoAdds
<1> HIDE DEF B, p, free, low, n
<1>4. Two[low] \in Nat /\ Two[low + 1] \in Nat /\ low + 1 \in Nat
  BY <1>2, TwoPositive
<1>5. ASSUME by > free PROVE B * B <= n * p
  <2>1. low + by \in Nat /\ 2 * Word \in Nat /\ 2 * Word <= low + by
    BY <1>1, <1>2, <1>5
  <2>2. Two[2 * Word] <= Two[low + by] /\ Two[low + by] = Two[low] * p
    BY <1>2, <2>1, TwoGrows, TwoAdds DEF p
  <2>3. Two[low] * p <= n * p
    BY <1>1, <1>2, <1>4, ProductGrows
  <2>4. n * p \in Nat /\ Two[low] * p \in Nat /\ B * B \in Nat
    BY <1>1, <1>4, ProductIsNat
  <2> QED BY <1>3, <2>2, <2>3, <2>4
<1>6. ASSUME by <= free PROVE n * p < B * B
  <2>1. low + 1 + by \in Nat /\ 2 * Word \in Nat /\ low + 1 + by <= 2 * Word
    BY <1>1, <1>2, <1>6
  <2>2. Two[low + 1 + by] <= Two[2 * Word] /\ Two[low + 1 + by] = Two[low + 1] * p
    BY <1>4, <2>1, TwoGrows, TwoAdds DEF p
  <2>3. n * p < Two[low + 1] * p
    BY <1>1, <1>2, <1>4, ProductOrder
  <2>4. n * p \in Nat /\ Two[low + 1] * p \in Nat /\ B * B \in Nat
    BY <1>1, <1>4, ProductIsNat
  <2> QED BY <1>3, <2>2, <2>3, <2>4
<1> QED BY <1>5, <1>6 DEF B, p, free, n

\* What a backoff holds of its setting, field by field.
LEMMA HeldIs ==
  ASSUME NEW s \in Setting, ValidFactor(s.factor), NEW k, Held(k, s)
  PROVE  /\ s.cap \in Nat /\ s.cap < Two[HalfWord] /\ FactorOf(s) \in [m: Nat, e: Int]
         /\ k.whole \in Nat /\ k.whole <= s.cap /\ k.whole < Two[HalfWord]
         /\ k.fraction \in Nat /\ k.fraction < Two[Word]
         /\ k.mantissa = FactorOf(s).m /\ k.exponent = FactorOf(s).e /\ k.cap = s.cap
         /\ k.mantissa < Two[HalfWord] /\ k.mantissa >= 1
         /\ k.exponent < 0 => -k.exponent < Word
<1>1. s.cap \in 0..MaxU64 /\ s.factor \in Doubles
  BY DEF Setting
<1>2. s.cap \in Nat /\ s.cap < Two[HalfWord]
  BY <1>1, Widths
<1>3. /\ k.whole \in 0..s.cap /\ k.fraction \in 0..(Two[Word] - 1)
      /\ k.mantissa = FactorOf(s).m /\ k.exponent = FactorOf(s).e /\ k.cap = s.cap
  BY DEF Held
<1>4. /\ FactorOf(s) \in [m: Nat, e: Int] /\ FactorOf(s).m >= 1 /\ FactorOf(s).m < Two[HalfWord]
      /\ FactorOf(s).e < 0 => -FactorOf(s).e <= FractionBits
  BY <1>1, FactorIs DEF FactorOf
<1> QED BY <1>2, <1>3, <1>4, Widths

\* A step of the backoff is a step of the definition.
LEMMA AdvancedIs ==
  ASSUME NEW s \in Setting, ValidFactor(s.factor), NEW k, Held(k, s)
  PROVE  /\ Held(Advanced(k), s)
         /\ Words(Advanced(k).whole, Advanced(k).fraction) = Step(s, Words(k.whole, k.fraction))
<1> DEFINE B == Two[Word]
           d == FactorOf(s)
           h == Product(k)[1]
           l == Product(k)[2]
           n == Words(h, l)
           v == Words(k.whole, k.fraction)
           cap == s.cap
           free == IF h = 0 THEN 2 * Word - BitsOf(l) ELSE Word - BitsOf(h)
           next == IF k.exponent >= 0 THEN shift_left(h, l, k.exponent)
                                      ELSE shift_right(h, l, -k.exponent)
<1>1. /\ cap \in Nat /\ cap < Two[HalfWord] /\ d \in [m: Nat, e: Int]
      /\ k.mantissa = d.m /\ k.exponent = d.e /\ k.cap = cap /\ d.m >= 1
      /\ k.whole \in Nat /\ k.fraction \in Nat
      /\ d.e < 0 => -d.e < Word
  BY HeldIs
<1>2. h \in Nat /\ l \in Nat /\ h < B /\ l < B /\ n = v * d.m
  BY HeldIs, ProductIs
<1>3. n \in Nat /\ v \in Nat /\ B \in Nat /\ B >= 1 /\ n = h * B + l /\ cap * B \in Nat
  <2>1. B \in Nat /\ B >= 1
    BY Widths
  <2>2. h * B \in Nat /\ k.whole * B \in Nat /\ cap * B \in Nat
    BY <1>1, <1>2, <2>1, ProductIsNat
  <2> QED BY <1>1, <1>2, <2>1, <2>2 DEF Words
<1>4. Step(s, v) = LeastOf(cap * B, (n * Up(d)) \div Down(d))
  BY <1>2 DEF Step
<1>5. d.e \in Int
  BY <1>1
<1>6. Advanced(k) =
        IF h = 0 /\ l = 0 THEN k
        ELSE IF d.e >= 0 /\ d.e > free THEN Saturated(k)
        ELSE IF next[1] >= cap THEN Saturated(k)
        ELSE [k EXCEPT !.whole = next[1], !.fraction = next[2]]
  BY <1>1 DEF Advanced
<1>7. Held(Saturated(k), s) /\ Words(Saturated(k).whole, Saturated(k).fraction) = cap * B
  <2>1. /\ Saturated(k).whole = cap /\ Saturated(k).fraction = 0
        /\ Held(Saturated(k), s)
    <3>1. cap \in 0..s.cap /\ 0 \in 0..(Two[Word] - 1)
      BY <1>1, Widths
    <3> QED BY <1>1, <3>1 DEF Saturated, Held
  <2> QED BY <1>3, <2>1 DEF Words
<1>8. CASE h = 0 /\ l = 0
  <2>1. Advanced(k) = k
    BY <1>6, <1>8
  <2>2. n = 0
    BY <1>3, <1>8
  <2>3. v = 0
    <3> SUFFICES ASSUME v >= 1 PROVE FALSE
      BY <1>3
    <3> HIDE DEF v, d, n
    <3>1. 1 * d.m <= v * d.m
      BY <1>1, <1>3, ProductGrows
    <3> QED BY <1>1, <1>2, <2>2, <3>1
  <2>4. (n * Up(d)) \div Down(d) = 0
    <3> DEFINE D == Down(d)
               U == Up(d)
    <3>1. D \in Nat /\ D >= 1 /\ U \in Nat
      BY <1>1, ScaleIs
    <3> HIDE DEF D, U, n
    <3>2. n * U = 0 * D + 0
      BY <2>2, <3>1
    <3>3. n * U \in Nat
      BY <1>3, <3>1, ProductIsNat
    <3> QED BY <3>1, <3>2, <3>3, QuotientIs DEF D, U
  <2>5. LeastOf(cap * B, 0) = 0
    BY <1>3 DEF LeastOf
  <2> QED BY <1>4, <2>1, <2>3, <2>4, <2>5
<1>9. CASE ~ (h = 0 /\ l = 0) /\ d.e >= 0 /\ d.e > free
  <2>1. Advanced(k) = Saturated(k)
    BY <1>6, <1>9
  <2> DEFINE U == Two[d.e]
  <2>2. Up(d) = U /\ Down(d) = 1 /\ d.e \in Nat /\ U \in Nat
    BY <1>1, <1>9, ScaleIs, TwoIs
  <2>3. B * B <= n * U
    BY <1>2, <1>9, <2>2, OverTheTop
  <2>4. cap * B <= n * U /\ n * U \in Nat
    <3> HIDE DEF U, B, n, cap
    <3>1. cap <= B
      <4> DEFINE b == Two[HalfWord]
      <4>1. b \in Nat /\ b >= 2 /\ B = b * b
        BY Widths DEF B
      <4> HIDE DEF b
      <4>2. b * 1 <= b * b /\ b * b \in Nat
        BY <4>1, ProductGrows, ProductIsNat
      <4> QED BY <1>1, <4>1, <4>2 DEF b
    <3>2. cap * B <= B * B
      BY <1>1, <1>3, <3>1, ProductGrows
    <3>3. B * B \in Nat /\ n * U \in Nat
      BY <1>3, <2>2, ProductIsNat
    <3> QED BY <1>3, <2>3, <3>2, <3>3
  <2>5. LeastOf(cap * B, (n * Up(d)) \div Down(d)) = cap * B
    <3> DEFINE z == n * U
               c == cap * B
    <3> HIDE DEF z, c
    <3>1. z \in Nat /\ c \in Nat /\ c <= z
      BY <1>3, <2>4 DEF z, c
    <3>2. z \div 1 = z /\ LeastOf(c, z) = c
      BY <3>1 DEF LeastOf
    <3> QED BY <2>2, <3>2 DEF z, c
  <2> QED BY <1>4, <1>7, <2>1, <2>5
<1>10. CASE ~ (h = 0 /\ l = 0) /\ ~ (d.e >= 0 /\ d.e > free)
  <2>1. /\ next[1] \in Nat /\ next[2] \in Nat /\ next[2] < B
        /\ Words(next[1], next[2]) = (n * Up(d)) \div Down(d)
    <3>1. CASE d.e >= 0
      <4> DEFINE U == Two[d.e]
      <4>1. Up(d) = U /\ Down(d) = 1 /\ d.e \in Nat /\ U \in Nat
        BY <1>1, <3>1, ScaleIs, TwoIs
      <4>2. d.e <= free
        <5>1. free \in Int
          BY <1>2, BitsAre, Widths
        <5> QED BY <1>10, <3>1, <4>1, <5>1
      <4>3. n * U < B * B
        BY <1>2, <1>10, <4>1, <4>2, OverTheTop
      <4>4. n >= 1
        <5> SUFFICES ASSUME n = 0 PROVE FALSE
          BY <1>3
        <5> HIDE DEF n
        <5>1. h * B \in Nat /\ l = 0 /\ h * B = 0
          BY <1>2, <1>3, ProductIsNat
        <5>2. h >= 1
          BY <1>2, <1>10, <5>1
        <5> HIDE DEF h, B
        <5>3. 1 * B <= h * B
          BY <1>2, <1>3, <5>2, ProductGrows
        <5> QED BY <1>3, <5>1, <5>3
      <4>5. next = shift_left(h, l, d.e)
        BY <1>1, <3>1
      <4>6. /\ next[1] \in Nat /\ next[2] \in Nat /\ next[2] < B
            /\ Words(next[1], next[2]) = n * U
        <5> HIDE DEF next, h, l
        <5> QED BY <1>2, <4>1, <4>3, <4>4, <4>5, LeftShiftIs
      <4>7. (n * U) \div 1 = n * U
        <5> DEFINE z == n * U
        <5>1. z \in Nat
          BY <1>3, <4>1, ProductIsNat
        <5> HIDE DEF z
        <5> QED BY <5>1 DEF z
      <4> QED BY <4>1, <4>6, <4>7
    <3>2. CASE d.e < 0
      <4>1. Up(d) = 1 /\ Down(d) = Two[-d.e] /\ -d.e \in Nat /\ -d.e < Word
        BY <1>1, <3>2, ScaleIs
      <4>2. next = shift_right(h, l, -d.e)
        BY <1>1, <1>5, <3>2
      <4>3. /\ next[1] \in Nat /\ next[2] \in Nat /\ next[2] < B
            /\ Words(next[1], next[2]) = n \div Two[-d.e]
        <5> HIDE DEF next, h, l
        <5> QED BY <1>2, <4>1, <4>2, RightShiftIs
      <4>4. n * 1 = n
        BY <1>3
      <4> QED BY <4>1, <4>3, <4>4
    <3> QED BY <1>5, <3>1, <3>2
  <2>2. CASE next[1] >= cap
    <3>1. Advanced(k) = Saturated(k)
      BY <1>6, <1>10, <2>2
    <3>2. Step(s, v) = cap * B
      BY <1>1, <1>4, <2>1, <2>2, CapDecides
    <3> QED BY <1>7, <3>1, <3>2
  <2>3. CASE ~ (next[1] >= cap)
    <3> DEFINE a == [k EXCEPT !.whole = next[1], !.fraction = next[2]]
    <3>1. Advanced(k) = a
      BY <1>6, <1>10, <2>3
    <3>2. Step(s, v) = Words(next[1], next[2])
      BY <1>1, <1>4, <2>1, <2>3, CapDecides
    <3>3. a.whole = next[1] /\ a.fraction = next[2] /\ Held(a, s)
      <4>1. next[1] \in 0..s.cap /\ next[2] \in 0..(Two[Word] - 1)
        BY <1>1, <1>3, <2>1, <2>3
      <4> HIDE DEF next
      <4> QED BY <4>1 DEF Held
    <3> QED BY <3>1, <3>2, <3>3
  <2> QED BY <2>2, <2>3
<1> QED BY <1>8, <1>9, <1>10

-----------------------------------------------------------------------------
(* The definitions that the delays are held against.                       *)

\* Delays are whole numbers of units.
LEMMA StepIsNat ==
  ASSUME NEW s \in Setting, ValidFactor(s.factor), NEW v \in Nat
  PROVE  Step(s, v) \in Nat
<1> DEFINE d == FactorOf(s)
           U == Up(d)
           D == Down(d)
<1>1. s.cap \in 0..MaxU64 /\ s.factor \in Doubles
  BY DEF Setting
<1>2. d \in [m: Nat, e: Int]
  BY <1>1, FactorIs DEF FactorOf
<1>3. U \in Nat /\ D \in Nat /\ D >= 1 /\ d.m \in Nat
  BY <1>2, ScaleIs
<1>4. s.cap * Two[Word] \in Nat
  BY <1>1, Widths, ProductIsNat
<1>5. (v * d.m * U) \div D \in Nat
  <2> HIDE DEF U, D, d
  <2>1. v * d.m \in Nat
    BY <1>3, ProductIsNat
  <2>2. v * d.m * U \in Nat
    BY <1>3, <2>1, ProductIsNat
  <2> DEFINE z == v * d.m * U
  <2> HIDE DEF z
  <2>3. z \div D \in Nat
    BY <1>3, <2>2, DivisionIs DEF z
  <2> QED BY <2>3 DEF z
<1> QED BY <1>4, <1>5 DEF Step, LeastOf

\* The delays of a setting: the first, and each from the one before.
LEMMA DelayIs ==
  ASSUME NEW s \in Setting, ValidFactor(s.factor)
  PROVE  /\ Delay(s) \in [Nat -> Nat]
         /\ Delay(s)[0] = FirstDelay(s) * Two[Word]
         /\ \A n \in Nat : Delay(s)[n + 1] = Step(s, Delay(s)[n])
<1> DEFINE first == FirstDelay(s) * Two[Word]
           step == [v \in Nat |-> Step(s, v)]
<1>1. step \in [Nat -> Nat]
  BY StepIsNat
<1>2. first \in Nat
  <2>1. FirstDelay(s) \in Nat
    BY Widths DEF FirstDelay, LeastOf, Setting
  <2> QED BY <2>1, Widths, ProductIsNat
<1> HIDE DEF step, first
<1>3. PICK f : Follows(f, Nat, first, step)
  BY <1>1, <1>2, Recursion
<1>4. f = [n \in Nat |-> IF n = 0 THEN first ELSE Step(s, f[n - 1])]
  <2>1. ASSUME NEW n \in Nat, n # 0 PROVE f[n] = Step(s, f[n - 1])
    <3>1. n - 1 \in Nat /\ (n - 1) + 1 = n
      BY <2>1
    <3>2. f[n] = step[f[n - 1]] /\ f[n - 1] \in Nat
      BY <1>3, <3>1 DEF Follows
    <3> QED BY <3>2 DEF step
  <2> QED BY <1>3, <2>1 DEF Follows
<1>5. Delay(s) = CHOOSE g : g = [n \in Nat |-> IF n = 0 THEN first ELSE Step(s, g[n - 1])]
  BY DEF Delay, Step, first
<1>6. Delay(s) = [n \in Nat |-> IF n = 0 THEN first ELSE Step(s, Delay(s)[n - 1])]
  BY <1>4, <1>5
<1>7. Delay(s)[0] = first /\ \A n \in Nat : Delay(s)[n + 1] = Step(s, Delay(s)[n])
  BY <1>6
<1> DEFINE T == {n \in Nat : Delay(s)[n] \in Nat}
<1>8. 0 \in T /\ \A n \in Nat : n \in T => n + 1 \in T
  BY <1>2, <1>7, StepIsNat
<1>9. Nat \subseteq T
  <2> HIDE DEF T
  <2> QED BY <1>8, Induction
<1> QED BY <1>6, <1>7, <1>9 DEF first

\* The next fraction of the ideal delay of a setting.
Exact == [value: Nat, over: Nat]
NextIdeal(s, i) ==
  [over |-> i.over * Down(FactorOf(s)),
   value |-> LeastOf(i.value * FactorOf(s).m * Up(FactorOf(s)), s.cap * (i.over * Down(FactorOf(s))))]

\* The ideal delays are fractions.
LEMMA NextIdealIs ==
  ASSUME NEW s \in Setting, ValidFactor(s.factor), NEW i \in Exact
  PROVE  NextIdeal(s, i) \in Exact
<1> DEFINE d == FactorOf(s)
           U == Up(d)
           D == Down(d)
<1>1. s.cap \in 0..MaxU64 /\ s.factor \in Doubles
  BY DEF Setting
<1>2. d \in [m: Nat, e: Int]
  BY <1>1, FactorIs DEF FactorOf
<1>3. U \in Nat /\ D \in Nat /\ d.m \in Nat /\ s.cap \in Nat /\ i.value \in Nat /\ i.over \in Nat
  BY <1>1, <1>2, ScaleIs, Widths DEF Exact
<1>4. i.over * D \in Nat /\ s.cap * (i.over * D) \in Nat /\ i.value * d.m * U \in Nat
  <2> HIDE DEF U, D, d
  <2> QED BY <1>3, ProductIsNat
<1> QED BY <1>4 DEF NextIdeal, LeastOf, Exact

\* The first of them, and each from the one before.
LEMMA IdealIs ==
  ASSUME NEW s \in Setting, ValidFactor(s.factor)
  PROVE  /\ Ideal(s) \in [Nat -> Exact]
         /\ Ideal(s)[0] = [value |-> FirstDelay(s), over |-> 1]
         /\ \A n \in Nat : Ideal(s)[n + 1] = NextIdeal(s, Ideal(s)[n])
<1> DEFINE first == [value |-> FirstDelay(s), over |-> 1]
           step == [i \in Exact |-> NextIdeal(s, i)]
<1>1. step \in [Exact -> Exact]
  BY NextIdealIs
<1>2. first \in Exact
  <2>1. FirstDelay(s) \in Nat
    BY Widths DEF FirstDelay, LeastOf, Setting
  <2> QED BY <2>1 DEF Exact
<1> HIDE DEF step, first
<1>3. PICK f : Follows(f, Exact, first, step)
  BY <1>1, <1>2, Recursion
<1>4. f = [n \in Nat |-> IF n = 0 THEN first ELSE NextIdeal(s, f[n - 1])]
  <2>1. ASSUME NEW n \in Nat, n # 0 PROVE f[n] = NextIdeal(s, f[n - 1])
    <3>1. n - 1 \in Nat /\ (n - 1) + 1 = n
      BY <2>1
    <3>2. f[n] = step[f[n - 1]] /\ f[n - 1] \in Exact
      BY <1>3, <3>1 DEF Follows
    <3> QED BY <3>2 DEF step
  <2> QED BY <1>3, <2>1 DEF Follows
<1>5. Ideal(s) = CHOOSE g : g = [n \in Nat |-> IF n = 0 THEN first ELSE NextIdeal(s, g[n - 1])]
  BY DEF Ideal, NextIdeal, first
<1>6. Ideal(s) = [n \in Nat |-> IF n = 0 THEN first ELSE NextIdeal(s, Ideal(s)[n - 1])]
  BY <1>4, <1>5
<1>7. Ideal(s)[0] = first /\ \A n \in Nat : Ideal(s)[n + 1] = NextIdeal(s, Ideal(s)[n])
  BY <1>6
<1> DEFINE T == {n \in Nat : Ideal(s)[n] \in Exact}
<1>8. 0 \in T /\ \A n \in Nat : n \in T => n + 1 \in T
  BY <1>2, <1>7, NextIdealIs
<1>9. Nat \subseteq T
  <2> HIDE DEF T
  <2> QED BY <1>8, Induction
<1> QED BY <1>6, <1>7, <1>9 DEF first

-----------------------------------------------------------------------------
(* How far a delay is from the ideal.                                      *)

\* Units of B per millisecond, a factor M / D, a first delay a and a cap c: a
\* delay of d units against the ideal v / o. The delay is never longer; what
\* it lacks is at most D / (a * (M - D)) of what the ideal has grown, which is
\* what a truncation at each step sums up to; and it lacks nothing when the
\* factor is one or an integer, or the first delay is zero.
Near(c, B, D, M, a, d, v, o) ==
  /\ o >= 1 /\ a * o <= v /\ v <= c * o
  /\ d * o <= v * B
  /\ (a * (M - D)) * (v * B - d * o) <= D * (v - a * o)
  /\ a = 0 => v = 0
  /\ M = D => d = a * B /\ v = a * o
  /\ D = 1 => o = 1 /\ d = v * B

\* One truncation, when the cap is not reached: the error grows by the factor
\* and by less than a unit; del is what the cap takes off the ideal.
LEMMA ErrorGrows ==
  ASSUME NEW B \in Nat, NEW D \in Nat, NEW M \in Nat, NEW a \in Nat, NEW d \in Nat,
         NEW v \in Nat, NEW o \in Nat, NEW q \in Nat, NEW r \in Nat, NEW del \in Nat, NEW K \in Nat,
         D <= B, K >= 1, K = a * (M - D), r <= D, d * M = q * D + r,
         K * (v * B - d * o) <= D * (v - a * o)
  PROVE  K * ((v * M - del) * B - q * (o * D)) <= D * ((v * M - del) - a * (o * D))
<1> DEFINE E == v * B - d * o
           G == v - a * o
<1>1. E \in Int /\ G \in Int /\ K * E <= D * G
  <2>1. v * B \in Nat /\ d * o \in Nat /\ a * o \in Nat
    BY ProductIsNat
  <2> QED BY <2>1
<1>2. (v * M - del) * B - q * (o * D) = E * M + r * o - del * B
  <2>1. q * (o * D) = (q * D) * o
    OBVIOUS
  <2>2. q * D = d * M - r
    <3>1. q * D \in Nat /\ d * M \in Nat
      BY ProductIsNat
    <3> QED BY <3>1
  <2>3. q * (o * D) = (d * M - r) * o
    BY <2>1, <2>2
  <2>4. (d * M - r) * o = (d * o) * M - r * o
    OBVIOUS
  <2>5. E * M = (v * B) * M - (d * o) * M
    OBVIOUS
  <2>6. (v * M - del) * B = (v * B) * M - del * B
    OBVIOUS
  <2> HIDE DEF E
  <2>7. (v * B) * M \in Int /\ (d * o) * M \in Int /\ r * o \in Int /\ del * B \in Int
    OBVIOUS
  <2> QED BY <2>3, <2>4, <2>5, <2>6, <2>7
<1>3. D * ((v * M - del) - a * (o * D)) = D * (G * M) + (a * (M - D)) * (D * o) - D * del
  OBVIOUS
<1>4. (K * E) * M <= (D * G) * M
  <2>1. K * E \in Int /\ D * G \in Int /\ (D * G) - (K * E) \in Nat
    BY <1>1
  <2> DEFINE x == K * E
             y == D * G
  <2> HIDE DEF E, G, x, y
  <2>2. x \in Int /\ y \in Int /\ y - x \in Nat
    BY <2>1 DEF x, y
  <2>3. (y - x) * M \in Nat
    BY <2>2, ProductIsNat
  <2>4. (y - x) * M = y * M - x * M /\ y * M \in Int /\ x * M \in Int
    BY <2>2
  <2> QED BY <2>3, <2>4 DEF x, y
<1>5. K * (r * o) <= K * (D * o)
  <2>1. r * o <= D * o /\ r * o \in Nat /\ D * o \in Nat
    BY ProductGrows, ProductIsNat
  <2> DEFINE x == r * o
             y == D * o
  <2> HIDE DEF x, y
  <2>2. K * x <= K * y
    BY <2>1, ProductGrows DEF x, y
  <2> QED BY <2>2 DEF x, y
<1>6. D * del <= K * (del * B)
  <2>1. D * del <= B * del /\ B * del \in Nat /\ B * del = del * B
    BY ProductGrows, ProductIsNat
  <2> DEFINE x == del * B
  <2>2. x \in Nat /\ D * del <= x /\ D * del \in Nat
    BY <2>1, ProductIsNat
  <2> HIDE DEF x
  <2>3. 1 * x <= K * x /\ K * x \in Nat
    BY <2>2, ProductGrows, ProductIsNat
  <2>4. D * del <= K * x
    BY <2>2, <2>3
  <2> QED BY <2>4 DEF x
<1>7. K * (E * M + r * o - del * B) = (K * E) * M + K * (r * o) - K * (del * B)
  <2> HIDE DEF E
  <2> QED BY <1>1
<1>8. (D * G) * M = D * (G * M) /\ (a * (M - D)) * (D * o) = K * (D * o)
  <2> HIDE DEF G
  <2> QED BY <1>1
<1>9. (K * E) * M + K * (r * o) - K * (del * B) <= D * (G * M) + K * (D * o) - D * del
  <2> DEFINE x1 == (K * E) * M
             x2 == K * (r * o)
             x3 == K * (del * B)
             y1 == D * (G * M)
             y2 == K * (D * o)
             y3 == D * del
  <2>1. x1 \in Int /\ x2 \in Int /\ x3 \in Int /\ y1 \in Int /\ y2 \in Int /\ y3 \in Int
    <3> HIDE DEF E, G
    <3> QED BY <1>1
  <2>2. x1 <= y1 /\ x2 <= y2 /\ y3 <= x3
    BY <1>4, <1>5, <1>6, <1>8
  <2> HIDE DEF x1, x2, x3, y1, y2, y3
  <2>3. x1 + x2 - x3 <= y1 + y2 - y3
    BY <2>1, <2>2
  <2> QED BY <2>3 DEF x1, x2, x3, y1, y2, y3
<1> QED BY <1>2, <1>3, <1>7, <1>8, <1>9

\* A step keeps the two near.
LEMMA NearKept ==
  ASSUME NEW B \in Nat, NEW D \in Nat, NEW M \in Nat, NEW a \in Nat, NEW c \in Nat,
         NEW d \in Nat, NEW v \in Nat, NEW o \in Nat,
         1 <= D, D <= M, D <= B, a <= c, Near(c, B, D, M, a, d, v, o)
  PROVE  Near(c, B, D, M, a, LeastOf(c * B, (d * M) \div D), LeastOf(v * M, c * (o * D)), o * D)
<1> DEFINE q == (d * M) \div D
           r == (d * M) % D
           o2 == o * D
           d2 == LeastOf(c * B, q)
           v2 == LeastOf(v * M, c * o2)
           K == a * (M - D)
<1>1. /\ o >= 1 /\ a * o <= v /\ v <= c * o /\ d * o <= v * B
      /\ K * (v * B - d * o) <= D * (v - a * o)
      /\ a = 0 => v = 0
      /\ M = D => d = a * B /\ v = a * o
      /\ D = 1 => o = 1 /\ d = v * B
  BY DEF Near
<1>2. q \in Nat /\ r \in Nat /\ r < D /\ d * M = q * D + r /\ d * M \in Nat
  <2> DEFINE z == d * M
  <2>1. z \in Nat
    BY ProductIsNat
  <2> HIDE DEF z
  <2>2. z \div D \in Nat /\ z % D \in Nat /\ z % D < D /\ z = (z \div D) * D + (z % D)
    BY <2>1, DivisionIs
  <2> QED BY <2>1, <2>2 DEF z
<1> HIDE DEF q, r
<1>3. /\ o2 \in Nat /\ v * M \in Nat /\ c * B \in Nat /\ c * o2 \in Nat /\ M - D \in Nat /\ K \in Nat
      /\ o2 >= 1
  <2>1. o2 \in Nat /\ v * M \in Nat /\ c * B \in Nat /\ M - D \in Nat
    BY ProductIsNat
  <2>2. c * o2 \in Nat
    <3> HIDE DEF o2
    <3> QED BY <2>1, ProductIsNat
  <2>3. K \in Nat
    <3> DEFINE y == M - D
    <3> HIDE DEF y
    <3>1. a * y \in Nat
      BY <2>1, ProductIsNat DEF y
    <3> QED BY <3>1 DEF y
  <2>4. 1 * D <= o * D
    BY <1>1, ProductGrows
  <2> QED BY <2>1, <2>2, <2>3, <2>4
<1>4. /\ d2 \in Nat /\ d2 <= c * B /\ d2 <= q /\ (d2 = c * B \/ d2 = q)
      /\ v2 \in Nat /\ v2 <= v * M /\ v2 <= c * o2 /\ (v2 = v * M \/ v2 = c * o2)
  <2> DEFINE x1 == c * B
             x2 == v * M
             x3 == c * o2
  <2>1. x1 \in Nat /\ x2 \in Nat /\ x3 \in Nat
    BY <1>3
  <2> HIDE DEF x1, x2, x3
  <2> QED BY <1>2, <2>1 DEF LeastOf
<1>5. a * o2 <= v2 /\ a * o2 \in Nat
  <2>1. a * o2 = (a * o) * D /\ a * o \in Nat
    BY ProductIsNat
  <2>2. (a * o) * D <= v * D /\ v * D <= v * M
    BY <1>1, <2>1, ProductGrows
  <2>3. (a * o) * D \in Nat /\ v * D \in Nat
    BY <2>1, ProductIsNat
  <2>4. a * o2 <= c * o2
    <3> HIDE DEF o2
    <3> QED BY <1>3, ProductGrows
  <2>5. a * o2 <= v * M
    BY <1>3, <2>1, <2>2, <2>3
  <2> HIDE DEF o2, v2
  <2> QED BY <1>3, <1>4, <2>1, <2>3, <2>4, <2>5
<1>6. d2 * o2 <= v2 * B
  <2>1. CASE v2 = v * M
    <3>1. d2 * o2 <= q * o2
      <4> HIDE DEF d2, o2
      <4> QED BY <1>2, <1>3, <1>4, ProductGrows
    <3>2. q * o2 = (q * D) * o
      BY <1>2
    <3>3. (q * D) * o <= (d * M) * o
      <4>1. q * D \in Nat
        BY <1>2, ProductIsNat
      <4>2. q * D <= d * M
        BY <1>2, <4>1
      <4> QED BY <1>2, <4>1, <4>2, ProductGrows
    <3>4. (d * M) * o = (d * o) * M /\ (v * M) * B = (v * B) * M
      OBVIOUS
    <3>5. d * o \in Nat /\ v * B \in Nat
      BY ProductIsNat
    <3>6. (d * o) * M <= (v * B) * M
      BY <1>1, <3>5, ProductGrows
    <3>7. d2 * o2 \in Nat /\ q * o2 \in Nat /\ (d * o) * M \in Nat /\ (v * B) * M \in Nat
      <4> HIDE DEF d2, o2
      <4> QED BY <1>2, <1>3, <1>4, <3>5, ProductIsNat
    <3>8. v2 * B = (v * B) * M
      BY <2>1, <3>4
    <3> HIDE DEF d2, v2, o2
    <3> QED BY <3>1, <3>2, <3>3, <3>4, <3>6, <3>7, <3>8
  <2>2. CASE v2 = c * o2
    <3> HIDE DEF d2, v2, o2
    <3>1. d2 * o2 <= (c * B) * o2
      BY <1>3, <1>4, ProductGrows
    <3>2. (c * B) * o2 = (c * o2) * B
      BY <1>3
    <3> QED BY <2>2, <3>1, <3>2
  <2> QED BY <1>4, <2>1, <2>2
<1>7. K * (v2 * B - d2 * o2) <= D * (v2 - a * o2)
  <2>1. D * (v2 - a * o2) \in Nat
    <3> DEFINE y == v2 - a * o2
    <3>1. y \in Nat
      BY <1>4, <1>5
    <3> HIDE DEF y
    <3>2. D * y \in Nat
      BY <3>1, ProductIsNat
    <3> QED BY <3>2 DEF y
  <2>2. CASE d2 = c * B
    <3>1. v2 * B <= (c * o2) * B
      <4> HIDE DEF v2, o2
      <4> QED BY <1>3, <1>4, ProductGrows
    <3>2. (c * o2) * B = (c * B) * o2
      BY <1>3
    <3>3. v2 * B - d2 * o2 = 0
      <4> HIDE DEF v2, o2, d2
      <4>1. v2 * B \in Nat /\ (c * B) * o2 \in Nat
        BY <1>3, <1>4, ProductIsNat
      <4> QED BY <1>6, <2>2, <3>1, <3>2, <4>1
    <3>4. K * 0 = 0
      BY <1>3
    <3> HIDE DEF v2, o2, d2, K
    <3> QED BY <2>1, <3>3, <3>4
  <2>3. CASE K = 0
    <3>1. v2 * B - d2 * o2 \in Int
      <4> HIDE DEF v2, o2, d2
      <4> QED BY <1>3, <1>4, ProductIsNat
    <3> DEFINE z == v2 * B - d2 * o2
    <3> HIDE DEF z
    <3>2. 0 * z = 0
      BY <3>1 DEF z
    <3>3. K * z = 0
      BY <2>3, <3>2
    <3> HIDE DEF v2, o2, d2, K
    <3> QED BY <2>1, <3>3 DEF z
  <2>4. CASE d2 = q /\ K >= 1
    <3> DEFINE del == v * M - v2
    <3>1. del \in Nat /\ v * M - del = v2
      <4> DEFINE x == v * M
      <4> HIDE DEF x, v2
      <4> QED BY <1>3, <1>4 DEF x
    <3> HIDE DEF del
    <3>2. K * ((v * M - del) * B - q * (o * D)) <= D * ((v * M - del) - a * (o * D))
      <4> DEFINE k == K
      <4>1. k \in Nat /\ k >= 1 /\ k = a * (M - D) /\ k * (v * B - d * o) <= D * (v - a * o)
        BY <1>1, <1>3, <2>4
      <4> HIDE DEF k, K
      <4>2. r <= D
        BY <1>2
      <4>3. k * ((v * M - del) * B - q * (o * D)) <= D * ((v * M - del) - a * (o * D))
        BY <1>2, <3>1, <4>1, <4>2, ErrorGrows
      <4> QED BY <4>3 DEF k
    <3> QED BY <2>4, <3>1, <3>2
  <2> QED BY <1>3, <1>4, <2>2, <2>3, <2>4
<1>8. a = 0 => v2 = 0
  <2> SUFFICES ASSUME a = 0 PROVE v2 = 0
    OBVIOUS
  <2>1. v * M = 0
    BY <1>1
  <2> HIDE DEF v2
  <2> QED BY <1>4, <2>1
<1>9. M = D => d2 = a * B /\ v2 = a * o2
  <2> SUFFICES ASSUME M = D PROVE d2 = a * B /\ v2 = a * o2
    OBVIOUS
  <2>1. d = a * B /\ v = a * o
    BY <1>1
  <2>2. a * B \in Nat /\ a * B <= c * B
    BY ProductIsNat, ProductGrows
  <2>3. q = d
    <3> DEFINE z == d * M
    <3>1. z = d * D + 0 /\ z \in Nat
      BY <1>2
    <3> HIDE DEF z
    <3>2. z \div D = d
      BY <3>1, QuotientIs
    <3> QED BY <3>2 DEF z, q
  <2>4. d2 = a * B
    <3> DEFINE x == a * B
               y == c * B
    <3>1. x \in Nat /\ y \in Nat /\ x <= y /\ q = x
      BY <1>3, <2>1, <2>2, <2>3
    <3> HIDE DEF x, y
    <3>2. LeastOf(y, q) = x
      BY <3>1 DEF LeastOf
    <3> QED BY <3>2 DEF x, y
  <2>5. v * M = a * o2
    BY <2>1
  <2>6. v2 = a * o2
    <3> HIDE DEF v2, o2
    <3> QED BY <1>3, <1>4, <1>5, <2>5
  <2> QED BY <2>4, <2>6
<1>10. D = 1 => o2 = 1 /\ d2 = v2 * B
  <2> SUFFICES ASSUME D = 1 PROVE o2 = 1 /\ d2 = v2 * B
    OBVIOUS
  <2>1. o = 1 /\ d = v * B /\ o2 = 1
    BY <1>1
  <2>2. q = (v * M) * B
    <3> DEFINE z == d * M
    <3>1. z \in Nat /\ z = (v * M) * B
      BY <1>2, <2>1
    <3> HIDE DEF z
    <3>2. z \div 1 = z
      BY <3>1
    <3> QED BY <3>1, <3>2 DEF z, q
  <2>3. c * o2 = c
    BY <2>1
  <2> DEFINE x == v * M
  <2>4. x \in Nat /\ q = x * B /\ v2 = LeastOf(x, c)
    BY <1>3, <2>2, <2>3
  <2> HIDE DEF x, v2
  <2>5. CASE x <= c
    <3>1. x * B <= c * B /\ x * B \in Nat /\ v2 = x
      BY <2>4, <2>5, ProductGrows, ProductIsNat DEF LeastOf
    <3> DEFINE y == c * B
               z == x * B
    <3>2. y \in Nat /\ z \in Nat /\ z <= y
      BY <1>3, <3>1
    <3> HIDE DEF y, z
    <3>3. LeastOf(y, z) = z
      BY <3>2 DEF LeastOf
    <3> QED BY <2>1, <2>4, <3>1, <3>3 DEF y, z
  <2>6. CASE ~ (x <= c)
    <3>1. c <= x
      BY <2>4, <2>6
    <3>2. c * B <= x * B /\ x * B \in Nat /\ v2 = c
      BY <2>4, <2>6, <3>1, ProductGrows, ProductIsNat DEF LeastOf
    <3> DEFINE y == c * B
               z == x * B
    <3>3. y \in Nat /\ z \in Nat /\ y <= z
      BY <1>3, <3>2
    <3> HIDE DEF y, z
    <3>4. LeastOf(y, z) = y
      BY <3>3 DEF LeastOf
    <3> QED BY <2>1, <2>4, <3>2, <3>4 DEF y, z
  <2> QED BY <2>5, <2>6
<1> HIDE DEF d2, v2, o2, K
<1>11. K * (v2 * B - d2 * o2) <= D * (v2 - a * o2) /\ K = a * (M - D)
  BY <1>7 DEF K
<1>12. Near(c, B, D, M, a, d2, v2, o2)
  BY <1>3, <1>4, <1>5, <1>6, <1>8, <1>9, <1>10, <1>11 DEF Near
<1> QED BY <1>12 DEF d2, v2, o2, q

\* The first delay is the ideal itself.
LEMMA NearAtFirst ==
  ASSUME NEW B \in Nat, NEW D \in Nat, NEW M \in Nat, NEW a \in Nat, NEW c \in Nat,
         1 <= D, D <= M, a <= c
  PROVE  Near(c, B, D, M, a, a * B, a, 1)
<1>1. a * 1 = a /\ c * 1 = c /\ (a * B) * 1 = a * B /\ a * B \in Nat
  BY ProductIsNat
<1>2. (a * (M - D)) * (a * B - (a * B) * 1) <= D * (a - a * 1)
  <2>1. a * B - (a * B) * 1 = 0 /\ a - a * 1 = 0
    BY <1>1
  <2>2. M - D \in Nat
    OBVIOUS
  <2> DEFINE k == a * (M - D)
  <2>3. k \in Int
    OBVIOUS
  <2> HIDE DEF k
  <2>4. k * 0 = 0 /\ D * 0 = 0
    BY <2>3
  <2>5. k * (a * B - (a * B) * 1) <= D * (a - a * 1)
    BY <2>1, <2>4
  <2> QED BY <2>5 DEF k
<1> QED BY <1>1, <1>2 DEF Near

\* At most one less, and not even that for an integer factor.
Close(w, u, D) == w \in {u - 1, u} /\ (D = 1 => w = u)

\* Near is less than a millisecond: when D of the cap's units are less than one.
LEMMA NearIs ==
  ASSUME NEW B \in Nat, NEW D \in Nat, NEW M \in Nat, NEW a \in Nat, NEW c \in Nat,
         NEW d \in Nat, NEW v \in Nat, NEW o \in Nat,
         1 <= D, D <= M, 1 <= B, D * c <= B, Near(c, B, D, M, a, d, v, o)
  PROVE  Close(d \div B, v \div o, D)
<1> DEFINE K == a * (M - D)
           E == v * B - d * o
           w == d \div B
           u == v \div o
<1>1. /\ o >= 1 /\ a * o <= v /\ v <= c * o /\ d * o <= v * B
      /\ K * E <= D * (v - a * o)
      /\ a = 0 => v = 0
      /\ M = D => d = a * B /\ v = a * o
      /\ D = 1 => o = 1 /\ d = v * B
  BY DEF Near
<1>2. v * B \in Nat /\ d * o \in Nat /\ a * o \in Nat /\ o * B \in Nat /\ c * o \in Nat
  BY ProductIsNat
<1>3. w \in Nat /\ u \in Nat
  BY <1>1, DivisionIs
<1>4. E \in Nat /\ M - D \in Nat
  <2> DEFINE x == v * B
             y == d * o
  <2> HIDE DEF x, y
  <2>1. x - y \in Nat
    BY <1>1, <1>2 DEF x, y
  <2> QED BY <2>1 DEF x, y
<1>5. K \in Nat
  <2> DEFINE y == M - D
  <2> HIDE DEF y
  <2>1. a * y \in Nat
    BY <1>4, ProductIsNat DEF y
  <2> QED BY <2>1 DEF y
<1>6. E <= o * B
  <2>1. CASE K >= 1
    <3> HIDE DEF E, K
    <3>1. 1 * E <= K * E /\ K * E \in Nat
      BY <1>4, <1>5, <2>1, ProductGrows, ProductIsNat
    <3>2. D * (v - a * o) <= D * v
      <4> DEFINE y == v - a * o
      <4>1. y \in Nat /\ y <= v
        BY <1>1, <1>2
      <4> HIDE DEF y
      <4>2. D * y <= D * v
        BY <4>1, ProductGrows
      <4> QED BY <4>2 DEF y
    <3>3. D * v <= D * (c * o) /\ D * v \in Nat
      BY <1>1, <1>2, ProductGrows, ProductIsNat
    <3>4. D * (c * o) = (D * c) * o
      OBVIOUS
    <3>5. (D * c) * o <= B * o /\ B * o = o * B
      BY ProductGrows, ProductIsNat
    <3>6. D * (v - a * o) \in Int /\ (D * c) * o \in Int
      BY <1>2
    <3> DEFINE x == D * (v - a * o)
               y == D * v
               z == (D * c) * o
    <3>7. x \in Int /\ y \in Int /\ z \in Int /\ K * E <= x /\ x <= y /\ y <= z /\ z <= o * B
      BY <1>1, <3>2, <3>3, <3>4, <3>5, <3>6 DEF K, E
    <3> HIDE DEF x, y, z
    <3> QED BY <1>2, <1>4, <3>1, <3>7
  <2>2. CASE K = 0
    <3>1. a = 0 \/ M = D
      <4> SUFFICES ASSUME a # 0, M # D PROVE FALSE
        OBVIOUS
      <4> DEFINE y == M - D
      <4>1. y \in Nat /\ 1 <= y /\ 1 <= a
        BY <1>4
      <4> HIDE DEF y
      <4>2. 1 * y <= a * y
        BY <4>1, ProductGrows
      <4>3. a * y = 0
        BY <2>2 DEF y
      <4> QED BY <4>1, <4>2, <4>3
    <3>2. CASE a = 0
      <4>1. v * B = 0
        BY <1>1, <3>2
      <4> QED BY <1>1, <1>2, <4>1
    <3>3. CASE M = D
      <4>1. (a * o) * B = (a * B) * o
        OBVIOUS
      <4>2. v * B = d * o
        BY <1>1, <3>3, <4>1
      <4> QED BY <1>2, <4>2
    <3> QED BY <3>1, <3>2, <3>3
  <2> QED BY <1>5, <2>1, <2>2
<1>7. w <= u
  <2>1. d = w * B + (d % B) /\ d % B \in Nat
    BY DivisionIs
  <2> DEFINE f == d % B
  <2> HIDE DEF w, f
  <2>2. f \in Nat /\ d = w * B + f /\ w * B \in Nat
    BY <1>3, <2>1, ProductIsNat DEF f
  <2>3. (w * B) * o <= d * o
    BY <2>2, ProductGrows
  <2>4. (w * B) * o = (w * o) * B
    BY <1>3
  <2>5. w * o \in Nat
    BY <1>3, ProductIsNat
  <2> DEFINE z == w * o
  <2> HIDE DEF z
  <2>6. z * B <= v * B
    <3>1. z * B \in Nat
      BY <2>5, ProductIsNat DEF z
    <3> QED BY <1>1, <1>2, <2>3, <2>4, <3>1 DEF z
  <2>7. z <= v
    BY <2>5, <2>6, ProductOrder DEF z
  <2> QED BY <1>1, <1>3, <2>7, QuotientBound DEF z
<1>8. u < w + 2
  <2>1. d < (w + 1) * B
    <3>1. w + 1 \in Nat /\ w < w + 1
      BY <1>3
    <3> QED BY <3>1, QuotientBound
  <2> HIDE DEF w, u
  <2>2. d * o < ((w + 1) * B) * o
    <3>1. (w + 1) * B \in Nat
      BY <1>3, ProductIsNat
    <3> QED BY <1>1, <2>1, <3>1, ProductOrder
  <2>3. ((w + 1) * B) * o + o * B = ((w + 2) * o) * B
    BY <1>3
  <2>4. v * B <= d * o + o * B
    <3> DEFINE x == v * B
               y == d * o
               z == o * B
    <3>1. x \in Nat /\ y \in Nat /\ z \in Nat /\ x - y <= z
      BY <1>2, <1>6
    <3> HIDE DEF x, y, z
    <3>2. x <= y + z
      BY <3>1
    <3> QED BY <3>2 DEF x, y, z
  <2> DEFINE n == (w + 2) * o
  <2>5. n \in Nat
    BY <1>3, ProductIsNat
  <2>6. v * B < n * B
    <3> DEFINE x == v * B
               y == d * o
               z == o * B
               t == ((w + 1) * B) * o
               g == n * B
    <3>1. t \in Nat /\ g \in Nat
      <4> HIDE DEF n
      <4>1. (w + 1) * B \in Nat
        BY <1>3, ProductIsNat
      <4> QED BY <2>5, <4>1, ProductIsNat
    <3>2. x \in Nat /\ y \in Nat /\ z \in Nat /\ y < t /\ x <= y + z /\ t + z = g
      BY <1>2, <2>2, <2>3, <2>4
    <3> HIDE DEF x, y, z, t, g
    <3>3. x < g
      BY <3>1, <3>2
    <3> QED BY <3>3 DEF x, g
  <2> HIDE DEF n
  <2>7. v < n
    BY <2>5, <2>6, ProductOrder
  <2>8. w + 2 \in Nat
    BY <1>3
  <2> QED BY <1>1, <2>7, <2>8, QuotientBound DEF n, u
<1>9. D = 1 => w = u
  <2> SUFFICES ASSUME D = 1 PROVE w = u
    OBVIOUS
  <2>1. o = 1 /\ d = v * B + 0
    BY <1>1, <1>2
  <2>2. w = v
    BY <2>1, QuotientIs
  <2>3. u = v
    BY <2>1
  <2> QED BY <2>2, <2>3
<1> HIDE DEF w, u
<1>10. w = u - 1 \/ w = u
  BY <1>3, <1>7, <1>8
<1> QED BY <1>9, <1>10 DEF w, u, Close

\* Every delay is near its ideal.
LEMMA DelaysAreNear ==
  ASSUME NEW s \in Setting, ValidFactor(s.factor)
  PROVE  \A n \in Nat : Near(s.cap, Two[Word], Down(FactorOf(s)), FactorOf(s).m * Up(FactorOf(s)),
                             FirstDelay(s), Delay(s)[n], Ideal(s)[n].value, Ideal(s)[n].over)
<1> DEFINE d == FactorOf(s)
           U == Up(d)
           D == Down(d)
           B == Two[Word]
           M == d.m * U
           a == FirstDelay(s)
           c == s.cap
           Good(n) == Near(c, B, D, M, a, Delay(s)[n], Ideal(s)[n].value, Ideal(s)[n].over)
           T == {n \in Nat : Good(n)}
<1>1. c \in 0..MaxU64 /\ s.base \in 0..MaxU64 /\ s.factor \in Doubles
  BY DEF Setting
<1>2. /\ d \in [m: Nat, e: Int] /\ D <= M /\ D <= Two[FractionBits] /\ d.m \in Nat
  BY <1>1, FactorIs DEF FactorOf
<1>3. U \in Nat /\ D \in Nat /\ 1 <= D
  BY <1>2, ScaleIs
<1>4. B \in Nat /\ c \in Nat /\ a \in Nat /\ a <= c
  BY <1>1, Widths DEF FirstDelay, LeastOf
<1>5. D <= B
  <2> DEFINE b == Two[HalfWord]
  <2>1. b \in Nat /\ b >= 1 /\ B = b * b /\ D <= b
    BY <1>2, <1>3, Widths
  <2> HIDE DEF b, B, D
  <2>2. 1 * b <= b * b /\ b * b \in Nat
    BY <2>1, ProductGrows, ProductIsNat
  <2> QED BY <1>3, <2>1, <2>2
<1>6. M \in Nat
  BY <1>2, <1>3, ProductIsNat
<1>7. 0 \in T
  <2>1. Good(0)
    <3>1. Delay(s)[0] = a * B /\ Ideal(s)[0].value = a /\ Ideal(s)[0].over = 1
      <4>1. Delay(s)[0] = a * B
        BY DelayIs
      <4>2. Ideal(s)[0] = [value |-> a, over |-> 1]
        BY IdealIs
      <4> HIDE DEF a
      <4> QED BY <4>1, <4>2
    <3> HIDE DEF B, D, M, a, c
    <3> QED BY <1>2, <1>3, <1>4, <1>6, <3>1, NearAtFirst
  <2> QED BY <2>1
<1>8. ASSUME NEW n \in Nat, n \in T PROVE n + 1 \in T
  <2> DEFINE x == Delay(s)[n]
             v == Ideal(s)[n].value
             o == Ideal(s)[n].over
  <2>1. x \in Nat /\ v \in Nat /\ o \in Nat
    BY DelayIs, IdealIs DEF Exact
  <2>2. Near(c, B, D, M, a, x, v, o)
    BY <1>8
  <2>3. Delay(s)[n + 1] = LeastOf(c * B, (x * d.m * U) \div D)
    BY DelayIs DEF Step
  <2>4. Ideal(s)[n + 1].value = LeastOf(v * d.m * U, c * (o * D)) /\ Ideal(s)[n + 1].over = o * D
    <3>1. Ideal(s)[n + 1] = NextIdeal(s, Ideal(s)[n])
      BY IdealIs
    <3>2. NextIdeal(s, Ideal(s)[n]) =
            [over |-> o * D, value |-> LeastOf(v * d.m * U, c * (o * D))]
      BY DEF NextIdeal
    <3> HIDE DEF x, v, o, D, U, d, c
    <3> QED BY <3>1, <3>2
  <2>5. x * d.m * U = x * M /\ v * d.m * U = v * M
    <3> HIDE DEF x, v, U, d
    <3> QED BY <1>2, <1>3, <2>1
  <2> HIDE DEF x, v, o, B, D, a, c
  <2>6. Near(c, B, D, M, a, LeastOf(c * B, (x * M) \div D), LeastOf(v * M, c * (o * D)), o * D)
    <3> HIDE DEF M
    <3> QED BY <1>2, <1>3, <1>4, <1>5, <1>6, <2>1, <2>2, NearKept
  <2>7. Good(n + 1)
    <3> HIDE DEF M
    <3> QED BY <2>3, <2>4, <2>5, <2>6
  <2> QED BY <2>7
<1>9. Nat \subseteq T
  <2> HIDE DEF T
  <2> QED BY <1>7, <1>8, Induction
<1> QED BY <1>9

\* So is the whole part of a backoff that holds it.
LEMMA WholeIsNear ==
  ASSUME NEW s \in Setting, ValidFactor(s.factor), NEW k, Held(k, s), NEW n \in Nat,
         Words(k.whole, k.fraction) = Delay(s)[n]
  PROVE  /\ k.whole \in {IdealDelay(s, n) - 1, IdealDelay(s, n)}
         /\ FactorOf(s).e >= 0 => k.whole = IdealDelay(s, n)
<1> DEFINE d == FactorOf(s)
           D == Down(d)
           B == Two[Word]
           M == d.m * Up(d)
           a == FirstDelay(s)
           c == s.cap
           x == Delay(s)[n]
           v == Ideal(s)[n].value
           o == Ideal(s)[n].over
<1>1. c \in 0..MaxU64 /\ s.base \in 0..MaxU64 /\ s.factor \in Doubles
  BY DEF Setting
<1>2. d \in [m: Nat, e: Int] /\ D <= M /\ D <= Two[FractionBits] /\ d.m \in Nat
  BY <1>1, FactorIs DEF FactorOf
<1>3. Up(d) \in Nat /\ D \in Nat /\ 1 <= D /\ d.e \in Int /\ (d.e >= 0 => D = 1)
  BY <1>2, ScaleIs
<1>4. B \in Nat /\ 1 <= B /\ c \in Nat /\ a \in Nat /\ c < Two[HalfWord]
  BY <1>1, Widths DEF FirstDelay, LeastOf
<1>5. D * c <= B
  <2> DEFINE b == Two[HalfWord]
  <2>1. b \in Nat /\ B = b * b /\ D < b
    BY <1>2, <1>3, Widths
  <2> HIDE DEF b, B, D, c
  <2>2. D * c < b * b /\ D * c \in Nat /\ b * b \in Nat
    BY <1>3, <1>4, <2>1, HalvesFit, ProductIsNat DEF b
  <2> QED BY <2>1, <2>2
<1>6. M \in Nat /\ x \in Nat /\ v \in Nat /\ o \in Nat
  BY <1>2, <1>3, ProductIsNat, DelayIs, IdealIs DEF Exact
<1>7. Near(c, B, D, M, a, x, v, o)
  BY DelaysAreNear
<1>8. k.whole \in Nat /\ k.fraction \in Nat /\ k.fraction < B
  BY HeldIs
<1>9. x \div B = k.whole
  <2>1. x = k.whole * B + k.fraction
    BY DEF Words
  <2> DEFINE w == k.whole
             f == k.fraction
  <2> HIDE DEF w, f, B, x
  <2>2. w \in Nat /\ f \in Nat /\ f < B /\ x = w * B + f
    BY <1>8, <2>1 DEF w, f
  <2>3. x \div B = w
    BY <1>4, <1>6, <2>2, QuotientIs
  <2> QED BY <2>3 DEF w
<1> HIDE DEF c, B, D, M, a, x, v, o
<1>10. Close(x \div B, v \div o, D)
  <2>1. D <= M /\ D \in Nat /\ 1 <= D /\ B \in Nat /\ 1 <= B /\ c \in Nat /\ a \in Nat
    BY <1>2, <1>3, <1>4
  <2> QED BY <1>5, <1>6, <1>7, <2>1, NearIs
<1>11. IdealDelay(s, n) = v \div o
  BY DEF IdealDelay, v, o
<1> QED BY <1>3, <1>9, <1>10, <1>11 DEF Close

\* With a factor above one a delay grows, by at least one unit.
LEMMA StepGrows ==
  ASSUME NEW s \in Setting, ValidFactor(s.factor), NEW k, Held(k, s),
         k.whole >= 1, k.whole < s.cap, Above(FactorOf(s), 1)
  PROVE  Step(s, Words(k.whole, k.fraction)) > Words(k.whole, k.fraction)
<1> DEFINE d == FactorOf(s)
           U == Up(d)
           D == Down(d)
           B == Two[Word]
           w == k.whole
           f == k.fraction
           x == Words(w, f)
           c == s.cap
           q == (x * d.m * U) \div D
<1>1. /\ c \in Nat /\ d \in [m: Nat, e: Int] /\ w \in Nat /\ f \in Nat /\ f < B
      /\ w >= 1 /\ w < c /\ s.factor \in Doubles
  BY HeldIs DEF Setting
<1>2. U \in Nat /\ D \in Nat /\ 1 <= D /\ D <= B /\ B \in Nat /\ d.m \in Nat
  <2>1. U \in Nat /\ D \in Nat /\ 1 <= D /\ B \in Nat /\ d.m \in Nat
    BY <1>1, ScaleIs, Widths
  <2>2. D <= Two[FractionBits]
    BY <1>1, FactorIs DEF FactorOf
  <2> DEFINE b == Two[HalfWord]
  <2>3. b \in Nat /\ b >= 1 /\ B = b * b /\ D <= b
    BY <2>1, <2>2, Widths
  <2> HIDE DEF b, B, D
  <2>4. 1 * b <= b * b /\ b * b \in Nat
    BY <2>3, ProductGrows, ProductIsNat
  <2> QED BY <2>1, <2>3, <2>4
<1>3. x = w * B + f /\ x \in Nat /\ B <= x /\ x < c * B /\ c * B \in Nat
  <2> HIDE DEF B, w, f, c
  <2>1. w * B \in Nat /\ 1 * B <= w * B /\ c * B \in Nat
    BY <1>1, <1>2, ProductIsNat, ProductGrows
  <2>2. w + 1 \in Nat /\ w + 1 <= c
    BY <1>1
  <2>3. (w + 1) * B <= c * B
    BY <1>1, <1>2, <2>2, ProductGrows
  <2>4. (w + 1) * B = w * B + B
    BY <1>1, <1>2
  <2>5. x = w * B + f
    BY DEF Words, B
  <2> HIDE DEF x
  <2> QED BY <1>1, <1>2, <2>1, <2>3, <2>4, <2>5
<1> HIDE DEF x, w, f, c
<1>4. D + 1 <= d.m * U
  <2>1. d.m * U > 1 * D
    BY DEF Above
  <2> DEFINE M == d.m * U
  <2>2. M \in Nat /\ M > D
    BY <1>2, <2>1, ProductIsNat
  <2> HIDE DEF M
  <2>3. D + 1 <= M
    BY <1>2, <2>2
  <2> QED BY <2>3 DEF M
<1>5. x + 1 <= q
  <2> DEFINE M == d.m * U
  <2>1. M \in Nat /\ D + 1 <= M /\ D + 1 \in Nat
    BY <1>2, <1>4, ProductIsNat
  <2>2. x * d.m * U = x * M
    <3> HIDE DEF d, U
    <3> QED BY <1>2, <1>3
  <2> HIDE DEF M, D, U, d
  <2>3. x * (D + 1) <= x * M
    BY <1>3, <2>1, ProductGrows
  <2>4. x * (D + 1) = x * D + x
    BY <1>2, <1>3
  <2>5. (x + 1) * D = x * D + D
    BY <1>2, <1>3
  <2> DEFINE z == x * M
  <2>6. (x + 1) * D <= z /\ z \in Nat
    <3>1. x * D \in Nat /\ x * M \in Nat
      BY <1>2, <1>3, <2>1, ProductIsNat
    <3> QED BY <1>2, <1>3, <2>3, <2>4, <2>5, <3>1
  <2>7. q = z \div D
    BY <2>2
  <2> HIDE DEF z, q
  <2>8. x + 1 \in Nat
    BY <1>3
  <2> QED BY <1>2, <2>6, <2>7, <2>8, QuotientBound
<1>6. Step(s, x) = LeastOf(c * B, q)
  BY DEF Step, c
<1>7. q \in Int
  <2> DEFINE z == x * d.m * U
  <2>1. z \in Nat
    <3>1. x * d.m \in Nat
      BY <1>2, <1>3, ProductIsNat
    <3> HIDE DEF U, d
    <3> QED BY <1>2, <3>1, ProductIsNat
  <2> HIDE DEF z, D
  <2>2. z \div D \in Nat
    BY <1>2, <2>1, DivisionIs
  <2> QED BY <2>2 DEF z
<1> DEFINE y == c * B
<1> HIDE DEF q
<1>8. y \in Nat /\ x < y
  BY <1>3
<1> HIDE DEF y
<1>9. LeastOf(y, q) > x
  BY <1>3, <1>5, <1>7, <1>8 DEF LeastOf
<1> QED BY <1>6, <1>9 DEF y, x, w, f

-----------------------------------------------------------------------------
(* The interval of a rate.                                                 *)

\* The quotient rounded up is the least that is not too small.
LEMMA DividedIs ==
  ASSUME NEW n \in Nat, NEW m \in Nat, m >= 1
  PROVE  /\ Divided(n, m) \in Nat
         /\ \A j \in Int : j * m >= n <=> j >= Divided(n, m)
<1> DEFINE z == n + m - 1
           k == z \div m
<1>1. z \in Nat
  OBVIOUS
<1> HIDE DEF z
<1>2. k \in Nat
  BY <1>1, DivisionIs
<1>3. ASSUME NEW j \in Nat PROVE j * m >= n <=> j >= k
  <2>1. j * m \in Nat /\ (j + 1) * m = j * m + m /\ j + 1 \in Nat
    BY ProductIsNat
  <2>2. z < (j + 1) * m <=> k < j + 1
    BY <1>1, <2>1, QuotientBound
  <2>3. z < (j + 1) * m <=> n <= j * m
    <3> DEFINE y == j * m
    <3>1. y \in Nat /\ (j + 1) * m = y + m
      BY <2>1
    <3> HIDE DEF y
    <3>2. z < y + m <=> n <= y
      BY <3>1 DEF z
    <3> QED BY <3>1, <3>2 DEF y
  <2> HIDE DEF k
  <2>4. k < j + 1 <=> j >= k
    BY <1>2
  <2>5. j * m >= n <=> n <= j * m
    BY <2>1
  <2> QED BY <2>2, <2>3, <2>4, <2>5
<1>4. ASSUME NEW j \in Int, j < 0 PROVE j * m >= n <=> j >= k
  <2> DEFINE i == -j
  <2>1. i \in Nat /\ i >= 1 /\ j = -i
    BY <1>4
  <2> HIDE DEF i
  <2>2. 1 * m <= i * m /\ i * m \in Nat
    BY <2>1, ProductGrows, ProductIsNat
  <2>3. j * m = -(i * m)
    BY <2>1
  <2> DEFINE y == i * m
  <2> HIDE DEF y, k
  <2>4. y \in Nat /\ y >= 1 /\ j * m = -y
    BY <2>2, <2>3 DEF y
  <2>5. ~ (j * m >= n) /\ ~ (j >= k)
    BY <1>2, <1>4, <2>4
  <2> QED BY <2>5
<1>5. Divided(n, m) = k
  BY DEF Divided, z
<1> HIDE DEF k
<1>6. \A j \in Int : j \in Nat \/ j < 0
  OBVIOUS
<1> QED BY <1>2, <1>3, <1>4, <1>5, <1>6

\* The end of rate_interval, of a numerator and a denominator.
Over(n, m) == IF n < m \/ Divided(n, m) > MaxU64 THEN NoValue ELSE Divided(n, m)

\* It is the least that is not too small, if that is one at least and fits.
LEMMA OverIs ==
  ASSUME NEW n \in Nat, NEW m \in Nat, m >= 1
  PROVE  IF n >= m /\ MaxU64 * m >= n
         THEN /\ Over(n, m) \in Nat /\ Over(n, m) # NoValue
              /\ Over(n, m) * m >= n /\ ~ ((Over(n, m) - 1) * m >= n)
         ELSE Over(n, m) = NoValue
<1> DEFINE k == Divided(n, m)
<1>1. k \in Nat /\ \A j \in Int : j * m >= n <=> j >= k
  BY DividedIs
<1> HIDE DEF k
<1>2. MaxU64 \in Nat
  BY Widths
<1>3. MaxU64 * m >= n <=> MaxU64 >= k
  BY <1>1, <1>2
<1>4. Over(n, m) = IF n < m \/ k > MaxU64 THEN NoValue ELSE k
  BY DEF Over, k
<1>5. CASE n >= m /\ MaxU64 * m >= n
  <2>1. ~ (n < m) /\ ~ (k > MaxU64)
    BY <1>1, <1>2, <1>3, <1>5
  <2>2. Over(n, m) = k
    BY <1>4, <2>1
  <2>3. k # NoValue
    BY <1>1, NoValueAssumption
  <2>4. k \in Int /\ k - 1 \in Int /\ k >= k /\ ~ (k - 1 >= k)
    BY <1>1
  <2>5. k * m >= n /\ ~ ((k - 1) * m >= n)
    BY <1>1, <2>4
  <2> QED BY <1>1, <1>5, <2>2, <2>3, <2>5
<1>6. CASE ~ (n >= m /\ MaxU64 * m >= n)
  <2>1. n < m \/ k > MaxU64
    BY <1>1, <1>2, <1>3, <1>6
  <2> QED BY <1>4, <1>6, <2>1
<1> QED BY <1>5, <1>6

\* rate_interval is exact for every double.
LEMMA IntervalsAreExact ==
  ASSUME NEW x \in Doubles
  PROVE  IntervalIsExact(x)
<1> DEFINE d == dyadic(x)
           U == Up(d)
           D == Down(d)
           n == Nanos * D
           m == d.m * U
           far == IF d.e >= 0 THEN d.e > NanoBits ELSE -d.e > Word - 1 - NanoBits
           r == rate_interval(x)
<1>1. CASE d = NoValue
  <2>1. r = NoValue
    BY <1>1 DEF rate_interval
  <2> QED BY <1>1, <2>1 DEF IntervalIsExact
<1>2. CASE d # NoValue
  <2>1. /\ d \in [m: Nat, e: Int] /\ d.m \in Nat /\ d.e \in Int
        /\ d.m >= 1 /\ d.m < Two[FractionBits + 1]
    BY <1>2, DyadicIs
  <2>2. /\ U \in Nat /\ U >= 1 /\ D \in Nat /\ D >= 1
        /\ d.e >= 0 => d.e \in Nat /\ U = Two[d.e] /\ D = 1
        /\ d.e < 0 => -d.e \in Nat /\ U = 1 /\ D = Two[-d.e]
    BY <2>1, ScaleIs
  <2>3. /\ Nanos \in Nat /\ Nanos >= 1 /\ NanoBits \in Nat /\ NanoBits < Word /\ Word \in Nat
        /\ Two[NanoBits] \in Nat /\ Nanos < Two[NanoBits]
    <3>1. NanoBits \in Nat /\ Two[NanoBits] \in Nat /\ Nanos \in 1..(Two[NanoBits] - 1)
      BY NanosAssumption, TwoIs
    <3>2. NanoBits < HalfWord + FractionBits
      BY NanosAssumption
    <3>3. HalfWord + FractionBits < Word
      BY Widths, WidthAssumption DEF Word
    <3> QED BY <3>1, <3>2, <3>3, Widths
  <2>4. n \in Nat /\ m \in Nat /\ m >= 1
    <3> HIDE DEF d, U, D
    <3>1. 1 * 1 <= d.m * 1 /\ d.m * 1 <= d.m * U
      BY <2>1, <2>2, ProductGrows
    <3>2. d.m * U \in Nat /\ Nanos * D \in Nat
      BY <2>1, <2>2, <2>3, ProductIsNat
    <3>3. 1 * 1 = 1 /\ d.m * 1 = d.m
      BY <2>1
    <3> QED BY <2>1, <3>1, <3>2, <3>3
  <2>5. r = IF far THEN NoValue ELSE Over(n, m)
    <3>1. CASE d.e >= 0
      <4>1. n = Nanos /\ m = d.m * Two[d.e]
        <5> HIDE DEF d
        <5> QED BY <2>2, <2>3, <3>1
      <4> QED BY <1>2, <3>1, <4>1 DEF rate_interval, Over
    <3>2. CASE ~ (d.e >= 0)
      <4>1. n = Nanos * Two[-d.e] /\ m = d.m
        <5> HIDE DEF d
        <5> QED BY <2>1, <2>2, <3>2
      <4> QED BY <1>2, <3>2, <4>1 DEF rate_interval, Over
    <3> QED BY <3>1, <3>2
  <2>6. /\ Above(d, Nanos) <=> ~ (n >= m)
        /\ \A j \in Int : (d.m * j * U >= Nanos * D <=> j * m >= n)
    <3> HIDE DEF d, U, D
    <3>1. Above(d, Nanos) <=> m > n
      BY DEF Above, U, D
    <3>2. ASSUME NEW j \in Int PROVE d.m * j * U = j * m
      BY <2>1, <2>2
    <3>3. m > n <=> ~ (n >= m)
      <4> HIDE DEF m, n
      <4> QED BY <2>4
    <3> QED BY <3>1, <3>2, <3>3
  <2>7. far => ~ (n >= m /\ MaxU64 * m >= n)
    <3> SUFFICES ASSUME far PROVE ~ (n >= m /\ MaxU64 * m >= n)
      OBVIOUS
    <3>1. CASE d.e >= 0
      <4>1. d.e \in Nat /\ NanoBits <= d.e /\ U = Two[d.e] /\ D = 1
        BY <2>1, <2>2, <2>3, <3>1
      <4>2. Two[NanoBits] <= U
        BY <2>3, <4>1, TwoGrows
      <4> HIDE DEF d, U, D
      <4>3. 1 * U <= d.m * U
        BY <2>1, <2>2, ProductGrows
      <4>4. n = Nanos
        BY <2>3, <4>1
      <4> HIDE DEF n
      <4>5. n < m
        <5> HIDE DEF m
        <5> QED BY <2>2, <2>3, <2>4, <4>2, <4>3, <4>4 DEF m
      <4> HIDE DEF m
      <4> QED BY <2>4, <4>5
    <3>2. CASE d.e < 0
      <4> DEFINE i == Word - NanoBits
                 P == Two[i]
                 Q == Two[FractionBits + 1]
      <4>1. i \in Nat /\ i <= -d.e /\ -d.e \in Nat /\ U = 1 /\ D = Two[-d.e]
        BY <2>1, <2>2, <2>3, <3>2
      <4>2. P <= D
        <5> HIDE DEF i
        <5> QED BY <4>1, TwoGrows
      <4>3. Nanos * P > MaxU64 * Q
        BY ShiftAssumption
      <4>4. P \in Nat /\ Q \in Nat /\ MaxU64 \in Nat /\ d.m <= Q /\ m = d.m
        <5>1. P \in Nat /\ Q \in Nat
          BY <4>1, TwoIs, Widths
        <5>2. m = d.m
          BY <2>1, <4>1
        <5> QED BY <2>1, <5>1, <5>2, Widths
      <4> HIDE DEF d, U, D, P, Q, i
      <4>5. Nanos * P <= Nanos * D
        BY <2>2, <2>3, <4>2, <4>4, ProductGrows
      <4>6. MaxU64 * m <= MaxU64 * Q
        BY <2>1, <4>4, ProductGrows
      <4>7. Nanos * P \in Nat /\ MaxU64 * Q \in Nat /\ MaxU64 * m \in Nat
        BY <2>1, <2>3, <4>4, ProductIsNat
      <4> DEFINE z1 == Nanos * P
                 z2 == MaxU64 * Q
                 z3 == MaxU64 * m
      <4>8. z1 \in Nat /\ z2 \in Nat /\ z3 \in Nat /\ z1 > z2 /\ z1 <= n /\ z3 <= z2
        BY <4>3, <4>5, <4>6, <4>7
      <4> HIDE DEF z1, z2, n, m
      <4>9. ~ (z3 >= n)
        <5> HIDE DEF z3
        <5> QED BY <2>4, <4>8
      <4> QED BY <4>9
    <3> QED BY <2>1, <3>1, <3>2
  <2> DEFINE fits == n >= m /\ MaxU64 * m >= n
  <2> HIDE DEF d, U, D, n, m, r, far
  <2>8. IF fits THEN /\ r \in Nat /\ r # NoValue /\ r * m >= n /\ ~ ((r - 1) * m >= n)
        ELSE r = NoValue
    <3>1. CASE far
      <4>1. ~ fits /\ r = NoValue
        BY <2>5, <2>7, <3>1
      <4> HIDE DEF fits
      <4> QED BY <4>1
    <3>2. CASE ~ far
      <4>1. r = Over(n, m)
        BY <2>5, <3>2
      <4> QED BY <2>4, <4>1, OverIs
    <3> QED BY <3>1, <3>2
  <2>9. (d # NoValue /\ ~ Above(d, Nanos) /\ d.m * MaxU64 * U >= Nanos * D) <=> fits
    <3>1. MaxU64 \in Int
      BY Widths
    <3>2. d.m * MaxU64 * U >= Nanos * D <=> MaxU64 * m >= n
      BY <2>6, <3>1
    <3> QED BY <1>2, <2>6, <3>2
  <2>10. CASE fits
    <3>1. r \in Int /\ r - 1 \in Int
      BY <2>8, <2>10
    <3>2. d.m * r * U >= Nanos * D /\ ~ (d.m * (r - 1) * U >= Nanos * D)
      BY <2>6, <2>8, <2>10, <3>1
    <3>3. r # NoValue
      BY <2>8, <2>10
    <3> HIDE DEF fits
    <3> QED BY <2>9, <2>10, <3>2, <3>3 DEF IntervalIsExact, d, U, D, r
  <2>11. CASE ~ fits
    <3>1. r = NoValue
      BY <2>8, <2>11
    <3> HIDE DEF fits
    <3> QED BY <2>9, <2>11, <3>1 DEF IntervalIsExact, d, U, D, r
  <2> QED BY <2>10, <2>11
<1> QED BY <1>1, <1>2

-----------------------------------------------------------------------------
(* The loops.                                                              *)

\* A loop has a setting; with a factor that validation lets through its
\* backoff is the delay of its next wait, and its last wait was due.
BackoffInv ==
  /\ setting \in Settings
  /\ waits \in Nat
  /\ ValidFactor(setting.factor) =>
       Held(backoff, setting) /\ WordsAreExact /\ WaitIsDue

\* The settings, by name.
LEMMA SettingsAre == Settings \subseteq Setting /\ RetryAfters \subseteq Nat
BY SettingsAssumption DEF Setting

\* A loop starts with the first delay.
LEMMA BackoffStarts == BackoffInit => BackoffInv
<1> SUFFICES ASSUME BackoffInit PROVE BackoffInv
  OBVIOUS
<1> DEFINE s == setting
<1>1. s \in Settings /\ s \in Setting /\ waits = 0
  BY SettingsAre DEF BackoffInit, BackoffStart
<1>2. ASSUME ValidFactor(s.factor) PROVE Held(backoff, s) /\ WordsAreExact
  <2>1. backoff = [whole |-> FirstDelay(s), fraction |-> 0, mantissa |-> FactorOf(s).m,
                   exponent |-> FactorOf(s).e, cap |-> s.cap]
    BY <1>2 DEF BackoffInit, BackoffStart, NewBackoff, FirstDelay, FactorOf
  <2>2. FirstDelay(s) \in 0..s.cap /\ 0 \in 0..(Two[Word] - 1)
    <3>1. s.base \in 0..MaxU64 /\ s.cap \in 0..MaxU64
      BY <1>1 DEF Setting
    <3> QED BY <3>1, Widths DEF FirstDelay, LeastOf
  <2>3. Held(backoff, s)
    BY <2>1, <2>2 DEF Held
  <2>4. backoff.whole * Two[Word] + backoff.fraction = FirstDelay(s) * Two[Word]
    <3>1. FirstDelay(s) * Two[Word] \in Nat
      BY <2>2, Widths, ProductIsNat, <1>1 DEF Setting
    <3> QED BY <2>1, <3>1
  <2>5. Delay(s)[0] = FirstDelay(s) * Two[Word]
    BY <1>1, <1>2, DelayIs
  <2> QED BY <1>1, <2>3, <2>4, <2>5 DEF WordsAreExact
<1>3. WaitIsDue
  BY <1>1 DEF WaitIsDue
<1> QED BY <1>1, <1>2, <1>3 DEF BackoffInv

\* A wait advances the backoff to the delay of the next one.
LEMMA NextIsHeld ==
  ASSUME BackoffInv, ValidFactor(setting.factor), setting' = setting, waits' = waits + 1,
         backoff' = Advanced(backoff)
  PROVE  setting' \in Settings /\ waits' \in Nat /\ Held(backoff', setting') /\ WordsAreExact'
<1>1. setting \in Settings /\ setting \in Setting /\ waits \in Nat /\ Held(backoff, setting)
  BY SettingsAre DEF BackoffInv
<1>2. Words(backoff.whole, backoff.fraction) = Delay(setting)[waits]
  BY DEF BackoffInv, WordsAreExact, Words
<1>3. /\ Held(backoff', setting)
      /\ Words(backoff'.whole, backoff'.fraction) = Step(setting, Delay(setting)[waits])
  BY <1>1, <1>2, AdvancedIs
<1>4. Delay(setting)[waits + 1] = Step(setting, Delay(setting)[waits])
  BY <1>1, DelayIs
<1>5. WordsAreExact'
  BY <1>3, <1>4 DEF WordsAreExact, Words
<1> QED BY <1>1, <1>3, <1>5

\* The delay that a loop waits is near the ideal of its wait.
LEMMA WaitIsNear ==
  ASSUME BackoffInv, ValidFactor(setting.factor)
  PROVE  IsNear(backoff.whole, waits)
<1>1. setting \in Setting /\ waits \in Nat /\ Held(backoff, setting)
  BY SettingsAre DEF BackoffInv
<1>2. Words(backoff.whole, backoff.fraction) = Delay(setting)[waits]
  BY DEF BackoffInv, WordsAreExact, Words
<1> QED BY <1>1, <1>2, WholeIsNear DEF IsNear

\* Every wait keeps the invariant.
LEMMA BackoffStays == BackoffInv /\ [BackoffNext]_backoffVars => BackoffInv'
<1> SUFFICES ASSUME BackoffInv, [BackoffNext]_backoffVars PROVE BackoffInv'
  OBVIOUS
<1>1. setting \in Setting /\ waits \in Nat
  BY SettingsAre DEF BackoffInv
<1>2. ASSUME FirstPollWait PROVE BackoffInv'
  <2>1. /\ ValidFactor(setting.factor) /\ setting' = setting /\ waits' = waits + 1
        /\ backoff' = Advanced(backoff) /\ waits' = 1 /\ setting.loop = "poll"
        /\ wait' = setting.base
    BY <1>1, <1>2 DEF FirstPollWait, MayWait
  <2>2. WaitIsDue'
    BY <2>1 DEF WaitIsDue
  <2> QED BY <2>1, <2>2, NextIsHeld DEF BackoffInv
<1>3. ASSUME PollWait PROVE BackoffInv'
  <2>1. /\ ValidFactor(setting.factor) /\ setting' = setting /\ waits' = waits + 1
        /\ backoff' = Advanced(backoff) /\ waits > 0 /\ setting.loop = "poll"
        /\ wait' = backoff.whole
    BY <1>3 DEF PollWait, MayWait
  <2>2. IsNear(wait, waits - 1)'
    <3>1. waits' - 1 = waits
      BY <1>1, <2>1
    <3> QED BY <2>1, <3>1, WaitIsNear DEF IsNear
  <2>3. WaitIsDue'
    BY <1>1, <2>1, <2>2 DEF WaitIsDue
  <2> QED BY <2>1, <2>3, NextIsHeld DEF BackoffInv
<1>4. ASSUME NEW after \in RetryAfters \cup {NoValue}, RetryWait(after) PROVE BackoffInv'
  <2>1. /\ ValidFactor(setting.factor) /\ setting' = setting /\ waits' = waits + 1
        /\ backoff' = Advanced(backoff) /\ setting.loop = "retry"
    BY <1>4 DEF RetryWait, MayWait
  <2>2. CASE after # NoValue /\ setting.respect
    <3>1. wait' = LeastOf(after, setting.maxAfter) /\ after <= setting.maxAfter
      BY <1>4, <2>2 DEF RetryWait
    <3>2. wait' <= setting.maxAfter
      BY <3>1 DEF LeastOf
    <3>3. WaitIsDue'
      BY <2>1, <2>2, <3>2 DEF WaitIsDue
    <3> QED BY <2>1, <3>3, NextIsHeld DEF BackoffInv
  <2>3. CASE ~ (after # NoValue /\ setting.respect)
    <3>1. wait' = backoff.whole
      BY <1>4, <2>3 DEF RetryWait
    <3>2. IsNear(wait, waits - 1)'
      <4>1. waits' - 1 = waits
        BY <1>1, <2>1
      <4> QED BY <2>1, <3>1, <4>1, WaitIsNear DEF IsNear
    <3>3. WaitIsDue'
      BY <2>1, <3>2 DEF WaitIsDue
    <3> QED BY <2>1, <3>3, NextIsHeld DEF BackoffInv
  <2> QED BY <2>2, <2>3
<1>5. ASSUME UNCHANGED <<setting, backoff, waits, wait>> PROVE BackoffInv'
  BY <1>5 DEF BackoffInv, WordsAreExact, WaitIsDue, IsNear
<1>6. ASSUME NEW after \in RetryAfters \cup {NoValue}, RetryStops(after) PROVE BackoffInv'
  BY <1>5, <1>6 DEF RetryStops
<1>7. CASE UNCHANGED backoffVars
  BY <1>5, <1>7 DEF backoffVars
<1> QED BY <1>2, <1>3, <1>4, <1>6, <1>7 DEF BackoffNext

\* For every setting, every width and every double: the interval of a rate is
\* the least number of whole nanoseconds that is not faster than the rate, or
\* refused (rate_interval); the two words of a backoff hold the delay of its
\* definition exactly, whatever is carried or shifted between them, and that
\* delay is never longer than the ideal, less than a millisecond shorter in
\* its whole part, exact for an integer factor and growing until the cap
\* (Backoff::advance); each loop waits the delay of its turn (retry_wait,
\* await_poll_url).
THEOREM WaitsAreExact == BackoffSpec => []ArithmeticIsExact
<1>1. BackoffInv => ArithmeticIsExact
  <2> SUFFICES ASSUME BackoffInv PROVE ArithmeticIsExact
    OBVIOUS
  <2>1. setting \in Setting /\ waits \in Nat
    BY SettingsAre DEF BackoffInv
  <2>2. IntervalIsExact(setting.factor)
    BY <2>1, IntervalsAreExact DEF Setting
  <2>3. ASSUME ValidFactor(setting.factor)
        PROVE  backoff # NoValue /\ WordsAreExact /\ IsNear(backoff.whole, waits) /\ DelayGrows
               /\ WaitIsDue
    <3>1. Held(backoff, setting) /\ WordsAreExact /\ WaitIsDue
      BY <2>3 DEF BackoffInv
    <3>2. backoff # NoValue
      <4>1. /\ FactorOf(setting) \in [m: Nat, e: Int] /\ setting.cap \in Nat
        BY <2>1, <2>3, <3>1, HeldIs
      <4>2. FactorOf(setting).m \in Nat /\ FactorOf(setting).e \in Int
        BY <4>1
      <4>3. backoff \in [whole: Nat, fraction: Nat, mantissa: Nat, exponent: Int, cap: Nat]
        BY <3>1, <4>1, <4>2, Widths DEF Held
      <4> QED BY <4>3, NoValueAssumption
    <3>3. DelayGrows
      <4> SUFFICES ASSUME backoff.whole >= 1, backoff.whole < setting.cap,
                          Above(FactorOf(setting), 1)
                   PROVE  Delay(setting)[waits + 1] > Delay(setting)[waits]
        BY DEF DelayGrows
      <4>1. Words(backoff.whole, backoff.fraction) = Delay(setting)[waits]
        BY <3>1 DEF WordsAreExact, Words
      <4>2. Step(setting, Delay(setting)[waits]) > Delay(setting)[waits]
        BY <2>1, <2>3, <3>1, <4>1, StepGrows
      <4> QED BY <2>1, <2>3, <4>2, DelayIs
    <3> QED BY <2>3, <3>1, <3>2, <3>3, WaitIsNear
  <2> QED BY <2>2, <2>3 DEF ArithmeticIsExact
<1> QED BY <1>1, BackoffStarts, BackoffStays, PTL DEF BackoffSpec

-----------------------------------------------------------------------------
(* The delays by themselves.                                               *)

\* A backoff that holds a number of units below the cap.
LEMMA UnitsAreHeld ==
  ASSUME NEW s \in Setting, ValidFactor(s.factor), NEW x \in Nat, x < s.cap * Two[Word]
  PROVE  \E k : Held(k, s) /\ Words(k.whole, k.fraction) = x /\ k.whole < s.cap
                /\ (x >= Two[Word] => k.whole >= 1)
<1> DEFINE B == Two[Word]
           w == x \div B
           f == x % B
           k == [whole |-> w, fraction |-> f, mantissa |-> FactorOf(s).m,
                 exponent |-> FactorOf(s).e, cap |-> s.cap]
<1>1. B \in Nat /\ B >= 1 /\ s.cap \in Nat
  BY Widths DEF Setting
<1>2. w \in Nat /\ f \in Nat /\ f < B /\ x = w * B + f
  BY <1>1, DivisionIs
<1>3. w < s.cap
  BY <1>1, QuotientBound
<1>4. x >= B => w >= 1
  <2>1. 1 * B = B
    BY <1>1
  <2> QED BY <1>1, <2>1, QuotientBound
<1> HIDE DEF w, f
<1>5. k.whole = w /\ k.fraction = f /\ Words(k.whole, k.fraction) = x
  BY <1>2 DEF Words
<1>6. Held(k, s)
  <2>1. w \in 0..s.cap /\ f \in 0..(B - 1)
    BY <1>1, <1>2, <1>3
  <2> QED BY <2>1 DEF Held
<1> HIDE DEF k
<1> QED BY <1>3, <1>4, <1>5, <1>6

\* "The sequence never decreases, and with a positive base and a factor
\* strictly above one it never stalls: ... it reaches the cap" (exact.rs, of
\* Backoff): for every setting with such a factor and such a base, some delay
\* is the cap.
THEOREM DelaysReachTheCap ==
  ASSUME NEW s \in Settings, ValidFactor(s.factor), Above(FactorOf(s), 1), FirstDelay(s) >= 1
  PROVE  \E n \in Nat : Delay(s)[n] = s.cap * Two[Word]
<1> DEFINE B == Two[Word]
           top == s.cap * B
           Grown(n) == Delay(s)[n] = top \/ (Delay(s)[n] < top /\ Delay(s)[n] >= B + n)
           T == {n \in Nat : Grown(n)}
<1>1. s \in Setting
  BY SettingsAre
<1>2. B \in Nat /\ B >= 1 /\ s.cap \in Nat /\ FirstDelay(s) \in Nat /\ FirstDelay(s) <= s.cap
  BY <1>1, Widths DEF Setting, FirstDelay, LeastOf
<1>3. top \in Nat
  BY <1>2, ProductIsNat
<1>4. \A n \in Nat : Delay(s)[n] \in Nat /\ Delay(s)[n + 1] = Step(s, Delay(s)[n])
  BY <1>1, DelayIs
<1>5. \A v \in Nat : Step(s, v) \in Nat /\ Step(s, v) <= top
  <2> SUFFICES ASSUME NEW v \in Nat PROVE Step(s, v) \in Nat /\ Step(s, v) <= top
    OBVIOUS
  <2> DEFINE q == (v * FactorOf(s).m * Up(FactorOf(s))) \div Down(FactorOf(s))
  <2>1. Step(s, v) \in Nat
    BY <1>1, StepIsNat
  <2>2. Step(s, v) = LeastOf(top, q)
    BY DEF Step
  <2> HIDE DEF q, top
  <2>3. CASE top <= q
    BY <1>3, <2>1, <2>2, <2>3 DEF LeastOf
  <2>4. CASE ~ (top <= q)
    <3>1. Step(s, v) = q
      BY <2>2, <2>4 DEF LeastOf
    <3> QED BY <1>3, <2>1, <2>4, <3>1
  <2> QED BY <2>3, <2>4
<1>6. ASSUME NEW v \in Nat, v < top, v >= B PROVE Step(s, v) > v
  <2>1. PICK k : Held(k, s) /\ Words(k.whole, k.fraction) = v /\ k.whole < s.cap /\ k.whole >= 1
    BY <1>1, <1>6, UnitsAreHeld
  <2> QED BY <1>1, <2>1, StepGrows
<1>7. ASSUME NEW v \in Nat, v = top PROVE Step(s, v) = top
  <2> DEFINE d == FactorOf(s)
             U == Up(d)
             D == Down(d)
             M == d.m * U
             q == (v * d.m * U) \div D
  <2>1. s.factor \in Doubles
    BY <1>1 DEF Setting
  <2>2. d \in [m: Nat, e: Int] /\ D <= M /\ d.m \in Nat
    BY <2>1, FactorIs DEF FactorOf
  <2>3. U \in Nat /\ D \in Nat /\ D >= 1
    BY <2>2, ScaleIs
  <2>4. M \in Nat
    BY <2>2, <2>3, ProductIsNat
  <2>5. v * d.m * U = v * M
    <3> HIDE DEF d, U
    <3> QED BY <2>2, <2>3
  <2>6. v <= q /\ q \in Nat
    <3> DEFINE z == v * M
    <3> HIDE DEF U, D, M, d
    <3>1. v * D <= z /\ z \in Nat
      BY <2>2, <2>3, <2>4, ProductGrows, ProductIsNat
    <3>2. q = z \div D
      BY <2>5
    <3> HIDE DEF z, q
    <3> QED BY <2>3, <3>1, <3>2, QuotientBound, DivisionIs
  <2>7. Step(s, v) = LeastOf(top, q)
    BY DEF Step
  <2> HIDE DEF q, top
  <2> QED BY <1>7, <2>6, <2>7 DEF LeastOf
<1>8. 0 \in T
  <2>1. Delay(s)[0] = FirstDelay(s) * B
    BY <1>1, DelayIs
  <2> DEFINE a == FirstDelay(s)
  <2> HIDE DEF B, a
  <2>2. 1 * B <= a * B /\ a * B <= s.cap * B /\ a * B \in Nat
    BY <1>2, ProductGrows, ProductIsNat DEF a
  <2>3. Delay(s)[0] \in Nat /\ Delay(s)[0] >= B /\ Delay(s)[0] <= top
    BY <1>2, <2>1, <2>2 DEF a
  <2> HIDE DEF top
  <2> QED BY <1>2, <1>3, <2>3
<1>9. ASSUME NEW n \in Nat, n \in T PROVE n + 1 \in T
  <2> DEFINE v == Delay(s)[n]
             w == Delay(s)[n + 1]
  <2>1. v \in Nat /\ w \in Nat /\ w = Step(s, v) /\ w <= top
    BY <1>4, <1>5
  <2>2. v = top \/ (v < top /\ v >= B + n)
    BY <1>9
  <2>3. v = top => w = top
    BY <1>7, <2>1
  <2>4. v < top /\ v >= B + n => w > v
    <3>1. v >= B + n => v >= B
      BY <1>2, <2>1
    <3> QED BY <1>6, <2>1, <3>1
  <2> HIDE DEF v, w, top, B
  <2>5. w = top \/ (w < top /\ w >= B + (n + 1))
    BY <1>2, <1>3, <2>1, <2>2, <2>3, <2>4
  <2> QED BY <2>5 DEF w
<1>10. Nat \subseteq T
  <2> HIDE DEF T
  <2> QED BY <1>8, <1>9, Induction
<1>11. top \in T
  BY <1>3, <1>10
<1>12. Delay(s)[top] = top
  <2>1. Delay(s)[top] \in Nat /\ (Delay(s)[top] = top \/ (Delay(s)[top] < top /\ Delay(s)[top] >= B + top))
    BY <1>3, <1>4, <1>11
  <2> DEFINE x == Delay(s)[top]
  <2> HIDE DEF x, top, B
  <2> QED BY <1>2, <1>3, <2>1 DEF x
<1> QED BY <1>3, <1>12
================================================================================
