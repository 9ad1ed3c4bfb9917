----------------------------- MODULE RequestRate -----------------------------
(***************************************************************************)
(* What the service sees of RequestDispatch: the requests that arrive      *)
(* within a second.  Here every request goes on as soon as it may, so that *)
(* a request whose slot has come only waits when the semaphore is full.    *)
(***************************************************************************)
EXTENDS RequestDispatch

CONSTANT Second    \* ticks in a second
ASSUME SecondAssumption == Second \in Nat \ {0}

VARIABLE recent    \* requests sent in the last second: how long ago, and their number

rateVars == <<vars, recent>>
Ages == 0..(Second - 1)

RateInit == Init /\ recent = {}

SentNow == \E r \in Requests : pc[r] = "slot" /\ pc'[r] = "sent"
AtOnce  == Cardinality({s \in recent : s.age = 0})

Prompt ==
  \A r \in Requests :
    /\ pc[r] \notin {"token", "reserve"}
    /\ pc[r] = "refresh" => refresher # {}
    /\ pc[r] = "slot" => timer[r] > 0 \/ Cardinality(permits) >= MaxConcurrent
    /\ pc[r] = "backoff" => timer[r] > 0

Older == {[s EXCEPT !.age = @ + 1] : s \in recent}

RateNext ==
  \/ /\ Tick
     /\ Prompt
     /\ recent' = {s \in Older : s.age \in Ages}
  \/ /\ Next
     /\ pc' # pc
     /\ recent' = IF SentNow THEN recent \cup {[age |-> 0, number |-> AtOnce]} ELSE recent

RateSpec == RateInit /\ [][RateNext]_rateVars

\* Requests in a second, counted from the first, at the highest rate in use.
Rate == LET interval == Min({k.interval : k \in Kinds})
        IN  (Second + interval - 1) \div interval

\* exact.rs: "the engine never sends faster than the rate allows", here within
\* a second, with retries and redirects counted.  True as long as no request
\* has to wait for a permit.
NeverFasterThanRate == Cardinality(recent) <= Rate

\* docs/roadmap.md:228, the gate of the load campaign: within one second the
\* service sees at most the rate, plus ten percent, plus two (admit_request).
WithinRateGate == 10 * Cardinality(recent) <= 11 * Rate + 20
=============================================================================
