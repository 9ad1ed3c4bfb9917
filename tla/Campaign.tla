------------------------------- MODULE Campaign -------------------------------
(* The load campaign: the functional pass, the load (a ticker, a bounded   *)
(* channel, the workers), the watchdog of each operation, the drain, and   *)
(* the verdict on what was counted; each operation sends one request under *)
(* a permit of the engine, and the test server counts those in service.    *)
EXTENDS Naturals, Sequences, FiniteSets

CONSTANTS
  Workers,
  FunctionalTickets,  \* tickets of the functional pass, the first ones
  MaxTickets,         \* bound: tickets of the campaign
  Permits,            \* max_concurrent_requests
  Hangs,              \* tickets whose request goes to /hang
  NoTicket, Left

ASSUME TicketsAssumption ==
  MaxTickets \in Nat /\ FunctionalTickets \in 0..MaxTickets /\ Permits \in Nat

Tickets == 1..MaxTickets

ASSUME IdleAssumption == NoTicket \notin Tickets /\ Left \notin Tickets /\ NoTicket # Left

VARIABLES
  phase,       \* functional, load, drain, settle, report
  ticket,     \* the next one
  queue,      \* the channel
  work,       \* per worker: its ticket, NoTicket when it waits, or Left
  ops,        \* per ticket: idle, running, ended, stuck, panicked, loose, lost
  requests,   \* per ticket, the client's side: none, sent, done, dropped
  service,    \* per ticket, the server's side: none, coming, counted, released
  counts,     \* the aggregate and the driver's counters
  peak,       \* peak_in_flight
  passed      \* the verdict

campaignVars ==
  <<phase, ticket, queue, work, ops, requests, service, counts, peak, passed>>

CampaignInit ==
  /\ phase = "functional" /\ ticket = 1 /\ queue = <<>>
  /\ work = [w \in Workers |-> NoTicket]
  /\ ops = [t \in Tickets |-> "idle"]
  /\ requests = [t \in Tickets |-> "none"]
  /\ service = [t \in Tickets |-> "none"]
  /\ counts = [operations |-> 0, functional |-> 0, stuck |-> 0, panics |-> 0,
               dispatched |-> 0, missed |-> 0]
  /\ peak = 0 /\ passed = FALSE

Counted(field) == counts' = [counts EXCEPT ![field] = @ + 1]
Running(t) == ops[t] = "running"

-----------------------------------------------------------------------------
(* The driver                                                              *)

StartFunctional ==
  /\ phase = "functional" /\ ticket <= FunctionalTickets
  /\ \A t \in Tickets : ~Running(t)
  /\ ops' = [ops EXCEPT ![ticket] = "running"]
  /\ ticket' = ticket + 1
  /\ UNCHANGED <<phase, queue, work, requests, service, counts, peak, passed>>

StartLoad ==
  /\ phase = "functional" /\ ticket > FunctionalTickets
  /\ \A t \in Tickets : ~Running(t)
  /\ phase' = "load"
  /\ counts' = [counts EXCEPT !.functional = counts.operations]
  /\ UNCHANGED <<ticket, queue, work, ops, requests, service, peak, passed>>

(* try_send: a tick finds the channel full and is missed.                  *)
TickLoad ==
  /\ phase = "load" /\ ticket <= MaxTickets
  /\ IF Len(queue) < Cardinality(Workers)
     THEN queue' = Append(queue, ticket) /\ Counted("dispatched")
     ELSE Counted("missed") /\ UNCHANGED queue
  /\ ticket' = ticket + 1
  /\ UNCHANGED <<phase, work, ops, requests, service, peak, passed>>

EndLoad ==
  /\ phase = "load"
  /\ phase' = "drain"
  /\ UNCHANGED <<ticket, queue, work, ops, requests, service, counts, peak, passed>>

Take(w) ==
  /\ phase \in {"load", "drain"} /\ work[w] = NoTicket /\ queue # <<>>
  /\ work' = [work EXCEPT ![w] = Head(queue)]
  /\ ops' = [ops EXCEPT ![Head(queue)] = "running"]
  /\ queue' = Tail(queue)
  /\ UNCHANGED <<phase, ticket, requests, service, counts, peak, passed>>

Leave(w) ==
  /\ phase = "drain" /\ work[w] = NoTicket /\ queue = <<>>
  /\ work' = [work EXCEPT ![w] = Left]
  /\ UNCHANGED <<phase, ticket, queue, ops, requests, service, counts, peak, passed>>

(* run_op: the worker that waits for the ticket, if any, goes on.          *)
Freed(t) == [w \in Workers |-> IF work[w] = t THEN NoTicket ELSE work[w]]

OperationEnds(t) ==
  /\ Running(t) /\ requests[t] # "sent"
  /\ \/ ops' = [ops EXCEPT ![t] = "ended"] /\ Counted("operations")
     \/ ops' = [ops EXCEPT ![t] = "panicked"] /\ Counted("panics")
  /\ work' = Freed(t)
  /\ UNCHANGED <<phase, ticket, queue, requests, service, peak, passed>>

Abandoned(t) == IF requests[t] = "sent" THEN "dropped" ELSE requests[t]

Watchdog(t) ==
  /\ Running(t)
  /\ ops' = [ops EXCEPT ![t] = "stuck"]
  /\ requests' = [requests EXCEPT ![t] = Abandoned(t)]
  /\ counts' = [counts EXCEPT !.operations = @ + 1, !.stuck = @ + 1]
  /\ work' = Freed(t)
  /\ UNCHANGED <<phase, ticket, queue, service, peak, passed>>

Drained ==
  /\ phase = "drain" /\ \A w \in Workers : work[w] = Left
  /\ phase' = "settle"
  /\ UNCHANGED <<ticket, queue, work, ops, requests, service, counts, peak, passed>>

(* The workers are aborted, not the tasks they wait for: those run on, and *)
(* nobody records them. One stuck operation is counted for all.            *)
DrainTimesOut ==
  /\ phase = "drain" /\ \E w \in Workers : work[w] # Left
  /\ phase' = "settle"
  /\ work' = [w \in Workers |-> Left]
  /\ ops' = [t \in Tickets |->
       IF Running(t) THEN "loose"
       ELSE IF \E i \in DOMAIN queue : queue[i] = t THEN "lost" ELSE ops[t]]
  /\ queue' = <<>>
  /\ counts' = [counts EXCEPT !.operations = @ + 1, !.stuck = @ + 1]
  /\ UNCHANGED <<ticket, requests, service, peak, passed>>

LooseEnds(t) ==
  /\ ops[t] = "loose" /\ requests[t] # "sent"
  /\ ops' = [ops EXCEPT ![t] = "lost"]
  /\ UNCHANGED <<phase, ticket, queue, work, requests, service, counts, peak, passed>>

\* Faulty variant: stuck operations are not looked at.
VerifiedUnlessPanicked ==
  /\ counts.panics = 0 /\ counts.operations > 0
  /\ \A t \in 1..FunctionalTickets : ops[t] \in {"ended", "stuck"}
  /\ peak <= Permits

(* verify, of the criteria about operations: no panic, nothing stuck, each *)
(* scenario run, and the engine within its permits.                        *)
Verified ==
  /\ counts.stuck = 0 /\ counts.panics = 0 /\ counts.operations > 0
  /\ \A t \in 1..FunctionalTickets : ops[t] \in {"ended", "stuck"}
  /\ peak <= Permits

Report ==
  /\ phase = "settle"
  /\ phase' = "report"
  /\ passed' = Verified
  /\ UNCHANGED <<ticket, queue, work, ops, requests, service, counts, peak>>

-----------------------------------------------------------------------------
(* The engine's permits and the test server                                *)

Busy == {t \in Tickets : requests[t] = "sent"}
InService == {t \in Tickets : service[t] = "counted" /\ t \notin Hangs}

SendOne(t) ==
  /\ Running(t) \/ ops[t] = "loose"
  /\ phase # "report"
  /\ requests[t] = "none" /\ Cardinality(Busy) < Permits
  /\ requests' = [requests EXCEPT ![t] = "sent"]
  /\ service' = [service EXCEPT ![t] = "coming"]
  /\ UNCHANGED <<phase, ticket, queue, work, ops, counts, peak, passed>>

(* arrive; /hang is not counted in flight.                                 *)
Arrive(t) ==
  /\ service[t] = "coming"
  /\ service' = [service EXCEPT ![t] = "counted"]
  /\ LET inFlight == Cardinality(InService \cup ({t} \ Hangs))
     IN  peak' = IF inFlight > peak THEN inFlight ELSE peak
  /\ UNCHANGED <<phase, ticket, queue, work, ops, requests, counts, passed>>

(* depart, before the answer is written; a /hang waits for the client.     *)
Release(t) ==
  /\ service[t] = "counted" /\ (t \in Hangs => requests[t] = "dropped")
  /\ service' = [service EXCEPT ![t] = "released"]
  /\ UNCHANGED <<phase, ticket, queue, work, ops, requests, counts, peak, passed>>

\* Faulty variant: the answer is written before the request leaves the count.
AnswerableWhenCounted(t) == service[t] \in {"counted", "released"}

Answerable(t) == service[t] = "released"

ReplyArrives(t) ==
  /\ requests[t] = "sent" /\ Answerable(t)
  /\ requests' = [requests EXCEPT ![t] = "done"]
  /\ UNCHANGED <<phase, ticket, queue, work, ops, service, counts, peak, passed>>

(* A timeout, a deadline or a cancellation of the engine: its permit is    *)
(* free while the server may not have seen the request yet.                *)
ClientDrops(t) ==
  /\ requests[t] = "sent"
  /\ requests' = [requests EXCEPT ![t] = "dropped"]
  /\ UNCHANGED <<phase, ticket, queue, work, ops, service, counts, peak, passed>>

TicketStep(t) ==
  \/ OperationEnds(t) \/ Watchdog(t) \/ LooseEnds(t)
  \/ SendOne(t) \/ Arrive(t) \/ Release(t) \/ ReplyArrives(t) \/ ClientDrops(t)

CampaignNext ==
  \/ StartFunctional \/ StartLoad \/ TickLoad \/ EndLoad
  \/ \E w \in Workers : Take(w) \/ Leave(w)
  \/ \E t \in Tickets : TicketStep(t)
  \/ Drained \/ DrainTimesOut \/ Report

CampaignSpec == CampaignInit /\ [][CampaignNext]_campaignVars

-----------------------------------------------------------------------------
(* run, verify: a campaign that passes recorded each dispatched operation  *)
(* once, and none was still running when the last sample was taken and the *)
(* engine closed.                                                          *)
VerdictIsEarned ==
  passed =>
    /\ counts.operations = counts.functional + counts.dispatched
    /\ \A t \in 1..(ticket - 1) : ops[t] = "ended" \/ ops[t] = "idle"
    /\ Busy = {}

(* server.rs:314: the server's window is inside the permit's, so the peak  *)
(* does not pass the limit because the server is late. It does so by at    *)
(* most the requests the client dropped, /hang ones excluded.              *)
PeakIsExplained ==
  peak <= Permits + Cardinality({t \in Tickets \ Hangs : requests[t] = "dropped"})
=============================================================================
