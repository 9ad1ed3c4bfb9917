------------------------------ MODULE Execution ------------------------------
(* One execution: its input records, each running an asynchronous job on   *)
(* the service (submit, poll, fetch the result), the caller's cancellation *)
(* or deadline that drops them all, the remote cancellations of the jobs   *)
(* that were active, and the result: one outcome for each record, the axes *)
(* of its errors and the handles of the jobs left unfinished.              *)
(*                                                                         *)
(* This is enrich, sequential or concurrent; generate and test do the same *)
(* for one record. A request is queued until it reaches the network        *)
(* (token, limiter, permit) and sent until its answer is there.            *)
EXTENDS Integers, Sequences, FiniteSets, FiniteSetsExt, SequencesExt, Errors, Ordering

CONSTANTS
  Policies,       \* configurations of the execution: see Policy
  Urls,           \* poll URLs, ordered: numbers
  AwayUrls,       \* those of another origin than the service's
  NoUrl,          \* the record is not polling
  NoJob,          \* no active job under the key
  NoResult,       \* the execution has not returned
  MaxRecoveries   \* MAX_RECOVERIES

Triggers == {"cancellation", "deadline", "poll timeout"}

(* The number of records; enrichment_concurrency and continue_on_error;    *)
(* polling: the triggers of PollingCancelConfig, allow_cross_origin, a     *)
(* separate result URL, max_attempts, max_wait_ms, and resume.             *)
Policy == [records: Nat \ {0}, concurrency: Nat \ {0}, continue: BOOLEAN,
           triggers: SUBSET Triggers, crossOrigin: BOOLEAN, fetch: BOOLEAN,
           attempts: Nat \ {0}, maxWait: BOOLEAN, resume: BOOLEAN]

(* validate_execution_configuration: resume needs exactly one record.      *)
ASSUME PoliciesAreLegal ==
  /\ Policies \subseteq Policy
  /\ \A p \in Policies : p.resume => p.records = 1

(* The entry of a job in the map.                                          *)
ActiveJob == [owner: Nat, id: BOOLEAN, requested: BOOLEAN,
              accepted: {"absent", "yes", "no"}]

ASSUME NoUrlAssumption == NoUrl \notin Urls
ASSUME NoJobAssumption == NoJob \notin ActiveJob

VARIABLES
  policy,    \* the configuration
  phase,     \* running, cancelling (after a trigger), returned
  trigger,   \* what stopped the execution
  records,   \* the input records
  jobs,      \* ACTIVE_ASYNC_JOBS, by poll URL
  cancels,   \* remote cancellations in flight after a trigger, by poll URL
  outcomes,  \* records that ended, in the order they did
  arrived,   \* what the service got: cancellations answered, by poll URL
  result     \* the ExecutionResult

executionVars ==
  <<policy, phase, trigger, records, jobs, cancels, outcomes, arrived, result>>

Inputs  == 1..policy.records
Waiting(r)   == records[r].pc = "waiting"
Ended(r)     == records[r].pc \in {"ok", "failed"}
Queued(r, pc) == records[r].pc = pc /\ records[r].net = "queued"
OnWire(r, pc) == records[r].pc = pc /\ records[r].net = "sent"

ExecutionInit ==
  /\ policy \in Policies
  /\ phase = "running"
  /\ trigger = "none"
  /\ records = [r \in Inputs |->
       [pc |-> "waiting", net |-> "idle", polls |-> 0, url |-> NoUrl,
        revoked |-> FALSE, creds |-> TRUE, error |-> "none",
        entered |-> "none", sent |-> FALSE, job |-> "none"]]
  /\ jobs = [u \in Urls |-> NoJob]
  /\ cancels = [u \in Urls |-> "none"]
  /\ outcomes = <<>>
  /\ arrived = [u \in Urls |-> [yes |-> 0, no |-> 0, sent |-> 0, creds |-> FALSE]]
  /\ result = NoResult

-----------------------------------------------------------------------------
(* Records                                                                 *)

Running == phase = "running"

EndAs(r, pc, error, job) ==
  /\ records' = [records EXCEPT ![r].pc = pc, ![r].net = "idle",
                                ![r].error = error, ![r].job = job]
  /\ outcomes' = Append(outcomes, r)

Fail(r, error) == EndAs(r, "failed", error, records[r].job)

(* A request of the record: prepared and its credentials removed unless    *)
(* the scope still allows them, then handed to the transport.              *)
Prepared(record, pc, home) ==
  [record EXCEPT !.pc = pc, !.net = "queued", !.entered = "connect",
                 !.creds = home /\ ~record.revoked]

Narrowed(record, home) == [record EXCEPT !.revoked = @ \/ ~home]

Home(u) == u \notin AwayUrls

(* buffer_unordered, or the loop: records are taken in order. One whose    *)
(* parameters do not resolve, or whose body is too large, sends nothing.   *)
Active == {r \in Inputs : ~Waiting(r) /\ ~Ended(r)}

MayStart(r) ==
  /\ Waiting(r) /\ \A q \in 1..(r - 1) : ~Waiting(q)
  /\ IF policy.continue THEN Cardinality(Active) < policy.concurrency
     ELSE Active = {} /\ \A q \in Inputs : records[q].pc # "failed"

Start(r) ==
  /\ Running /\ MayStart(r) /\ ~policy.resume
  /\ \/ /\ records' = [records EXCEPT ![r] = Prepared(@, "submit", TRUE)]
        /\ UNCHANGED outcomes
     \/ Fail(r, "MissingParameter") \/ Fail(r, "RequestTooLarge")
  /\ UNCHANGED <<policy, phase, trigger, jobs, cancels, arrived, result>>

Send(r) ==
  /\ Running
  /\ Queued(r, "submit") \/ Queued(r, "poll") \/ Queued(r, "result")
  /\ records' = [records EXCEPT ![r].net = "sent", ![r].sent = TRUE, ![r].entered = "read"]
  /\ UNCHANGED <<policy, phase, trigger, jobs, cancels, outcomes, arrived, result>>

(* Refused before the network: the circuit is open, or the cookie session  *)
(* ended.                                                                  *)
Refuse(r) ==
  /\ Running
  /\ Queued(r, "submit") \/ Queued(r, "poll") \/ Queued(r, "result")
  /\ Fail(r, "CircuitOpen") \/ Fail(r, "PolicyViolation")
  /\ UNCHANGED <<policy, phase, trigger, jobs, cancels, arrived, result>>

(* A transport error, an answer too large to be read, or one that does not *)
(* hold what polling looks for: the status, the next URL, the result.      *)
AnswerFails(r) ==
  /\ Running
  /\ OnWire(r, "submit") \/ OnWire(r, "poll") \/ OnWire(r, "result")
  /\ \E error \in {"Transport", "ResponseTooLarge", "InvalidResponse"} : Fail(r, error)
  /\ UNCHANGED <<policy, phase, trigger, jobs, cancels, arrived, result>>

(* The job is done: its result is in the answer, or is fetched from a URL  *)
(* of the same origin as the answer's, or of any one.                      *)
Fetch(r, home) ==
  /\ policy.fetch
  /\ policy.crossOrigin \/ home = (records[r].url = NoUrl \/ Home(records[r].url))
  /\ records' = [records EXCEPT ![r] = Prepared(Narrowed(@, home), "result", home)]
  /\ UNCHANGED <<jobs, outcomes>>

FetchBlocked(r) ==
  /\ policy.fetch /\ ~policy.crossOrigin
  /\ Fail(r, "UnsafeAddress")
  /\ UNCHANGED jobs

\* Faulty variant: a job that ended stays in the map.
RemovedNothing(u) == jobs

(* The job leaves the map when its result is there; the application may    *)
(* still report a failure in it.                                           *)
Removed(u) == [k \in Urls |-> IF k = u THEN NoJob ELSE jobs[k]]

Complete(r) ==
  /\ jobs' = Removed(records[r].url)
  /\ EndAs(r, "ok", "none", "ended") \/ EndAs(r, "failed", "Application", "ended")

Completed(r) ==
  \/ \E home \in BOOLEAN : Fetch(r, home)
  \/ FetchBlocked(r)
  \/ ~policy.fetch /\ Complete(r)

SubmitCompletes(r) ==
  /\ Running /\ OnWire(r, "submit")
  /\ Completed(r)
  /\ UNCHANGED <<policy, phase, trigger, cancels, arrived, result>>

(* await_poll_completion and the resumed form, register_polled_job: the    *)
(* chain is narrowed, and the job is put under its poll URL whoever is     *)
(* there. Only a job with an id has a recovery handle.                     *)
Register(r, u, id) ==
  IF ~Home(u) /\ ~policy.crossOrigin
  THEN Fail(r, "UnsafeAddress") /\ UNCHANGED jobs
  ELSE /\ jobs' = [jobs EXCEPT ![u] =
            [owner |-> r, id |-> id, requested |-> FALSE, accepted |-> "absent"]]
       /\ records' = [records EXCEPT
            ![r] = [Narrowed(records[r], Home(u)) EXCEPT
                      !.pc = "pending", !.net = "idle", !.url = u,
                      !.job = IF id THEN "open" ELSE "unnamed"]]
       /\ UNCHANGED outcomes

SubmitPends(r) ==
  /\ Running /\ OnWire(r, "submit")
  /\ \E u \in Urls, id \in BOOLEAN : Register(r, u, id)
  /\ UNCHANGED <<policy, phase, trigger, cancels, arrived, result>>

Resume(r) ==
  /\ Running /\ MayStart(r) /\ policy.resume
  /\ \E u \in Urls : Register(r, u, TRUE)
  /\ UNCHANGED <<policy, phase, trigger, cancels, arrived, result>>

-----------------------------------------------------------------------------
(* await_poll_url                                                          *)

\* Faulty variant: the attempts are not counted.
PollForEver(r) ==
  /\ Running /\ records[r].pc = "pending"
  /\ records[r].polls < policy.attempts
  /\ records' = [records EXCEPT ![r] = Prepared(records[r], "poll", Home(records[r].url))]
  /\ UNCHANGED <<policy, phase, trigger, jobs, cancels, outcomes, arrived, result>>

Poll(r) ==
  /\ Running /\ records[r].pc = "pending"
  /\ records[r].polls < policy.attempts
  /\ records' = [records EXCEPT ![r] =
       [Prepared(records[r], "poll", Home(records[r].url)) EXCEPT
          !.polls = records[r].polls + 1]]
  /\ UNCHANGED <<policy, phase, trigger, jobs, cancels, outcomes, arrived, result>>

PollPends(r) ==
  /\ Running /\ OnWire(r, "poll")
  /\ records' = [records EXCEPT ![r].pc = "pending", ![r].net = "idle"]
  /\ UNCHANGED <<policy, phase, trigger, jobs, cancels, outcomes, arrived, result>>

PollCompletes(r) ==
  /\ Running /\ OnWire(r, "poll")
  /\ Completed(r)
  /\ UNCHANGED <<policy, phase, trigger, cancels, arrived, result>>

JobFails(r) ==
  /\ Running
  /\ OnWire(r, "poll") \/ OnWire(r, "submit")
  /\ jobs' = Removed(records[r].url)
  /\ EndAs(r, "failed", "InvalidResponse", "ended")
  /\ UNCHANGED <<policy, phase, trigger, cancels, arrived, result>>

ResultArrives(r) ==
  /\ Running /\ OnWire(r, "result")
  /\ Complete(r)
  /\ UNCHANGED <<policy, phase, trigger, cancels, arrived, result>>

(* Out of attempts or of time: max_wait_ms cuts a poll short wherever it   *)
(* is. cancel_active_job then asks the service to stop, if configured, for *)
(* the job that is under the key by now.                                   *)
OutOfTime(r) ==
  \/ records[r].pc = "pending" /\ (policy.maxWait \/ records[r].polls = policy.attempts)
  \/ records[r].pc = "poll" /\ policy.maxWait

\* Faulty variant: the handle does not say that a cancellation was asked for.
FlaggedNothing(u) == jobs

Flagged(u) == [jobs EXCEPT ![u].requested = jobs[u].id]

\* Faulty variant: the scope as it was when the cancellation was prepared.
CancelCredsAsPrepared(u) == Home(u)

(* A cancellation is prepared again for the scope as it is now.            *)
CancelCreds(u) == Home(u) /\ ~records[jobs[u].owner].revoked

GiveUp(r) ==
  LET u == records[r].url
  IN  /\ Running /\ OutOfTime(r)
      /\ \/ /\ "poll timeout" \in policy.triggers /\ jobs[u] # NoJob
            /\ jobs' = Flagged(u)
            /\ records' = [records EXCEPT
                 ![r] = [Prepared(records[r], "give up", Home(u)) EXCEPT
                           !.creds = CancelCreds(u)]]
            /\ UNCHANGED outcomes
         \/ /\ "poll timeout" \notin policy.triggers \/ jobs[u] = NoJob
            /\ Fail(r, "PollingTimeout")
            /\ UNCHANGED jobs
      /\ UNCHANGED <<policy, phase, trigger, cancels, arrived, result>>

-----------------------------------------------------------------------------
(* Remote cancellations. Any error counts as a refusal.                    *)

Accepted(u, answer) ==
  jobs' = IF jobs[u] = NoJob \/ ~jobs[u].id THEN jobs
          ELSE [jobs EXCEPT ![u].accepted = answer]

CancelSent(u, creds) == arrived' = [arrived EXCEPT ![u].sent = @ + 1, ![u].creds = creds]

(* The service answered or the request failed on its way.                  *)
CancelAnswered(u) ==
  \/ Accepted(u, "yes") /\ arrived' = [arrived EXCEPT ![u].yes = @ + 1]
  \/ Accepted(u, "no") /\ arrived' = [arrived EXCEPT ![u].no = @ + 1]

SendOwnCancel(r) ==
  /\ Running /\ Queued(r, "give up")
  /\ CancelSent(records[r].url, records[r].creds)
  /\ records' = [records EXCEPT ![r].net = "sent", ![r].sent = TRUE, ![r].entered = "read"]
  /\ UNCHANGED <<policy, phase, trigger, jobs, cancels, outcomes, result>>

OwnCancelEnds(r) ==
  /\ Running
  /\ \/ /\ OnWire(r, "give up")
        /\ CancelAnswered(records[r].url)
     \/ /\ OnWire(r, "give up") \/ Queued(r, "give up")
        /\ Accepted(records[r].url, "no")
        /\ UNCHANGED arrived
  /\ Fail(r, "PollingTimeout")
  /\ UNCHANGED <<policy, phase, trigger, cancels, result>>

OwnCancelTimesOut(r) ==
  /\ Running /\ records[r].pc = "give up"
  /\ Fail(r, "PollingTimeout")
  /\ UNCHANGED <<policy, phase, trigger, jobs, cancels, arrived, result>>

(* The caller's cancellation or the deadline drops the records where they  *)
(* are; cancel_active_jobs takes the jobs in the map at that moment.       *)
Stop(t) ==
  LET chosen == {u \in Urls : jobs[u] # NoJob /\ t \in policy.triggers}
  IN  /\ Running
      /\ phase' = "cancelling"
      /\ trigger' = t
      /\ jobs' = [u \in Urls |-> IF u \in chosen
                    THEN [jobs[u] EXCEPT !.requested = jobs[u].id] ELSE jobs[u]]
      /\ cancels' = [u \in Urls |-> IF u \in chosen THEN "queued" ELSE "none"]
      /\ UNCHANGED <<policy, records, outcomes, arrived, result>>

SendCancel(u) ==
  /\ cancels[u] = "queued"
  /\ cancels' = [cancels EXCEPT ![u] = "sent"]
  /\ CancelSent(u, CancelCreds(u))
  /\ UNCHANGED <<policy, phase, trigger, records, jobs, outcomes, result>>

CancelEnds(u) ==
  /\ \/ /\ cancels[u] = "sent"
        /\ CancelAnswered(u)
     \/ /\ cancels[u] \in {"queued", "sent"}
        /\ Accepted(u, "no")
        /\ UNCHANGED arrived
  /\ cancels' = [cancels EXCEPT ![u] = "none"]
  /\ UNCHANGED <<policy, phase, trigger, records, outcomes, result>>

(* REMOTE_CANCEL_BUDGET runs out: what is in flight is dropped.            *)
BudgetEnds ==
  /\ phase = "cancelling"
  /\ \E u \in Urls : cancels[u] # "none"
  /\ cancels' = [u \in Urls |-> "none"]
  /\ UNCHANGED <<policy, phase, trigger, records, jobs, outcomes, arrived, result>>

-----------------------------------------------------------------------------
(* The result                                                              *)

(* recoveries_from: handles in the order of the keys, cut at the bound.    *)
Handles == {u \in Urls : jobs[u] # NoJob /\ jobs[u].id}
Kept(handles)  == {u \in handles : Cardinality({k \in handles : k < u}) < MaxRecoveries}
Job(u)  == [url |-> u, requested |-> jobs[u].requested, accepted |-> jobs[u].accepted]

Sent == (\E r \in Inputs : records[r].sent) \/ (\E u \in Urls : arrived[u].sent > 0)

At(index, error) == [index |-> index, omitted |-> 0, axes |-> error]

RecordError(r) ==
  At(r, Reported(records[r].error, records[r].entered, records[r].sent))

OperationError(variant) == At(0, Reported(variant, "none", Sent))

(* with_recoveries: the first error says how many handles were left out; a *)
(* success that leaves some out becomes a partial with an internal error.  *)
WithRecoveries(status, output, errors) ==
  LET omitted == Cardinality(Handles \ Kept(Handles))
      clean   == omitted > 0 /\ errors = <<>>
      told    == IF clean THEN <<OperationError("Runtime")>> ELSE errors
  IN  [status |-> IF clean /\ status = "success" THEN "partial" ELSE status,
       output |-> output,
       errors |-> IF omitted = 0 THEN told ELSE [told EXCEPT ![1].omitted = omitted],
       recoveries |-> {Job(u) : u \in Kept(Handles)}]

\* Faulty variant: the outcomes in the order in which they came.
PlacedAsTheyCame(order, chosen) == SelectSeq(order, LAMBDA r : r \in chosen)

(* enrich_concurrent puts the outcomes at the places of their records; the *)
(* sequential loop has them in order. Those of the chosen records.         *)
Placed(order, chosen) == InOrder(ToSet(order) \cap chosen)

Status(ordered, failed) ==
  IF failed = <<>> THEN "success"
  ELSE IF Len(failed) < Len(ordered) THEN "partial" ELSE "failed"

Finish ==
  LET ordered == Placed(outcomes, Inputs)
      failed  == Placed(outcomes, {r \in Inputs : records[r].pc = "failed"})
  IN  /\ Running
      /\ Active = {} /\ \A r \in Inputs : ~MayStart(r)
      /\ phase' = "returned"
      /\ result' = WithRecoveries(Status(ordered, failed), ordered,
                                  [i \in DOMAIN failed |-> RecordError(failed[i])])
      /\ UNCHANGED <<policy, trigger, records, jobs, cancels, outcomes, arrived>>

FinishStopped ==
  LET variant == IF trigger = "deadline" THEN "Timeout" ELSE "Cancelled"
  IN  /\ phase = "cancelling"
      /\ \A u \in Urls : cancels[u] = "none"
      /\ phase' = "returned"
      /\ result' = WithRecoveries("failed", <<>>, <<OperationError(variant)>>)
      /\ UNCHANGED <<policy, trigger, records, jobs, cancels, outcomes, arrived>>

RecordStep(r) ==
  \/ Start(r) \/ Resume(r) \/ Send(r) \/ Refuse(r) \/ AnswerFails(r)
  \/ SubmitCompletes(r) \/ SubmitPends(r)
  \/ Poll(r) \/ PollPends(r) \/ PollCompletes(r) \/ JobFails(r) \/ ResultArrives(r)
  \/ GiveUp(r) \/ SendOwnCancel(r) \/ OwnCancelEnds(r) \/ OwnCancelTimesOut(r)

CancelStep(u) == SendCancel(u) \/ CancelEnds(u)

ExecutionNext ==
  \/ \E r \in Inputs : RecordStep(r)
  \/ \E t \in {"cancellation", "deadline"} : Stop(t)
  \/ \E u \in Urls : CancelStep(u)
  \/ BudgetEnds
  \/ Finish
  \/ FinishStopped

(* Scheduling: tasks are polled, requests and cancellations have timeouts, *)
(* and the permits and slots they wait for are given back.                 *)
ExecutionFairness ==
  /\ \A r \in 1..Max({p.records : p \in Policies}) :
       WF_executionVars(r \in Inputs /\ RecordStep(r))
  /\ \A u \in Urls : WF_executionVars(CancelStep(u))
  /\ WF_executionVars(Finish)
  /\ WF_executionVars(FinishStopped)

ExecutionSpec == ExecutionInit /\ [][ExecutionNext]_executionVars /\ ExecutionFairness

-----------------------------------------------------------------------------
Alone(r) == \A q \in Inputs \ {r} : records[q].url # records[r].url

(* ACTIVE_ASYNC_JOBS: while the service may still be running a record's    *)
(* job, its handle is there; once the result was taken or the service      *)
(* reported a failure it is not, and no result names it. Records polling   *)
(* the same URL share one entry and are left out.                          *)
OpenJobsAreReported ==
  \A r \in Inputs :
    records[r].url # NoUrl /\ Alone(r) =>
      LET u == records[r].url
      IN  /\ records[r].job = "open" <=> jobs[u] # NoJob /\ jobs[u].id
          /\ result # NoResult /\ (\E h \in result.recoveries : h.url = u) =>
               records[r].job = "open"

(* cancel_active_job and cancel_active_jobs: the service is not asked to   *)
(* cancel a job whose end was seen, and a handle says that a cancellation  *)
(* was requested when one was sent, and accepted only if one was.          *)
CancellationsAreTold ==
  \A r \in Inputs :
    records[r].url # NoUrl /\ Alone(r) =>
      LET u == records[r].url
      IN  /\ records[r].job = "ended" => arrived[u].sent = 0
          /\ jobs[u] # NoJob /\ jobs[u].id =>
               /\ arrived[u].sent > 0 => jobs[u].requested
               /\ jobs[u].accepted = "yes" => arrived[u].yes > 0

(* CredentialScope: no request of a record carries the caller's            *)
(* credentials to another origin, or anywhere once the chain has left the  *)
(* origin, the cancellation prepared long before included.                 *)
CredentialsStayHome ==
  \A r \in Inputs :
    /\ records[r].net # "idle" /\ Alone(r) => ~(records[r].creds /\ records[r].revoked)
    /\ records[r].url # NoUrl /\ Alone(r) /\ arrived[records[r].url].creds =>
         Home(records[r].url) /\ ~records[r].revoked

(* account_for_sent_requests: an error that says nothing happened          *)
(* remotely, that a retry is safe or that it came up in validation is of a *)
(* record, or of an execution, none of whose requests was sent.            *)
EffectIsTold ==
  result # NoResult =>
    \A i \in DOMAIN result.errors :
      LET error == result.errors[i].axes
          sent  == IF trigger = "none" THEN records[result.errors[i].index].sent ELSE Sent
      IN  error.effect = "none" \/ error.retry = "safe" \/ error.phase = "validate" => ~sent

(* enrich, enrich_concurrent: in whatever order the records end, each has  *)
(* one outcome at its own place and the errors are those of the records    *)
(* that failed, in order; without continue_on_error the result ends with   *)
(* the first failure.                                                      *)
OneOutcomePerRecord ==
  result # NoResult /\ trigger = "none" =>
    /\ \E n \in 0..policy.records :
         /\ result.output = [i \in 1..n |-> i]
         /\ n < policy.records => records[n].pc = "failed" /\ ~policy.continue
    /\ \A i, j \in DOMAIN result.errors :
         i < j => result.errors[i].index < result.errors[j].index
    /\ {result.errors[i].index : i \in DOMAIN result.errors} =
         {r \in Inputs : records[r].pc = "failed"}

(* Every execution returns, whatever the service answers and even when it  *)
(* never answers a cancellation.                                           *)
ExecutionReturns == <>(phase = "returned")

(* contract.rs:1704, on cancel_accepted: "Whether the cancel request got a *)
(* 2xx response; absent when none was sent or its outcome is unknown."     *)
AcceptanceIsKnown ==
  result # NoResult =>
    \A h \in result.recoveries : h.accepted = "no" => arrived[h.url].no > 0
=============================================================================
