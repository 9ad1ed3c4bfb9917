# A verification of the REST engine

TLA+ models of `plenora-rest-tools`, model-checked with TLC and, for the
properties that matter most, proved with TLAPS. Paths are relative to the
repository's sources; `transport.rs`, `engine.rs`, `runtime.rs`, `contract.rs`,
`error.rs` and `exact.rs` are those of `crates/rest-engine-core/src`.

- [1. The system](#1-the-system)
- [2. The modules](#2-the-modules)
- [3. What the runs check](#3-what-the-runs-check)
- [4. What is proved](#4-what-is-proved)
- [5. Where code and documents disagree](#5-where-code-and-documents-disagree)
- [6. What is not modelled](#6-what-is-not-modelled)

## 1. The system

A Rust library executes declarative REST requests (`ExecutionRequest`): a single
request, a paginated read, the enrichment of records, a download or an upload.
One `Engine` serves any number of concurrent executions on tokio; they share one
`Transport`. A command line, a runtime binding (an envelope protocol) and a Python
package host the library; a load campaign and fuzz targets test it. Nothing is
persisted except downloaded files: the hard part is concurrency, dropped futures,
bounded shared state, and what is told to a caller when only part of the work was
done.

| component | state | hard because | correct when |
| --- | --- | --- | --- |
| Cookie sessions (`transport.rs` 320-355, 645-834) | slots with generations, jars with lease counters | a handle lives for ever, slots are reused, the lock is held across an await, callers drop futures | a handle reaches its own session or none, a session in use keeps its slot |
| Client pool (503-519, 1982-2110) | clients keyed by endpoint and jar | clients are built outside of the lock and outlive operations | no client sends another session's cookies or outlives its session |
| Circuit breaker (561-597, 1100-1282) | per key: failures, opening, probe, epoch | admission and recording are a whole retry loop apart; states are evicted | only current admissions decide, one probe for each lease |
| Dispatch (972-989, 1284-1740, 1951-1980) | next slot, semaphore, tokens, refresh lock | a lock and permits held across waits for the same resources | slots are spaced, one exchange serves all, everybody gets through |
| HTTP cache (991-1149) | entries, their count and bytes | entries are cloned, outdated while a request is out, and stored later | what is served was current; the accounts are exact |
| Downloads (1331-1463, 1793-1949, 2437-2560) | staging file, ETag, offset, digest | file operations outlive a dropped future; attempts resume one another | nothing mixed is published; the report is true |
| Uploads (`engine.rs` 690-760, `transport.rs`) | none: the file is read four times by path | others write the file | a reported digest is that of what was sent |
| Asynchronous jobs (`engine.rs` 342-428, 1610-2080, 2459-2720) | active jobs by poll URL, recovery handles | remote cancellation by three triggers, in its own budget | every job left running is reported, with a handle that resumes it |
| Execution control (163-340) | idempotency keys, closing, deadline, tally of requests | keys are forgotten; deadlines race with answers | the last keys conflict; errors say what happened remotely |
| Pagination, enrichment, batch (863-1428, 3853-4003) | rows so far, outcomes by record | loops over answers the remote chooses; any order of completion | complete or reported partial; each record one outcome, in its place |
| Request and response shaping (2214-2345, 2721-3776) | none | precedence of places, integers beside floats | sent as declared; exact or refused |
| Runtime binding (`runtime.rs`) | none | a deadline passes between checks | a refused message asks nothing of the host |
| Command line (`rest-cli`) | signals, token, one document | signals at any point, a closed output | the exit code says what happened |
| Load campaign (`rest-campaign`) | tickets, workers, watchdogs, counters | operations that outlive their abort | the verdict is earned |

An execution passes the gate of idempotency keys (`Admission`), builds its request
(`Preparation`), and calls the transport: the lease of the jar, the token, the cache,
the circuit, then for each attempt a client, a slot, a permit. Its answer names the
next request (`Pagination`, `FollowUps`, `Execution`) or becomes rows (`Transforms`);
its result passes `Errors` and `Surface` on the way to a host. The transport's parts
meet in its locks (registry before clients, in that order), in the limiter and
semaphore, and in the lifetime of one future: dropping it releases lease, permit and
refresh lock, and leaves the circuit without a record.

## 2. The modules

| module | models | proofs |
| --- | --- | --- |
| `CookieSessions` | registry, leases, client pool | `CookieSessionsProofs` |
| `SessionService` | what sessions promise: no slots, generations, leases or locks | refinement, there |
| `CircuitBreaker` | admission, probe leases, epochs, recording, eviction | `CircuitBreakerProofs` |
| `RequestDispatch` | tokens, limiter, semaphore, retries, redirects | `RequestDispatchProofs` |
| `RequestRate` | `RequestDispatch` as the service sees it, second by second | `RequestDispatchProofs` |
| `HttpCache` | lookup, condition, answer, 304 merge, bounded store | `MemoryProofs` |
| `Download` | staging, resumption, checks, publication, removal | `FilesProofs` |
| `Upload` | the readings of a file another process writes | `FilesProofs` |
| `Admission` | closing, session check, idempotency keys, expired deadline | `MemoryProofs` |
| `Execution` | records with jobs, cancellation, deadline, handles, result | `ExecutionProofs` |
| `Surface` | what the two hosts tell of an execution's result (extends `Execution`) | `ExecutionProofs` |
| `Errors` | the axes of each error and their correction by what was sent | |
| `Pagination` | five modes, limits, loops, credentials of pages | `ExchangeProofs` |
| `FollowUps` | the Link header; the URLs of a job and its resumption | `ExchangeProofs`, of jobs |
| `Batch` | chunks, records that do not resolve, results aligned | `ExecutionProofs` |
| `Preparation` | parameters, their places, the idempotency key, the body | `ExchangeProofs` |
| `Transforms` | rows and their numbers | `ExchangeProofs` |
| `Backoff` | doubles in integer arithmetic of a fixed width, waits | `RequestDispatchProofs` |
| `Binding` | a runtime envelope, from its text to its answer | `HostProofs` |
| `CommandLine` | arguments, signals, output, exit code | `HostProofs` |
| `Campaign` | ticker, workers, watchdogs, drain, verdict, test server | `HostProofs` |
| `Ordering` | the order of records, for `Execution` and `Batch` | lemmas, in `ExecutionProofs` |
| `MC...` | small instances for TLC | |

What happens between two awaits is one action; an action's guard is the code's
condition and the early returns before it. Definitions commented "Faulty variant"
stand before a definition of the code, take part in no specification, and are put in
its place to see that a property notices.

Conventions worth knowing when a module is read beside its code:

- *CookieSessions.* `pc[t]` is where a caller waits: for the registry lock, inside of
  it, for the clients lock with the registry locked, in an operation, or building a
  client outside of every lock. A jar is named by its incarnation; a handle carries,
  as history, the session it was issued for. With one nonce all sessions draw the
  same: the generations alone must do the work. `u64::MAX` is `MaxGeneration`.
- *CircuitBreaker.* `turns`, `newest` and `forgotten` are history; no guard reads them.
  `forgotten` holds the keys whose state was evicted while requests let through by it
  were in flight.
- *RequestDispatch.* Times are relative and count down; `exchanging` tells that the
  request being sent is the token request, with its own two attempts.
- *HttpCache.* The origin is a counter of versions; an entry is the version it holds.
  History says what an execution has seen the origin serve while its request was out.
- *Download, Upload.* Content is a sequence of blocks named by the version of the
  resource, or by the write of the file, that they come from: a mixture is visible,
  and a digest is the content it was computed over. File operations run on blocking
  threads: they end although the download was dropped.
- *Execution.* A request is queued until it reaches the network and sent until its
  answer is there, so that a deadline finds it on either side. Jobs are keyed by poll
  URL, as in the code. `Errors` keeps an error's category, phase, remote effect and
  advice; `Surface` applies the two hosts to every final state of `Execution`.
- *FollowUps.* A header is read character by character with the delimiters of the
  code; a relation or a parameter's name is one character. Headers are written by an
  independent definition (`Written`), which also says where a character is inside a
  target or a quoted value. A URL is its origin, its place there and the id in it.
- *Preparation.* Of a value is kept whether it holds a null, fits a cookie, is a file,
  fits the limit. *Transforms* counts numbers in quarters, with small widths for
  `i64`, `u64`, `i128` and small digits for floats; *Backoff* has words of `2*HalfWord`
  bits for 128 and every double of `FractionBits` bits. A shift by `n` is a product with
  or a quotient by `Two[n]`, a recursive function, so that it can be proved about.
- *Binding.* A reserved value is right, absent, malformed, foreign or untyped.

The parts that share no state are composed by choice: in `MCTransport`,
`MCExecutions`, `MCRequests` and `MCProgress` a behaviour runs one part (`part`) and
leaves the others where they began. Parts that interact are in one module, or in one
that extends another (`Surface`, `Batch` and `CommandLine` use `Errors`; `RequestRate`
extends `RequestDispatch`).

## 3. What the runs check

| run | module, configuration | what is asked | distinct states | time |
| --- | --- | --- | --- | --- |
| sessions | `MCCookieSessions`, `CookieSessionsSafety.cfg` | do a handle, its jar and its clients stay together, and does the registry do what sessions promise | 374 000 | 50 s |
| circuit | `MCCircuitBreaker`, `CircuitBreaker.cfg` | which outcomes decide, and how many probes are out | 310 000 | 40 s |
| dispatch | `MCRequestDispatch`, `RequestDispatch.cfg` | slots and token exchanges | 313 000 | 20 s |
| progress | `MCProgress`, `Progress.cfg` | do calls and requests end | 38 000 | 60 s |
| requests | `MCRequests`, `Requests.cfg` | rates, numbers, parameters, envelopes, follow-up URLs | 237 000 | 75 s |
| transport | `MCTransport`, `Transport.cfg` | cache, files, keys, campaign | 929 000 | 75 s |
| executions | `MCExecutions`, `Executions.cfg` | what a caller is told, and that it is told | 332 000 | 90 s |
| circuit_aba, circuit_bound | `MCCircuitBreaker` | section 5 | stops at a counterexample | |
| rate_gate | `MCRequestRate` | section 5 | stops at a counterexample | |
| cancel_accepted, surface_effect | `MCExecutions` | section 5 | stops at a counterexample | |

Times are those of two workers.

**sessions.** `HandleNamesOneSession`, `HeldJarKeepsItsSlot`,
`OperationUsesItsOwnSession`, `NoForgottenClient`, and `ImplementsService`: with a jar
live when an open slot holds it, the registry implements `SessionService`, in which a
session ends once and for all, only a live session is entered, and at most `Capacity`
are live or in use. *Bounds*: eight numbers pay for three sessions and operations
among them; two slots with one reuse each reach closing with a lease, reclaiming,
eviction by age, refusal, retirement, and a client built while its session is closed.
Three callers are the least with which one holds a session, one closes it and one
opens in its place.

**progress.** `CallsReturn`: opening, closing and admission come to an end.
`EveryRequestEnds`, with one permit for requests and token exchanges. *Fairness*: what
a task does between two awaits and the wait for the clients lock are weakly fair
(tokio runs a ready task; that lock is never held across an await); the registry lock,
the refresh lock and the semaphore are strongly fair, as tokio hands its mutexes and
semaphores over in FIFO order; time passes; a request sent is answered or times out
(each has a timeout). Nobody is forced to call, to end an operation or to drop a
future. Numbers run out in the model and not in the code; none of the actions that
draw one is needed for what has started to return.

**circuit.** `OutdatedOutcomeIsIgnored`, `ProbeKeepsCircuitOpen`, `OneProbePerLease`
(when a second probe goes out beside one that has not answered, the lease computed by
its own request has passed), `ClosedBelowThreshold`. Those about epochs except the
forgotten keys, for which they are false (section 5). *Bounds*: time 3 is a lease and
a recovery, so that a probe is abandoned and replaced; two policies differ in
threshold and lease; one state for two keys evicts at every change of key.
`OneProbePerLease` is an action property because as a statement about states it is
true only while time is short: a probe may outlive a lease that a later request, of
another policy, computes.

**dispatch.** `SlotsAreSpaced`, `NoRedundantExchange`. A request does not start while
slots are taken more than `MaxAhead` ticks ahead, which bounds the timers; two
intervals and unpaced requests; one token is cached for two keys, and lives two ticks,
so that it expires during a wait.

**requests.** `NeverFasterThanRate`: while permits are not what requests wait for, no
second sees more than the rate allows, with retries, redirects and two rates (`recent`
has a record of its age for each request of the last second). `ArithmeticIsExact`: the
interval of a rate is the least that is not faster; the two-word arithmetic gives the
delay that exact arithmetic on the same double gives, cut once per step, which is at
most a millisecond below the ideal and grows until the cap. `TransformsAreExact`: a
transform gives the exact number or refuses the row. `SentAsDeclared`: each parameter is
sent once, where it was declared, the key at its own place, and no null as text.
`RefusalIsFirst`: a message is refused for the first of its faults, with the host asked
for nothing; only the file is looked at later, when the host was already asked for the
credential (runtime.rs:614-617, before 619-686), and no artifact is asked for on behalf
of a message with a fault. `FollowUpsAreFound`: whatever delimiters and escapes a Link
header has, the next page is the target of the first link whose first `rel` names it,
and a header cut inside a target or quoted value is refused rather than read as the last
page; a job left with a handle is resumed at the same status, cancel and result URLs.
*Bounds*: every double of three fraction bits and exponents on both sides of the words;
two transforms; one parameter with a specification beside one without; every pair of
faults of an envelope; every cut of headers of up to two links; every template, id and
redirect of a job.

**transport.** `CacheIsBounded`, `StoredWasCurrent` (what is stored, or refreshed by a
304, was served at some moment of the request that answered); `PublishedIsComplete`
(a published file is one version, complete, within its limit and of its expected
digest), `ReportIsTrue` (a report says whether the file was published; the staging file
is gone unless its removal failed), `KeepsExisting`; `UploadIsAuthentic`;
`LastKeysAreRemembered`; `VerdictIsEarned`, `PeakIsExplained`. *Bounds*: two GETs, two
limits, one change of the clock; one resuming download, or two on one destination, two
blocks, one change of the resource; three writes beside an upload; three keys with
room for none, one or two; three tickets, two workers, one of whose requests hangs.

**executions.** `OpenJobsAreReported`, `HandlesReachHost`, `CancellationsAreTold`,
`CredentialsStayHome`, `EffectIsTold`, `OneOutcomePerRecord`, `EveryExecutionReturns` of
an execution; `PagesAreComplete` (the rows of the pages asked for, joined in the order
of the chain and cut at `max_rows`, and all of them unless a limit is reported),
`PagesAreProtected` of a walk; `BatchIsAligned`; `ExitIsTrue`, `SignalEndsCommand` of
the command line. *Bounds*: two concurrent records with two poll URLs, one of another
origin, and one place for a handle, so that one is left out; four policies that between
them have every trigger; every chain of three pages, of two rows or less; every choice
of the records that resolve among five; two signals. *Fairness*: a record, a remote
cancellation and the end of the execution go on when they can (a request has a timeout,
a poll loop a bound); the command's task and its reader run. Neither a cancellation nor
a signal is forced to come.

Deadlock is checked except in `transport`, `executions`, `requests` and the runs that
refute a statement of executions, whose parts end. In `CookieSessions` and
`CircuitBreaker` an action `Quiet` says that an engine with nothing in flight may stay
as it is. Symmetry is used in runs without liveness, over callers, requests and keys,
which the specifications treat alike.

## 4. What is proved

For every value of the constants, under their named assumptions: any number of callers,
records, pages, rows, keys, downloads, blocks and tickets. Each component has a lemma
for its initial states, one for a step with a case for each action (one lemma for an
action that needs room), and the temporal step. TLC checks every one of these
properties on the small instances of section 3, but for `LeasesAreExact` and
`TypeCorrect`, which other proofs rest on, and `DelaysReachTheCap`, a fact about the
function of the waits.

### The transport

| theorem | statement | why more than the property is needed |
| --- | --- | --- |
| `CookieSessionsProofs!HandlesNameOneSession` | `[]HandleNamesOneSession` | `Traced`: where the handles of a slot that no longer resolve stand relative to its generation |
| `HeldJarsKeepTheirSlots`, `LeasesAreExact` | `[]HeldJarKeepsItsSlot`, `[]LeasesCountHolders` | eviction reads a counter: it must be the number of holders |
| `OperationsUseTheirOwnSession`, `NoClientIsForgotten` | `[]` of the properties | clients use their jar; the jar of a client pooled late is held |
| `RegistryImplementsService` | `ImplementsService` | `Numbered`: below |
| `CircuitBreakerProofs!ProbesKeepCircuitsOpen`, `OutdatedOutcomesAreIgnored` | the properties | epochs count the turns of a key; an ordinary request never has the epoch of a probe |
| `ProbesKeepTheirLease`, `ClosedCircuitsAreBelowThreshold` | the properties | probes are numbered from a sequence that is never reset |
| `RequestDispatchProofs!SlotsStayApart` | `[]SlotsAreSpaced` | a slot waited for ends before the limiter's next one |
| `RateIsKept` | `[]NeverFasterThanRate`, of requests that are all paced and all find a permit | `RateInv`: slots, taken or to come, and the requests sent are the least interval apart from one another |
| `ExchangesAreNeeded` | `NoRedundantExchange` | who exchanges holds the lock, and no token of its key is cached meanwhile |
| `WaitsAreExact` | `[]ArithmeticIsExact` | `BackoffInv`, over `Near` and `AdvancedIs`: below |
| `DelaysReachTheCap` | some delay of a setting is its cap, with a factor above one and a first delay above zero | each step adds a unit at least (`StepGrows`) |
| `MemoryProofs!StoredEntriesWereCurrent` | `[]StoredWasCurrent` | what a request has seen includes what is served now; a 304 names the clone's version |
| `CacheStaysBounded` | `[]CacheIsBounded` | `StoreInv`: the evicted are the oldest of a finite store, and the account follows each of them |
| `KeysAreRemembered` | `[]LastKeysAreRemembered` | `AdmissionInv`: the queue is the end of the history, the map its prints, and a key comes again only after it left both |
| `FilesProofs!ReportsAreTrue`, `ExistingFilesAreKept` | `[]ReportIsTrue`, `KeepsExisting` | for each place in the code: published, staged, may replace |
| `PublicationsAreComplete` | `[]PublishedIsComplete` | `ContentInv`: below |
| `UploadsAreAuthentic` | `[]UploadIsAuthentic` | stamps of blocks only grow: equal digests before and after pin the body between them |

### The engine

| theorem | statement | why more than the property is needed |
| --- | --- | --- |
| `ExecutionProofs!OpenJobsReported`, `CancellationsTold`, `CredentialsAreHome` | `[]` of `OpenJobsAreReported`, `CancellationsAreTold`, `CredentialsStayHome` | `ExecutionInv`: below |
| `EffectTold`, `OneOutcomeEach` | `[]EffectIsTold`, `[]OneOutcomePerRecord` | what `Finish` and `FinishStopped` made is a function of a state in which nothing moves any more |
| `HandlesInReplies` | `[]HandlesReachHost` | a handle dropped for want of room is always counted, whatever the host does to the result |
| `BatchesAreAligned` | `[]BatchIsAligned` | `BatchInv`: each record of the chunks so far has a result or a failure, none of the chunk at hand has |
| `ExchangeProofs!PagesStayProtected` | `[]PagesAreProtected` | as long as the walk is not revoked every page asked for is of the first origin |
| `PagesAllCome` | `[]PagesAreComplete` | `PageInv`: below |
| `HandlesResumeJobs` | `[]HandleResumesJob` | `JobInv`: the second visit knows the handle only; the id in it is the one the first visit rendered |
| `RequestsAreAsDeclared` | `[]SentAsDeclared` | `PrepInv`: what the earlier stages established of each parameter, and of the place the key takes |
| `RowsStayExact` | `[]TransformsAreExact` | `RowInv`: a row holds values of the widths; below |

### The hosts

| theorem | statement | why more than the property is needed |
| --- | --- | --- |
| `HostProofs!RefusalsComeFirst` | `[]RefusalIsFirst` | what the earlier checks established at each step, and what exactly the host was asked for by then |
| `ExitsAreTrue` | `[]ExitIsTrue` | `CommandInv`: the flag is set after the token, nothing is sent before the execution |
| `PeaksAreExplained`, `VerdictsAreEarned` | `[]` of `PeakIsExplained`, `VerdictIsEarned` | `CampaignInv`: who holds what is counted; as long as nothing went wrong each counter is the number of its tickets |

`TypeCorrect` is proved of the sessions and of the circuit breaker.

### The longer arguments

*The refinement.* `SInit` holds of the initial states and every step of the registry is
a step of `SessionService` or leaves its variables as they are. Most steps are: a jar
becomes live when a slot opens with it, and stops being live in `EndSlot`. The counting
needs more: that at most `Capacity` sessions are live or in use holds because each has
a slot of its own (`HeldJarKeepsItsSlot` for those in use), so that a free, retired or
evicted slot leaves room for the session opened next. And an opened session must never
have been seen: `NumbersAreFresh` and `JarsAreIssued` say that the numbers drawn are
ahead of every jar ever issued. `Numbered` is `Inv` with these two.

*Jobs of an execution.* `ExecutionInv` keeps apart what holds of a record by itself
(`Sound`), of the order in which records are taken (`TakenInOrder`), of the map of jobs,
which names its owners (`JobsHaveOwners`), and, for a record that shares its poll URL
with no other, of the record, its entry and what the service got there (`OwnJobs`). A
record that moves touches the map at its own URL only, so `OwnJobs` of the others is
kept whatever it does: one lemma for all of a record's actions instead of one for each
pair. `CancellationsAreTold` needs in addition that a cancellation is in flight only
while its entry is there and says so (`Phases`), and the handles that nothing is told
before the end and that the result is a function of the final state
(`ResultIsOfThisState`). `Ordering` is what puts concurrent outcomes in order: its lemmas
say that `InOrder(S)` is the increasing enumeration of `S`, by counting.

*A published file.* `PublishedIsComplete` is about the last step of a long road.
`ContentInv` says at each place what the file is: what the state's digest and length
describe (`Described`); on an attempt, a part whose ETag is that of its version
(`Resumable`); while a body is read, blocks of the response's version only (`Reading`);
after it, complete if a length was announced (`Received`); and after the checks, of the
expected digest (`Verified`). A change of the resource between two attempts is caught
because a 206 that goes on with a part is accepted only with the ETag of the part.

*Pages.* For pages named by links `PageInv` says that the pages asked for are of the
chain from the first, that the next of each is asked for or is the page at hand, and
that this one is new unless it is the first (`Chain`): when the walk stops, what was
asked for is closed under the links, and so is all of the chain. `Reach`, the pages of
the chain, is for that reason the least closed set with the first page and not a
recursion. The proof of the statement that the walk ends with every row *once* failed,
and TLC confirmed why on a larger instance: `seen` holds the URLs that links gave, not
the first request's, so that a link back to the first page reads it a second time (rows
2, 1 and 0, pages 1 to 2 to 1), and with a limit on rows a walk may then be cut short
with nothing left out. `PagesAreComplete` says therefore that only the first page is asked
for twice, and as the last one, and the sources of the run include such chains.

The order of the rows is a statement of its own: `Joined` is the concatenation of the
pages that were requested, a recursive function of the requests sent, `FollowsChain` says
that these are the chain, link after link, and the rows are the front of what is joined.
A recursive definition is a `CHOOSE`, so `InOrderOfPages` says of every function that
joins the pages what is to be shown of that one, and that there is such a function. Both
go on with a request: a function for one page more is made from the one before
(`JoinsOneMore`), and any such function is, but for its last value, one for the pages
before; no induction is needed. For offsets and page numbers `Slices` says that the rows
so far are the first ones, in order.

*Numbers.* The invariant is a type; the work is in the lemmas. Two integers give the exact
integer, fail because it fits no JSON integer, or go on as floats when it is none
(`IntegersExact`); operands that go on are floats exactly, so that the result is rounded
once (`FloatsExact`). The nearest float is one with the least distance, which exists
because the naturals are well-founded. `round` multiplies and divides by `Scale`, a table
of the powers of ten, of which nothing is used but that they are positive.

*Waits.* `WaitsAreExact` is the argument of the comment on `Backoff` (exact.rs:67-90) for
every width, setting and double. That the two words hold the product, carry included,
and what a shift leaves of it is arithmetic of quotients (`ProductIs`, `LeftShiftIs`,
`RightShiftIs`); that a shift past the free bits is above any cap, of powers of two
(`OverTheTop`). So a step of the code is a step of the definition (`AdvancedIs`). What a
delay of `d` units lacks of the ideal `v / o` is bounded by the sum of what each
truncation lost, grown by the factor since; `Near` has that sum in a form that a step
keeps: `(a * (M - D)) * (v * B - d * o) <= D * (v - a * o)`, for a factor `M / D`, a first
delay `a` and `B` units per millisecond. With it a step that reaches the cap in one of
the two but not in the other needs no case of its own. Then `D` times the cap is below
`B`, which is where the 128 bits of the fraction enter, and the error is below a
millisecond (`NearIs`). `DelaysReachTheCap` is the rest of that comment: "it never
stalls". The delays are recursive functions; that the function exists (`Recursion`), and
induction over its values (`Induction`), are proved first-order, from the least member
of a set of naturals, as the library's theorems on them take operators.

*Rates.* `RateIsKept` has two hypotheses. `PermitsForAll`, that permits are not fewer
than requests, is what the comment in `exact.rs` leaves out: without it the statement is
false, and section 5 has the run. `AllPaced`: every request has a rate, whichever. The
invariant puts the limiter's next slot, the slots waited for and the requests of the last
second in one order, the least interval apart (`SlotsApart`, `SentApart`); ages that far
apart have different quotients by the interval (`GapsDiffer`), of which a second has as
many as the rate, rounded up (`GapsInSecond`).

### Assumptions

All are evaluated by TLC in a run, and none excludes what the code accepts.

- Limits, permits, lengths and sizes are natural numbers, positive where validation
  refuses zero; the sets of callers and of circuit keys are finite (holders are counted).
- A marker of absence is not one of the values it stands beside (`NoToken`, `NoAnswer`,
  `NoCondition`, `NoFile`, `NoPrint`, `NoUrl`, `NoJob`, `NoEntry`, `NoAdditions`,
  `NoTicket`, `Left`).
- The inputs have the shape that the parser gives them: `PoliciesAreLegal`,
  `WorkloadsAreLegal`, `PaginationAssumption` (a first page; each link leads to a page of
  the source or to none), `PreparationAssumption` (modes and places are those of the
  contract), `BatchAssumption`, `FollowUpAssumption`, `HeadersAssumption`.
- Of numbers, `WidthsAssumption`: `i64` within `u64` within `i128`; `Scale` has a
  positive entry for every number of decimals; integers up to 2^53 are floats. Negation
  of a float is a float (`FloatsAssumption`).
- Of waits, `WidthAssumption`: a mantissa fits half a word; `NanosAssumption` and
  `ShiftAssumption`: the numbers by which `rate_interval` refuses a rate unseen (10^9 below
  2^30, and 2^98 of them above any 64-bit interval of a mantissa); `SettingsAssumption`:
  base and cap fit half a word, and the factor is any double.

### What only TLC checks

- Liveness and what rests on ENABLED: `CallsReturn`, `EveryRequestEnds`,
  `EveryExecutionReturns`, `SignalEndsCommand`.
- The first half of `FollowUpsAreFound` (`NextLinkIsFound`): what folds over a header of
  any length make of it. The other half, `HandleResumesJob`, is proved.

Where a proof needs the least member of a set of naturals, or a set that is closed under
steps, it uses well-foundedness or the definition of the set. Induction over what a
recursive function computes is done for `Backoff`, with the set of the numbers for which
the statement holds; the folds over text of `FollowUps` are operators of a library module
and stay with TLC.

## 5. Where code and documents disagree

Each of these has a run that TLC ends with a counterexample.

- **circuit_aba** (`OnlyProbesClose`). The comment on `CircuitState.epoch` (588-594) says that an outcome of
  a superseded epoch is ignored. Epochs belong to a state, and states are forgotten
  when the map is full: an old admission may carry the new epoch, and closes the
  circuit beside a probe.
- **circuit_bound** (`StatesAreBounded`). `contract.rs:1198` says that states are bounded by
  `max_circuit_origins`; `record_circuit` puts a forgotten key back without room.
- **rate_gate** (`WithinRateGate`). `docs/roadmap.md:228` and `exact.rs:32-34` say how many requests a
  service may see in a second. A slot is waited for before the permit: requests whose
  slots came while the semaphore was full leave in a burst.
- **cancel_accepted** (`AcceptanceIsKnown`). `contract.rs:1704` says that `cancel_accepted` is absent when no
  cancel request was sent; a request that never reached the network is told as refused.
- **surface_effect** (`SurfaceEffectIsTold`). `docs/architecture.md:473` says that an error tells `none` only if
  no request of the operation was sent; the hosts put one record's error in the place of
  the result, and another record's request was sent. Lines 485-488 qualify it for an error
  that is reported as a record's, which is judged by that record's requests alone; the
  hosts drop the index of the record, so that their error reads as the operation's.

Smaller remarks, met while modelling and left without a run:

- A handle resumes its job at the connection's own URL (`engine.rs:1742`), while the
  first poll URL is built from where the answer was served (`engine.rs:2621`): after a
  redirect a relative template, or one with `{base}`, resumes elsewhere, and after one
  to another origin an absolute template is refused. `HandleResumesJob` says exactly
  this. With `url_path` set beside a template the two URLs are unrelated.
- The job id is limited to 512 bytes (`engine.rs:2712`), documented as characters
  (`contract.rs:1371`). An empty text id is rendered into a URL although a null one is
  "no id" (`engine.rs:2638`), and has no handle.
- `rel` without a value does not count as the first `rel` of a link
  (`engine.rs:3882`), so that a later one does. An empty Link header is refused.
- Records that poll one URL share an entry, and the first to end removes the handle of
  both (`engine.rs:1896`); the properties of handles leave them out.
- A 304 that answers a condition of the caller's own refreshes the cached entry
  although the condition was about another body (`contract.rs:1183`).
- Publication by overwriting, where rename needs the destination gone first, loses it
  when the second rename fails (`transport.rs:2525`).
- Parameters of the body are dropped without an error when `body_type` is raw or none.
  A raw template's value that contains `{b}` is substituted again. A mapped parameter
  that is not required and whose `source` is missing falls back to the input key of its
  own name, and a required one fails although a static parameter has its name. The
  members of an exploded form object may take the name of another parameter or of the
  idempotency field (`engine.rs:3516`).
- `RuntimeMessage.schema_version` is documented with `UNSUPPORTED_SCHEMA`
  (`runtime.rs:43`); the code answers `RUNTIME_UNSUPPORTED`.
- The comment on the campaign's peak (`server.rs:314-319`) says that the server never
  counts more requests than there are permits, which a client that drops a request
  makes false: `PeakIsExplained` gives the bound that holds.
- `round` of a large float may change it by a unit in the last place.

Hazards left out of the list of `PROJECT.json`, which is kept to the most important:
`last_used` is drawn before the registry lock (`transport.rs:824`), so that of two
concurrent operations either may count as the older; a token may expire before the
last attempt that carries it (`transport.rs:972`), and is answered with a 401; two
triggers may cancel one job twice (`engine.rs:426`), which the model allows.

## 6. What is not modelled

*Shaping of text*: percent-encoding, query serialization, JSON paths, CSV, XML and NDJSON
bodies, templates beyond what they consume, names of headers that are credentials. They
are sequential conversions without shared state, which the repository covers with unit
tests, property tests and fuzzing. *Contracts*: types, defaults, the capability and
discovery documents. *Network*: name resolution, the public-address policy, TLS, proxies
and the contents of jars are the key of a client here. The key of a cache entry and the
circuit's key are model values. *Command line*: which arguments are legal, the documents'
contents. *Campaign*: scenarios, statistics, resource trends, reports. *Python package*: a
wrapper that blocks on `execute_json` and clones a cancellation token; it has no state
beyond the engine's. *Fuzz targets, scripts, tests*: tooling.

Abstractions inside of the modelled parts: of the numbers drawn from the engine's
sequence only the order matters, and two of them (a pooled client's, a circuit's) are
drawn a little later than in the code, which changes only which of two concurrent
newcomers counts as the older; the random number by which an engine refuses another's
handles is left out; a record of an enrichment gives one row; the wait between polls is
not timed in `Execution` (it is in `Backoff`); a page's request is its credentials and
its idempotency key; the form around an uploaded file is left out.
