---------------------------- MODULE ExecutionProofs ----------------------------
(***************************************************************************)
(* Theorems about Execution and Surface, for any number of records, any    *)
(* policy and any answers of the service, and about Batch, for any records *)
(* and sizes of a chunk.                                                   *)
(*                                                                         *)
(* What holds of a record by itself is in Sound; what relates records to   *)
(* one another and to the outcomes in TakenInOrder; what relates the map   *)
(* of jobs and the service to the records in JobsHaveOwners, and more of   *)
(* it for a record that shares its poll URL with none in OwnJobs. A record *)
(* that moves touches the map and the service at its own URL only, so that *)
(* OwnJobs of the others is kept whatever it does (RecordKeepsInvariant).  *)
(*                                                                         *)
(* A batch (BatchInv) has a result or a failure for each record of the     *)
(* chunks so far, and none for a record of the chunk at hand.              *)
(***************************************************************************)
EXTENDS Surface, Batch, FiniteSetTheorems, WellFoundedInduction, TLAPS

RecordType ==
  [pc: {"waiting", "submit", "pending", "poll", "result", "give up", "ok", "failed"},
   net: {"idle", "queued", "sent"}, polls: Nat, url: Urls \cup {NoUrl},
   revoked: BOOLEAN, creds: BOOLEAN, error: (Variants \ {"Runtime"}) \cup {"none"},
   entered: {"none", "connect", "read"}, sent: BOOLEAN,
   job: {"none", "open", "unnamed", "ended"}]

Arrival == [yes: Nat, no: Nat, sent: Nat, creds: BOOLEAN]

JobMap == [Urls -> ActiveJob \cup {NoJob}]

ExecutionTypes ==
  /\ policy \in Policies
  /\ phase \in {"running", "cancelling", "returned"}
  /\ trigger \in {"none", "cancellation", "deadline"}
  /\ records \in [Inputs -> RecordType]
  /\ jobs \in JobMap
  /\ cancels \in [Urls -> {"none", "queued", "sent"}]
  /\ outcomes \in Seq(Inputs)
  /\ arrived \in [Urls -> Arrival]

EndedIn(record) == record.pc \in {"ok", "failed"}

\* A record by itself: where it is, whether a request of it is out, whether it
\* has a job and where that is polled. Only a cancellation may carry credentials
\* although the record's own chain has lost them.
Sound(record) ==
  /\ record.pc \in {"pending", "poll", "give up"} => record.url # NoUrl
  /\ record.pc \in {"waiting", "pending", "ok", "failed"} <=> record.net = "idle"
  /\ record.pc \in {"waiting", "submit"} => record.url = NoUrl /\ record.job = "none"
  /\ record.pc = "failed" => record.error # "none"
  /\ record.pc = "ok" => record.job = "ended"
  /\ record.job \in {"open", "unnamed"} => record.url # NoUrl
  /\ record.job = "ended" => EndedIn(record)
  /\ record.url # NoUrl => record.job # "none"
  /\ record.pc # "give up" /\ record.net # "idle" => ~(record.creds /\ record.revoked)

RecordsAreSound == \A r \in Inputs : Sound(records[r])

\* Records are taken in their order; up to the first failure, one at a time.
TakenInOrder ==
  /\ \A q, r \in Inputs : q < r /\ Waiting(q) => Waiting(r)
  /\ ~policy.continue =>
       \A q, r \in Inputs : q < r /\ ~Waiting(r) => records[q].pc = "ok"
  /\ \A r \in Inputs : Ended(r) <=> \E i \in DOMAIN outcomes : outcomes[i] = r

Owned(u) ==
  LET owner == jobs[u].owner
  IN  /\ owner \in Inputs
      /\ records[owner].url = u
      /\ records[owner].job = IF jobs[u].id THEN "open" ELSE "unnamed"

\* An active job is one of a record that polls its URL, and the service got
\* cancellations at URLs of records only.
JobsHaveOwners ==
  \A u \in Urls :
    /\ jobs[u] # NoJob => Owned(u)
    /\ arrived[u].sent > 0 \/ arrived[u].yes > 0 => \E r \in Inputs : records[r].url = u
    /\ arrived[u].creds => arrived[u].sent > 0

\* A record alone at its URL, its job in the map and what the service got there.
Own(r) ==
  LET u == records[r].url
  IN  /\ jobs[u] # NoJob <=> records[r].job \in {"open", "unnamed"}
      /\ records[r].pc = "give up" =>
           /\ jobs[u] # NoJob => jobs[u].requested = jobs[u].id
           /\ records[r].creds => Home(u) /\ ~records[r].revoked
      /\ arrived[u].sent > 0 =>
           /\ Running => records[r].pc \in {"give up", "failed"}
           /\ records[r].job # "ended"
           /\ jobs[u] # NoJob => jobs[u].requested = jobs[u].id
      /\ jobs[u] # NoJob /\ jobs[u].accepted = "yes" => arrived[u].yes > 0
      /\ arrived[u].creds => Home(u) /\ ~records[r].revoked

OwnJobs == \A r \in Inputs : records[r].url # NoUrl /\ Alone(r) => Own(r)

\* Until a trigger nothing is cancelled by the execution; what is cancelled is in
\* the map, and its handle says so; after the end nothing moves, and the result is
\* the one of this state.
Phases ==
  /\ Running => trigger = "none"
  /\ phase = "cancelling" => trigger # "none"
  /\ phase # "returned" => result = NoResult
  /\ \A u \in Urls : cancels[u] # "none" =>
       phase = "cancelling" /\ jobs[u] # NoJob /\ jobs[u].requested = jobs[u].id

Failures == {r \in Inputs : records[r].pc = "failed"}

\* What Finish and FinishStopped make of the state.
FullResult ==
  LET ordered == Placed(outcomes, Inputs)
      failed  == Placed(outcomes, Failures)
  IN  WithRecoveries(Status(ordered, failed), ordered,
                     [i \in DOMAIN failed |-> RecordError(failed[i])])

StoppedResult(variant) == WithRecoveries("failed", <<>>, <<OperationError(variant)>>)

ReturnedInFull == Active = {} /\ (\A r \in Inputs : ~MayStart(r)) /\ result = FullResult

ReturnedStopped == \E v \in {"Timeout", "Cancelled"} : result = StoppedResult(v)

ResultIsOfThisState ==
  phase = "returned" => IF trigger = "none" THEN ReturnedInFull ELSE ReturnedStopped

ExecutionInv ==
  /\ ExecutionTypes /\ RecordsAreSound /\ TakenInOrder
  /\ JobsHaveOwners /\ OwnJobs /\ Phases /\ ResultIsOfThisState

-----------------------------------------------------------------------------
(* Records that move                                                       *)

\* Record r goes on, alone: what its step does to records and outcomes.
Moved(r) ==
  /\ Running
  /\ ~Ended(r)
  /\ records' = [records EXCEPT ![r] = records'[r]]
  /\ records'[r] \in RecordType
  /\ Sound(records'[r])
  /\ records'[r].pc # "waiting"
  /\ Waiting(r) => MayStart(r)
  /\ outcomes' = IF EndedIn(records'[r]) THEN Append(outcomes, r) ELSE outcomes
  /\ UNCHANGED <<policy, phase, trigger, cancels, result>>

\* What it does to the map of jobs and to the service, at its own URL.
Touches(r) ==
  /\ records[r].url \in {records'[r].url, NoUrl}
  /\ jobs' \in JobMap
  /\ arrived' \in [Urls -> Arrival]
  /\ \A u \in Urls :
       IF u = records'[r].url
       THEN /\ jobs'[u] # NoJob => Owned(u)'
            /\ arrived'[u].creds => arrived'[u].sent > 0
            /\ Alone(r)' => Own(r)'
       ELSE jobs'[u] = jobs[u] /\ arrived'[u] = arrived[u]

\* Of another record everything is as before, and what is alone was.
LEMMA OthersStay ==
  ASSUME ExecutionTypes, NEW r \in Inputs, NEW q \in Inputs, q # r, Moved(r), Touches(r)
  PROVE  /\ records'[q] = records[q]
         /\ records[q].url # NoUrl /\ Alone(q)' =>
              Alone(q) /\ records[q].url # records'[r].url
BY DEF ExecutionTypes, Moved, Touches, Alone, Inputs

\* Inputs do not change.
LEMMA TypesOfMove ==
  ASSUME ExecutionTypes, NEW r \in Inputs, Moved(r), Touches(r)
  PROVE  /\ ExecutionTypes'
         /\ Inputs' = Inputs
         /\ Inputs \subseteq Nat
         /\ \A q \in Inputs : q # r => records'[q] = records[q]
         /\ \A q \in Inputs : records[q] \in RecordType /\ records'[q] \in RecordType
<1>1. Inputs' = Inputs
  BY DEF Inputs, Moved
<1>2. policy.records \in Nat /\ Inputs \subseteq Nat
  BY PoliciesAreLegal DEF ExecutionTypes, Inputs, Policy
<1>3. records' \in [Inputs -> RecordType]
  BY DEF ExecutionTypes, Moved
<1>4. outcomes' \in Seq(Inputs)
  BY DEF ExecutionTypes, Moved
<1> QED BY <1>1, <1>2, <1>3, <1>4, OthersStay DEF ExecutionTypes, Moved, Touches

\* A record that moves keeps the order in which records are taken.
LEMMA MoveKeepsOrder ==
  ASSUME ExecutionTypes, RecordsAreSound, TakenInOrder, NEW r \in Inputs, Moved(r), Touches(r)
  PROVE  TakenInOrder'
<1>1. /\ Inputs' = Inputs /\ policy' = policy /\ Inputs \subseteq Nat
      /\ \A q \in Inputs : q # r => records'[q] = records[q]
  BY TypesOfMove DEF Moved
<1>2. ASSUME NEW q \in Inputs, NEW s \in Inputs, q < s, records'[q].pc = "waiting"
      PROVE  records'[s].pc = "waiting"
  <2>1. q # r /\ Waiting(q)
    BY <1>1, <1>2 DEF Moved, Waiting
  <2>2. Waiting(s)
    BY <1>2, <2>1 DEF TakenInOrder
  <2>3. s # r
    <3>1. SUFFICES ASSUME s = r PROVE FALSE
      OBVIOUS
    <3>2. MayStart(r)
      BY <2>2, <3>1 DEF Moved
    <3>3. q \in 1..(r - 1)
      BY <1>1, <1>2, <3>1 DEF Inputs
    <3> QED BY <2>1, <3>2, <3>3 DEF MayStart
  <2> QED BY <1>1, <2>2, <2>3 DEF Waiting
<1>3. ASSUME ~policy.continue, NEW q \in Inputs, NEW s \in Inputs, q < s,
             records'[s].pc # "waiting"
      PROVE  records'[q].pc = "ok"
  <2>1. CASE ~Waiting(s)
    <3>1. records[q].pc = "ok"
      BY <1>3, <2>1 DEF TakenInOrder
    <3> QED BY <1>1, <3>1 DEF Moved, Ended
  <2>2. CASE Waiting(s)
    <3>1. s = r /\ MayStart(r)
      BY <1>1, <1>3, <2>2 DEF Waiting, Moved
    <3>2. q \in 1..(r - 1) /\ q # r
      BY <1>1, <1>3, <3>1 DEF Inputs
    <3>3. ~Waiting(q) /\ q \notin Active /\ records[q].pc # "failed"
      BY <1>3, <3>1, <3>2 DEF MayStart
    <3> QED BY <1>1, <3>2, <3>3 DEF Active, Ended, Waiting
  <2> QED BY <2>1, <2>2
<1>4. ASSUME NEW q \in Inputs
      PROVE  records'[q].pc \in {"ok", "failed"} <=> \E i \in DOMAIN outcomes' : outcomes'[i] = q
  <2>1. Ended(q) <=> \E i \in DOMAIN outcomes : outcomes[i] = q
    BY DEF TakenInOrder
  <2>2. outcomes \in Seq(Inputs)
    BY DEF ExecutionTypes
  <2>3. CASE ~EndedIn(records'[r])
    <3>1. outcomes' = outcomes
      BY <2>3 DEF Moved
    <3> QED BY <1>1, <2>1, <2>3, <3>1 DEF Ended, EndedIn, Moved
  <2>4. CASE EndedIn(records'[r])
    <3>1. outcomes' = Append(outcomes, r)
      BY <2>4 DEF Moved
    <3>2. /\ \A i \in DOMAIN outcomes : i \in DOMAIN outcomes' /\ outcomes'[i] = outcomes[i]
          /\ Len(outcomes) + 1 \in DOMAIN outcomes' /\ outcomes'[Len(outcomes) + 1] = r
          /\ \A i \in DOMAIN outcomes' : i \in DOMAIN outcomes \/ i = Len(outcomes) + 1
      BY <2>2, <3>1
    <3> QED BY <1>1, <2>1, <2>4, <3>2 DEF Ended, EndedIn
  <2> QED BY <2>3, <2>4
<1> QED BY <1>1, <1>2, <1>3, <1>4 DEF TakenInOrder, Waiting, Ended

\* A record that moves leaves the invariant of every other to them.
LEMMA RecordKeepsInvariant ==
  ASSUME ExecutionInv, NEW r \in Inputs, Moved(r), Touches(r)
  PROVE  ExecutionInv'
<1>1. /\ ExecutionTypes' /\ TakenInOrder' /\ Inputs' = Inputs
      /\ \A q \in Inputs : q # r => records'[q] = records[q]
      /\ \A q \in Inputs : records[q] \in RecordType /\ records'[q] \in RecordType
  BY TypesOfMove, MoveKeepsOrder DEF ExecutionInv
<1>2. RecordsAreSound'
  <2>1. Sound(records'[r]) /\ \A q \in Inputs : Sound(records[q])
    BY DEF ExecutionInv, RecordsAreSound, Moved
  <2>2. \A q \in Inputs : Sound(records'[q])
    BY <1>1, <2>1
  <2> QED BY <1>1, <2>2 DEF RecordsAreSound
<1>3. ASSUME NEW u \in Urls
      PROVE  /\ jobs'[u] # NoJob => Owned(u)'
             /\ arrived'[u].sent > 0 \/ arrived'[u].yes > 0 =>
                  \E q \in Inputs : records'[q].url = u
             /\ arrived'[u].creds => arrived'[u].sent > 0
  <2>1. CASE u = records'[r].url
    BY <2>1 DEF Touches
  <2>2. CASE u # records'[r].url
    <3>1. jobs'[u] = jobs[u] /\ arrived'[u] = arrived[u]
      BY <2>2 DEF Touches
    <3>2. records[r].url # u
      BY <2>2, NoUrlAssumption DEF Touches
    <3>3. ASSUME jobs[u] # NoJob PROVE Owned(u)'
      <4>1. Owned(u) /\ jobs[u].owner # r
        BY <3>2, <3>3 DEF ExecutionInv, JobsHaveOwners, Owned
      <4> QED BY <1>1, <3>1, <4>1 DEF Owned
    <3>4. ASSUME arrived[u].sent > 0 \/ arrived[u].yes > 0
          PROVE  \E q \in Inputs : records'[q].url = u
      <4>1. PICK q \in Inputs : records[q].url = u
        BY <3>4 DEF ExecutionInv, JobsHaveOwners
      <4> QED BY <1>1, <3>2, <4>1
    <3>5. arrived[u].creds => arrived[u].sent > 0
      BY DEF ExecutionInv, JobsHaveOwners
    <3> QED BY <3>1, <3>3, <3>4, <3>5
  <2> QED BY <2>1, <2>2
<1>4. ASSUME NEW q \in Inputs, records'[q].url # NoUrl, Alone(q)'
      PROVE  Own(q)'
  <2>1. CASE q = r
    BY <1>1, <1>4, <2>1 DEF Touches, RecordType
  <2>2. CASE q # r
    <3>1. Alone(q) /\ records'[q] = records[q] /\ records[q].url # records'[r].url
      BY <1>4, <2>2, OthersStay DEF ExecutionInv
    <3>2. Own(q) /\ records[q].url \in Urls
      BY <1>1, <1>4, <3>1 DEF ExecutionInv, OwnJobs, RecordType
    <3>3. jobs'[records[q].url] = jobs[records[q].url] /\ arrived'[records[q].url] = arrived[records[q].url]
      BY <3>1, <3>2 DEF Touches
    <3>4. phase' = phase
      BY DEF Moved
    <3> QED BY <3>1, <3>2, <3>3, <3>4 DEF Own, Home, Running
  <2> QED BY <2>1, <2>2
<1>5. Phases' /\ ResultIsOfThisState'
  BY DEF ExecutionInv, Moved, Running, Phases, ResultIsOfThisState
<1> QED BY <1>1, <1>2, <1>3, <1>4, <1>5 DEF ExecutionInv, JobsHaveOwners, OwnJobs

-----------------------------------------------------------------------------
(* The steps of a record                                                   *)

\* What is the same in every step of a record.
LEMMA RecordTypes ==
  ASSUME ExecutionInv, NEW r \in Inputs
  PROVE  /\ records[r] \in RecordType /\ Sound(records[r])
         /\ records \in [Inputs -> RecordType]
         /\ jobs \in JobMap /\ arrived \in [Urls -> Arrival]
         /\ NoUrl \notin Urls
BY NoUrlAssumption DEF ExecutionInv, ExecutionTypes, RecordsAreSound

\* A record that goes on leaves the map and the service as they are: its job goes
\* on, and only a record that has given up may fail after its cancellation.
LEMMA MoveKeepsJobs ==
  ASSUME ExecutionInv, NEW r \in Inputs, Moved(r),
         records'[r].url = records[r].url, records'[r].job = records[r].job,
         records'[r].pc # "give up",
         records[r].pc = "give up" =>
           records'[r].pc = "failed" /\ records'[r].revoked = records[r].revoked,
         UNCHANGED <<jobs, arrived>>
  PROVE  ExecutionInv'
<1>1. /\ jobs' \in JobMap /\ arrived' \in [Urls -> Arrival]
      /\ \A q \in Inputs : q # r => records'[q] = records[q]
      /\ Inputs' = Inputs /\ phase' = phase
  BY RecordTypes DEF Moved, Inputs
<1>2. ASSUME NEW u \in Urls, u = records'[r].url
      PROVE  /\ jobs'[u] # NoJob => Owned(u)'
             /\ arrived'[u].creds => arrived'[u].sent > 0
             /\ Alone(r)' => Own(r)'
  <2>1. /\ jobs[u] # NoJob => Owned(u)
        /\ arrived[u].creds => arrived[u].sent > 0
    BY DEF ExecutionInv, JobsHaveOwners
  <2>2. jobs[u] # NoJob => Owned(u)'
    BY <1>1, <2>1 DEF Owned
  <2>3. ASSUME Alone(r)' PROVE Own(r)'
    <3>1. Alone(r)
      BY <1>1, <2>3 DEF Alone
    <3>2. Own(r)
      BY <1>2, <3>1, RecordTypes DEF ExecutionInv, OwnJobs
    <3>3. ~Ended(r) /\ Running
      BY DEF Moved
    <3> QED BY <1>1, <1>2, <2>1, <3>2, <3>3 DEF Own, Ended, Running, Home
  <2> QED BY <2>1, <2>2, <2>3
<1>3. Touches(r)
  BY <1>1, <1>2 DEF Touches
<1> QED BY <1>3, RecordKeepsInvariant

\* A record that fails, wherever it is.
LEMMA FailureMoves ==
  ASSUME ExecutionInv, NEW r \in Inputs, NEW error \in Variants \ {"Runtime"},
         Running, ~Ended(r), Waiting(r) => MayStart(r), Fail(r, error),
         UNCHANGED <<policy, phase, trigger, cancels, result>>
  PROVE  /\ Moved(r)
         /\ records'[r] = [records[r] EXCEPT !.pc = "failed", !.net = "idle", !.error = error]
<1>1. records' = [records EXCEPT ![r] =
        [records[r] EXCEPT !.pc = "failed", !.net = "idle", !.error = error]]
  BY RecordTypes DEF Fail, EndAs, RecordType
<1>2. records'[r] = [records[r] EXCEPT !.pc = "failed", !.net = "idle", !.error = error]
  BY <1>1, RecordTypes
<1>3. records'[r] \in RecordType
  <2> DEFINE old == records[r]
             new == [old EXCEPT !.pc = "failed", !.net = "idle", !.error = error]
  <2>1. old \in RecordType
    BY RecordTypes
  <2> HIDE DEF old
  <2>2. new \in RecordType
    BY <2>1 DEF RecordType
  <2> QED BY <1>2, <2>2 DEF old
<1>4. Sound(records'[r])
  <2>1. error # "none"
    BY DEF Variants
  <2> DEFINE new == [records[r] EXCEPT !.pc = "failed", !.net = "idle", !.error = error]
  <2>2. /\ new.pc = "failed" /\ new.net = "idle" /\ new.error = error
        /\ new.url = records[r].url /\ new.job = records[r].job
    BY RecordTypes DEF RecordType
  <2>3. records[r].url # NoUrl => records[r].job # "none"
    BY RecordTypes DEF Sound
  <2>4. records[r].job \in {"open", "unnamed"} => records[r].url # NoUrl
    BY RecordTypes DEF Sound
  <2> HIDE DEF new
  <2>5. Sound(new)
    BY <2>1, <2>2, <2>3, <2>4 DEF Sound, EndedIn
  <2> QED BY <1>2, <2>5 DEF new
<1>5. outcomes' = Append(outcomes, r) /\ EndedIn(records'[r]) /\ records'[r].pc # "waiting"
  <2>1. outcomes' = Append(outcomes, r)
    BY DEF Fail, EndAs
  <2>2. records'[r].pc = "failed"
    BY <1>2, RecordTypes DEF RecordType
  <2> QED BY <2>1, <2>2 DEF EndedIn
<1> QED BY <1>1, <1>2, <1>3, <1>4, <1>5 DEF Moved

\* A record that fails while its job is left as it is.
LEMMA FailureKeepsInvariant ==
  ASSUME ExecutionInv, NEW r \in Inputs, NEW error \in Variants \ {"Runtime"},
         Running, ~Ended(r), Waiting(r) => MayStart(r), Fail(r, error),
         UNCHANGED <<policy, phase, trigger, jobs, cancels, arrived, result>>
  PROVE  ExecutionInv'
<1>1. Moved(r)
      /\ records'[r] = [records[r] EXCEPT !.pc = "failed", !.net = "idle", !.error = error]
  BY FailureMoves
<1>2. /\ records'[r].pc = "failed" /\ records'[r].url = records[r].url
      /\ records'[r].job = records[r].job /\ records'[r].revoked = records[r].revoked
  BY <1>1, RecordTypes DEF RecordType
<1> QED BY <1>1, <1>2, MoveKeepsJobs

\* A record that neither ends nor takes another URL, without touching its job.
LEMMA GoesOn ==
  ASSUME ExecutionInv, NEW r \in Inputs, NEW record \in RecordType,
         Running, ~Ended(r), Waiting(r) => MayStart(r), records[r].pc # "give up",
         records' = [records EXCEPT ![r] = record],
         record.pc \in {"submit", "pending", "poll", "result"}, Sound(record),
         record.url = records[r].url, record.job = records[r].job,
         UNCHANGED <<policy, phase, trigger, jobs, cancels, outcomes, arrived, result>>
  PROVE  ExecutionInv'
<1>1. records'[r] = record
  BY RecordTypes
<1>2. Moved(r)
  BY <1>1 DEF Moved, EndedIn
<1> QED BY <1>1, <1>2, MoveKeepsJobs

\* Start: a record taken, or one that sends nothing.
LEMMA StartStep ==
  ASSUME ExecutionInv, NEW r \in Inputs, Start(r)
  PROVE  ExecutionInv'
<1>1. Running /\ MayStart(r) /\ Waiting(r) /\ ~Ended(r) /\ records[r].pc # "give up"
  BY DEF Start, MayStart, Waiting, Ended
<1>2. CASE Fail(r, "MissingParameter") \/ Fail(r, "RequestTooLarge")
  <2>1. UNCHANGED <<policy, phase, trigger, jobs, cancels, arrived, result>>
    BY DEF Start
  <2>2. {"MissingParameter", "RequestTooLarge"} \subseteq Variants \ {"Runtime"}
    BY DEF Variants
  <2> QED BY <1>1, <1>2, <2>1, <2>2, FailureKeepsInvariant
<1>3. CASE /\ records' = [records EXCEPT ![r] = Prepared(@, "submit", TRUE)]
           /\ UNCHANGED outcomes
  <2> DEFINE old == records[r]
             new == Prepared(old, "submit", TRUE)
  <2>1. old \in RecordType /\ Sound(old) /\ old.pc = "waiting"
    BY <1>1, RecordTypes DEF Waiting
  <2>2. /\ records' = [records EXCEPT ![r] = new]
        /\ UNCHANGED <<policy, phase, trigger, jobs, cancels, outcomes, arrived, result>>
    BY <1>3, RecordTypes DEF Start
  <2> HIDE DEF old
  <2>3. /\ new \in RecordType /\ new.pc = "submit" /\ new.net = "queued"
        /\ new.url = old.url /\ new.job = old.job /\ new.revoked = old.revoked
        /\ new.creds = ~old.revoked
    BY <2>1 DEF Prepared, RecordType
  <2> HIDE DEF new
  <2>4. Sound(new)
    BY <2>1, <2>3 DEF Sound, EndedIn
  <2> USE DEF old
  <2> QED BY <1>1, <2>2, <2>3, <2>4, GoesOn
<1> QED BY <1>2, <1>3 DEF Start

\* Refuse, AnswerFails, OwnCancelTimesOut: a record that fails on its way.
LEMMA FailingSteps ==
  ASSUME ExecutionInv, NEW r \in Inputs, Refuse(r) \/ AnswerFails(r) \/ OwnCancelTimesOut(r)
  PROVE  ExecutionInv'
<1>1. Running /\ ~Ended(r) /\ ~Waiting(r)
  BY DEF Refuse, AnswerFails, OwnCancelTimesOut, Queued, OnWire, Ended, Waiting
<1>2. \E error \in {"CircuitOpen", "PolicyViolation", "Transport", "ResponseTooLarge",
                    "InvalidResponse", "PollingTimeout"} : Fail(r, error)
  BY DEF Refuse, AnswerFails, OwnCancelTimesOut
<1>3. {"CircuitOpen", "PolicyViolation", "Transport", "ResponseTooLarge",
       "InvalidResponse", "PollingTimeout"} \subseteq Variants \ {"Runtime"}
  BY DEF Variants
<1>4. UNCHANGED <<policy, phase, trigger, jobs, cancels, arrived, result>>
  BY DEF Refuse, AnswerFails, OwnCancelTimesOut
<1> QED BY <1>1, <1>2, <1>3, <1>4, FailureKeepsInvariant

\* Send: the request of a record is on the network.
LEMMA SendStep ==
  ASSUME ExecutionInv, NEW r \in Inputs, Send(r)
  PROVE  ExecutionInv'
<1> DEFINE old == records[r]
           new == [old EXCEPT !.net = "sent", !.sent = TRUE, !.entered = "read"]
<1>1. /\ old \in RecordType /\ Sound(old) /\ old.pc \in {"submit", "poll", "result"}
      /\ old.net = "queued"
  BY RecordTypes DEF Send, Queued
<1>2. Running /\ ~Ended(r) /\ ~Waiting(r)
  BY <1>1 DEF Send, Ended, Waiting
<1>3. /\ records' = [records EXCEPT ![r] = new]
      /\ UNCHANGED <<policy, phase, trigger, jobs, cancels, outcomes, arrived, result>>
  BY RecordTypes DEF Send
<1> HIDE DEF old
<1>4. /\ new \in RecordType /\ new.pc = old.pc /\ new.net = "sent" /\ new.url = old.url
      /\ new.job = old.job /\ new.revoked = old.revoked /\ new.creds = old.creds
  BY <1>1 DEF RecordType
<1> HIDE DEF new
<1>5. Sound(new)
  BY <1>1, <1>4 DEF Sound, EndedIn
<1> USE DEF old
<1> QED BY <1>1, <1>2, <1>3, <1>4, <1>5, GoesOn

\* Poll: another attempt, prepared for the scope as it is now.
LEMMA PollStep ==
  ASSUME ExecutionInv, NEW r \in Inputs, Poll(r)
  PROVE  ExecutionInv'
<1> DEFINE old == records[r]
           new == [Prepared(old, "poll", Home(old.url)) EXCEPT !.polls = old.polls + 1]
<1>1. old \in RecordType /\ Sound(old) /\ old.pc = "pending"
  BY RecordTypes DEF Poll
<1>2. Running /\ ~Ended(r) /\ ~Waiting(r)
  BY <1>1 DEF Poll, Ended, Waiting
<1>3. /\ records' = [records EXCEPT ![r] = new]
      /\ UNCHANGED <<policy, phase, trigger, jobs, cancels, outcomes, arrived, result>>
  BY DEF Poll
<1> HIDE DEF old
<1>5. /\ new \in RecordType /\ new.pc = "poll" /\ new.net = "queued" /\ new.url = old.url
      /\ new.job = old.job /\ new.revoked = old.revoked
      /\ new.creds => ~old.revoked
  <2> DEFINE home == Home(old.url)
             prepared == Prepared(old, "poll", home)
  <2>1. home \in BOOLEAN
    BY DEF Home
  <2> HIDE DEF home
  <2>2. /\ prepared \in RecordType /\ prepared.pc = "poll" /\ prepared.net = "queued"
        /\ prepared.url = old.url /\ prepared.job = old.job
        /\ prepared.revoked = old.revoked /\ prepared.creds = (home /\ ~old.revoked)
    BY <1>1, <2>1 DEF RecordType, Prepared
  <2>4. old.polls + 1 \in Nat
    <3>1. old.polls \in Nat
      BY <1>1 DEF RecordType
    <3> QED BY <3>1
  <2> HIDE DEF prepared
  <2>3. new = [prepared EXCEPT !.polls = old.polls + 1]
    BY DEF prepared, home
  <2> HIDE DEF new
  <2> QED BY <2>2, <2>3, <2>4 DEF RecordType
<1> HIDE DEF new
<1>6. Sound(new)
  BY <1>1, <1>5 DEF Sound, EndedIn
<1> USE DEF old
<1> QED BY <1>1, <1>2, <1>3, <1>5, <1>6, GoesOn

\* PollPends: back to waiting for the next attempt.
LEMMA PollPendsStep ==
  ASSUME ExecutionInv, NEW r \in Inputs, PollPends(r)
  PROVE  ExecutionInv'
<1> DEFINE old == records[r]
           new == [old EXCEPT !.pc = "pending", !.net = "idle"]
<1>1. old \in RecordType /\ Sound(old) /\ old.pc = "poll"
  BY RecordTypes DEF PollPends, OnWire
<1>2. Running /\ ~Ended(r) /\ ~Waiting(r)
  BY <1>1 DEF PollPends, Ended, Waiting
<1>3. /\ records' = [records EXCEPT ![r] = new]
      /\ UNCHANGED <<policy, phase, trigger, jobs, cancels, outcomes, arrived, result>>
  BY RecordTypes DEF PollPends
<1> HIDE DEF old
<1>4. /\ new \in RecordType /\ new.pc = "pending" /\ new.net = "idle" /\ new.url = old.url
      /\ new.job = old.job
  BY <1>1 DEF RecordType
<1> HIDE DEF new
<1>5. Sound(new)
  BY <1>1, <1>4 DEF Sound, EndedIn
<1> USE DEF old
<1> QED BY <1>1, <1>2, <1>3, <1>4, <1>5, GoesOn

\* The result is fetched from another URL, of whichever origin.
LEMMA FetchKeepsInvariant ==
  ASSUME ExecutionInv, NEW r \in Inputs, NEW home \in BOOLEAN,
         Running, records[r].pc \in {"submit", "poll"}, Fetch(r, home),
         UNCHANGED <<policy, phase, trigger, cancels, arrived, result>>
  PROVE  ExecutionInv'
<1> DEFINE old == records[r]
           new == Prepared(Narrowed(old, home), "result", home)
<1>1. old \in RecordType /\ Sound(old) /\ old.pc \in {"submit", "poll"}
  BY RecordTypes
<1>2. ~Ended(r) /\ ~Waiting(r)
  BY <1>1 DEF Ended, Waiting
<1>3. /\ records' = [records EXCEPT ![r] = new]
      /\ UNCHANGED <<policy, phase, trigger, jobs, cancels, outcomes, arrived, result>>
  BY RecordTypes DEF Fetch
<1> HIDE DEF old
<1>4. /\ new \in RecordType /\ new.pc = "result" /\ new.net = "queued" /\ new.url = old.url
      /\ new.job = old.job /\ new.revoked = (old.revoked \/ ~home)
      /\ new.creds = (home /\ ~(old.revoked \/ ~home))
  BY <1>1 DEF RecordType, Prepared, Narrowed
<1> HIDE DEF new
<1>5. Sound(new)
  BY <1>1, <1>4 DEF Sound, EndedIn
<1> USE DEF old
<1> QED BY <1>1, <1>2, <1>3, <1>4, <1>5, GoesOn

\* A job whose end was seen leaves the map; nobody was asked to cancel it.
LEMMA JobEnds ==
  ASSUME ExecutionInv, NEW r \in Inputs, NEW pc, NEW error,
         Running, records[r].pc \in {"submit", "poll", "result"},
         \/ pc = "ok" /\ error = "none"
         \/ pc = "failed" /\ error \in Variants \ {"Runtime"},
         jobs' = Removed(records[r].url), EndAs(r, pc, error, "ended"),
         UNCHANGED <<policy, phase, trigger, cancels, arrived, result>>
  PROVE  ExecutionInv'
<1> DEFINE old == records[r]
           new == [old EXCEPT !.pc = pc, !.net = "idle", !.error = error, !.job = "ended"]
<1>1. /\ old \in RecordType /\ Sound(old) /\ old.pc \in {"submit", "poll", "result"}
      /\ old.url \in Urls \cup {NoUrl}
  BY RecordTypes DEF RecordType
<1>2. ~Ended(r) /\ ~Waiting(r)
  BY <1>1 DEF Ended, Waiting
<1>3. records' = [records EXCEPT ![r] = new] /\ records'[r] = new
  BY RecordTypes DEF EndAs
<1>4. Inputs' = Inputs /\ outcomes' = Append(outcomes, r)
  BY DEF Inputs, EndAs
<1> HIDE DEF old
<1>5. /\ new \in RecordType /\ new.pc = pc /\ new.net = "idle" /\ new.error = error
      /\ new.url = old.url /\ new.job = "ended"
  BY <1>1 DEF RecordType
<1> HIDE DEF new
<1>6. Sound(new) /\ EndedIn(new) /\ new.pc # "waiting"
  <2>1. error \in Variants => error # "none"
    BY DEF Variants
  <2> QED BY <1>5, <2>1 DEF Sound, EndedIn
<1>7. Moved(r)
  BY <1>2, <1>3, <1>4, <1>5, <1>6 DEF Moved
<1>8. /\ jobs' \in JobMap
      /\ \A u \in Urls : jobs'[u] = IF u = old.url THEN NoJob ELSE jobs[u]
  BY RecordTypes DEF Removed, JobMap, old
<1>9. Touches(r)
  <2>1. ASSUME old.url \in Urls, Alone(r)' PROVE Own(r)'
    <3>1. Alone(r)
      BY <1>3, <1>4, <1>5, <2>1 DEF Alone, old
    <3>2. Own(r) /\ ~(arrived[old.url].sent > 0) /\ ~arrived[old.url].creds
      BY <1>1, <2>1, <3>1, RecordTypes DEF ExecutionInv, OwnJobs, Own, JobsHaveOwners, old
    <3>3. jobs'[old.url] = NoJob /\ records'[r].url = old.url /\ records'[r].job = "ended"
          /\ records'[r].pc = pc /\ pc # "give up"
      BY <1>3, <1>5, <1>8, <2>1
    <3> QED BY <3>2, <3>3 DEF Own
  <2>2. /\ records[r].url = records'[r].url /\ old.url = records[r].url
        /\ arrived' = arrived /\ arrived \in [Urls -> Arrival]
    BY <1>3, <1>5, RecordTypes DEF old
  <2>3. \A u \in Urls : arrived[u].creds => arrived[u].sent > 0
    BY DEF ExecutionInv, JobsHaveOwners
  <2> QED BY <1>8, <2>1, <2>2, <2>3 DEF Touches
<1> QED BY <1>7, <1>9, RecordKeepsInvariant

\* SubmitCompletes, PollCompletes, JobFails, ResultArrives: the answer says that
\* the job is done.
LEMMA CompletingSteps ==
  ASSUME ExecutionInv, NEW r \in Inputs,
         SubmitCompletes(r) \/ PollCompletes(r) \/ JobFails(r) \/ ResultArrives(r)
  PROVE  ExecutionInv'
<1>1. Running /\ records[r].pc \in {"submit", "poll", "result"} /\ ~Ended(r) /\ ~Waiting(r)
  BY DEF SubmitCompletes, PollCompletes, JobFails, ResultArrives, OnWire, Ended, Waiting
<1>2. UNCHANGED <<policy, phase, trigger, cancels, arrived, result>>
  BY DEF SubmitCompletes, PollCompletes, JobFails, ResultArrives
<1>3. {"UnsafeAddress", "Application", "InvalidResponse"} \subseteq Variants \ {"Runtime"}
  BY DEF Variants
<1>4. CASE SubmitCompletes(r) \/ PollCompletes(r)
  <2>1. records[r].pc \in {"submit", "poll"} /\ Completed(r)
    BY <1>4 DEF SubmitCompletes, PollCompletes, OnWire
  <2>2. CASE \E home \in BOOLEAN : Fetch(r, home)
    BY <1>1, <1>2, <2>1, <2>2, FetchKeepsInvariant
  <2>3. CASE FetchBlocked(r)
    BY <1>1, <1>2, <1>3, <2>3, FailureKeepsInvariant DEF FetchBlocked
  <2>4. CASE Complete(r)
    BY <1>1, <1>2, <1>3, <2>4, JobEnds DEF Complete
  <2> QED BY <2>1, <2>2, <2>3, <2>4 DEF Completed
<1>5. CASE JobFails(r)
  BY <1>1, <1>2, <1>3, <1>5, JobEnds DEF JobFails
<1>6. CASE ResultArrives(r)
  BY <1>1, <1>2, <1>3, <1>6, JobEnds DEF ResultArrives, Complete
<1> QED BY <1>4, <1>5, <1>6

\* A job put under its poll URL: where nobody polled before, nothing was cancelled.
LEMMA RegisterKeepsInvariant ==
  ASSUME ExecutionInv, NEW r \in Inputs, NEW u \in Urls, NEW id \in BOOLEAN,
         Running, records[r].pc \in {"waiting", "submit"}, Waiting(r) => MayStart(r),
         Register(r, u, id),
         UNCHANGED <<policy, phase, trigger, cancels, arrived, result>>
  PROVE  ExecutionInv'
<1> DEFINE old == records[r]
           home == Home(u)
           kind == IF id THEN "open" ELSE "unnamed"
           new == [Narrowed(old, home) EXCEPT
                     !.pc = "pending", !.net = "idle", !.url = u, !.job = kind]
           entry == [owner |-> r, id |-> id, requested |-> FALSE, accepted |-> "absent"]
<1>1. /\ old \in RecordType /\ Sound(old) /\ old.pc \in {"waiting", "submit"}
      /\ old.url = NoUrl /\ u # NoUrl /\ ~Ended(r)
  BY RecordTypes DEF Sound, Ended
<1>2. CASE Fail(r, "UnsafeAddress") /\ UNCHANGED jobs
  <2>1. "UnsafeAddress" \in Variants \ {"Runtime"}
    BY DEF Variants
  <2> QED BY <1>1, <1>2, <2>1, FailureKeepsInvariant
<1>3. CASE /\ jobs' = [jobs EXCEPT ![u] = entry]
           /\ records' = [records EXCEPT ![r] = new]
           /\ UNCHANGED outcomes
  <2>1. /\ records'[r] = new /\ jobs'[u] = entry /\ Inputs' = Inputs
        /\ \A v \in Urls : v # u => jobs'[v] = jobs[v]
        /\ records' = [records EXCEPT ![r] = new]
        /\ \A q \in Inputs : q # r => records'[q] = records[q]
    BY <1>3, RecordTypes DEF JobMap, Inputs
  <2>2. home \in BOOLEAN /\ kind \in {"open", "unnamed"}
    BY DEF Home
  <2>3. entry \in ActiveJob /\ entry # NoJob /\ entry.owner = r /\ entry.id = id
        /\ entry.accepted = "absent"
    <3>1. Inputs \subseteq Nat
      BY PoliciesAreLegal DEF ExecutionInv, ExecutionTypes, Inputs, Policy
    <3>2. entry \in ActiveJob
      BY <3>1 DEF ActiveJob
    <3>3. entry # NoJob
      BY <3>2, NoJobAssumption
    <3> QED BY <3>2, <3>3
  <2> HIDE DEF old, home, kind
  <2>4. /\ new \in RecordType /\ new.pc = "pending" /\ new.net = "idle" /\ new.url = u
        /\ new.job = kind
    BY <1>1, <2>2 DEF RecordType, Narrowed
  <2>5. kind = IF id THEN "open" ELSE "unnamed"
    BY DEF kind
  <2> HIDE DEF new, entry
  <2>6. Sound(new) /\ ~EndedIn(new)
    BY <1>1, <2>2, <2>4 DEF Sound, EndedIn
  <2>7. Moved(r)
    BY <1>1, <1>3, <2>1, <2>4, <2>6 DEF Moved
  <2>8. jobs' \in JobMap
    BY <1>3, <2>3, RecordTypes DEF JobMap
  <2>9. Owned(u)'
    BY <2>1, <2>3, <2>4, <2>5 DEF Owned
  <2>10. ASSUME Alone(r)' PROVE Own(r)'
    <3>1. \A q \in Inputs : records[q].url # u
      BY <1>1, <2>1, <2>4, <2>10 DEF Alone, old
    <3>2. ~(arrived[u].sent > 0) /\ ~(arrived[u].yes > 0) /\ ~arrived[u].creds
      BY <3>1 DEF ExecutionInv, JobsHaveOwners
    <3>3. /\ records'[r].url = u /\ jobs'[u] # NoJob /\ jobs'[u].accepted = "absent"
          /\ records'[r].job \in {"open", "unnamed"} /\ records'[r].pc = "pending"
          /\ arrived' = arrived
      BY <2>1, <2>2, <2>3, <2>4
    <3> QED BY <3>2, <3>3 DEF Own
  <2>11. arrived' \in [Urls -> Arrival] /\ \A v \in Urls : arrived'[v].creds => arrived'[v].sent > 0
    BY RecordTypes DEF ExecutionInv, JobsHaveOwners
  <2>12. records'[r].url = u /\ records[r].url = NoUrl /\ arrived' = arrived
    BY <1>1, <2>1, <2>4 DEF old
  <2>13. Touches(r)
    BY <2>1, <2>8, <2>9, <2>10, <2>11, <2>12 DEF Touches
  <2> QED BY <2>7, <2>13, RecordKeepsInvariant
<1> QED BY <1>2, <1>3 DEF Register

\* SubmitPends, Resume: a job is there to be polled.
LEMMA RegisteringSteps ==
  ASSUME ExecutionInv, NEW r \in Inputs, SubmitPends(r) \/ Resume(r)
  PROVE  ExecutionInv'
<1>1. /\ Running
      /\ records[r].pc \in {"waiting", "submit"}
      /\ Waiting(r) => MayStart(r)
      /\ UNCHANGED <<policy, phase, trigger, cancels, arrived, result>>
      /\ \E u \in Urls, id \in BOOLEAN : Register(r, u, id)
  BY DEF SubmitPends, Resume, OnWire, Waiting, MayStart
<1> QED BY <1>1, RegisterKeepsInvariant

\* A job keeps its owner as long as that one keeps its URL and what its job is.
LEMMA OwnerStays ==
  ASSUME NEW r \in Inputs, NEW u \in Urls, Owned(u), Inputs' = Inputs,
         jobs'[u].owner = jobs[u].owner, jobs'[u].id = jobs[u].id,
         records'[r].url = records[r].url, records'[r].job = records[r].job,
         \A q \in Inputs : q # r => records'[q] = records[q]
  PROVE  Owned(u)'
<1>1. jobs[u].owner \in Inputs
  BY DEF Owned
<1>2. CASE jobs[u].owner = r
  BY <1>2 DEF Owned
<1>3. CASE jobs[u].owner # r
  BY <1>1, <1>3 DEF Owned
<1> QED BY <1>2, <1>3

\* GiveUp: the handle says that a cancellation is asked for before it is sent, and
\* the cancellation is prepared for the scope as it is then.
LEMMA GiveUpStep ==
  ASSUME ExecutionInv, NEW r \in Inputs, GiveUp(r)
  PROVE  ExecutionInv'
<1> DEFINE old == records[r]
<1>1. /\ old \in RecordType /\ Sound(old) /\ old.pc \in {"pending", "poll"}
      /\ old.url \in Urls /\ ~Ended(r) /\ ~Waiting(r) /\ Running
      /\ UNCHANGED <<policy, phase, trigger, cancels, arrived, result>>
  BY RecordTypes DEF GiveUp, OutOfTime, Sound, RecordType, Ended, Waiting
<1>u. PICK u \in Urls : u = old.url
  BY <1>1
<1> DEFINE home == Home(u)
           creds == CancelCreds(u)
           new == [Prepared(old, "give up", home) EXCEPT !.creds = creds]
<1>2. CASE Fail(r, "PollingTimeout") /\ UNCHANGED jobs
  <2>1. "PollingTimeout" \in Variants \ {"Runtime"}
    BY DEF Variants
  <2> QED BY <1>1, <1>2, <2>1, FailureKeepsInvariant
<1>3. CASE /\ jobs[u] # NoJob
           /\ jobs' = Flagged(u)
           /\ records' = [records EXCEPT ![r] = new]
           /\ UNCHANGED outcomes
  <2>1. /\ records'[r] = new /\ Inputs' = Inputs
        /\ records' = [records EXCEPT ![r] = new]
        /\ \A q \in Inputs : q # r => records'[q] = records[q]
    BY <1>1, <1>3, RecordTypes DEF Inputs
  <2>2. home \in BOOLEAN /\ creds \in BOOLEAN
    BY DEF Home, CancelCreds
  <2>3. /\ jobs' \in JobMap
        /\ \A v \in Urls : v # u => jobs'[v] = jobs[v]
        /\ jobs'[u] # NoJob /\ jobs'[u].owner = jobs[u].owner /\ jobs'[u].id = jobs[u].id
        /\ jobs'[u].requested = jobs'[u].id /\ jobs'[u].accepted = jobs[u].accepted
    <3>1. jobs[u] \in ActiveJob /\ jobs \in JobMap
      BY <1>1, <1>3, RecordTypes DEF JobMap
    <3> DEFINE job == jobs[u]
               entry == [job EXCEPT !.requested = job.id]
    <3>2. jobs' = [jobs EXCEPT ![u] = entry]
      BY <1>1, <1>3, <3>1 DEF Flagged, JobMap
    <3> HIDE DEF job
    <3>3. job \in ActiveJob
      BY <3>1 DEF job
    <3>4. /\ entry \in ActiveJob /\ entry.owner = job.owner /\ entry.id = job.id
          /\ entry.requested = entry.id /\ entry.accepted = job.accepted
      BY <3>3 DEF ActiveJob
    <3> HIDE DEF entry
    <3>5. entry # NoJob
      BY <3>4, NoJobAssumption
    <3> QED BY <1>1, <3>1, <3>2, <3>4, <3>5 DEF JobMap, job
  <2>4. Owned(u) /\ (Alone(r) => jobs[u].owner = r)
    BY <1>1, <1>3, <1>u DEF ExecutionInv, JobsHaveOwners, Owned, Alone
  <2> HIDE DEF home, creds, old
  <2>5. /\ new \in RecordType /\ new.pc = "give up" /\ new.net = "queued" /\ new.url = old.url
        /\ new.job = old.job /\ new.revoked = old.revoked /\ new.creds = creds
    <3> DEFINE prepared == Prepared(old, "give up", home)
    <3>1. /\ prepared \in RecordType /\ prepared.pc = "give up" /\ prepared.net = "queued"
          /\ prepared.url = old.url /\ prepared.job = old.job /\ prepared.revoked = old.revoked
      BY <1>1, <2>2 DEF RecordType, Prepared
    <3> HIDE DEF prepared
    <3>2. new = [prepared EXCEPT !.creds = creds]
      BY DEF prepared
    <3> HIDE DEF new
    <3> QED BY <2>2, <3>1, <3>2 DEF RecordType
  <2> HIDE DEF new
  <2>6. Sound(new) /\ ~EndedIn(new)
    BY <1>1, <2>5 DEF Sound, EndedIn
  <2>7. Moved(r)
    BY <1>1, <1>3, <2>1, <2>5, <2>6 DEF Moved
  <2>8. Owned(u)'
    BY <1>u, <2>1, <2>3, <2>4, <2>5, OwnerStays DEF old
  <2>9. ASSUME Alone(r)' PROVE Own(r)'
    <3>1. Alone(r)
      BY <1>u, <2>1, <2>5, <2>9 DEF Alone, old
    <3>2. Own(r) /\ jobs[u].owner = r
      BY <1>1, <1>u, <2>4, <3>1, RecordTypes DEF ExecutionInv, OwnJobs, old
    <3>3. creds => Home(u) /\ ~old.revoked
      BY <3>2 DEF creds, CancelCreds, old
    <3>4. ~(arrived[u].sent > 0) /\ records[r] = old
      BY <1>1, <1>u, <3>2 DEF Own, old
    <3>5. /\ records'[r].url = u /\ records'[r].pc = "give up" /\ records'[r].job = old.job
          /\ records'[r].revoked = old.revoked /\ records'[r].creds = creds
          /\ arrived' = arrived /\ jobs[u] # NoJob
      BY <1>1, <1>3, <1>u, <2>1, <2>5
    <3> HIDE DEF new
    <3> QED BY <1>u, <2>3, <3>2, <3>3, <3>4, <3>5 DEF Own, Home
  <2>10. arrived' \in [Urls -> Arrival] /\ \A v \in Urls : arrived'[v].creds => arrived'[v].sent > 0
    BY <1>1, RecordTypes DEF ExecutionInv, JobsHaveOwners
  <2>11. records'[r].url = u /\ records[r].url = u /\ arrived' = arrived
    BY <1>1, <1>u, <2>1, <2>5 DEF old
  <2>12. Touches(r)
    BY <1>u, <2>3, <2>8, <2>9, <2>10, <2>11 DEF Touches
  <2> QED BY <2>7, <2>12, RecordKeepsInvariant
<1> QED BY <1>2, <1>3, <1>u DEF GiveUp

\* SendOwnCancel: what the service gets is the cancellation the record prepared.
LEMMA SendOwnCancelStep ==
  ASSUME ExecutionInv, NEW r \in Inputs, SendOwnCancel(r)
  PROVE  ExecutionInv'
<1> DEFINE old == records[r]
           new == [old EXCEPT !.net = "sent", !.sent = TRUE, !.entered = "read"]
<1>1. /\ old \in RecordType /\ Sound(old) /\ old.pc = "give up"
      /\ old.url \in Urls /\ ~Ended(r) /\ ~Waiting(r) /\ Running
      /\ UNCHANGED <<policy, phase, trigger, jobs, cancels, outcomes, result>>
  BY RecordTypes DEF SendOwnCancel, Queued, Sound, RecordType, Ended, Waiting
<1>u. PICK u \in Urls : u = old.url
  BY <1>1
<1> DEFINE got == arrived[u]
<1>2. /\ records' = [records EXCEPT ![r] = new]
      /\ records'[r] = new /\ Inputs' = Inputs
      /\ \A q \in Inputs : q # r => records'[q] = records[q]
  BY RecordTypes DEF SendOwnCancel, Inputs
<1>3. /\ arrived' \in [Urls -> Arrival]
      /\ \A v \in Urls : v # u => arrived'[v] = arrived[v]
      /\ arrived'[u].sent > 0 /\ arrived'[u].yes = arrived[u].yes
      /\ arrived'[u].creds = old.creds
  <2>1. got \in Arrival /\ arrived \in [Urls -> Arrival]
    BY <1>1, <1>u, RecordTypes
  <2>2. old.creds \in BOOLEAN
    BY <1>1, <1>u DEF RecordType
  <2> DEFINE creds == old.creds
             answer == [got EXCEPT !.sent = got.sent + 1, !.creds = creds]
  <2>3. arrived' = [arrived EXCEPT ![u] = answer]
    BY <1>1, <1>u, <2>1 DEF SendOwnCancel, CancelSent
  <2> HIDE DEF got, creds
  <2>4. creds \in BOOLEAN
    BY <2>2 DEF creds
  <2>6. got.sent + 1 \in Nat /\ got.sent + 1 > 0
    <3>1. got.sent \in Nat
      BY <2>1 DEF Arrival
    <3> QED BY <3>1
  <2>5. answer \in Arrival /\ answer.sent > 0 /\ answer.yes = got.yes /\ answer.creds = creds
    BY <2>1, <2>4, <2>6 DEF Arrival
  <2> HIDE DEF answer
  <2> QED BY <1>1, <1>u, <2>1, <2>3, <2>5 DEF got, creds
<1>4. jobs[u] # NoJob => Owned(u)
  BY <1>1, <1>u DEF ExecutionInv, JobsHaveOwners
<1> HIDE DEF old, got
<1>5. /\ new \in RecordType /\ new.pc = old.pc /\ new.net = "sent" /\ new.url = old.url
      /\ new.job = old.job /\ new.revoked = old.revoked /\ new.creds = old.creds
  BY <1>1, <1>u DEF RecordType
<1> HIDE DEF new
<1>6. Sound(new) /\ ~EndedIn(new)
  BY <1>1, <1>u, <1>5 DEF Sound, EndedIn
<1>7. Moved(r)
  BY <1>1, <1>u, <1>2, <1>5, <1>6 DEF Moved
<1>8. jobs[u] # NoJob => Owned(u)'
  BY <1>1, <1>u, <1>2, <1>4, <1>5 DEF Owned, old
<1>9. ASSUME Alone(r)' PROVE Own(r)'
  <2>1. Alone(r)
    BY <1>u, <1>2, <1>5, <1>9 DEF Alone, old
  <2>2. Own(r) /\ records[r] = old
    BY <1>1, <1>u, <2>1, RecordTypes DEF ExecutionInv, OwnJobs, old
  <2>3. old.job # "ended"
    BY <1>1, <1>u DEF Sound, EndedIn
  <2> QED BY <1>1, <1>u, <1>2, <1>3, <1>5, <2>2, <2>3 DEF Own, Home
<1>10. \A v \in Urls : arrived'[v].creds => arrived'[v].sent > 0
  BY <1>3 DEF ExecutionInv, JobsHaveOwners
<1>11. records'[r].url = u /\ records[r].url = u /\ jobs' = jobs /\ jobs \in JobMap
  BY <1>1, <1>u, <1>2, <1>5, RecordTypes DEF old
<1>12. Touches(r)
  BY <1>u, <1>3, <1>8, <1>9, <1>10, <1>11 DEF Touches
<1> QED BY <1>7, <1>12, RecordKeepsInvariant

\* A cancellation that ends writes its answer in the entry at its URL, and nothing
\* else there: a job accepted as cancelled is one the service said yes to.
LEMMA AnswersAreTold ==
  ASSUME ExecutionInv, NEW u \in Urls,
         CancelAnswered(u) \/ (Accepted(u, "no") /\ UNCHANGED arrived)
  PROVE  /\ jobs' \in JobMap
         /\ arrived' \in [Urls -> Arrival]
         /\ \A v \in Urls : v # u => jobs'[v] = jobs[v] /\ arrived'[v] = arrived[v]
         /\ \A v \in Urls :
              /\ jobs'[v] # NoJob <=> jobs[v] # NoJob
              /\ jobs[v] # NoJob => /\ jobs'[v].owner = jobs[v].owner
                                    /\ jobs'[v].id = jobs[v].id
                                    /\ jobs'[v].requested = jobs[v].requested
              /\ arrived'[v].sent = arrived[v].sent
              /\ arrived'[v].creds = arrived[v].creds
         /\ (jobs[u] # NoJob /\ jobs[u].accepted = "yes" => arrived[u].yes > 0) =>
              (jobs'[u] # NoJob /\ jobs'[u].accepted = "yes" => arrived'[u].yes > 0)
<1> DEFINE job == jobs[u]
           got == arrived[u]
           yes == [got EXCEPT !.yes = got.yes + 1]
           no == [got EXCEPT !.no = got.no + 1]
<1>1. job \in ActiveJob \cup {NoJob} /\ jobs \in JobMap
  BY RecordTypes DEF JobMap, ExecutionInv, ExecutionTypes
<1>2. got \in Arrival /\ arrived \in [Urls -> Arrival]
  BY DEF ExecutionInv, ExecutionTypes
<1>3. PICK answer \in {"yes", "no"} :
        /\ Accepted(u, answer)
        /\ arrived' \in {[arrived EXCEPT ![u] = yes], [arrived EXCEPT ![u] = no], arrived}
        /\ answer = "yes" => arrived' = [arrived EXCEPT ![u] = yes]
  BY <1>2 DEF CancelAnswered
<1> HIDE DEF got
<1>4. /\ yes \in Arrival /\ yes.sent = got.sent /\ yes.creds = got.creds
      /\ yes.yes > 0 /\ yes.yes = got.yes + 1
      /\ no \in Arrival /\ no.sent = got.sent /\ no.creds = got.creds /\ no.yes = got.yes
  BY <1>2 DEF Arrival
<1> HIDE DEF yes, no
<1>5. /\ arrived' \in [Urls -> Arrival]
      /\ \A v \in Urls : v # u => arrived'[v] = arrived[v]
      /\ arrived'[u] \in {yes, no, got}
      /\ answer = "yes" => arrived'[u] = yes
  BY <1>2, <1>3, <1>4 DEF got
<1>6. /\ arrived'[u].sent = got.sent /\ arrived'[u].creds = got.creds
      /\ got.yes > 0 => arrived'[u].yes > 0
      /\ answer = "yes" => arrived'[u].yes > 0
  BY <1>4, <1>5
<1> DEFINE entry == [job EXCEPT !.accepted = answer]
<1>7. CASE jobs' = jobs
  BY <1>1, <1>5, <1>6, <1>7 DEF got
<1>8. CASE job # NoJob /\ jobs' = [jobs EXCEPT ![u] = entry]
  <2> HIDE DEF job
  <2>1. job \in ActiveJob
    BY <1>1, <1>8
  <2>2. /\ entry \in ActiveJob /\ entry.owner = job.owner /\ entry.id = job.id
        /\ entry.requested = job.requested /\ entry.accepted = answer
    BY <2>1 DEF ActiveJob
  <2> HIDE DEF entry
  <2>3. entry # NoJob
    BY <2>2, NoJobAssumption
  <2>4. /\ jobs' \in JobMap /\ jobs'[u] = entry
        /\ \A v \in Urls : v # u => jobs'[v] = jobs[v]
    BY <1>1, <1>8, <2>2 DEF JobMap
  <2> QED BY <1>5, <1>6, <1>8, <2>2, <2>3, <2>4 DEF got, job
<1> QED BY <1>1, <1>3, <1>7, <1>8 DEF Accepted, JobMap

\* OwnCancelEnds: the record fails, with the answer in its handle.
LEMMA OwnCancelEndsStep ==
  ASSUME ExecutionInv, NEW r \in Inputs, OwnCancelEnds(r)
  PROVE  ExecutionInv'
<1>0. PICK u \in Urls : u = records[r].url
  BY RecordTypes DEF OwnCancelEnds, OnWire, Queued, Sound, RecordType
<1>1. /\ Running /\ ~Ended(r) /\ ~Waiting(r) /\ records[r].pc = "give up"
      /\ UNCHANGED <<policy, phase, trigger, cancels, result>>
      /\ Fail(r, "PollingTimeout")
      /\ CancelAnswered(u) \/ (Accepted(u, "no") /\ UNCHANGED arrived)
  BY <1>0 DEF OwnCancelEnds, OnWire, Queued, Ended, Waiting
<1>2. "PollingTimeout" \in Variants \ {"Runtime"}
  BY DEF Variants
<1>3. Moved(r) /\ records'[r] = [records[r] EXCEPT !.pc = "failed", !.net = "idle",
                                                   !.error = "PollingTimeout"]
  BY <1>0, <1>1, <1>2, FailureMoves
<1>4. /\ records'[r].pc = "failed" /\ records'[r].url = u
      /\ records'[r].job = records[r].job /\ records'[r].revoked = records[r].revoked
      /\ Inputs' = Inputs /\ phase' = phase
      /\ \A q \in Inputs : q # r => records'[q] = records[q]
  BY <1>0, <1>1, <1>3, RecordTypes DEF RecordType, Inputs, Moved
<1>5. /\ jobs' \in JobMap
      /\ arrived' \in [Urls -> Arrival]
      /\ \A v \in Urls : v # u => jobs'[v] = jobs[v] /\ arrived'[v] = arrived[v]
      /\ \A v \in Urls :
           /\ jobs'[v] # NoJob <=> jobs[v] # NoJob
           /\ jobs[v] # NoJob => /\ jobs'[v].owner = jobs[v].owner
                                 /\ jobs'[v].id = jobs[v].id
                                 /\ jobs'[v].requested = jobs[v].requested
           /\ arrived'[v].sent = arrived[v].sent
           /\ arrived'[v].creds = arrived[v].creds
      /\ (jobs[u] # NoJob /\ jobs[u].accepted = "yes" => arrived[u].yes > 0) =>
           (jobs'[u] # NoJob /\ jobs'[u].accepted = "yes" => arrived'[u].yes > 0)
  BY <1>0, <1>1, AnswersAreTold
<1>6. /\ jobs[u] # NoJob => Owned(u)
      /\ arrived[u].creds => arrived[u].sent > 0
  BY <1>0, <1>1 DEF ExecutionInv, JobsHaveOwners
<1>7. jobs'[u] # NoJob => Owned(u)'
  BY <1>0, <1>4, <1>5, <1>6, OwnerStays
<1>8. ASSUME Alone(r)' PROVE Own(r)'
  <2>1. Alone(r)
    BY <1>0, <1>4, <1>8 DEF Alone
  <2>2. Own(r)
    BY <1>0, <1>1, <2>1, RecordTypes DEF ExecutionInv, OwnJobs
  <2> QED BY <1>0, <1>1, <1>4, <1>5, <2>2 DEF Own, Home
<1>9. Touches(r)
  <2>1. ASSUME NEW v \in Urls
        PROVE  IF v = records'[r].url
               THEN /\ jobs'[v] # NoJob => Owned(v)'
                    /\ arrived'[v].creds => arrived'[v].sent > 0
                    /\ Alone(r)' => Own(r)'
               ELSE jobs'[v] = jobs[v] /\ arrived'[v] = arrived[v]
    <3>1. CASE v = u
      BY <1>4, <1>5, <1>6, <1>7, <1>8, <3>1
    <3>2. CASE v # u
      BY <1>4, <1>5, <3>2
    <3> QED BY <3>1, <3>2
  <2> QED BY <1>0, <1>4, <1>5, <2>1 DEF Touches
<1> QED BY <1>3, <1>9, RecordKeepsInvariant

\* Whatever a record does.
LEMMA RecordStepKeepsInvariant ==
  ASSUME ExecutionInv, NEW r \in Inputs, RecordStep(r)
  PROVE  ExecutionInv'
BY StartStep, RegisteringSteps, SendStep, FailingSteps, CompletingSteps, PollStep,
   PollPendsStep, GiveUpStep, SendOwnCancelStep, OwnCancelEndsStep DEF RecordStep

-----------------------------------------------------------------------------
(* Cancellation by the execution, and its result                           *)

\* A step that moves no record: the map keeps its jobs and their owners, and what
\* the service gets is a cancellation of a job whose handle says so.
LEMMA QuietStep ==
  ASSUME ExecutionInv, UNCHANGED <<policy, records, outcomes>>, Running' => Running,
         \A u \in Urls :
           /\ jobs'[u] # NoJob <=> jobs[u] # NoJob
           /\ jobs[u] # NoJob =>
                /\ jobs'[u].owner = jobs[u].owner
                /\ jobs'[u].id = jobs[u].id
                /\ jobs'[u].requested \in {jobs[u].requested, jobs[u].id}
           /\ (jobs[u] # NoJob /\ jobs[u].accepted = "yes" => arrived[u].yes > 0) =>
                (jobs'[u] # NoJob /\ jobs'[u].accepted = "yes" => arrived'[u].yes > 0)
           /\ arrived'[u] # arrived[u] =>
                ~Running' /\ jobs[u] # NoJob /\ jobs[u].requested = jobs[u].id
           /\ arrived'[u].creds => arrived'[u].sent > 0
           /\ arrived'[u].creds => arrived[u].creds \/ CancelCreds(u)
  PROVE  RecordsAreSound' /\ TakenInOrder' /\ JobsHaveOwners' /\ OwnJobs'
<1>1. Inputs' = Inputs
  BY DEF Inputs
<1>2. RecordsAreSound'
  BY <1>1 DEF ExecutionInv, RecordsAreSound
<1>3. TakenInOrder'
  BY <1>1 DEF ExecutionInv, TakenInOrder, Waiting, Ended
<1>4. ASSUME NEW u \in Urls, jobs'[u] # NoJob PROVE Owned(u)'
  <2>1. Owned(u) /\ jobs'[u].owner = jobs[u].owner /\ jobs'[u].id = jobs[u].id
    BY <1>4 DEF ExecutionInv, JobsHaveOwners
  <2> QED BY <1>1, <2>1 DEF Owned
<1>5. ASSUME NEW u \in Urls, arrived'[u].sent > 0 \/ arrived'[u].yes > 0
      PROVE  \E r \in Inputs' : records'[r].url = u
  <2>1. CASE arrived'[u] = arrived[u]
    BY <1>1, <1>5, <2>1 DEF ExecutionInv, JobsHaveOwners
  <2>2. CASE arrived'[u] # arrived[u]
    <3>1. Owned(u)
      BY <2>2 DEF ExecutionInv, JobsHaveOwners
    <3> QED BY <1>1, <3>1 DEF Owned
  <2> QED BY <2>1, <2>2
<1>6. JobsHaveOwners'
  BY <1>4, <1>5 DEF JobsHaveOwners
<1>7. ASSUME NEW r \in Inputs, records[r].url # NoUrl, Alone(r)' PROVE Own(r)'
  <2>0. PICK u \in Urls : u = records[r].url
    BY <1>7, RecordTypes DEF RecordType
  <2>1. Alone(r)
    BY <1>1, <1>7 DEF Alone
  <2>2. Own(r)
    BY <1>7, <2>1 DEF ExecutionInv, OwnJobs
  <2>3. jobs[u] # NoJob => Owned(u) /\ jobs[u].owner = r
    BY <2>0, <2>1 DEF ExecutionInv, JobsHaveOwners, Owned, Alone
  <2>4. jobs'[u] # NoJob <=> records[r].job \in {"open", "unnamed"}
    BY <2>0, <2>2 DEF Own
  <2>5. jobs[u] # NoJob /\ jobs[u].requested = jobs[u].id => jobs'[u].requested = jobs'[u].id
    OBVIOUS
  <2>6. arrived'[u].sent > 0 =>
          /\ Running' => records[r].pc \in {"give up", "failed"}
          /\ records[r].job # "ended"
          /\ jobs'[u] # NoJob => jobs'[u].requested = jobs'[u].id
    <3>1. CASE arrived'[u] = arrived[u]
      BY <2>0, <2>2, <2>5, <3>1 DEF Own
    <3>2. CASE arrived'[u] # arrived[u]
      BY <2>0, <2>2, <2>5, <3>2 DEF Own
    <3> QED BY <3>1, <3>2
  <2>7. jobs'[u] # NoJob /\ jobs'[u].accepted = "yes" => arrived'[u].yes > 0
    BY <2>0, <2>2 DEF Own
  <2>8. arrived'[u].creds => Home(u) /\ ~records[r].revoked
    <3>1. CASE arrived'[u] = arrived[u]
      BY <2>0, <2>2, <3>1 DEF Own
    <3>2. CASE arrived'[u] # arrived[u]
      <4>1. CancelCreds(u) => Home(u) /\ ~records[r].revoked
        BY <2>3, <3>2 DEF CancelCreds
      <4>2. arrived[u].creds => Home(u) /\ ~records[r].revoked
        BY <2>0, <2>2 DEF Own
      <4> QED BY <4>1, <4>2
    <3> QED BY <3>1, <3>2
  <2>9. records[r].pc = "give up" =>
          /\ jobs'[u] # NoJob => jobs'[u].requested = jobs'[u].id
          /\ records[r].creds => Home(u) /\ ~records[r].revoked
    BY <2>0, <2>2, <2>5 DEF Own
  <2> QED BY <2>0, <2>4, <2>6, <2>7, <2>8, <2>9 DEF Own, Home
<1>8. OwnJobs'
  BY <1>1, <1>7 DEF OwnJobs
<1> QED BY <1>2, <1>3, <1>6, <1>8

\* Stop: every job in the map that is to be cancelled is so marked before the
\* first cancellation is sent.
LEMMA StopStep ==
  ASSUME ExecutionInv, NEW t \in {"cancellation", "deadline"}, Stop(t)
  PROVE  ExecutionInv'
<1> DEFINE chosen == {u \in Urls : jobs[u] # NoJob /\ t \in policy.triggers}
<1>1. /\ Running /\ phase' = "cancelling" /\ trigger' = t
      /\ jobs' = [u \in Urls |-> IF u \in chosen
                    THEN [jobs[u] EXCEPT !.requested = jobs[u].id] ELSE jobs[u]]
      /\ cancels' = [u \in Urls |-> IF u \in chosen THEN "queued" ELSE "none"]
      /\ UNCHANGED <<policy, records, outcomes, arrived, result>>
  BY DEF Stop
<1>2. ASSUME NEW u \in Urls
      PROVE  /\ jobs'[u] \in ActiveJob \cup {NoJob}
             /\ jobs'[u] # NoJob <=> jobs[u] # NoJob
             /\ jobs[u] # NoJob =>
                  /\ jobs'[u].owner = jobs[u].owner
                  /\ jobs'[u].id = jobs[u].id
                  /\ jobs'[u].accepted = jobs[u].accepted
                  /\ jobs'[u].requested \in {jobs[u].requested, jobs[u].id}
             /\ cancels'[u] \in {"none", "queued"}
             /\ cancels'[u] # "none" =>
                  jobs'[u] # NoJob /\ jobs'[u].requested = jobs'[u].id
  <2> DEFINE job == jobs[u]
             entry == [job EXCEPT !.requested = job.id]
  <2>1. job \in ActiveJob \cup {NoJob}
    BY DEF JobMap, ExecutionInv, ExecutionTypes
  <2>2. /\ jobs'[u] = IF u \in chosen THEN entry ELSE job
        /\ cancels'[u] = IF u \in chosen THEN "queued" ELSE "none"
        /\ u \in chosen => job # NoJob
    BY <1>1
  <2> HIDE DEF job, chosen
  <2>3. ASSUME job # NoJob
        PROVE  /\ entry \in ActiveJob /\ entry.owner = job.owner /\ entry.id = job.id
               /\ entry.accepted = job.accepted /\ entry.requested = entry.id
    <3>1. job \in ActiveJob
      BY <2>1, <2>3
    <3> QED BY <3>1 DEF ActiveJob
  <2> HIDE DEF entry
  <2>4. entry \in ActiveJob => entry # NoJob
    BY NoJobAssumption
  <2> QED BY <2>1, <2>2, <2>3, <2>4 DEF job
<1>3. RecordsAreSound' /\ TakenInOrder' /\ JobsHaveOwners' /\ OwnJobs'
  <2>1. ~Running'
    BY <1>1 DEF Running
  <2>2. \A u \in Urls : arrived'[u].creds => arrived'[u].sent > 0
    BY <1>1 DEF ExecutionInv, JobsHaveOwners
  <2> QED BY <1>1, <1>2, <2>1, <2>2, QuietStep
<1>4. ExecutionTypes'
  <2>1. Inputs' = Inputs
    BY <1>1 DEF Inputs
  <2>2. jobs' \in JobMap /\ cancels' \in [Urls -> {"none", "queued", "sent"}]
    BY <1>1, <1>2 DEF JobMap
  <2> QED BY <1>1, <2>1, <2>2 DEF ExecutionInv, ExecutionTypes
<1>5. Phases' /\ ResultIsOfThisState'
  BY <1>1, <1>2 DEF ExecutionInv, Phases, ResultIsOfThisState, Running
<1> QED BY <1>3, <1>4, <1>5 DEF ExecutionInv

\* SendCancel: prepared for the scope of the owner's chain as it is now.
LEMMA SendCancelStep ==
  ASSUME ExecutionInv, NEW u \in Urls, SendCancel(u)
  PROVE  ExecutionInv'
<1> DEFINE got == arrived[u]
           creds == CancelCreds(u)
           answer == [got EXCEPT !.sent = got.sent + 1, !.creds = creds]
<1>1. /\ cancels[u] = "queued" /\ cancels' = [cancels EXCEPT ![u] = "sent"]
      /\ arrived' = [arrived EXCEPT ![u] = answer]
      /\ UNCHANGED <<policy, phase, trigger, records, jobs, outcomes, result>>
  BY DEF SendCancel, CancelSent, ExecutionInv, ExecutionTypes
<1>2. phase = "cancelling" /\ jobs[u] # NoJob /\ jobs[u].requested = jobs[u].id /\ ~Running'
  BY <1>1 DEF ExecutionInv, Phases, Running
<1>3. got \in Arrival /\ arrived \in [Urls -> Arrival] /\ creds \in BOOLEAN
  BY DEF ExecutionInv, ExecutionTypes, CancelCreds
<1>4. cancels \in [Urls -> {"none", "queued", "sent"}] /\ jobs \in JobMap
  BY DEF ExecutionInv, ExecutionTypes
<1>5. \A v \in Urls : /\ arrived[v].creds => arrived[v].sent > 0
                      /\ cancels[v] # "none" => /\ phase = "cancelling" /\ jobs[v] # NoJob
                                                /\ jobs[v].requested = jobs[v].id
  BY DEF ExecutionInv, JobsHaveOwners, Phases
<1> HIDE DEF got, creds
<1>6. answer \in Arrival /\ answer.sent > 0 /\ answer.yes = got.yes /\ answer.creds = creds
  <2>1. got.sent + 1 \in Nat /\ got.sent + 1 > 0
    <3>1. got.sent \in Nat
      BY <1>3 DEF Arrival
    <3> QED BY <3>1
  <2> QED BY <1>3, <2>1 DEF Arrival
<1> HIDE DEF answer
<1>7. /\ arrived' \in [Urls -> Arrival] /\ arrived'[u] = answer
      /\ \A v \in Urls : v # u => arrived'[v] = arrived[v]
  BY <1>1, <1>3, <1>6
<1>8. /\ cancels' \in [Urls -> {"none", "queued", "sent"}]
      /\ \A v \in Urls : cancels'[v] # "none" => cancels[v] # "none"
  BY <1>1, <1>4
<1>9. RecordsAreSound' /\ TakenInOrder' /\ JobsHaveOwners' /\ OwnJobs'
  BY <1>1, <1>2, <1>5, <1>6, <1>7, QuietStep DEF got, creds
<1>10. ExecutionTypes'
  <2>1. Inputs' = Inputs
    BY <1>1 DEF Inputs
  <2> QED BY <1>1, <1>7, <1>8, <2>1 DEF ExecutionInv, ExecutionTypes
<1>11. Phases' /\ ResultIsOfThisState'
  BY <1>1, <1>2, <1>5, <1>8 DEF ExecutionInv, Phases, ResultIsOfThisState, Running
<1> QED BY <1>9, <1>10, <1>11 DEF ExecutionInv

\* CancelEnds: the answer is put in the handle.
LEMMA CancelEndsStep ==
  ASSUME ExecutionInv, NEW u \in Urls, CancelEnds(u)
  PROVE  ExecutionInv'
<1>1. /\ cancels[u] # "none" /\ cancels' = [cancels EXCEPT ![u] = "none"]
      /\ UNCHANGED <<policy, phase, trigger, records, outcomes, result>>
      /\ CancelAnswered(u) \/ (Accepted(u, "no") /\ UNCHANGED arrived)
  BY DEF CancelEnds
<1>2. phase = "cancelling" /\ jobs[u] # NoJob /\ jobs[u].requested = jobs[u].id /\ ~Running'
  BY <1>1 DEF ExecutionInv, Phases, Running
<1>3. cancels \in [Urls -> {"none", "queued", "sent"}]
  BY DEF ExecutionInv, ExecutionTypes
<1>4. \A v \in Urls : /\ arrived[v].creds => arrived[v].sent > 0
                      /\ cancels[v] # "none" => /\ phase = "cancelling" /\ jobs[v] # NoJob
                                                /\ jobs[v].requested = jobs[v].id
  BY DEF ExecutionInv, JobsHaveOwners, Phases
<1>5. /\ jobs' \in JobMap
      /\ arrived' \in [Urls -> Arrival]
      /\ \A v \in Urls : v # u => jobs'[v] = jobs[v] /\ arrived'[v] = arrived[v]
      /\ \A v \in Urls :
           /\ jobs'[v] # NoJob <=> jobs[v] # NoJob
           /\ jobs[v] # NoJob => /\ jobs'[v].owner = jobs[v].owner
                                 /\ jobs'[v].id = jobs[v].id
                                 /\ jobs'[v].requested = jobs[v].requested
           /\ arrived'[v].sent = arrived[v].sent
           /\ arrived'[v].creds = arrived[v].creds
      /\ (jobs[u] # NoJob /\ jobs[u].accepted = "yes" => arrived[u].yes > 0) =>
           (jobs'[u] # NoJob /\ jobs'[u].accepted = "yes" => arrived'[u].yes > 0)
  BY <1>1, AnswersAreTold
<1>6. /\ cancels' \in [Urls -> {"none", "queued", "sent"}]
      /\ \A v \in Urls : cancels'[v] # "none" => cancels[v] # "none"
  BY <1>1, <1>3
<1>7. RecordsAreSound' /\ TakenInOrder' /\ JobsHaveOwners' /\ OwnJobs'
  <2>1. ASSUME NEW v \in Urls
        PROVE  /\ jobs'[v] # NoJob <=> jobs[v] # NoJob
               /\ jobs[v] # NoJob =>
                    /\ jobs'[v].owner = jobs[v].owner
                    /\ jobs'[v].id = jobs[v].id
                    /\ jobs'[v].requested \in {jobs[v].requested, jobs[v].id}
               /\ (jobs[v] # NoJob /\ jobs[v].accepted = "yes" => arrived[v].yes > 0) =>
                    (jobs'[v] # NoJob /\ jobs'[v].accepted = "yes" => arrived'[v].yes > 0)
               /\ arrived'[v] # arrived[v] =>
                    ~Running' /\ jobs[v] # NoJob /\ jobs[v].requested = jobs[v].id
               /\ arrived'[v].creds => arrived'[v].sent > 0
               /\ arrived'[v].creds => arrived[v].creds \/ CancelCreds(v)
    <3>1. CASE v = u
      BY <1>2, <1>4, <1>5, <3>1
    <3>2. CASE v # u
      BY <1>4, <1>5, <3>2
    <3> QED BY <3>1, <3>2
  <2> QED BY <1>1, <1>2, <2>1, QuietStep
<1>8. ExecutionTypes'
  <2>1. Inputs' = Inputs
    BY <1>1 DEF Inputs
  <2> QED BY <1>1, <1>5, <1>6, <2>1 DEF ExecutionInv, ExecutionTypes
<1>9. Phases' /\ ResultIsOfThisState'
  BY <1>1, <1>2, <1>4, <1>5, <1>6 DEF ExecutionInv, Phases, ResultIsOfThisState, Running
<1> QED BY <1>7, <1>8, <1>9 DEF ExecutionInv

\* Everything but the phase, the cancellations in flight and the result is as it was.
LEMMA NothingMoves ==
  ASSUME ExecutionInv, UNCHANGED <<policy, records, outcomes, jobs, arrived>>,
         Running' => Running
  PROVE  RecordsAreSound' /\ TakenInOrder' /\ JobsHaveOwners' /\ OwnJobs' /\ Inputs' = Inputs
<1>1. \A v \in Urls : arrived[v].creds => arrived[v].sent > 0
  BY DEF ExecutionInv, JobsHaveOwners
<1>2. Inputs' = Inputs
  BY DEF Inputs
<1> QED BY <1>1, <1>2, QuietStep

\* BudgetEnds.
LEMMA BudgetEndsStep ==
  ASSUME ExecutionInv, BudgetEnds
  PROVE  ExecutionInv'
<1>1. /\ phase = "cancelling" /\ cancels' = [u \in Urls |-> "none"]
      /\ UNCHANGED <<policy, phase, trigger, records, jobs, outcomes, arrived, result>>
  BY DEF BudgetEnds
<1>2. RecordsAreSound' /\ TakenInOrder' /\ JobsHaveOwners' /\ OwnJobs' /\ Inputs' = Inputs
  BY <1>1, NothingMoves DEF Running
<1>3. ExecutionTypes'
  BY <1>1, <1>2 DEF ExecutionInv, ExecutionTypes
<1>4. Phases' /\ ResultIsOfThisState'
  BY <1>1 DEF ExecutionInv, Phases, ResultIsOfThisState, Running
<1> QED BY <1>2, <1>3, <1>4 DEF ExecutionInv

\* The result is made of what no longer changes.
LEMMA ResultStays ==
  ASSUME UNCHANGED <<policy, records, outcomes, jobs, arrived>>
  PROVE  /\ FullResult' = FullResult
         /\ \A v \in Variants : StoppedResult(v)' = StoppedResult(v)
         /\ Active' = Active /\ Inputs' = Inputs
         /\ \A r \in Inputs : MayStart(r)' <=> MayStart(r)
<1>1. Inputs' = Inputs /\ Active' = Active /\ \A r \in Inputs : MayStart(r)' <=> MayStart(r)
  BY DEF Inputs, Active, MayStart, Waiting, Ended
<1>2. Handles' = Handles /\ Sent' = Sent /\ \A u \in Urls : Job(u)' = Job(u)
  BY <1>1 DEF Handles, Sent, Job
<1>3. \A r \in Inputs : RecordError(r)' = RecordError(r)
  BY DEF RecordError
<1>4. \A v \in Variants \cup {"Runtime"} : OperationError(v)' = OperationError(v)
  BY <1>2 DEF OperationError
<1>5. Failures' = Failures
  BY <1>1 DEF Failures
<1> QED BY <1>1, <1>2, <1>3, <1>4, <1>5 DEF FullResult, StoppedResult, WithRecoveries, OperationError, RecordError, Job

\* Finish: nothing is moved any more, the result is made.
LEMMA FinishStep ==
  ASSUME ExecutionInv, Finish
  PROVE  ExecutionInv'
<1>1. /\ Running /\ phase' = "returned" /\ result' = FullResult
      /\ Active = {} /\ \A r \in Inputs : ~MayStart(r)
      /\ UNCHANGED <<policy, trigger, records, jobs, cancels, outcomes, arrived>>
  BY DEF Finish, FullResult, Failures
<1>2. RecordsAreSound' /\ TakenInOrder' /\ JobsHaveOwners' /\ OwnJobs' /\ Inputs' = Inputs
  BY <1>1, NothingMoves DEF Running
<1>3. ExecutionTypes'
  BY <1>1, <1>2 DEF ExecutionInv, ExecutionTypes
<1>4. Phases'
  BY <1>1 DEF ExecutionInv, Phases, Running
<1>5. ResultIsOfThisState'
  BY <1>1, ResultStays DEF ExecutionInv, Phases, ResultIsOfThisState, ReturnedInFull
<1> QED BY <1>2, <1>3, <1>4, <1>5 DEF ExecutionInv

\* FinishStopped.
LEMMA FinishStoppedStep ==
  ASSUME ExecutionInv, FinishStopped
  PROVE  ExecutionInv'
<1>1. /\ phase = "cancelling" /\ phase' = "returned"
      /\ \A u \in Urls : cancels[u] = "none"
      /\ \E v \in {"Timeout", "Cancelled"} : result' = StoppedResult(v)
      /\ UNCHANGED <<policy, trigger, records, jobs, cancels, outcomes, arrived>>
  BY DEF FinishStopped, StoppedResult
<1>2. RecordsAreSound' /\ TakenInOrder' /\ JobsHaveOwners' /\ OwnJobs' /\ Inputs' = Inputs
  BY <1>1, NothingMoves DEF Running
<1>3. ExecutionTypes'
  BY <1>1, <1>2 DEF ExecutionInv, ExecutionTypes
<1>4. Phases'
  BY <1>1 DEF ExecutionInv, Phases, Running
<1>5. ResultIsOfThisState'
  <2>1. {"Timeout", "Cancelled"} \subseteq Variants
    BY DEF Variants
  <2> QED BY <1>1, <2>1, ResultStays DEF ExecutionInv, Phases, ResultIsOfThisState, ReturnedStopped
<1> QED BY <1>2, <1>3, <1>4, <1>5 DEF ExecutionInv

-----------------------------------------------------------------------------
(* The invariant                                                           *)

\* At the start every record waits and nothing is there.
LEMMA ExecutionInitially == ExecutionInit => ExecutionInv
<1> SUFFICES ASSUME ExecutionInit PROVE ExecutionInv
  OBVIOUS
<1> DEFINE first == [pc |-> "waiting", net |-> "idle", polls |-> 0, url |-> NoUrl,
                     revoked |-> FALSE, creds |-> TRUE, error |-> "none",
                     entered |-> "none", sent |-> FALSE, job |-> "none"]
           silence == [yes |-> 0, no |-> 0, sent |-> 0, creds |-> FALSE]
<1>1. /\ first \in RecordType /\ Sound(first) /\ first.pc = "waiting" /\ first.url = NoUrl
      /\ silence \in Arrival /\ ~(silence.sent > 0) /\ ~(silence.yes > 0) /\ silence.creds = FALSE
  BY DEF RecordType, Sound, EndedIn, Arrival
<1>2. /\ records = [r \in Inputs |-> first] /\ arrived = [u \in Urls |-> silence]
      /\ jobs = [u \in Urls |-> NoJob] /\ cancels = [u \in Urls |-> "none"]
      /\ policy \in Policies /\ phase = "running" /\ trigger = "none"
      /\ outcomes = <<>> /\ result = NoResult
  BY DEF ExecutionInit
<1> HIDE DEF first, silence
<1>3. ExecutionTypes
  BY <1>1, <1>2 DEF ExecutionTypes, JobMap
<1>4. RecordsAreSound /\ OwnJobs
  BY <1>1, <1>2 DEF RecordsAreSound, OwnJobs
<1>5. TakenInOrder
  BY <1>1, <1>2 DEF TakenInOrder, Waiting, Ended
<1>6. JobsHaveOwners
  BY <1>1, <1>2 DEF JobsHaveOwners
<1>7. Phases /\ ResultIsOfThisState
  BY <1>2 DEF Phases, ResultIsOfThisState, Running
<1> QED BY <1>3, <1>4, <1>5, <1>6, <1>7 DEF ExecutionInv

\* Every step, and none.
LEMMA ExecutionStep == ExecutionInv /\ [ExecutionNext]_executionVars => ExecutionInv'
<1> SUFFICES ASSUME ExecutionInv, [ExecutionNext]_executionVars PROVE ExecutionInv'
  OBVIOUS
<1>1. ASSUME NEW r \in Inputs, RecordStep(r) PROVE ExecutionInv'
  BY <1>1, RecordStepKeepsInvariant
<1>2. ASSUME NEW t \in {"cancellation", "deadline"}, Stop(t) PROVE ExecutionInv'
  BY <1>2, StopStep
<1>3. ASSUME NEW u \in Urls, CancelStep(u) PROVE ExecutionInv'
  BY <1>3, SendCancelStep, CancelEndsStep DEF CancelStep
<1>4. ASSUME UNCHANGED executionVars PROVE ExecutionInv'
  <2>1. UNCHANGED <<policy, phase, trigger, records, jobs, cancels, outcomes, arrived, result>>
    BY <1>4 DEF executionVars
  <2>2. RecordsAreSound' /\ TakenInOrder' /\ JobsHaveOwners' /\ OwnJobs' /\ Inputs' = Inputs
    BY <2>1, NothingMoves DEF Running
  <2>3. ExecutionTypes'
    BY <2>1, <2>2 DEF ExecutionInv, ExecutionTypes
  <2>4. Phases'
    BY <2>1 DEF ExecutionInv, Phases, Running
  <2>5. ResultIsOfThisState'
    <3>1. {"Timeout", "Cancelled"} \subseteq Variants
      BY DEF Variants
    <3> QED BY <2>1, <3>1, ResultStays
          DEF ExecutionInv, ResultIsOfThisState, ReturnedInFull, ReturnedStopped
  <2> QED BY <2>2, <2>3, <2>4, <2>5 DEF ExecutionInv
<1> QED BY <1>1, <1>2, <1>3, <1>4, BudgetEndsStep, FinishStep, FinishStoppedStep
     DEF ExecutionNext

\* The invariant holds in every state of every execution.
THEOREM ExecutionInvariant == ExecutionSpec => []ExecutionInv
BY ExecutionInitially, ExecutionStep, PTL DEF ExecutionSpec

-----------------------------------------------------------------------------
(* What the invariant says of jobs, cancellations and credentials          *)

\* Where only one record polls, the job under the URL is that one's.
LEMMA OwnerOfOwnJob ==
  ASSUME ExecutionInv, NEW r \in Inputs, records[r].url # NoUrl, Alone(r),
         NEW u \in Urls, u = records[r].url, jobs[u] # NoJob
  PROVE  records[r].job = IF jobs[u].id THEN "open" ELSE "unnamed"
BY DEF ExecutionInv, JobsHaveOwners, Owned, Alone

\* What is in a result's handles is in the map.
LEMMA RecoveriesAreHandles ==
  ASSUME ExecutionInv, result # NoResult
  PROVE  result.recoveries = {Job(u) : u \in Kept(Handles)}
<1>1. phase = "returned"
  BY DEF ExecutionInv, Phases
<1>2. result = FullResult \/ \E v \in {"Timeout", "Cancelled"} : result = StoppedResult(v)
  BY <1>1 DEF ExecutionInv, ResultIsOfThisState, ReturnedInFull, ReturnedStopped
<1>3. FullResult.recoveries = {Job(u) : u \in Kept(Handles)}
  BY DEF FullResult, WithRecoveries
<1>4. \A v : StoppedResult(v).recoveries = {Job(u) : u \in Kept(Handles)}
  BY DEF StoppedResult, WithRecoveries
<1> QED BY <1>2, <1>3, <1>4

\* A record's handle is in the map exactly as long as its job may be running, and
\* in the result only then.
THEOREM OpenJobsReported == ExecutionSpec => []OpenJobsAreReported
<1>1. ExecutionInv => OpenJobsAreReported
  <2> SUFFICES ASSUME ExecutionInv, NEW r \in Inputs, records[r].url # NoUrl, Alone(r)
               PROVE  LET u == records[r].url
                      IN  /\ records[r].job = "open" <=> jobs[u] # NoJob /\ jobs[u].id
                          /\ result # NoResult /\ (\E h \in result.recoveries : h.url = u) =>
                               records[r].job = "open"
    BY DEF OpenJobsAreReported
  <2>1. PICK u \in Urls : u = records[r].url
    BY RecordTypes DEF RecordType
  <2>2. Own(r)
    BY DEF ExecutionInv, OwnJobs
  <2>3. records[r].job = "open" <=> jobs[u] # NoJob /\ jobs[u].id
    BY <2>1, <2>2, OwnerOfOwnJob DEF Own
  <2>4. ASSUME result # NoResult, NEW h \in result.recoveries, h.url = u
        PROVE  jobs[u] # NoJob /\ jobs[u].id
    <3>1. PICK k \in Kept(Handles) : h = Job(k)
      BY <2>4, RecoveriesAreHandles
    <3>2. k = u
      BY <2>4, <3>1 DEF Job
    <3> QED BY <3>1, <3>2 DEF Kept, Handles
  <2> QED BY <2>1, <2>3, <2>4
<1> QED BY <1>1, ExecutionInvariant, PTL

\* No job whose end was seen is cancelled, and a handle says what was asked of the
\* service and that it accepted only if it did.
THEOREM CancellationsTold == ExecutionSpec => []CancellationsAreTold
<1>1. ExecutionInv => CancellationsAreTold
  <2> SUFFICES ASSUME ExecutionInv, NEW r \in Inputs, records[r].url # NoUrl, Alone(r)
               PROVE  LET u == records[r].url
                      IN  /\ records[r].job = "ended" => arrived[u].sent = 0
                          /\ jobs[u] # NoJob /\ jobs[u].id =>
                               /\ arrived[u].sent > 0 => jobs[u].requested
                               /\ jobs[u].accepted = "yes" => arrived[u].yes > 0
    BY DEF CancellationsAreTold
  <2>1. PICK u \in Urls : u = records[r].url
    BY RecordTypes DEF RecordType
  <2>2. Own(r)
    BY DEF ExecutionInv, OwnJobs
  <2>3. arrived[u].sent \in Nat
    BY RecordTypes DEF Arrival
  <2>4. /\ records[r].job = "ended" => ~(arrived[u].sent > 0)
        /\ jobs[u] # NoJob /\ jobs[u].id =>
             /\ arrived[u].sent > 0 => jobs[u].requested
             /\ jobs[u].accepted = "yes" => arrived[u].yes > 0
    BY <2>1, <2>2 DEF Own
  <2> QED BY <2>1, <2>3, <2>4
<1> QED BY <1>1, ExecutionInvariant, PTL

\* No request, and no cancellation, takes the caller's credentials out of the
\* chain's origin.
THEOREM CredentialsAreHome == ExecutionSpec => []CredentialsStayHome
<1>1. ExecutionInv => CredentialsStayHome
  <2> SUFFICES ASSUME ExecutionInv, NEW r \in Inputs, Alone(r)
               PROVE  /\ records[r].net # "idle" => ~(records[r].creds /\ records[r].revoked)
                      /\ records[r].url # NoUrl /\ arrived[records[r].url].creds =>
                           Home(records[r].url) /\ ~records[r].revoked
    BY DEF CredentialsStayHome
  <2>1. records[r].url # NoUrl => Own(r)
    BY DEF ExecutionInv, OwnJobs
  <2> QED BY <2>1, RecordTypes DEF Own, Sound
<1> QED BY <1>1, ExecutionInvariant, PTL

-----------------------------------------------------------------------------
(* What is in order                                                        *)

\* Each member of a set of numbers has its place in InOrder, and they increase.
LEMMA InOrderListsTheSet ==
  ASSUME NEW S \in SUBSET Nat, IsFiniteSet(S)
  PROVE  /\ Cardinality(S) \in Nat
         /\ DOMAIN InOrder(S) = 1..Cardinality(S)
         /\ \A i \in 1..Cardinality(S) :
              /\ InOrder(S)[i] \in S
              /\ Cardinality({q \in S : q < InOrder(S)[i]}) = i - 1
         /\ \A r \in S : \E i \in 1..Cardinality(S) : InOrder(S)[i] = r
         /\ \A i, j \in 1..Cardinality(S) : i < j => InOrder(S)[i] < InOrder(S)[j]
<1> DEFINE Below(r) == {q \in S : q < r}
           n == Cardinality(S)
           rank == [r \in S |-> Cardinality(Below(r)) + 1]
<1>0. \A x \in S : x \in Nat
  OBVIOUS
<1>1. n \in Nat /\ IsFiniteSet(1..n) /\ Cardinality(1..n) = n
  <2>1. n \in Nat
    BY FS_CardinalityType
  <2> QED BY <2>1, FS_Interval
<1>2. ASSUME NEW r \in S
      PROVE  /\ Cardinality(Below(r)) \in Nat /\ IsFiniteSet(Below(r))
             /\ Cardinality(Below(r)) < n
  <2>1. IsFiniteSet(S \ {r}) /\ Cardinality(S \ {r}) = n - 1
    BY FS_RemoveElement
  <2>2. Below(r) \in SUBSET (S \ {r})
    OBVIOUS
  <2>3. IsFiniteSet(Below(r)) /\ Cardinality(Below(r)) <= Cardinality(S \ {r})
    BY <2>1, <2>2, FS_Subset
  <2>4. Cardinality(Below(r)) \in Nat
    BY <2>3, FS_CardinalityType
  <2> QED BY <1>1, <2>1, <2>3, <2>4
<1>3. ASSUME NEW r \in S, NEW s \in S, r < s
      PROVE  Cardinality(Below(r)) < Cardinality(Below(s))
  <2>1. Below(r) \in SUBSET Below(s) /\ r \in Below(s) /\ r \notin Below(r)
    <3>1. \A q \in S : q < r => q < s
      BY <1>0, <1>3
    <3>2. ~(r < r)
      BY <1>0
    <3> QED BY <1>3, <3>1, <3>2
  <2>2. Cardinality(Below(r)) <= Cardinality(Below(s))
        /\ (Cardinality(Below(r)) = Cardinality(Below(s)) => Below(r) = Below(s))
    BY <1>2, <2>1, FS_Subset
  <2> QED BY <1>2, <2>1, <2>2
<1> HIDE DEF n, Below
<1>4. rank \in [S -> 1..n]
  BY <1>1, <1>2
<1>5. rank \in Injection(S, 1..n)
  <2>1. ASSUME NEW r \in S, NEW s \in S, rank[r] = rank[s] PROVE r = s
    <3>1. Cardinality(Below(r)) = Cardinality(Below(s))
      BY <1>2, <2>1
    <3> QED BY <1>2, <1>3, <3>1
  <2> QED BY <1>4, <2>1 DEF Injection, IsInjective
<1>6. rank \in Surjection(S, 1..n)
  BY <1>1, <1>5, FS_Injection DEF n
<1>7. ASSUME NEW i \in 1..n
      PROVE  InOrder(S)[i] \in S /\ Cardinality(Below(InOrder(S)[i])) = i - 1
  <2>1. PICK r \in S : rank[r] = i
    BY <1>6 DEF Surjection
  <2>2. Cardinality(Below(r)) = i - 1
    BY <1>1, <1>2, <2>1
  <2>3. InOrder(S)[i] = CHOOSE q \in S : Cardinality(Below(q)) = i - 1
    BY DEF InOrder, n, Below
  <2> QED BY <2>2, <2>3
<1>8. ASSUME NEW r \in S PROVE \E i \in 1..n : InOrder(S)[i] = r
  <2>1. rank[r] \in 1..n /\ rank[r] = Cardinality(Below(r)) + 1
    BY <1>4
  <2>2. InOrder(S)[rank[r]] \in S /\ Cardinality(Below(InOrder(S)[rank[r]])) = rank[r] - 1
    BY <1>7, <2>1
  <2>3. Cardinality(Below(InOrder(S)[rank[r]])) = Cardinality(Below(r))
    BY <1>2, <2>1, <2>2
  <2>4. InOrder(S)[rank[r]] = r
    <3>1. PICK q \in S : q = InOrder(S)[rank[r]]
      BY <2>2
    <3>2. ~(q < r) /\ ~(r < q)
      BY <1>2, <1>3, <2>3, <3>1
    <3> QED BY <1>0, <3>1, <3>2
  <2> QED BY <2>1, <2>4
<1>9. ASSUME NEW i \in 1..n, NEW j \in 1..n, i < j PROVE InOrder(S)[i] < InOrder(S)[j]
  <2>1. Cardinality(Below(InOrder(S)[i])) = i - 1 /\ Cardinality(Below(InOrder(S)[j])) = j - 1
        /\ InOrder(S)[i] \in S /\ InOrder(S)[j] \in S
    BY <1>7
  <2>2. CASE InOrder(S)[j] < InOrder(S)[i]
    <3>1. j - 1 < i - 1
      BY <1>3, <2>1, <2>2
    <3> QED BY <1>1, <1>9, <3>1
  <2>3. CASE InOrder(S)[j] = InOrder(S)[i]
    <3>1. j - 1 = i - 1
      BY <2>1, <2>3
    <3> QED BY <1>1, <1>9, <3>1
  <2>4. PICK r \in S, s \in S : r = InOrder(S)[i] /\ s = InOrder(S)[j]
    BY <2>1
  <2>5. r < s \/ s < r \/ s = r
    BY <1>0
  <2> QED BY <2>2, <2>3, <2>4, <2>5
<1>10. DOMAIN InOrder(S) = 1..n
  BY DEF InOrder, n
<1> QED BY <1>1, <1>7, <1>8, <1>9, <1>10 DEF n, Below

\* The first numbers are in order as they are.
LEMMA FirstInOrder ==
  ASSUME NEW n \in Nat
  PROVE  InOrder(1..n) = [i \in 1..n |-> i]
<1>1. IsFiniteSet(1..n) /\ Cardinality(1..n) = n /\ 1..n \in SUBSET Nat
  BY FS_Interval
<1>2. ASSUME NEW i \in 1..n PROVE InOrder(1..n)[i] = i
  <2>1. InOrder(1..n)[i] \in 1..n /\ Cardinality({q \in 1..n : q < InOrder(1..n)[i]}) = i - 1
    BY <1>1, InOrderListsTheSet
  <2>2. PICK r \in 1..n : r = InOrder(1..n)[i]
    BY <2>1
  <2>3. {q \in 1..n : q < r} = 1..(r - 1)
    OBVIOUS
  <2>4. Cardinality(1..(r - 1)) = r - 1
    BY FS_Interval
  <2>5. r - 1 = i - 1
    BY <2>1, <2>2, <2>3, <2>4
  <2> QED BY <2>2, <2>5
<1> DEFINE place(i) == CHOOSE r \in 1..n : Cardinality({q \in 1..n : q < r}) = i - 1
<1>3. InOrder(1..n) = [i \in 1..n |-> place(i)]
  BY <1>1 DEF InOrder
<1> HIDE DEF place
<1> QED BY <1>2, <1>3

\* A set of numbers has a least one.
LEMMA Least ==
  ASSUME NEW T \in SUBSET Nat, T # {}
  PROVE  \E m \in T : \A k \in T : m <= k
<1> DEFINE R == OpToRel(<, Nat)
<1>1. IsWellFoundedOn(R, Nat)
  BY NatLessThanWellFounded
<1>2. ASSUME NEW x \in Nat, NEW y \in Nat, x < y PROVE <<x, y>> \in R
  BY <1>2 DEF OpToRel
<1> HIDE DEF R
<1>3. PICK m \in T : \A k \in T : ~(<<k, m>> \in R)
  BY <1>1, WFMin
<1>5. ASSUME NEW k \in T PROVE m <= k
  <2>1. m \in Nat /\ k \in Nat
    OBVIOUS
  <2>2. ~ (k < m)
    BY <1>2, <1>3, <2>1
  <2> QED BY <2>1, <2>2
<1> QED BY <1>5

-----------------------------------------------------------------------------
(* What the result says                                                    *)

\* The inputs are finitely many numbers, and so are those that failed.
LEMMA FiniteInputs ==
  ASSUME ExecutionInv
  PROVE  /\ policy.records \in Nat /\ policy.concurrency > 0
         /\ Inputs \in SUBSET Nat /\ IsFiniteSet(Inputs)
         /\ Failures \in SUBSET Nat /\ IsFiniteSet(Failures)
<1>1. policy.records \in Nat /\ policy.concurrency \in Nat \ {0}
  BY PoliciesAreLegal DEF ExecutionInv, ExecutionTypes, Policy
<1>2. IsFiniteSet(Inputs)
  BY <1>1, FS_Interval DEF Inputs
<1>3. \A r \in Inputs : r \in Nat
  BY <1>1 DEF Inputs
<1>4. Failures \in SUBSET Inputs
  BY DEF Failures
<1>5. IsFiniteSet(Failures)
  BY <1>2, <1>4, FS_Subset
<1> QED BY <1>1, <1>2, <1>3, <1>4, <1>5

\* What was placed is what ended, and what failed.
LEMMA PlacedOutcomes ==
  ASSUME ExecutionInv
  PROVE  /\ Placed(outcomes, Inputs) = InOrder({r \in Inputs : Ended(r)})
         /\ Placed(outcomes, Failures) = InOrder(Failures)
<1>1. \A r \in Inputs : Ended(r) <=> \E i \in DOMAIN outcomes : outcomes[i] = r
  BY DEF ExecutionInv, TakenInOrder
<1>2. \A i \in DOMAIN outcomes : outcomes[i] \in Inputs
  BY DEF ExecutionInv, ExecutionTypes
<1>3. DOMAIN outcomes = 1..Len(outcomes)
  BY DEF ExecutionInv, ExecutionTypes
<1>4. ToSet(outcomes) = {r \in Inputs : Ended(r)}
  BY <1>1, <1>2 DEF ToSet
<1>5. ToSet(outcomes) \cap Inputs = {r \in Inputs : Ended(r)}
      /\ ToSet(outcomes) \cap Failures = Failures
  BY <1>4 DEF Failures, Ended
<1> QED BY <1>5 DEF Placed

\* A handle is the one of a record, each of another.
LEMMA HandlesAreFinite ==
  ASSUME ExecutionInv
  PROVE  IsFiniteSet(Handles)
<1> DEFINE polled == [r \in Inputs |-> records[r].url]
           T == {polled[r] : r \in Inputs}
<1>1. polled \in Surjection(Inputs, T)
  BY DEF Surjection
<1>2. IsFiniteSet(T)
  BY <1>1, FiniteInputs, FS_Surjection
<1>3. ASSUME NEW u \in Handles PROVE u \in T
  <2>1. Owned(u)
    BY DEF Handles, ExecutionInv, JobsHaveOwners
  <2> QED BY <2>1 DEF Owned
<1>4. Handles \in SUBSET T
  BY <1>3
<1> HIDE DEF T
<1> QED BY <1>2, <1>4, FS_Subset

\* A job left in the map of an execution that returned in full is of a record that
\* failed.
LEMMA HandlesComeWithFailures ==
  ASSUME ExecutionInv, ReturnedInFull, Handles # {}
  PROVE  Failures # {}
<1>1. PICK u \in Handles : TRUE
  OBVIOUS
<1>2. u \in Urls /\ Owned(u) /\ jobs[u].id
  BY DEF Handles, ExecutionInv, JobsHaveOwners
<1>3. PICK r \in Inputs : records[r].job = "open"
  BY <1>2 DEF Owned
<1>4. Sound(records[r]) /\ (Waiting(r) \/ Ended(r))
  BY RecordTypes DEF ReturnedInFull, Active
<1>5. records[r].pc = "failed"
  BY <1>3, <1>4 DEF Sound, Waiting, Ended
<1> QED BY <1>5 DEF Failures

\* Errors at the places of an index, and a result that tells them.
ListOf(errors, n, index, told) == errors = [i \in 1..n |-> At(index[i], told[i])]

Tells(execution, n, index, told) ==
  /\ execution.errors \in Seq({execution.errors[i] : i \in 1..n})
  /\ Len(execution.errors) = n
  /\ \A i \in 1..n : /\ execution.errors[i].index = index[i]
                     /\ execution.errors[i].axes = told[i]
  /\ \A u \in Handles : u \in Kept(Handles) \/ execution.errors[1].omitted > 0

\* The errors of a result are the given ones, the first with the count of the
\* handles left out: a handle is in the result or counted there.
LEMMA ErrorsWithRecoveries ==
  ASSUME ExecutionInv, NEW status, NEW output, NEW n \in Nat, NEW index, NEW told, NEW errors,
         ListOf(errors, n, index, told), Handles # {} => n > 0
  PROVE  /\ WithRecoveries(status, output, errors).output = output
         /\ WithRecoveries(status, output, errors).status = status
         /\ Tells(WithRecoveries(status, output, errors), n, index, told)
<1>0. PICK w : w = WithRecoveries(status, output, errors)
  OBVIOUS
<1> DEFINE rest == Handles \ Kept(Handles)
           omitted == Cardinality(rest)
           counted == [errors EXCEPT ![1].omitted = omitted]
<1>1. IsFiniteSet(rest)
  BY HandlesAreFinite, FS_Difference
<1>2. omitted \in Nat /\ (omitted = 0 <=> rest = {})
  BY <1>1, FS_CardinalityType, FS_EmptySet
<1>3. omitted > 0 => errors # <<>>
  <2>1. omitted > 0 => n > 0
    BY <1>2
  <2> QED BY <2>1 DEF ListOf
<1> HIDE DEF omitted
<1>4. /\ w.status = status /\ w.output = output
      /\ w.errors = IF omitted = 0 THEN errors ELSE counted
  BY <1>0, <1>3 DEF WithRecoveries, omitted
<1>5. ASSUME NEW i \in 1..n
      PROVE  /\ errors[i] = At(index[i], told[i])
             /\ errors[i].index = index[i] /\ errors[i].axes = told[i]
  BY DEF At, ListOf
<1>6. CASE omitted = 0
  <2>1. w.errors = errors /\ \A u \in Handles : u \in Kept(Handles)
    BY <1>2, <1>4, <1>6
  <2>2. errors \in Seq({errors[i] : i \in 1..n}) /\ Len(errors) = n
    BY DEF ListOf
  <2> QED BY <1>0, <1>4, <1>5, <2>1, <2>2 DEF Tells
<1>7. CASE omitted # 0
  <2>1. n > 0 /\ 1 \in 1..n
    BY <1>2, <1>7
  <2> DEFINE first == At(index[1], told[1])
             full == [first EXCEPT !.omitted = omitted]
  <2>2. errors[1] = first /\ DOMAIN errors = 1..n
    BY <1>5, <2>1 DEF ListOf
  <2>3. counted = [errors EXCEPT ![1] = full]
    BY <2>2
  <2>4. full.index = index[1] /\ full.axes = told[1] /\ full.omitted = omitted
    BY DEF At
  <2> HIDE DEF full, counted
  <2>5. /\ DOMAIN counted = 1..n /\ counted[1] = full
        /\ \A i \in 1..n : i # 1 => counted[i] = errors[i]
        /\ counted = [i \in 1..n |-> counted[i]]
    BY <2>1, <2>2, <2>3
  <2>6. w.errors = counted
    BY <1>4, <1>7
  <2>7. counted \in Seq({counted[i] : i \in 1..n}) /\ Len(counted) = n
    BY <2>5
  <2>8. ASSUME NEW i \in 1..n
        PROVE  counted[i].index = index[i] /\ counted[i].axes = told[i]
    <3>1. CASE i = 1
      BY <2>4, <2>5, <3>1
    <3>2. CASE i # 1
      BY <1>5, <2>5, <3>2
    <3> QED BY <3>1, <3>2
  <2>9. counted[1].omitted > 0
    BY <1>2, <1>7, <2>4, <2>5
  <2> QED BY <1>0, <1>4, <2>6, <2>7, <2>8, <2>9 DEF Tells
<1> QED BY <1>6, <1>7

\* What the error of the i-th of some records says.
ToldOf(listed) ==
  [i \in DOMAIN listed |-> Reported(records[listed[i]].error, records[listed[i]].entered,
                                    records[listed[i]].sent)]

\* The result of an execution none of whose records was dropped.
LEMMA FullResultSays ==
  ASSUME ExecutionInv, ReturnedInFull
  PROVE  /\ Cardinality(Failures) \in Nat
         /\ DOMAIN InOrder(Failures) = 1..Cardinality(Failures)
         /\ \A i \in 1..Cardinality(Failures) : InOrder(Failures)[i] \in Failures
         /\ Handles # {} => Cardinality(Failures) > 0
         /\ result.output = InOrder({r \in Inputs : Ended(r)})
         /\ Tells(result, Cardinality(Failures), InOrder(Failures), ToldOf(InOrder(Failures)))
<1> DEFINE n == Cardinality(Failures)
           failed == InOrder(Failures)
           ordered == InOrder({r \in Inputs : Ended(r)})
           told == ToldOf(failed)
           errors == [i \in DOMAIN failed |-> RecordError(failed[i])]
           status == Status(ordered, failed)
<1>1. /\ n \in Nat /\ DOMAIN failed = 1..n
      /\ \A i \in 1..n : failed[i] \in Failures
      /\ IsFiniteSet(Failures)
  BY FiniteInputs, InOrderListsTheSet
<1>2. result = WithRecoveries(status, ordered, errors)
  BY PlacedOutcomes DEF ReturnedInFull, FullResult
<1>3. ListOf(errors, n, failed, told)
  <2> HIDE DEF failed, n
  <2>1. ASSUME NEW i \in 1..n PROVE RecordError(failed[i]) = At(failed[i], told[i])
    BY <1>1 DEF RecordError, ToldOf
  <2> HIDE DEF told
  <2>2. errors = [i \in 1..n |-> RecordError(failed[i])]
    BY <1>1
  <2>3. \A i \in 1..n : errors[i] = At(failed[i], told[i])
    BY <2>1, <2>2
  <2>4. errors = [i \in 1..n |-> errors[i]]
    BY <2>2
  <2> HIDE DEF errors
  <2> QED BY <2>3, <2>4 DEF ListOf
<1>4. Handles # {} => n > 0
  <2>1. Failures # {} => n # 0
    BY <1>1, FS_EmptySet
  <2> QED BY <1>1, <2>1, HandlesComeWithFailures
<1> HIDE DEF status, ordered, errors, failed, n, told
<1>5. result.output = ordered /\ Tells(result, n, failed, told)
  <2>1. n \in Nat
    BY <1>1
  <2>2. /\ WithRecoveries(status, ordered, errors).output = ordered
        /\ Tells(WithRecoveries(status, ordered, errors), n, failed, told)
    BY <1>3, <1>4, <2>1, ErrorsWithRecoveries
  <2> QED BY <1>2, <2>2
<1> QED BY <1>1, <1>4, <1>5 DEF n, failed, ordered, told

\* The result of one that was stopped.
LEMMA StoppedResultSays ==
  ASSUME ExecutionInv, NEW variant, result = StoppedResult(variant)
  PROVE  Tells(result, 1, <<0>>, <<Reported(variant, "none", Sent)>>)
<1> DEFINE told == <<Reported(variant, "none", Sent)>>
           errors == <<OperationError(variant)>>
           none == <<>>
           index == <<0>>
<1>1. ListOf(errors, 1, index, told)
  BY DEF OperationError, ListOf
<1>2. result = WithRecoveries("failed", none, errors)
  BY DEF StoppedResult
<1> HIDE DEF errors, none, index, told
<1>3. 1 \in Nat /\ 1 > 0
  OBVIOUS
<1>4. Tells(result, 1, index, told)
  BY <1>1, <1>2, <1>3, ErrorsWithRecoveries
<1> QED BY <1>4 DEF index, told

\* No error says that a retry is safe, or that nothing was done or tried, once a
\* request was sent; none but Runtime's is internal.
LEMMA ReportedOnceSent ==
  ASSUME NEW v \in Variants, NEW entered \in {"none", "connect", "read"}, NEW sent \in BOOLEAN
  PROVE  LET error == Reported(v, entered, sent)
         IN  /\ error.effect = "none" \/ error.retry = "safe" \/ error.phase = "validate" => ~sent
             /\ v # "Runtime" => error.category # "internal"
<1> DEFINE raised == ErrorOf(v)
           entering == NormalizePhase(raised, entered)
           error == Reported(v, entered, sent)
<1>1. RemoteEffect(v) # "none" => RetryAdvice(v) # "safe" /\ Phase(v) # "validate"
  BY DEF Variants, RemoteEffect, RetryAdvice, Phase
<1>2. v # "Runtime" => Category(v) # "internal"
  BY DEF Variants, Category
<1>3. /\ raised.category = Category(v) /\ raised.effect = RemoteEffect(v)
      /\ raised.retry = RetryAdvice(v) /\ raised.phase = Phase(v)
      /\ raised = [category |-> Category(v), phase |-> Phase(v),
                   effect |-> RemoteEffect(v), retry |-> RetryAdvice(v)]
  BY DEF ErrorOf
<1>4. /\ entering.category = raised.category /\ entering.effect = raised.effect
      /\ entering.retry = raised.retry
      /\ entering.phase \in {raised.phase, entered}
      /\ entering.phase # raised.phase => raised.phase = "validate"
  BY <1>3 DEF NormalizePhase
<1>5. CASE ~sent
  BY <1>2, <1>3, <1>4, <1>5 DEF Reported
<1>6. CASE sent
  <2>1. error = AfterSentRequest(entering)
    BY <1>6 DEF Reported
  <2>2. CASE entering.effect # "none"
    BY <1>1, <1>2, <1>3, <1>4, <2>1, <2>2 DEF AfterSentRequest
  <2>3. CASE entering.effect = "none"
    BY <1>2, <1>3, <1>4, <2>1, <2>3 DEF AfterSentRequest, NormalizePhase
  <2> QED BY <2>2, <2>3
<1> QED BY <1>5, <1>6

\* An execution returned in full, or was stopped.
LEMMA TwoResults ==
  ASSUME ExecutionInv, result # NoResult
  PROVE  /\ trigger = "none" => ReturnedInFull
         /\ trigger # "none" => \E v \in {"Timeout", "Cancelled"} : result = StoppedResult(v)
BY DEF ExecutionInv, Phases, ResultIsOfThisState, ReturnedStopped

\* What an error says of its record, or of the execution that was stopped.
LEMMA ErrorsOfResult ==
  ASSUME ExecutionInv, result # NoResult, NEW i \in DOMAIN result.errors
  PROVE  LET error == result.errors[i].axes
             sent  == IF trigger = "none" THEN records[result.errors[i].index].sent ELSE Sent
         IN  /\ error.effect = "none" \/ error.retry = "safe" \/ error.phase = "validate" => ~sent
             /\ error.category # "internal"
<1> DEFINE error == result.errors[i]
<1>1. CASE trigger = "none"
  <2> DEFINE n == Cardinality(Failures)
             failed == InOrder(Failures)
             told == ToldOf(failed)
             record == records[failed[i]]
  <2>1. /\ n \in Nat /\ DOMAIN failed = 1..n
        /\ \A k \in 1..n : failed[k] \in Failures
        /\ Tells(result, n, failed, told)
    BY <1>1, TwoResults, FullResultSays
  <2> HIDE DEF n, failed
  <2>2. i \in 1..n
    BY <2>1 DEF Tells
  <2>3. told[i] = Reported(record.error, record.entered, record.sent)
    BY <2>1, <2>2 DEF ToldOf
  <2>4. failed[i] \in Inputs /\ record.pc = "failed" /\ record \in RecordType /\ Sound(record)
    BY <2>1, <2>2, RecordTypes DEF Failures
  <2>5. /\ record.error \in Variants /\ record.error # "Runtime"
        /\ record.entered \in {"none", "connect", "read"} /\ record.sent \in BOOLEAN
    BY <2>4 DEF RecordType, Sound
  <2> HIDE DEF told
  <2>6. error.index = failed[i] /\ error.axes = told[i]
    BY <2>2, <2>1 DEF Tells
  <2>7. /\ told[i].effect = "none" \/ told[i].retry = "safe" \/ told[i].phase = "validate" =>
             ~record.sent
        /\ told[i].category # "internal"
    BY <2>3, <2>5, ReportedOnceSent
  <2> QED BY <1>1, <2>6, <2>7
<1>2. CASE trigger # "none"
  <2>1. PICK v \in {"Timeout", "Cancelled"} : result = StoppedResult(v)
    BY <1>2, TwoResults
  <2> DEFINE told == Reported(v, "none", Sent)
  <2>2. Tells(result, 1, <<0>>, <<told>>)
    BY <2>1, StoppedResultSays
  <2>3. v \in Variants /\ v # "Runtime" /\ Sent \in BOOLEAN
    BY DEF Variants, Sent
  <2>4. /\ told.effect = "none" \/ told.retry = "safe" \/ told.phase = "validate" => ~Sent
        /\ told.category # "internal"
    BY <2>3, ReportedOnceSent
  <2> HIDE DEF told
  <2>5. i = 1
    BY <2>2 DEF Tells
  <2>6. error.axes = told
    <3>1. <<told>>[1] = told /\ 1 \in 1..1
      OBVIOUS
    <3> QED BY <2>2, <2>5, <3>1 DEF Tells
  <2> QED BY <1>2, <2>4, <2>6
<1> QED BY <1>1, <1>2

\* No error of a result lets the caller believe that nothing was sent when it was.
THEOREM EffectTold == ExecutionSpec => []EffectIsTold
<1>1. ExecutionInv => EffectIsTold
  BY ErrorsOfResult DEF EffectIsTold
<1> QED BY <1>1, ExecutionInvariant, PTL

\* Each record that was taken has its outcome at its own place, and each that
\* failed its error, in order.
THEOREM OneOutcomeEach == ExecutionSpec => []OneOutcomePerRecord
<1>1. ExecutionInv => OneOutcomePerRecord
  <2> SUFFICES ASSUME ExecutionInv, result # NoResult, trigger = "none"
               PROVE  /\ \E n \in 0..policy.records :
                           /\ result.output = [i \in 1..n |-> i]
                           /\ n < policy.records => records[n].pc = "failed" /\ ~policy.continue
                      /\ \A i, j \in DOMAIN result.errors :
                           i < j => result.errors[i].index < result.errors[j].index
                      /\ {result.errors[i].index : i \in DOMAIN result.errors} = Failures
    BY DEF OneOutcomePerRecord, Failures
  <2>1. ReturnedInFull
    BY TwoResults
  <2>2. /\ policy.records \in Nat /\ policy.concurrency > 0
        /\ Inputs = 1..policy.records /\ \A r \in Inputs : r \in Nat
        /\ Failures \in SUBSET Nat /\ IsFiniteSet(Failures)
    BY FiniteInputs DEF Inputs
  <2>3. /\ Active = {} /\ \A r \in Inputs : ~MayStart(r) /\ (Waiting(r) \/ Ended(r))
    BY <2>1 DEF ReturnedInFull, Active
  <2>4. result.output = InOrder({r \in Inputs : Ended(r)})
    BY <2>1, FullResultSays
  <2>5. \E n \in 0..policy.records :
          /\ result.output = [i \in 1..n |-> i]
          /\ n < policy.records => records[n].pc = "failed" /\ ~policy.continue
    <3> DEFINE W == {r \in Inputs : Waiting(r)}
    <3>1. CASE W = {}
      <4>1. {r \in Inputs : Ended(r)} = 1..policy.records
        BY <2>2, <2>3, <3>1
      <4>2. result.output = [i \in 1..policy.records |-> i]
        BY <2>2, <2>4, <4>1, FirstInOrder
      <4>3. policy.records \in 0..policy.records /\ ~(policy.records < policy.records)
        BY <2>2
      <4> QED BY <4>2, <4>3
    <3>2. CASE W # {}
      <4>1. W \in SUBSET Nat
        BY <2>2
      <4>2. PICK w \in W : \A q \in W : w <= q
        BY <3>2, <4>1, Least
      <4>3. /\ w \in Inputs /\ w \in Nat /\ w >= 1 /\ w - 1 \in 0..policy.records
            /\ w - 1 \in Nat /\ w - 1 < policy.records
        BY <2>2, <4>2
      <4>4. \A q \in Inputs : q < w => Ended(q) /\ ~Waiting(q)
        BY <2>2, <2>3, <4>2, <4>3
      <4>5. \A q \in Inputs : ~(q < w) => Waiting(q)
        BY <2>2, <4>2, <4>3 DEF ExecutionInv, TakenInOrder
      <4>6. {r \in Inputs : Ended(r)} = 1..(w - 1)
        <5>1. \A q \in Inputs : Waiting(q) => ~Ended(q)
          BY DEF Waiting, Ended
        <5>2. \A q \in Nat : q \in 1..(w - 1) <=> q \in Inputs /\ q < w
          BY <2>2, <4>3
        <5> QED BY <2>2, <4>4, <4>5, <5>1, <5>2
      <4>7. result.output = [i \in 1..(w - 1) |-> i]
        BY <2>4, <4>3, <4>6, FirstInOrder
      <4>8. ~policy.continue /\ \E q \in Inputs : records[q].pc = "failed"
        <5>1. ~MayStart(w) /\ Waiting(w) /\ \A q \in 1..(w - 1) : ~Waiting(q)
          BY <2>2, <2>3, <4>2, <4>3, <4>4
        <5>2. Cardinality(Active) = 0
          BY <2>3, FS_EmptySet
        <5> QED BY <2>2, <2>3, <5>1, <5>2 DEF MayStart
      <4>9. PICK q \in Inputs : records[q].pc = "failed"
        BY <4>8
      <4>10. q < w /\ q \in Nat /\ q >= 1
        BY <2>2, <4>5, <4>9 DEF Waiting
      <4>11. w - 1 \in Inputs /\ ~Waiting(w - 1)
        BY <2>2, <4>3, <4>4, <4>10
      <4>12. q = w - 1
        <5>1. ~(q < w - 1)
          BY <4>8, <4>9, <4>11 DEF ExecutionInv, TakenInOrder
        <5> QED BY <4>3, <4>10, <5>1
      <4> QED BY <4>3, <4>7, <4>8, <4>9, <4>12
    <3> QED BY <3>1, <3>2
  <2> DEFINE n == Cardinality(Failures)
             failed == InOrder(Failures)
  <2>6. /\ n \in Nat /\ DOMAIN failed = 1..n
        /\ \A i \in 1..n : failed[i] \in Failures
        /\ \A r \in Failures : \E i \in 1..n : failed[i] = r
        /\ \A i, j \in 1..n : i < j => failed[i] < failed[j]
    BY <2>2, InOrderListsTheSet
  <2>7. DOMAIN result.errors = 1..n /\ \A i \in 1..n : result.errors[i].index = failed[i]
    <3>1. Tells(result, n, failed, ToldOf(failed)) /\ n \in Nat
      BY <2>1, FullResultSays
    <3> HIDE DEF n, failed
    <3> QED BY <3>1 DEF Tells
  <2> HIDE DEF n, failed
  <2>8. \A i, j \in DOMAIN result.errors :
          i < j => result.errors[i].index < result.errors[j].index
    BY <2>6, <2>7
  <2>9. {result.errors[i].index : i \in DOMAIN result.errors} = Failures
    BY <2>6, <2>7
  <2> QED BY <2>5, <2>8, <2>9
<1> QED BY <1>1, ExecutionInvariant, PTL

\* A job left running is in either host's reply or counted there.
THEOREM HandlesInReplies == ExecutionSpec => []HandlesReachHost
<1>1. ExecutionInv => HandlesReachHost
  <2> SUFFICES ASSUME ExecutionInv, result # NoResult
               PROVE  /\ \A r \in Inputs, reply \in Replies :
                           records[r].job = "open" /\ Alone(r) =>
                             reply.omitted > 0 \/ \E h \in reply.jobs : h.url = records[r].url
                      /\ result.recoveries # {} => result.errors # <<>>
                      /\ \A i \in DOMAIN result.errors : result.errors[i].axes.category # "internal"
    BY DEF HandlesReachHost
  <2>1. \A u \in Handles : /\ result.errors # <<>>
                           /\ Head(result.errors) = result.errors[1]
                           /\ u \in Kept(Handles) \/ result.errors[1].omitted > 0
    <3>1. CASE trigger = "none"
      <4> DEFINE n == Cardinality(Failures)
                 failed == InOrder(Failures)
      <4>1. /\ n \in Nat /\ Handles # {} => n > 0
            /\ Tells(result, n, failed, ToldOf(failed))
        BY <3>1, TwoResults, FullResultSays
      <4> HIDE DEF n, failed
      <4> QED BY <4>1 DEF Tells
    <3>2. CASE trigger # "none"
      <4>1. PICK v \in {"Timeout", "Cancelled"} : result = StoppedResult(v)
        BY <3>2, TwoResults
      <4>2. Tells(result, 1, <<0>>, <<Reported(v, "none", Sent)>>)
        BY <4>1, StoppedResultSays
      <4> QED BY <4>2 DEF Tells
    <3> QED BY <3>1, <3>2
  <2>2. result.recoveries = {Job(u) : u \in Kept(Handles)} /\ Kept(Handles) \subseteq Handles
    BY RecoveriesAreHandles DEF Kept
  <2>3. ASSUME NEW r \in Inputs, NEW reply \in Replies, records[r].job = "open", Alone(r)
        PROVE  reply.omitted > 0 \/ \E h \in reply.jobs : h.url = records[r].url
    <3>1. PICK u \in Urls : u = records[r].url /\ u # NoUrl
      BY <2>3, RecordTypes DEF RecordType, Sound
    <3>2. u \in Handles
      <4>1. Own(r)
        BY <2>3, <3>1 DEF ExecutionInv, OwnJobs
      <4>2. jobs[u] # NoJob
        BY <2>3, <3>1, <4>1 DEF Own
      <4> QED BY <2>3, <3>1, <4>2, OwnerOfOwnJob DEF Handles
    <3>3. reply.jobs = result.recoveries /\ reply.omitted = result.errors[1].omitted
      <4>1. result.errors # <<>> /\ Head(result.errors) = result.errors[1]
        BY <2>1, <3>2
      <4>2. CASE reply = RuntimeReply(result)
        BY <4>1, <4>2 DEF RuntimeReply, Answered, Returned
      <4>3. CASE reply = CommandReply(result)
        BY <4>1, <4>3 DEF CommandReply, Answered, Returned
      <4> QED BY <4>2, <4>3 DEF Replies
    <3>4. u \in Kept(Handles) => \E h \in result.recoveries : h.url = u
      <4>1. Job(u).url = u
        BY DEF Job
      <4> QED BY <2>2, <4>1
    <3> QED BY <2>1, <3>1, <3>2, <3>3, <3>4
  <2> QED BY <2>1, <2>2, <2>3, ErrorsOfResult
<1> QED BY <1>1, ExecutionInvariant, PTL

-----------------------------------------------------------------------------
(* A batch                                                                 *)

Chunk == [number: Nat, pc: {"resolve", "sent", "stop"}]

\* An error that calls a retry safe, or the service untouched.
Harmless(error) == error.effect = "none" \/ error.retry = "safe"

Width        == IF Len(batch.valid) - Base < batch.size THEN Len(batch.valid) - Base ELSE batch.size
Resolving    == {o \in Offsets : batch.valid[Base + o]}
NotResolving == {o \in Offsets : ~batch.valid[Base + o]}
RecordsAt(S)        == {Base + o : o \in S}

\* A list of failures of the records of a set, one of each; of those that were sent
\* none is harmless.
FailuresAre(F, R, sent) ==
  /\ \E S : F \in Seq(S)
  /\ \A i \in 1..Len(F) :
       /\ F[i].index \in R
       /\ Harmless(F[i].error) => F[i].index \notin sent
  /\ \A i, j \in 1..Len(F) : F[i].index = F[j].index => i = j
  /\ \A r \in R : \E i \in 1..Len(F) : F[i].index = r

Missing == {r \in DOMAIN enriched : enriched[r] = NoAdditions}

\* The records so far have their results or failures, and those of the chunk at
\* hand that were sent are the ones that resolve.
BatchInv ==
  /\ batch \in Batches /\ chunk \in Chunk
  /\ enriched \in Seq(Nat \cup {NoAdditions})
  /\ \A r \in DOMAIN enriched : enriched[r] \in {r, NoAdditions}
  /\ FailuresAre(failures, Missing, sentFor)
  /\ chunk.pc # "stop" =>
       /\ Len(enriched) = (IF Base < Len(batch.valid) THEN Base ELSE Len(batch.valid))
       /\ ~batch.continue => failures = <<>>
  /\ chunk.pc # "sent" => sentFor \subseteq DOMAIN enriched
  /\ chunk.pc = "sent" =>
       /\ Base < Len(batch.valid)
       /\ sentFor \subseteq DOMAIN enriched \cup RecordsAt(Resolving)

\* What the chunk at hand is.
LEMMA ChunkShape ==
  ASSUME BatchInv
  PROVE  /\ Base \in Nat /\ batch.size \in Nat \ {0} /\ Len(batch.valid) \in Nat
         /\ chunk.number \in Nat /\ batch.continue \in BOOLEAN /\ batch.valid \in Seq(BOOLEAN)
         /\ Offsets = 1..Width
         /\ Base < Len(batch.valid) => /\ Width \in Nat \ {0} /\ Base + Width <= Len(batch.valid)
                                       /\ Width # batch.size => Base + Width = Len(batch.valid)
                                       /\ Width <= batch.size
         /\ Base < Len(batch.valid) => \A S \in SUBSET Offsets : S \in SUBSET Nat /\ IsFiniteSet(S)
<1>1. /\ batch \in [valid: Seq(BOOLEAN), size: Nat \ {0}, continue: BOOLEAN]
      /\ chunk.number \in Nat
  BY BatchAssumption DEF BatchInv, Chunk
<1>2. /\ batch.size \in Nat \ {0} /\ batch.valid \in Seq(BOOLEAN) /\ batch.continue \in BOOLEAN
      /\ Len(batch.valid) \in Nat
  BY <1>1
<1>3. Base \in Nat
  BY <1>1, <1>2 DEF Base
<1>4. Offsets = 1..Width
  BY DEF Offsets, Width
<1>5. Base < Len(batch.valid) =>
        /\ Width \in Nat \ {0} /\ Base + Width <= Len(batch.valid)
        /\ Width # batch.size => Base + Width = Len(batch.valid)
        /\ Width <= batch.size
  BY <1>2, <1>3 DEF Width
<1>6. ASSUME Base < Len(batch.valid), NEW S \in SUBSET Offsets PROVE S \in SUBSET Nat /\ IsFiniteSet(S)
  <2>1. IsFiniteSet(1..Width) /\ 1..Width \in SUBSET Nat
    BY <1>5, <1>6, FS_Interval
  <2> QED BY <1>4, <2>1, FS_Subset
<1> QED BY <1>1, <1>2, <1>3, <1>4, <1>5, <1>6

\* One sequence after another.
LEMMA OneAfterAnother ==
  ASSUME NEW S, NEW F \in Seq(S), NEW G \in Seq(S)
  PROVE  /\ Len(F) \in Nat /\ Len(G) \in Nat
         /\ F \o G \in Seq(S) /\ Len(F \o G) = Len(F) + Len(G)
         /\ DOMAIN (F \o G) = 1..(Len(F) + Len(G))
         /\ \A i \in 1..Len(F) : (F \o G)[i] = F[i]
         /\ \A i \in 1..Len(G) : (F \o G)[Len(F) + i] = G[i]
OBVIOUS

\* One list of failures after another.
LEMMA FailuresFollow ==
  ASSUME NEW F, NEW G, NEW R, NEW T, NEW sent,
         FailuresAre(F, R, sent), FailuresAre(G, T, sent), R \cap T = {}
  PROVE  FailuresAre(F \o G, R \cup T, sent)
<1> DEFINE m == Len(F)
           n == Len(G)
           H == F \o G
<1>1. PICK S : F \in Seq(S) /\ G \in Seq(S)
  <2>1. PICK A, B : F \in Seq(A) /\ G \in Seq(B)
    BY DEF FailuresAre
  <2>2. F \in Seq(A \cup B) /\ G \in Seq(A \cup B)
    BY <2>1
  <2> QED BY <2>2
<1>2. /\ m \in Nat /\ n \in Nat /\ H \in Seq(S) /\ Len(H) = m + n
      /\ \A i \in 1..m : H[i] = F[i]
      /\ \A i \in 1..n : H[m + i] = G[i]
  BY <1>1, OneAfterAnother
<1>3. \A i \in 1..(m + n) : i \in 1..m \/ (i - m \in 1..n /\ i = m + (i - m))
  BY <1>2
<1>4. /\ \A i \in 1..m : F[i].index \in R /\ (Harmless(F[i].error) => F[i].index \notin sent)
      /\ \A i, j \in 1..m : F[i].index = F[j].index => i = j
      /\ \A r \in R : \E i \in 1..m : F[i].index = r
      /\ \A i \in 1..n : G[i].index \in T /\ (Harmless(G[i].error) => G[i].index \notin sent)
      /\ \A i, j \in 1..n : G[i].index = G[j].index => i = j
      /\ \A r \in T : \E i \in 1..n : G[i].index = r
  BY DEF FailuresAre
<1> HIDE DEF m, n, H
<1>5. ASSUME NEW i \in 1..(m + n)
      PROVE  /\ H[i].index \in R \cup T
             /\ Harmless(H[i].error) => H[i].index \notin sent
  <2>1. CASE i \in 1..m
    BY <1>2, <1>4, <2>1
  <2>2. CASE i - m \in 1..n /\ i = m + (i - m)
    <3>1. H[i] = G[i - m]
      BY <1>2, <2>2
    <3> QED BY <1>4, <2>2, <3>1
  <2> QED BY <1>3, <2>1, <2>2
<1>6. ASSUME NEW i \in 1..(m + n), NEW j \in 1..(m + n), H[i].index = H[j].index PROVE i = j
  <2>1. CASE i \in 1..m /\ j \in 1..m
    BY <1>2, <1>4, <1>6, <2>1
  <2>2. CASE i \in 1..m /\ j - m \in 1..n /\ j = m + (j - m)
    <3>1. H[i] = F[i] /\ H[j] = G[j - m]
      BY <1>2, <2>2
    <3> QED BY <1>4, <1>6, <2>2, <3>1
  <2>3. CASE j \in 1..m /\ i - m \in 1..n /\ i = m + (i - m)
    <3>1. H[j] = F[j] /\ H[i] = G[i - m]
      BY <1>2, <2>3
    <3> QED BY <1>4, <1>6, <2>3, <3>1
  <2>4. CASE i - m \in 1..n /\ i = m + (i - m) /\ j - m \in 1..n /\ j = m + (j - m)
    <3>1. H[j] = G[j - m] /\ H[i] = G[i - m]
      BY <1>2, <2>4
    <3>2. i - m = j - m
      BY <1>4, <1>6, <2>4, <3>1
    <3> QED BY <1>2, <3>2
  <2> QED BY <1>3, <2>1, <2>2, <2>3, <2>4
<1>7. ASSUME NEW r \in R \cup T PROVE \E i \in 1..(m + n) : H[i].index = r
  <2>1. CASE r \in R
    <3>1. PICK i \in 1..m : F[i].index = r
      BY <1>4, <2>1
    <3>2. i \in 1..(m + n) /\ H[i] = F[i]
      BY <1>2
    <3> QED BY <3>1, <3>2
  <2>2. CASE r \in T
    <3>1. PICK i \in 1..n : G[i].index = r
      BY <1>4, <2>2
    <3>2. m + i \in 1..(m + n) /\ H[m + i] = G[i]
      BY <1>2
    <3> QED BY <3>1, <3>2
  <2> QED BY <2>1, <2>2
<1> QED BY <1>2, <1>5, <1>6, <1>7 DEF FailuresAre, H

\* The failures of some of the records of a chunk, in their order.
LEMMA FailuresListed ==
  ASSUME BatchInv, Base < Len(batch.valid), NEW S \in SUBSET Offsets, NEW v, NEW s, NEW sent,
         \A o \in S : Harmless(Failure(o, v, s).error) => Base + o \notin sent
  PROVE  FailuresAre([i \in DOMAIN InOrder(S) |-> Failure(InOrder(S)[i], v, s)], RecordsAt(S), sent)
<1> DEFINE listed == InOrder(S)
           n == Cardinality(S)
           F == [i \in 1..n |-> Failure(listed[i], v, s)]
<1>1. S \in SUBSET Nat /\ IsFiniteSet(S) /\ Base \in Nat
  BY ChunkShape
<1>2. /\ n \in Nat /\ DOMAIN listed = 1..n /\ \A i \in 1..n : listed[i] \in S
      /\ \A o \in S : \E i \in 1..n : listed[i] = o
      /\ \A i, j \in 1..n : i < j => listed[i] < listed[j]
  BY <1>1, InOrderListsTheSet
<1> HIDE DEF listed, n
<1>3. \A o : Failure(o, v, s).index = Base + o
  BY DEF Failure
<1>4. ASSUME NEW i \in 1..n
      PROVE  F[i] = Failure(listed[i], v, s) /\ F[i].index = Base + listed[i] /\ listed[i] \in S
             /\ listed[i] \in Nat
  BY <1>1, <1>2, <1>3
<1>10. F = [i \in 1..n |-> F[i]]
  OBVIOUS
<1> HIDE DEF F
<1>5. Len(F) = n /\ F \in Seq({F[i] : i \in 1..n})
  BY <1>2, <1>10
<1>6. ASSUME NEW i \in 1..n
      PROVE  F[i].index \in RecordsAt(S) /\ (Harmless(F[i].error) => F[i].index \notin sent)
  BY <1>4 DEF RecordsAt
<1>7. ASSUME NEW i \in 1..n, NEW j \in 1..n, F[i].index = F[j].index PROVE i = j
  <2>1. listed[i] = listed[j]
    BY <1>1, <1>4, <1>7
  <2>2. ~(i < j) /\ ~(j < i)
    <3>1. ~(listed[i] < listed[j]) /\ ~(listed[j] < listed[i])
      BY <1>4, <2>1
    <3> QED BY <1>2, <3>1
  <2> QED BY <1>2, <2>2
<1>8. ASSUME NEW r \in RecordsAt(S) PROVE \E i \in 1..n : F[i].index = r
  <2>1. PICK o \in S : r = Base + o
    BY DEF RecordsAt
  <2>2. PICK i \in 1..n : listed[i] = o
    BY <1>2
  <2> QED BY <1>4, <2>1, <2>2
<1>9. FailuresAre(F, RecordsAt(S), sent)
  BY <1>5, <1>6, <1>7, <1>8 DEF FailuresAre
<1> QED BY <1>2, <1>9 DEF F, listed

\* With as many results as records that resolve, each of these has its own.
LEMMA ResultsAreAligned ==
  ASSUME BatchInv, Base < Len(batch.valid), NEW o \in Offsets
  PROVE  LET results == [i \in 1..Len(Valid) |->
                           IF i <= Len(Valid) THEN Base + Valid[i] ELSE NoAdditions]
         IN  ChunkRows(results)[o] = IF o \in Resolving THEN Base + o ELSE NoAdditions
<1> DEFINE n == Cardinality(Resolving)
           results == [i \in 1..Len(Valid) |->
                         IF i <= Len(Valid) THEN Base + Valid[i] ELSE NoAdditions]
           before == {q \in 1..o : batch.valid[Base + q]}
           place == Cardinality(before)
           below == {q \in Resolving : q < o}
<1>1. Resolving \in SUBSET Offsets /\ Resolving \in SUBSET Nat /\ IsFiniteSet(Resolving) /\ Base \in Nat
  BY ChunkShape DEF Resolving
<1>2. Valid = InOrder(Resolving)
  BY DEF Valid, Resolving
<1>3. /\ n \in Nat /\ DOMAIN Valid = 1..n /\ Len(Valid) = n
      /\ \A i \in 1..n : Valid[i] \in Resolving
      /\ \A i \in 1..n : Cardinality({q \in Resolving : q < Valid[i]}) = i - 1
      /\ \A r \in Resolving : \E i \in 1..n : Valid[i] = r
  <2>1. /\ n \in Nat /\ DOMAIN Valid = 1..n
        /\ \A i \in 1..n : Valid[i] \in Resolving
        /\ \A i \in 1..n : Cardinality({q \in Resolving : q < Valid[i]}) = i - 1
        /\ \A r \in Resolving : \E i \in 1..n : Valid[i] = r
    BY <1>1, <1>2, InOrderListsTheSet
  <2>2. Valid = [i \in 1..n |-> Valid[i]]
    <3> DEFINE pick(i) == CHOOSE r \in Resolving : Cardinality({q \in Resolving : q < r}) = i - 1
    <3>1. Valid = [i \in 1..n |-> pick(i)]
      BY <1>2 DEF InOrder
    <3> HIDE DEF pick
    <3> QED BY <3>1
  <2> HIDE DEF n
  <2>3. Len(Valid) = n
    BY <2>1, <2>2
  <2> QED BY <2>1, <2>3 DEF n
<1>4. ChunkRows(results)[o] = IF batch.valid[Base + o] /\ place <= Len(results)
                              THEN results[place] ELSE NoAdditions
  BY DEF ChunkRows
<1>5. CASE o \notin Resolving
  BY <1>4, <1>5 DEF Resolving
<1>6. CASE o \in Resolving
  <2>1. PICK i \in 1..n : Valid[i] = o
    BY <1>3, <1>6
  <2>2. Cardinality(below) = i - 1
    BY <1>3, <2>1
  <2>3. before = below \cup {o} /\ o \notin below
    <3>1. Offsets = 1..Width /\ Width \in Nat
      BY ChunkShape
    <3> QED BY <1>6, <3>1 DEF Resolving
  <2>4. place = i
    <3>1. IsFiniteSet(below)
      BY <1>1, FS_Subset
    <3> HIDE DEF below, before
    <3>2. Cardinality(below \cup {o}) = Cardinality(below) + 1
      BY <2>3, <3>1, FS_AddElement
    <3> QED BY <1>3, <2>2, <2>3, <3>2
  <2> HIDE DEF place, n
  <2>5. Len(results) = n /\ results[i] = Base + Valid[i]
    <3>1. \A j \in 1..n : j <= n
      BY <1>3
    <3> QED BY <1>3, <3>1
  <2> HIDE DEF results
  <2>6. i <= n
    BY <1>3
  <2>7. batch.valid[Base + o]
    BY <1>6 DEF Resolving
  <2>8. ChunkRows(results)[o] = Base + o
    BY <1>4, <2>1, <2>4, <2>5, <2>6, <2>7
  <2> QED BY <1>6, <2>8 DEF results
<1> QED BY <1>5, <1>6

\* The end of a chunk: its rows and its failures come after the earlier ones.
LEMMA ConcludeStep ==
  ASSUME BatchInv, chunk.pc # "stop", Base < Len(batch.valid),
         NEW results, NEW errors, Conclude(results, errors), UNCHANGED <<batch, sentFor>>,
         NEW P \in SUBSET Resolving, FailuresAre(errors, RecordsAt(P), sentFor),
         \A o \in Offsets : ChunkRows(results)[o] = IF o \in Resolving \ P THEN Base + o ELSE NoAdditions
  PROVE  BatchInv'
<1> DEFINE rows == ChunkRows(results)
           n == Len(enriched)
           w == Width
<1>1. /\ Base \in Nat /\ batch.size \in Nat \ {0} /\ Len(batch.valid) \in Nat /\ chunk.number \in Nat
      /\ Offsets = 1..w /\ w \in Nat \ {0} /\ Base + w <= Len(batch.valid)
      /\ w # batch.size => Base + w = Len(batch.valid)
      /\ w <= batch.size
  BY ChunkShape
<1>2. n = Base /\ DOMAIN enriched = 1..n /\ enriched \in Seq(Nat \cup {NoAdditions})
  BY <1>1 DEF BatchInv
<1>3. rows = [o \in 1..w |-> rows[o]] /\ \A o \in 1..w : rows[o] \in Nat \cup {NoAdditions}
  <2>1. rows = [o \in Offsets |-> rows[o]]
    BY DEF ChunkRows
  <2>2. \A o \in Offsets : rows[o] \in Nat \cup {NoAdditions}
    BY <1>1
  <2> QED BY <1>1, <2>1, <2>2
<1>4. \A o \in 1..w : rows[o] = IF o \in Resolving \ P THEN Base + o ELSE NoAdditions
  BY <1>1
<1> HIDE DEF rows, w
<1>5. rows \in Seq(Nat \cup {NoAdditions}) /\ Len(rows) = w
  BY <1>1, <1>3
<1>6. enriched' = enriched \o rows /\ failures' = failures \o errors \o Unresolved
      /\ chunk'.number = chunk.number + 1
      /\ chunk'.pc = (IF ~batch.continue /\ failures' # <<>> THEN "stop" ELSE "resolve")
      /\ chunk' = [number |-> chunk'.number, pc |-> chunk'.pc]
      /\ batch' = batch /\ sentFor' = sentFor
  BY DEF Conclude, rows
<1>7. /\ enriched' \in Seq(Nat \cup {NoAdditions}) /\ Len(enriched') = n + w
      /\ DOMAIN enriched' = 1..(n + w)
      /\ \A r \in 1..n : enriched'[r] = enriched[r]
      /\ \A o \in 1..w : enriched'[n + o] = rows[o]
  <2> DEFINE S == Nat \cup {NoAdditions}
             H == enriched \o rows
  <2>1. enriched \in Seq(S) /\ rows \in Seq(S)
    BY <1>2, <1>5
  <2> HIDE DEF S
  <2>2. /\ H \in Seq(S) /\ Len(H) = n + Len(rows) /\ DOMAIN H = 1..(n + Len(rows))
        /\ \A r \in 1..n : H[r] = enriched[r]
        /\ \A o \in 1..Len(rows) : H[n + o] = rows[o]
    BY <2>1, OneAfterAnother
  <2> HIDE DEF H, n
  <2> QED BY <1>5, <1>6, <2>2 DEF H, S
<1>8. \A r \in 1..(n + w) : r \in 1..n \/ (r - n \in 1..w /\ r = n + (r - n))
  BY <1>1, <1>2
<1>9. \A r \in DOMAIN enriched' : enriched'[r] \in {r, NoAdditions}
  <2> SUFFICES ASSUME NEW r \in 1..(n + w) PROVE enriched'[r] \in {r, NoAdditions}
    BY <1>7
  <2>1. CASE r \in 1..n
    BY <1>2, <1>7, <2>1 DEF BatchInv
  <2>2. CASE r - n \in 1..w /\ r = n + (r - n)
    <3>1. enriched'[r] = rows[r - n]
      BY <1>7, <2>2
    <3> QED BY <1>2, <1>4, <2>2, <3>1
  <2> QED BY <1>8, <2>1, <2>2
<1>10. Missing' = (Missing \cup RecordsAt(P)) \cup RecordsAt(NotResolving)
  <2>1. ASSUME NEW r \in Missing' PROVE r \in (Missing \cup RecordsAt(P)) \cup RecordsAt(NotResolving)
    <3>1. r \in 1..(n + w) /\ enriched'[r] = NoAdditions
      BY <1>7 DEF Missing
    <3>2. CASE r \in 1..n
      BY <1>2, <1>7, <3>1, <3>2 DEF Missing
    <3>3. CASE r - n \in 1..w /\ r = n + (r - n)
      <4>1. rows[r - n] = NoAdditions
        BY <1>7, <3>1, <3>3
      <4>2. r - n \notin Resolving \ P
        <5>1. r \in Nat \ {0}
          BY <1>1, <1>2, <3>3
        <5> QED BY <1>2, <1>4, <3>3, <4>1, <5>1, BatchAssumption
      <4>3. r - n \in P \/ r - n \in NotResolving
        BY <1>1, <3>3, <4>2 DEF Resolving, NotResolving
      <4> QED BY <1>2, <3>3, <4>3 DEF RecordsAt
    <3> QED BY <1>8, <3>1, <3>2, <3>3
  <2>2. Missing \subseteq Missing'
    <3> SUFFICES ASSUME NEW r \in Missing PROVE r \in Missing'
      OBVIOUS
    <3>1. r \in 1..n /\ r \in 1..(n + w) /\ enriched[r] = NoAdditions
      BY <1>1, <1>2 DEF Missing
    <3> QED BY <1>7, <3>1 DEF Missing
  <2>3. ASSUME NEW o \in P \cup NotResolving PROVE Base + o \in Missing'
    <3>1. o \in 1..w /\ o \notin Resolving \ P
      BY <1>1 DEF Resolving, NotResolving
    <3>2. enriched'[n + o] = NoAdditions /\ n + o \in 1..(n + w)
      BY <1>1, <1>2, <1>4, <1>7, <3>1
    <3> QED BY <1>2, <1>7, <3>2 DEF Missing
  <2> QED BY <2>1, <2>2, <2>3 DEF RecordsAt
<1>11. FailuresAre(failures', Missing', sentFor')
  <2>1. \A o \in Resolving : o \notin NotResolving /\ o \in Nat
    BY <1>1 DEF Resolving, NotResolving
  <2>2. \A o \in NotResolving : o \in Nat \ {0}
    BY <1>1 DEF NotResolving
  <2>3. \A o \in P : o \in Nat \ {0}
    BY <1>1 DEF Resolving
  <2>4. \A r \in Missing : r \in Nat /\ r <= Base
    BY <1>1, <1>2 DEF Missing
  <2>5. Missing \cap RecordsAt(P) = {} /\ Missing \cap RecordsAt(NotResolving) = {}
    BY <1>1, <2>2, <2>3, <2>4 DEF RecordsAt
  <2>6. RecordsAt(P) \cap RecordsAt(NotResolving) = {}
    <3> SUFFICES ASSUME NEW o \in P, NEW q \in NotResolving, Base + o = Base + q PROVE FALSE
      BY DEF RecordsAt
    <3>1. o = q
      BY <1>1, <2>2, <2>3
    <3> QED BY <2>1, <3>1
  <2>7. FailuresAre(Unresolved, RecordsAt(NotResolving), sentFor)
    <3>1. \A o \in NotResolving : Base + o \notin sentFor
      <4> SUFFICES ASSUME NEW o \in NotResolving, Base + o \in sentFor PROVE FALSE
        OBVIOUS
      <4>1. Base + o \notin DOMAIN enriched
        BY <1>1, <1>2, <2>2
      <4>2. PICK q \in Resolving : Base + o = Base + q
        BY <4>1 DEF BatchInv, RecordsAt
      <4>3. o = q
        BY <1>1, <2>1, <2>2, <4>2
      <4> QED BY <2>1, <4>3
    <3>2. NotResolving \in SUBSET Offsets
      BY DEF NotResolving
    <3> QED BY <3>1, <3>2, FailuresListed DEF Unresolved, NotResolving
  <2>8. FailuresAre(failures, Missing, sentFor)
    BY DEF BatchInv
  <2>9. FailuresAre(failures \o errors, Missing \cup RecordsAt(P), sentFor)
    BY <2>5, <2>8, FailuresFollow
  <2>10. (Missing \cup RecordsAt(P)) \cap RecordsAt(NotResolving) = {}
    BY <2>5, <2>6
  <2> QED BY <1>6, <1>10, <2>7, <2>9, <2>10, FailuresFollow
<1>12. chunk' \in Chunk /\ chunk'.pc # "sent"
  BY <1>1, <1>6 DEF Chunk
<1>13. Base' = Base + batch.size
  <2>1. Base' = (chunk.number + 1) * batch.size /\ Base = chunk.number * batch.size
    BY <1>6 DEF Base
  <2>2. \A a, b \in Nat : (a + 1) * b = a * b + b
    OBVIOUS
  <2> QED BY <1>1, <2>1, <2>2
<1>14. Len(enriched') = (IF Base' < Len(batch.valid) THEN Base' ELSE Len(batch.valid))
  BY <1>1, <1>2, <1>7, <1>13
<1>15. chunk'.pc # "stop" => (~batch.continue => failures' = <<>>)
  BY <1>6
<1>16. sentFor \subseteq DOMAIN enriched'
  <2> SUFFICES ASSUME NEW r \in sentFor PROVE r \in 1..(n + w)
    BY <1>7
  <2>1. CASE r \in DOMAIN enriched
    BY <1>1, <1>2, <2>1
  <2>2. CASE r \notin DOMAIN enriched
    <3>1. PICK o \in Resolving : r = Base + o
      BY <2>2 DEF BatchInv, RecordsAt
    <3> QED BY <1>1, <1>2, <3>1 DEF Resolving
  <2> QED BY <2>1, <2>2
<1> QED BY <1>6, <1>7, <1>9, <1>11, <1>12, <1>14, <1>15, <1>16 DEF BatchInv

\* Without results no record has any.
LEMMA NothingReceived ==
  ASSUME BatchInv, Base < Len(batch.valid), NEW o \in Offsets
  PROVE  ChunkRows(<<>>)[o] = NoAdditions
<1> DEFINE before == {q \in 1..o : batch.valid[Base + q]}
           place == Cardinality(before)
<1>1. ChunkRows(<<>>)[o] = IF batch.valid[Base + o] /\ place <= Len(<<>>)
                           THEN <<>>[place] ELSE NoAdditions
  BY DEF ChunkRows
<1>2. o \in Nat \ {0}
  BY ChunkShape
<1>3. IsFiniteSet(before)
  BY <1>2, FS_Interval, FS_Subset
<1>4. batch.valid[Base + o] => o \in before
  BY <1>2
<1> HIDE DEF before
<1>5. batch.valid[Base + o] => place \in Nat \ {0}
  BY <1>3, <1>4, FS_CardinalityType, FS_EmptySet
<1> HIDE DEF place
<1>6. Len(<<>>) = 0
  OBVIOUS
<1> QED BY <1>1, <1>5, <1>6

\* A request that fails gives each record that resolves its failure.
LEMMA FailingChunk ==
  ASSUME BatchInv, chunk.pc # "stop", Base < Len(batch.valid), NEW v, NEW s, ChunkFails(v, s),
         UNCHANGED <<batch, sentFor>>,
         \A o \in Resolving : Harmless(Failure(o, v, s).error) => Base + o \notin sentFor
  PROVE  BatchInv'
<1> DEFINE errors == [i \in DOMAIN Valid |-> Failure(Valid[i], v, s)]
<1>1. Resolving \in SUBSET Offsets
  BY DEF Resolving
<1>2. FailuresAre(errors, RecordsAt(Resolving), sentFor)
  BY <1>1, FailuresListed DEF Valid, Resolving
<1>3. Conclude(<<>>, errors)
  BY DEF ChunkFails
<1> HIDE DEF errors
<1> QED BY <1>2, <1>3, ConcludeStep, NothingReceived

\* Every step keeps the invariant.
LEMMA BatchStep == BatchInv /\ [BatchNext]_batchVars => BatchInv'
<1> SUFFICES ASSUME BatchInv, [BatchNext]_batchVars PROVE BatchInv'
  OBVIOUS
<1>1. CASE UNCHANGED batchVars
  BY <1>1 DEF batchVars, BatchInv, Missing, Base, Resolving, Offsets, RecordsAt, FailuresAre
<1>2. chunk.pc = "resolve" => \A o \in Offsets : Base + o \notin sentFor
  <2> SUFFICES ASSUME chunk.pc = "resolve", NEW o \in Offsets, Base + o \in sentFor PROVE FALSE
    OBVIOUS
  <2>1. Base + o \in DOMAIN enriched /\ Len(enriched) <= Base
    BY ChunkShape DEF BatchInv
  <2>2. DOMAIN enriched = 1..Len(enriched) /\ Len(enriched) \in Nat
    BY DEF BatchInv
  <2> QED BY <2>1, <2>2, ChunkShape
<1>3. CASE SkipChunk
  <2>1. /\ chunk.pc = "resolve" /\ Base < Len(batch.valid) /\ Valid = <<>> /\ Conclude(<<>>, <<>>)
        /\ UNCHANGED <<batch, sentFor>>
    BY <1>3 DEF SkipChunk, InChunk
  <2>2. Resolving = {}
    <3>1. Resolving \in SUBSET Nat /\ IsFiniteSet(Resolving)
      BY <2>1, ChunkShape DEF Resolving
    <3>2. Cardinality(Resolving) \in Nat /\ DOMAIN Valid = 1..Cardinality(Resolving)
          /\ \A r \in Resolving : \E i \in 1..Cardinality(Resolving) : Valid[i] = r
      BY <3>1, InOrderListsTheSet DEF Valid, Resolving
    <3>3. DOMAIN Valid = {}
      BY <2>1
    <3> QED BY <3>2, <3>3
  <2>3. FailuresAre(<<>>, RecordsAt({}), sentFor)
    <3>1. <<>> \in Seq({}) /\ Len(<<>>) = 0
      OBVIOUS
    <3> QED BY <3>1 DEF FailuresAre, RecordsAt
  <2> QED BY <2>1, <2>2, <2>3, ConcludeStep, NothingReceived
<1>4. CASE RefuseChunk
  BY <1>2, <1>4, FailingChunk DEF RefuseChunk, InChunk, Resolving
<1>5. CASE SendChunk
  <2>1. /\ chunk.pc = "resolve" /\ Base < Len(batch.valid) /\ chunk' = [chunk EXCEPT !.pc = "sent"]
        /\ sentFor' = sentFor \cup {Base + Valid[i] : i \in DOMAIN Valid}
        /\ batch' = batch /\ enriched' = enriched /\ failures' = failures
        /\ chunk \in Chunk
    BY <1>5 DEF SendChunk, InChunk, BatchInv
  <2>2. chunk' \in Chunk /\ chunk'.pc = "sent" /\ chunk'.number = chunk.number
    BY <2>1 DEF Chunk
  <2>3. Base' = Base
    BY <2>1, <2>2 DEF Base
  <2>4. Offsets' = Offsets
    BY <2>1, <2>3 DEF Offsets
  <2>5. Resolving' = Resolving
    BY <2>1, <2>3, <2>4 DEF Resolving
  <2>6. {Base + Valid[i] : i \in DOMAIN Valid} = RecordsAt(Resolving)
    <3>1. Resolving \in SUBSET Nat /\ IsFiniteSet(Resolving)
      BY <2>1, ChunkShape DEF Resolving
    <3>2. /\ \A i \in DOMAIN Valid : Valid[i] \in Resolving
          /\ \A r \in Resolving : \E i \in DOMAIN Valid : Valid[i] = r
      BY <3>1, InOrderListsTheSet DEF Valid, Resolving
    <3> QED BY <3>2 DEF RecordsAt
  <2>7. RecordsAt(Resolving)' = RecordsAt(Resolving)
    BY <2>3, <2>5 DEF RecordsAt
  <2>8. \A r \in DOMAIN enriched : r \notin RecordsAt(Resolving)
    <3> SUFFICES ASSUME NEW o \in Resolving, Base + o \in DOMAIN enriched PROVE FALSE
      BY DEF RecordsAt
    <3>1. o \in Nat \ {0} /\ Base \in Nat /\ DOMAIN enriched = 1..Base
      BY <2>1, ChunkShape DEF BatchInv, Resolving
    <3> QED BY <3>1
  <2>9. Missing' = Missing
    BY <2>1 DEF Missing
  <2>10. FailuresAre(failures, Missing, sentFor')
    <3>1. FailuresAre(failures, Missing, sentFor)
      BY DEF BatchInv
    <3>2. \A r \in Missing : r \notin RecordsAt(Resolving)
      BY <2>8 DEF Missing
    <3> QED BY <2>1, <2>6, <3>1, <3>2 DEF FailuresAre
  <2> QED BY <2>1, <2>2, <2>3, <2>6, <2>7, <2>9, <2>10 DEF BatchInv
<1>6. \A v \in {"InvalidResponse", "Transport"} :
        \A o : ~Harmless(Failure(o, v, TRUE).error)
  <2>1. {"InvalidResponse", "Transport"} \subseteq Variants
    BY DEF Variants
  <2> QED BY <2>1, ReportedOnceSent DEF Failure, Harmless
<1>7. CASE LoseChunk
  BY <1>6, <1>7, FailingChunk DEF LoseChunk, BatchInv
<1>8. CASE ReceiveChunk
  <2>1. chunk.pc = "sent" /\ Base < Len(batch.valid) /\ UNCHANGED <<batch, sentFor>>
    BY <1>8 DEF ReceiveChunk, BatchInv
  <2>2. CASE ChunkFails("InvalidResponse", TRUE)
    BY <1>6, <2>1, <2>2, FailingChunk
  <2> DEFINE results == [i \in 1..Len(Valid) |->
                           IF i <= Len(Valid) THEN Base + Valid[i] ELSE NoAdditions]
  <2>3. CASE Conclude(results, <<>>)
    <3>1. \A o \in Offsets : ChunkRows(results)[o] = IF o \in Resolving THEN Base + o ELSE NoAdditions
      BY <2>1, ResultsAreAligned
    <3>2. FailuresAre(<<>>, RecordsAt({}), sentFor)
      <4>1. <<>> \in Seq({}) /\ Len(<<>>) = 0
        OBVIOUS
      <4> QED BY <4>1 DEF FailuresAre, RecordsAt
    <3> HIDE DEF results
    <3> QED BY <2>1, <2>3, <3>1, <3>2, ConcludeStep
  <2> QED BY <1>8, <2>2, <2>3 DEF ReceiveChunk
<1> QED BY <1>1, <1>3, <1>4, <1>5, <1>7, <1>8 DEF BatchNext

\* Nothing was sent, and nothing failed.
LEMMA BatchStarts == BatchInit => BatchInv
<1> SUFFICES ASSUME BatchInit PROVE BatchInv
  OBVIOUS
<1>1. /\ batch \in [valid: Seq(BOOLEAN), size: Nat \ {0}, continue: BOOLEAN]
      /\ chunk = [number |-> 0, pc |-> "resolve"] /\ enriched = <<>> /\ failures = <<>> /\ sentFor = {}
  BY BatchAssumption DEF BatchInit
<1>2. chunk \in Chunk /\ chunk.pc = "resolve" /\ chunk.number = 0
  BY <1>1 DEF Chunk
<1>3. Base = 0
  BY <1>1, <1>2 DEF Base
<1>4. Len(enriched) = 0 /\ Len(batch.valid) \in Nat
  BY <1>1
<1>5. Missing = {} /\ DOMAIN enriched = {} /\ enriched \in Seq(Nat \cup {NoAdditions})
  BY <1>1 DEF Missing
<1>6. FailuresAre(failures, Missing, sentFor)
  <2>1. <<>> \in Seq({}) /\ Len(<<>>) = 0
    OBVIOUS
  <2> QED BY <1>1, <1>5, <2>1 DEF FailuresAre
<1> QED BY <1>1, <1>2, <1>3, <1>4, <1>5, <1>6 DEF BatchInit, BatchInv

\* Every record of the output is the input record at its place, with the result the
\* service gave for it or with one error of its own; what is called harmless was not
\* sent (enrich_batch).
THEOREM BatchesAreAligned == BatchSpec => []BatchIsAligned
<1>1. BatchInv => BatchIsAligned
  <2> SUFFICES ASSUME BatchInv PROVE BatchIsAligned
    OBVIOUS
  <2>1. /\ DOMAIN failures = 1..Len(failures) /\ Len(failures) \in Nat
        /\ DOMAIN enriched = 1..Len(enriched) /\ Len(enriched) \in Nat
    BY DEF BatchInv, FailuresAre
  <2>2. /\ \A i \in DOMAIN failures :
             /\ failures[i].index \in Missing
             /\ Harmless(failures[i].error) => failures[i].index \notin sentFor
        /\ \A i, j \in DOMAIN failures : failures[i].index = failures[j].index => i = j
        /\ \A r \in Missing : \E i \in DOMAIN failures : failures[i].index = r
    BY <2>1 DEF BatchInv, FailuresAre
  <2>3. ASSUME NEW r \in DOMAIN enriched
        PROVE  Cardinality(FailuresOf(r)) = (IF enriched[r] = r THEN 0 ELSE 1)
    <3>1. CASE enriched[r] = r
      <4>1. r \notin Missing
        BY <2>1, <3>1, BatchAssumption DEF Missing
      <4>2. FailuresOf(r) = {}
        BY <2>2, <4>1 DEF FailuresOf
      <4> QED BY <3>1, <4>2, FS_EmptySet
    <3>2. CASE enriched[r] # r
      <4>1. r \in Missing
        BY <3>2 DEF BatchInv, Missing
      <4>2. PICK i \in DOMAIN failures : failures[i].index = r
        BY <2>2, <4>1
      <4>3. FailuresOf(r) = {i}
        BY <2>2, <4>2 DEF FailuresOf
      <4> QED BY <3>2, <4>3, FS_Singleton
    <3> QED BY <3>1, <3>2
  <2>4. \A r \in DOMAIN enriched : \A i \in FailuresOf(r) : Harmless(failures[i].error) => r \notin sentFor
    BY <2>2 DEF FailuresOf
  <2>5. \A i \in DOMAIN failures : failures[i].index \in DOMAIN enriched
    BY <2>2 DEF Missing
  <2>6. InChunk => Len(enriched) = Base /\ (~batch.continue => failures = <<>>)
    BY DEF InChunk, BatchInv
  <2> QED BY <2>3, <2>4, <2>5, <2>6 DEF BatchIsAligned, BatchInv, Harmless
<1> QED BY <1>1, BatchStarts, BatchStep, PTL DEF BatchSpec
=============================================================================
