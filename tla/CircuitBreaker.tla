--------------------------- MODULE CircuitBreaker ---------------------------
(***************************************************************************)
(* The circuit breaker of the transport: one state per key (origin and     *)
(* group), created on demand in a map of limited size, consulted when a    *)
(* request is admitted and updated when its outcome is recorded.  Between  *)
(* the two the request runs its whole retry loop with no lock held, so     *)
(* other requests are admitted, recorded, or dropped without a record.     *)
(*                                                                         *)
(* Instants are compared with elapsed(): the clock is `now`, advanced by   *)
(* Tick.  A call refused with CIRCUIT_OPEN changes nothing and is no step. *)
(* Numbers of the engine's sequence that nobody keeps are not drawn.       *)
(***************************************************************************)
EXTENDS Naturals, FiniteSetsExt

CONSTANTS
  Requests,     \* requests that may be in flight at once
  Keys,         \* circuit keys: request origin and policy group
  Policies,     \* what requests carry: threshold, recovery time, and the time
                \* their retry loop is estimated to take
  MaxLease,     \* MAX_PROBE_LEASE
  MaxOrigins,   \* max_circuit_origins
  MaxTime,      \* bound: the clock stops there
  MaxSequence   \* bound: numbers drawn from the engine's sequence

ASSUME OriginsAssumption  == MaxOrigins \in Nat \ {0}
ASSUME KeysAssumption     == IsFiniteSet(Keys)
ASSUME PoliciesAssumption ==
  Policies \subseteq [threshold: Nat \ {0}, recovery: Nat, work: Nat]
ASSUME LeaseAssumption == MaxLease \in Nat

VARIABLES
  circuits,   \* the state of each key; Default when it is not stored
  stored,     \* the keys of the map
  inflight,   \* the admissions of the requests not yet recorded
  now,
  sequence,   \* the next number of the engine's sequence
  turns,      \* per key, how often its circuit opened or started a probe
  newest,     \* per key, the last probe generation given out
  forgotten   \* keys whose state was evicted at least once

vars == <<circuits, stored, inflight, now, sequence, turns, newest, forgotten>>
ghosts == <<turns, newest, forgotten>>

Never   == 0     \* opened_at and half_open_probe are None
Instant == Nat \ {0}
Default == [failures |-> 0, openedAt |-> Never, probe |-> Never,
            probeStart |-> Never, epoch |-> 0, sequence |-> 0]
State == [failures: Nat, openedAt: Nat, probe: Nat, probeStart: Nat,
          epoch: Nat, sequence: Nat]

\* CircuitAdmission and the policy the request carries.  `seen` and `started`
\* are for the properties: the turns of the key and the time of the admission.
Admission == [request: Requests, key: Keys, policy: Policies, probe: Nat,
              epoch: Nat, seen: Nat, started: Nat]

Init ==
  /\ circuits = [k \in Keys |-> Default]
  /\ stored = {} /\ inflight = {}
  /\ now = 1 /\ sequence = 1
  /\ turns = [k \in Keys |-> 0] /\ newest = [k \in Keys |-> Never]
  /\ forgotten = {}

-----------------------------------------------------------------------------

Full == Cardinality(stored) >= MaxOrigins
Oldest == {k \in stored : \A j \in stored : circuits[k].sequence <= circuits[j].sequence}

\* entry(key).or_default() and the creation number it then gets.
Entry(k) == IF k \in stored THEN circuits[k]
                            ELSE [Default EXCEPT !.sequence = sequence]
Draws(k) == IF k \in stored THEN 0 ELSE 1

\* The oldest state is forgotten when a new key finds the map full.
Victims(k) == IF k \notin stored /\ Full THEN Oldest ELSE {}

\* The map after key k was given the state s and the victims went.
Put(k, s, victims) ==
  /\ stored' = (stored \ victims) \cup {k}
  /\ circuits' = [j \in Keys |-> IF j = k THEN s
                                 ELSE IF j \in victims THEN Default
                                 ELSE circuits[j]]
  /\ forgotten' = forgotten \cup victims

Idle(r) == \A a \in inflight : a.request # r

LetThrough(r, k, p, probe, epoch, seen) ==
  /\ Idle(r)
  /\ inflight' = inflight \cup
        {[request |-> r, key |-> k, policy |-> p, probe |-> probe,
          epoch |-> epoch, seen |-> seen, started |-> now]}

\* admit_circuit on a closed circuit.
AdmitClosed(r, k, p) ==
  LET s == Entry(k) IN
  /\ sequence + Draws(k) <= MaxSequence
  /\ s.openedAt = Never
  /\ Put(k, s, Victims(k))
  /\ sequence' = sequence + Draws(k)
  /\ LetThrough(r, k, p, Never, s.epoch, turns[k])
  /\ UNCHANGED <<now, turns, newest>>

\* The lease is the one of the request that asks, not of the probe in flight.
ProbeLease(p) == Min({Max({p.recovery, p.work}), MaxLease})
\* Faulty variant: the lease measured from the opening.
ProbingSinceOpened(s, p) == s.probe # Never /\ now < s.openedAt + ProbeLease(p)
Probing(s, p) == s.probe # Never /\ now < s.probeStart + ProbeLease(p)
Resting(s, p) == now < s.openedAt + p.recovery

Probed(s) == [s EXCEPT !.probe = sequence, !.probeStart = now, !.epoch = @ + 1]

\* admit_circuit on an open circuit: the half-open probe.
AdmitProbe(r, k, p) ==
  LET s == Entry(k) IN
  /\ sequence + 1 <= MaxSequence
  /\ s.openedAt # Never
  /\ ~Resting(s, p) /\ ~Probing(s, p)
  /\ Put(k, Probed(s), Victims(k))
  /\ sequence' = sequence + 1
  /\ turns' = [turns EXCEPT ![k] = @ + 1]
  /\ newest' = [newest EXCEPT ![k] = sequence]
  /\ LetThrough(r, k, p, sequence, Probed(s).epoch, turns[k] + 1)
  /\ UNCHANGED now

-----------------------------------------------------------------------------
(* record_circuit                                                          *)

\* Faulty variant: the epoch not compared.
SupersededByNewerProbe(a, s) == a.probe # Never /\ a.probe # s.probe
Superseded(a, s) == a.epoch # s.epoch \/ (a.probe # Never /\ a.probe # s.probe)

\* Faulty variant: the marker of a probe left in place.
SettleNothing(s, a) == s
SettleProbe(s, a) == IF a.probe = Never THEN s
                     ELSE [s EXCEPT !.probe = Never, !.probeStart = Never]

\* Faulty variant: one failure too many.
OpensAboveThreshold(s, a) == a.probe # Never \/ s.failures + 1 > a.policy.threshold
Opens(s, a) == a.probe # Never \/ s.failures + 1 >= a.policy.threshold

Failed(s, a) ==
  IF Opens(s, a)
  THEN [s EXCEPT !.failures = @ + 1, !.openedAt = now,
                 !.epoch = IF s.openedAt = Never THEN @ + 1 ELSE @]
  ELSE [s EXCEPT !.failures = @ + 1]

Succeeded(s) == [s EXCEPT !.failures = 0, !.openedAt = Never]

Recorded(s, a, failed) ==
  IF Superseded(a, s) THEN s
  ELSE SettleProbe(IF failed THEN Failed(s, a) ELSE Succeeded(s), a)

\* The key is put back if it was forgotten, whatever the size of the map.
Record(a, failed) ==
  LET s == Entry(a.key)
      new == Recorded(s, a, failed)
  IN
  /\ sequence + Draws(a.key) <= MaxSequence
  /\ Put(a.key, new, {})
  /\ sequence' = sequence + Draws(a.key)
  /\ inflight' = inflight \ {a}
  /\ turns' = IF s.openedAt = Never /\ new.openedAt # Never
              THEN [turns EXCEPT ![a.key] = @ + 1] ELSE turns
  /\ UNCHANGED <<now, newest>>

\* The future of the request is dropped: cancelled, or out of time.
Drop(a) ==
  /\ inflight' = inflight \ {a}
  /\ UNCHANGED <<circuits, stored, now, sequence, ghosts>>

Tick ==
  /\ now < MaxTime
  /\ now' = now + 1
  /\ UNCHANGED <<circuits, stored, inflight, sequence, ghosts>>

\* An engine with no request in flight may stay as it is.
Quiet == inflight = {} /\ UNCHANGED vars

Next ==
  \/ \E r \in Requests, k \in Keys, p \in Policies :
       AdmitClosed(r, k, p) \/ AdmitProbe(r, k, p)
  \/ \E a \in inflight : Drop(a) \/ \E failed \in BOOLEAN : Record(a, failed)
  \/ Tick
  \/ Quiet

Spec == Init /\ [][Next]_vars

-----------------------------------------------------------------------------
(* Properties.                                                             *)

\* Every variable keeps its shape.
TypeOK ==
  /\ circuits \in [Keys -> State]
  /\ stored \subseteq Keys
  /\ inflight \subseteq Admission
  /\ now \in Instant /\ sequence \in Instant
  /\ turns \in [Keys -> Nat] /\ newest \in [Keys -> Nat]
  /\ forgotten \subseteq Keys

\* A request was let through before the circuit of its key last opened or last
\* started a probe.
Outdated(a) == a.seen # turns[a.key]
Ends(a)     == a \in inflight /\ a \notin inflight'

\* The outcome of an outdated request changes the state of key k.
OutdatedOutcomeChanges(k) ==
  \E a \in inflight : /\ Ends(a) /\ Outdated(a) /\ a.key = k
                      /\ k \in stored /\ circuits'[k] # circuits[k]

\* The outcome of a probe that a later one replaced changes the state of its key.
ReplacedProbeChanges ==
  \E a \in inflight : /\ Ends(a) /\ a.probe # Never /\ a.probe # newest[a.key]
                      /\ a.key \in stored /\ circuits'[a.key] # circuits[a.key]

\* A request let through before the circuit last opened or last started a
\* probe decides nothing when its outcome is recorded (CircuitState.epoch), for
\* every key whose state was never evicted. A probe that a later one replaced
\* decides nothing even when its key was evicted and created again in between
\* (record_circuit: a probe whose lease expired has been superseded).
OutdatedOutcomeIsIgnored ==
  [][/\ \A k \in Keys \ forgotten : ~OutdatedOutcomeChanges(k)
     /\ ~ReplacedProbeChanges]_vars

\* The comment on CircuitState.epoch, which knows no exception: a request that
\* is not the probe cannot close an open circuit and let ordinary traffic
\* through beside the probe.  Once a key is evicted its epochs start again from
\* zero, and an old admission may carry the new epoch by chance.
OnlyProbesClose ==
  [][\A a \in inflight :
       (Ends(a) /\ a.probe = Never /\ circuits[a.key].openedAt # Never)
         => circuits'[a.key].openedAt # Never]_vars

\* While a probe is the current one the circuit stays open: ordinary traffic
\* is not let through before the probe has answered (admit_circuit), whatever
\* late outcomes arrive meanwhile.
ProbeKeepsCircuitOpen ==
  \A k \in Keys \ forgotten :
    circuits[k].probe # Never => circuits[k].openedAt # Never

\* A probe goes out beside the one before it, still unanswered, only when that
\* one has outlived the lease, as the new request computes it (admit_circuit):
\* its marker survives the late outcomes that arrive meanwhile.
OneProbePerLease ==
  [][\A a \in inflight, b \in inflight' \ inflight :
       (/\ a.key = b.key /\ a.key \notin forgotten'
        /\ a.probe # Never /\ a.probe = newest[a.key] /\ b.probe # Never)
         => now >= a.started + ProbeLease(b.policy)]_vars

\* A circuit does not stay closed on failures that every policy in use opens it
\* for (CircuitBreakerPolicy.failure_threshold): whoever reaches the threshold
\* opens it in the same step, and closing starts the count again.
ClosedBelowThreshold ==
  \A k \in Keys : circuits[k].openedAt = Never =>
    \E p \in Policies : circuits[k].failures < p.threshold

\* CircuitBreakerPolicy: "States are bounded by EngineConfig::max_circuit_origins".
StatesAreBounded == Cardinality(stored) <= MaxOrigins
=============================================================================
