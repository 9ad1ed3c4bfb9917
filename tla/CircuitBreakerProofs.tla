------------------------- MODULE CircuitBreakerProofs -------------------------
(***************************************************************************)
(* Theorems about CircuitBreaker, for every value of its constants.        *)
(*                                                                         *)
(* That an outdated outcome decides nothing rests on the epochs counting   *)
(* the turns of a key (EpochsCountTurns), and that a probe keeps the       *)
(* circuit open on no ordinary request carrying the epoch of a probe       *)
(* (ProbesOwnTheirEpoch). Both are lost with the state of an evicted key,  *)
(* hence `forgotten`. That a replaced probe decides nothing rests on the   *)
(* numbers of the engine's sequence, which are never lost (Numbered).      *)
(***************************************************************************)
EXTENDS CircuitBreaker, TLAPS

Remembered == Keys \ forgotten

\* A key that is not in the map reads as the default state.
AbsentIsDefault == \A k \in Keys \ stored : circuits[k] = Default

\* Probes are numbered once, and a circuit knows no probe but the newest.
Numbered ==
  /\ \A k \in Keys : newest[k] < sequence
  /\ \A k \in Keys : circuits[k].probe # Never => circuits[k].probe = newest[k]
  /\ \A a \in inflight : a.probe < sequence
  /\ \A a, b \in inflight : a.probe # Never /\ a.probe = b.probe => a = b

EpochsCountTurns ==
  \A k \in Remembered :
    /\ circuits[k].epoch = turns[k]
    /\ \A a \in inflight : a.key = k => a.epoch = a.seen /\ a.epoch <= circuits[k].epoch

ProbesOwnTheirEpoch ==
  \A k \in Remembered : \A a \in inflight :
    a.key = k /\ a.epoch = circuits[k].epoch /\ circuits[k].probe # Never => a.probe # Never

\* While the newest probe of a key is in flight its marker stands.
MarkerStands ==
  \A k \in Remembered : \A a \in inflight :
    a.key = k /\ a.probe # Never /\ a.probe = newest[k] =>
      circuits[k].probe = a.probe /\ circuits[k].probeStart = a.started

\* The inductive invariant.
Inv ==
  /\ TypeOK
  /\ AbsentIsDefault
  /\ Numbered
  /\ EpochsCountTurns
  /\ ProbesOwnTheirEpoch
  /\ ProbeKeepsCircuitOpen
  /\ MarkerStands

USE DEF Never, Instant

-----------------------------------------------------------------------------
(* What the helpers of the actions return.                                 *)

\* The state a key is read as (entry().or_default()).
LEMMA EntryReads ==
  ASSUME TypeOK, AbsentIsDefault, NEW k \in Keys
  PROVE  /\ Entry(k) \in State
         /\ Entry(k).failures = circuits[k].failures
         /\ Entry(k).openedAt = circuits[k].openedAt
         /\ Entry(k).probe = circuits[k].probe
         /\ Entry(k).probeStart = circuits[k].probeStart
         /\ Entry(k).epoch = circuits[k].epoch
         /\ k \in stored => Entry(k) = circuits[k]
         /\ Draws(k) \in {0, 1}
<1>1. CASE k \in stored
  BY <1>1 DEF TypeOK, Entry, Draws
<1>2. CASE k \notin stored
  BY <1>2 DEF TypeOK, AbsentIsDefault, Entry, Draws, Default, State
<1> QED BY <1>1, <1>2

\* Only keys of the map are evicted, and the new key is not one of them.
LEMMA VictimsOf ==
  ASSUME NEW k \in Keys
  PROVE  Victims(k) \subseteq stored \ {k}
BY DEF Victims, Oldest

\* The map and the memory of evictions after Put.
LEMMA PutKeeps ==
  ASSUME TypeOK, AbsentIsDefault, NEW k \in Keys, NEW s \in State,
         NEW victims \in SUBSET (stored \ {k}), Put(k, s, victims)
  PROVE  /\ circuits' \in [Keys -> State] /\ stored' \subseteq Keys /\ forgotten' \subseteq Keys
         /\ AbsentIsDefault'
         /\ circuits'[k] = s
         /\ \A j \in Keys \ {k} : circuits'[j] = circuits[j] \/ circuits'[j] = Default
         /\ Remembered' \subseteq Remembered
         /\ \A j \in Remembered' \ {k} : circuits'[j] = circuits[j]
<1>1. Default \in State
  BY DEF Default, State
<1>2. /\ circuits' \in [Keys -> State] /\ stored' \subseteq Keys /\ forgotten' \subseteq Keys
  BY <1>1 DEF Put, TypeOK
<1>3. AbsentIsDefault'
  BY DEF Put, TypeOK, AbsentIsDefault
<1>4. /\ circuits'[k] = s
      /\ \A j \in Keys \ {k} : circuits'[j] = circuits[j] \/ circuits'[j] = Default
  BY DEF Put, TypeOK
<1>5. /\ Remembered' \subseteq Remembered
      /\ \A j \in Remembered' \ {k} : circuits'[j] = circuits[j]
  BY DEF Put, TypeOK, Remembered
<1> QED BY <1>2, <1>3, <1>4, <1>5

\* What record_circuit does to a state.
LEMMA RecordedState ==
  ASSUME NEW s \in State, NEW a \in Admission, NEW failed \in BOOLEAN, now \in Instant
  PROVE  LET r == Recorded(s, a, failed) IN
         /\ r \in State
         /\ Superseded(a, s) => r = s
         /\ ~Superseded(a, s) =>
              /\ r.probe = IF a.probe = Never THEN s.probe ELSE Never
              /\ r.probeStart = IF a.probe = Never THEN s.probeStart ELSE Never
              /\ r.openedAt = Never => a.probe # Never \/ ~failed \/ s.openedAt = Never
              /\ r.openedAt = Never =>
                   r.failures = 0 \/ (r.failures = s.failures + 1 /\ r.failures < a.policy.threshold)
         /\ r.epoch = IF s.openedAt = Never /\ r.openedAt # Never THEN s.epoch + 1 ELSE s.epoch
<1> DEFINE t == IF failed THEN Failed(s, a) ELSE Succeeded(s)
<1>1. /\ a.policy.threshold \in Nat /\ a.probe \in Nat
  BY PoliciesAssumption DEF Admission
<1>2. /\ t \in State /\ t.probe = s.probe /\ t.probeStart = s.probeStart
      /\ t.epoch = IF s.openedAt = Never /\ t.openedAt # Never THEN s.epoch + 1 ELSE s.epoch
      /\ t.openedAt = Never =>
           t.failures = 0 \/ (t.failures = s.failures + 1 /\ t.failures < a.policy.threshold)
      /\ t.openedAt = Never => ~failed \/ s.openedAt = Never
  <2>1. CASE failed /\ Opens(s, a)
    <3> DEFINE e == IF s.openedAt = Never THEN s.epoch + 1 ELSE s.epoch
               f == s.failures + 1
    <3>1. t = [[[s EXCEPT !.failures = f] EXCEPT !.openedAt = now] EXCEPT !.epoch = e]
      BY <2>1 DEF Failed
    <3>2. e \in Nat /\ f \in Nat /\ now \in Nat /\ now # 0
      BY DEF State
    <3> HIDE DEF t, e, f
    <3>3. /\ t \in State /\ t.openedAt = now /\ t.epoch = e
          /\ t.probe = s.probe /\ t.probeStart = s.probeStart
      BY <3>1, <3>2 DEF State
    <3> QED BY <3>2, <3>3 DEF e
  <2>2. CASE failed /\ ~Opens(s, a)
    BY <2>2, <1>1 DEF State, Failed, Opens
  <2>3. CASE ~failed
    BY <2>3 DEF State, Succeeded
  <2> QED BY <2>1, <2>2, <2>3
<1>3. CASE Superseded(a, s)
  BY <1>3 DEF Recorded
<1>4. CASE ~Superseded(a, s)
  <2> DEFINE r == Recorded(s, a, failed)
  <2>1. r = SettleProbe(t, a)
    BY <1>4 DEF Recorded
  <2> HIDE DEF t, r
  <2>2. CASE a.probe = Never
    <3>1. r = t
      BY <2>1, <2>2 DEF SettleProbe
    <3> QED BY <1>2, <1>4, <2>2, <3>1 DEF r
  <2>3. CASE a.probe # Never
    <3>1. r = [t EXCEPT !.probe = Never, !.probeStart = Never]
      BY <2>1, <2>3 DEF SettleProbe
    <3>2. /\ r \in State /\ r.probe = Never /\ r.probeStart = Never
          /\ r.epoch = t.epoch /\ r.openedAt = t.openedAt /\ r.failures = t.failures
      BY <1>2, <3>1 DEF State
    <3> QED BY <1>2, <1>4, <2>3, <3>2 DEF r
  <2> QED BY <2>2, <2>3
<1> QED BY <1>3, <1>4

-----------------------------------------------------------------------------
(* The steps.                                                              *)

\* An ordinary request is let through a closed circuit (admit_circuit).
LEMMA AdmitClosedStep ==
  ASSUME Inv, NEW r \in Requests, NEW k \in Keys, NEW p \in Policies, AdmitClosed(r, k, p)
  PROVE  Inv'
<1> DEFINE s == Entry(k)
           b == [request |-> r, key |-> k, policy |-> p, probe |-> Never,
                 epoch |-> s.epoch, seen |-> turns[k], started |-> now]
<1>1. /\ s \in State /\ s.openedAt = circuits[k].openedAt /\ s.probe = circuits[k].probe
      /\ s.probeStart = circuits[k].probeStart /\ s.epoch = circuits[k].epoch
      /\ Draws(k) \in {0, 1}
  BY EntryReads DEF Inv
<1>2. /\ Put(k, s, Victims(k)) /\ s.openedAt = Never
      /\ sequence' = sequence + Draws(k)
      /\ inflight' = inflight \cup {b}
      /\ UNCHANGED <<now, turns, newest>>
  BY DEF AdmitClosed, LetThrough
<1>3. /\ b \in Admission /\ b.key = k /\ b.probe = Never
      /\ b.epoch = s.epoch /\ b.seen = turns[k]
  BY <1>1 DEF Inv, TypeOK, Admission, State
<1> HIDE DEF s, b
<1>4. /\ circuits' \in [Keys -> State] /\ stored' \subseteq Keys /\ forgotten' \subseteq Keys
      /\ AbsentIsDefault'
      /\ circuits'[k] = s
      /\ \A j \in Keys \ {k} : circuits'[j] = circuits[j] \/ circuits'[j] = Default
      /\ Remembered' \subseteq Remembered
      /\ \A j \in Remembered' \ {k} : circuits'[j] = circuits[j]
  BY <1>1, <1>2, VictimsOf, PutKeeps DEF Inv
<1>5. \A j \in Remembered' :
        /\ j \in Remembered
        /\ circuits'[j].probe = circuits[j].probe /\ circuits'[j].epoch = circuits[j].epoch
        /\ circuits'[j].probeStart = circuits[j].probeStart
        /\ circuits'[j].openedAt = circuits[j].openedAt
  BY <1>1, <1>4
<1>6. TypeOK'
  BY <1>1, <1>2, <1>3, <1>4 DEF Inv, TypeOK
<1>7. Numbered'
  <2>1. \A j \in Keys : circuits'[j].probe = circuits[j].probe \/ circuits'[j].probe = Never
    BY <1>1, <1>4 DEF Default
  <2>2. sequence' \in Nat /\ sequence' >= sequence
    BY <1>1, <1>2 DEF Inv, TypeOK
  <2> QED BY <1>2, <1>3, <2>1, <2>2 DEF Inv, TypeOK, Numbered, Admission
<1>8. EpochsCountTurns'
  BY <1>1, <1>2, <1>3, <1>5 DEF Inv, TypeOK, State, EpochsCountTurns, Remembered
<1>9. ProbeKeepsCircuitOpen'
  BY <1>5 DEF Inv, ProbeKeepsCircuitOpen, Remembered
<1>10. ProbesOwnTheirEpoch'
  <2> SUFFICES ASSUME NEW j \in Remembered', NEW a \in inflight', a.key = j,
                      a.epoch = circuits'[j].epoch, circuits'[j].probe # Never
               PROVE  a.probe # Never
    BY DEF ProbesOwnTheirEpoch
  <2>1. CASE a = b
    <3>1. k \in Remembered /\ circuits[k].openedAt = Never /\ circuits[k].probe # Never
      BY <1>1, <1>2, <1>3, <1>5, <2>1
    <3> QED BY <3>1 DEF Inv, ProbeKeepsCircuitOpen, Remembered
  <2>2. CASE a # b
    BY <1>2, <1>5, <2>2 DEF Inv, ProbesOwnTheirEpoch
  <2> QED BY <2>1, <2>2
<1>11. MarkerStands'
  BY <1>2, <1>3, <1>5 DEF Inv, MarkerStands
<1> QED BY <1>4, <1>6, <1>7, <1>8, <1>9, <1>10, <1>11 DEF Inv

\* A probe is let through an open circuit (admit_circuit).
LEMMA AdmitProbeStep ==
  ASSUME Inv, NEW r \in Requests, NEW k \in Keys, NEW p \in Policies, AdmitProbe(r, k, p)
  PROVE  Inv'
<1> DEFINE s == Entry(k)
           n == Probed(s)
           b == [request |-> r, key |-> k, policy |-> p, probe |-> sequence,
                 epoch |-> n.epoch, seen |-> turns[k] + 1, started |-> now]
<1>1. /\ s \in State /\ s.openedAt = circuits[k].openedAt /\ s.epoch = circuits[k].epoch
      /\ sequence \in Nat /\ sequence # 0 /\ now \in Nat
  BY EntryReads DEF Inv, TypeOK
<1>2. /\ Put(k, n, Victims(k)) /\ s.openedAt # Never
      /\ sequence' = sequence + 1
      /\ inflight' = inflight \cup {b}
      /\ turns' = [turns EXCEPT ![k] = @ + 1]
      /\ newest' = [newest EXCEPT ![k] = sequence]
      /\ now' = now
  BY DEF AdmitProbe, LetThrough
<1>3. /\ n \in State /\ n.openedAt = s.openedAt /\ n.probe = sequence
      /\ n.probeStart = now /\ n.epoch = s.epoch + 1
  <2> DEFINE e == s.epoch + 1
  <2>1. n = [[[s EXCEPT !.probe = sequence] EXCEPT !.probeStart = now] EXCEPT !.epoch = e]
    BY DEF Probed
  <2>2. e \in Nat
    BY <1>1 DEF State
  <2> HIDE DEF s, n, e
  <2>3. /\ n \in State /\ n.openedAt = s.openedAt /\ n.probe = sequence
        /\ n.probeStart = now /\ n.epoch = e
    BY <1>1, <2>1, <2>2 DEF State
  <2> QED BY <2>3 DEF e
<1> HIDE DEF n, s
<1>4. /\ b \in Admission /\ b.key = k /\ b.probe = sequence
      /\ b.epoch = s.epoch + 1 /\ b.seen = turns[k] + 1 /\ b.started = now
  BY <1>1, <1>3 DEF Inv, TypeOK, Admission, State
<1> HIDE DEF b
<1>5. /\ circuits' \in [Keys -> State] /\ stored' \subseteq Keys /\ forgotten' \subseteq Keys
      /\ AbsentIsDefault'
      /\ circuits'[k] = n
      /\ \A j \in Keys \ {k} : circuits'[j] = circuits[j] \/ circuits'[j] = Default
      /\ Remembered' \subseteq Remembered
      /\ \A j \in Remembered' \ {k} : circuits'[j] = circuits[j]
  BY <1>2, <1>3, VictimsOf, PutKeeps DEF Inv
<1>6. /\ turns' \in [Keys -> Nat] /\ turns'[k] = turns[k] + 1
      /\ \A j \in Keys \ {k} : turns'[j] = turns[j]
      /\ newest' \in [Keys -> Nat] /\ newest'[k] = sequence
      /\ \A j \in Keys \ {k} : newest'[j] = newest[j]
  BY <1>1, <1>2 DEF Inv, TypeOK
<1>7. TypeOK'
  BY <1>1, <1>2, <1>4, <1>5, <1>6 DEF Inv, TypeOK
<1>8. Numbered'
  <2>1. \A j \in Keys : newest'[j] < sequence'
    BY <1>1, <1>2, <1>6 DEF Inv, TypeOK, Numbered
  <2>2. \A j \in Keys : circuits'[j].probe # Never => circuits'[j].probe = newest'[j]
    BY <1>3, <1>5, <1>6 DEF Inv, Numbered, Default
  <2>3. \A a \in inflight : a.probe < sequence /\ a.probe # sequence
    BY <1>1 DEF Inv, TypeOK, Numbered, Admission
  <2>4. \A a \in inflight' : a.probe < sequence'
    BY <1>1, <1>2, <1>4, <2>3 DEF Inv, TypeOK, Admission
  <2>5. \A a, c \in inflight' : a.probe # Never /\ a.probe = c.probe => a = c
    BY <1>2, <1>4, <2>3 DEF Inv, Numbered
  <2> QED BY <2>1, <2>2, <2>4, <2>5 DEF Numbered
<1>9. EpochsCountTurns'
  <2> SUFFICES ASSUME NEW j \in Remembered'
               PROVE  /\ circuits'[j].epoch = turns'[j]
                      /\ \A a \in inflight' :
                           a.key = j => a.epoch = a.seen /\ a.epoch <= circuits'[j].epoch
    BY DEF EpochsCountTurns
  <2>1. j \in Remembered /\ j \in Keys
    BY <1>5 DEF Remembered
  <2>2. CASE j = k
    BY <1>1, <1>2, <1>3, <1>4, <1>5, <1>6, <2>1, <2>2
       DEF Inv, TypeOK, EpochsCountTurns, Admission, State
  <2>3. CASE j # k
    BY <1>2, <1>4, <1>5, <1>6, <2>1, <2>3 DEF Inv, EpochsCountTurns
  <2> QED BY <2>2, <2>3
<1>10. ProbeKeepsCircuitOpen'
  BY <1>2, <1>3, <1>5 DEF Inv, ProbeKeepsCircuitOpen, Remembered
<1>11. ProbesOwnTheirEpoch'
  <2> SUFFICES ASSUME NEW j \in Remembered', NEW a \in inflight', a.key = j,
                      a.epoch = circuits'[j].epoch, circuits'[j].probe # Never
               PROVE  a.probe # Never
    BY DEF ProbesOwnTheirEpoch
  <2>1. CASE a = b
    BY <1>1, <1>4, <2>1
  <2>2. CASE a # b /\ j = k
    BY <1>1, <1>2, <1>3, <1>5, <2>2 DEF Inv, TypeOK, EpochsCountTurns, Admission, State
  <2>3. CASE a # b /\ j # k
    BY <1>2, <1>5, <2>3 DEF Inv, ProbesOwnTheirEpoch
  <2> QED BY <2>1, <2>2, <2>3
<1>12. MarkerStands'
  <2> SUFFICES ASSUME NEW j \in Remembered', NEW a \in inflight', a.key = j,
                      a.probe # Never, a.probe = newest'[j]
               PROVE  circuits'[j].probe = a.probe /\ circuits'[j].probeStart = a.started
    BY DEF MarkerStands
  <2>1. CASE a = b
    BY <1>3, <1>4, <1>5, <2>1
  <2>2. CASE a # b /\ j = k
    BY <1>1, <1>2, <1>6, <2>2 DEF Inv, TypeOK, Numbered, Admission
  <2>3. CASE a # b /\ j # k
    BY <1>2, <1>5, <1>6, <2>3 DEF Inv, MarkerStands, Remembered
  <2> QED BY <2>1, <2>2, <2>3
<1> QED BY <1>5, <1>7, <1>8, <1>9, <1>10, <1>11, <1>12 DEF Inv

\* The outcome of a request is recorded (record_circuit).
LEMMA RecordStep ==
  ASSUME Inv, NEW a \in inflight, NEW failed \in BOOLEAN, Record(a, failed)
  PROVE  Inv'
<1> DEFINE k == a.key
           s == Entry(k)
           n == Recorded(s, a, failed)
<1>1. a \in Admission /\ k \in Keys /\ now \in Nat /\ now # 0
  BY DEF Inv, TypeOK, Admission
<1>2. /\ s \in State /\ s.openedAt = circuits[k].openedAt /\ s.probe = circuits[k].probe
      /\ s.probeStart = circuits[k].probeStart /\ s.epoch = circuits[k].epoch
      /\ Draws(k) \in {0, 1}
  BY <1>1, EntryReads DEF Inv
<1>3. /\ n \in State
      /\ Superseded(a, s) => n = s
      /\ ~Superseded(a, s) =>
           /\ n.probe = IF a.probe = Never THEN s.probe ELSE Never
           /\ n.probeStart = IF a.probe = Never THEN s.probeStart ELSE Never
      /\ n.epoch = IF s.openedAt = Never /\ n.openedAt # Never THEN s.epoch + 1 ELSE s.epoch
  BY <1>1, <1>2, RecordedState
<1>4. /\ Put(k, n, {})
      /\ sequence' = sequence + Draws(k)
      /\ inflight' = inflight \ {a}
      /\ turns' = IF s.openedAt = Never /\ n.openedAt # Never
                  THEN [turns EXCEPT ![k] = @ + 1] ELSE turns
      /\ UNCHANGED <<now, newest>>
  BY DEF Record
<1> HIDE DEF n, s
<1>5. /\ circuits' \in [Keys -> State] /\ stored' \subseteq Keys /\ forgotten' \subseteq Keys
      /\ AbsentIsDefault'
      /\ circuits'[k] = n
      /\ \A j \in Keys \ {k} : circuits'[j] = circuits[j] \/ circuits'[j] = Default
      /\ Remembered' \subseteq Remembered
      /\ \A j \in Remembered' \ {k} : circuits'[j] = circuits[j]
  BY <1>1, <1>3, <1>4, PutKeeps DEF Inv
<1>6. /\ turns' \in [Keys -> Nat]
      /\ \A j \in Keys \ {k} : turns'[j] = turns[j]
      /\ turns'[k] - turns[k] = n.epoch - s.epoch
  BY <1>1, <1>2, <1>3, <1>4 DEF Inv, TypeOK, State
<1>7. /\ sequence' \in Nat /\ sequence' >= sequence /\ sequence' # 0
  BY <1>2, <1>4 DEF Inv, TypeOK
<1>8. TypeOK'
  BY <1>4, <1>5, <1>6, <1>7 DEF Inv, TypeOK
<1>9. (n.probe = s.probe /\ n.probeStart = s.probeStart) \/ n.probe = Never
  BY <1>3
<1>10. Numbered'
  BY <1>1, <1>2, <1>4, <1>5, <1>7, <1>9 DEF Inv, TypeOK, Numbered, Default, Admission
<1>11. EpochsCountTurns'
  <2> SUFFICES ASSUME NEW j \in Remembered'
               PROVE  /\ circuits'[j].epoch = turns'[j]
                      /\ \A c \in inflight' :
                           c.key = j => c.epoch = c.seen /\ c.epoch <= circuits'[j].epoch
    BY DEF EpochsCountTurns
  <2>1. j \in Remembered /\ j \in Keys
    BY <1>5 DEF Remembered
  <2>2. CASE j = k
    <3>1. n.epoch \in Nat /\ s.epoch \in Nat /\ n.epoch >= s.epoch
      BY <1>2, <1>3 DEF State
    <3>2. turns[k] = s.epoch /\ turns'[k] \in Nat
      BY <1>1, <1>2, <1>6, <2>1, <2>2 DEF Inv, EpochsCountTurns
    <3>3. \A c \in inflight' : c.key = k => c.epoch = c.seen /\ c.epoch <= s.epoch /\ c.epoch \in Nat
      BY <1>2, <1>4, <2>1, <2>2 DEF Inv, TypeOK, EpochsCountTurns, Admission
    <3> QED BY <1>5, <1>6, <2>2, <3>1, <3>2, <3>3
  <2>3. CASE j # k
    BY <1>4, <1>5, <1>6, <2>1, <2>3 DEF Inv, EpochsCountTurns
  <2> QED BY <2>2, <2>3
\* An outcome that is not outdated and not of a probe leaves no marker.
<1>12. k \in Remembered /\ ~Superseded(a, s) => n.probe = Never
  <2> SUFFICES ASSUME k \in Remembered, ~Superseded(a, s), a.probe = Never
               PROVE  s.probe = Never
    BY <1>3
  <2>1. a.epoch = circuits[k].epoch
    BY <1>2 DEF Superseded
  <2> QED BY <1>2, <2>1 DEF Inv, ProbesOwnTheirEpoch
<1>13. k \in Remembered /\ n.probe # Never => n = s
  BY <1>3, <1>12
<1>14. ProbeKeepsCircuitOpen'
  <2> SUFFICES ASSUME NEW j \in Remembered', circuits'[j].probe # Never
               PROVE  circuits'[j].openedAt # Never
    BY DEF ProbeKeepsCircuitOpen, Remembered
  <2>1. CASE j = k
    BY <1>2, <1>5, <1>13, <2>1 DEF Inv, ProbeKeepsCircuitOpen, Remembered
  <2>2. CASE j # k
    BY <1>5, <2>2 DEF Inv, ProbeKeepsCircuitOpen, Remembered
  <2> QED BY <2>1, <2>2
<1>15. ProbesOwnTheirEpoch'
  <2> SUFFICES ASSUME NEW j \in Remembered', NEW c \in inflight', c.key = j,
                      c.epoch = circuits'[j].epoch, circuits'[j].probe # Never
               PROVE  c.probe # Never
    BY DEF ProbesOwnTheirEpoch
  <2>1. CASE j = k
    BY <1>2, <1>4, <1>5, <1>13, <2>1 DEF Inv, ProbesOwnTheirEpoch
  <2>2. CASE j # k
    BY <1>4, <1>5, <2>2 DEF Inv, ProbesOwnTheirEpoch
  <2> QED BY <2>1, <2>2
<1>16. MarkerStands'
  <2> SUFFICES ASSUME NEW j \in Remembered', NEW c \in inflight', c.key = j,
                      c.probe # Never, c.probe = newest'[j]
               PROVE  circuits'[j].probe = c.probe /\ circuits'[j].probeStart = c.started
    BY DEF MarkerStands
  <2>1. CASE j = k
    <3>1. /\ c \in inflight /\ c # a /\ k \in Remembered
          /\ s.probe = c.probe /\ s.probeStart = c.started
      BY <1>2, <1>4, <1>5, <2>1 DEF Inv, MarkerStands
    <3>2. a.probe # c.probe
      BY <3>1 DEF Inv, Numbered
    <3>3. Superseded(a, s)
      BY <1>2, <3>1, <3>2 DEF Superseded, Inv, ProbesOwnTheirEpoch
    <3> QED BY <1>3, <1>5, <2>1, <3>1, <3>3
  <2>2. CASE j # k
    BY <1>4, <1>5, <2>2 DEF Inv, MarkerStands
  <2> QED BY <2>1, <2>2
<1> QED BY <1>5, <1>8, <1>10, <1>11, <1>14, <1>15, <1>16 DEF Inv

\* A request that is dropped takes its admission with it and nothing else.
LEMMA DropStep ==
  ASSUME Inv, NEW a \in inflight, Drop(a)
  PROVE  Inv'
BY DEF Inv, Drop, ghosts, TypeOK, AbsentIsDefault, Numbered, EpochsCountTurns,
       ProbesOwnTheirEpoch, ProbeKeepsCircuitOpen, MarkerStands, Remembered

\* Time passes.
LEMMA TickStep ==
  ASSUME Inv, Tick
  PROVE  Inv'
BY DEF Inv, Tick, ghosts, TypeOK, AbsentIsDefault, Numbered, EpochsCountTurns,
       ProbesOwnTheirEpoch, ProbeKeepsCircuitOpen, MarkerStands, Remembered

\* Nothing happens.
LEMMA StutterStep ==
  ASSUME Inv, UNCHANGED vars
  PROVE  Inv'
BY DEF Inv, vars, ghosts, TypeOK, AbsentIsDefault, Numbered, EpochsCountTurns,
       ProbesOwnTheirEpoch, ProbeKeepsCircuitOpen, MarkerStands, Remembered

-----------------------------------------------------------------------------
(* The theorems.                                                           *)

\* No circuit has a state of its own yet.
LEMMA Initially == Init => Inv
BY DEF Init, Inv, TypeOK, Default, State, AbsentIsDefault, Numbered, EpochsCountTurns,
       ProbesOwnTheirEpoch, ProbeKeepsCircuitOpen, MarkerStands, Remembered

\* Every step keeps the invariant.
LEMMA Inductive == Inv /\ [Next]_vars => Inv'
<1> SUFFICES ASSUME Inv, [Next]_vars PROVE Inv'
  OBVIOUS
<1>1. CASE Next
  BY <1>1, AdmitClosedStep, AdmitProbeStep, RecordStep, DropStep, TickStep, StutterStep
     DEF Next, Quiet
<1>2. CASE UNCHANGED vars
  BY <1>2, StutterStep
<1> QED BY <1>1, <1>2

\* The inductive invariant holds in every state, whatever policies meet on one
\* circuit (admit_circuit, record_circuit).
THEOREM Invariance == Spec => []Inv
BY Initially, Inductive, PTL DEF Spec

\* Every variable of the breaker keeps its shape (CircuitState).
THEOREM TypeCorrect == Spec => []TypeOK
BY Invariance, PTL DEF Inv

\* While a probe is out the circuit stays open, whatever late outcomes are
\* recorded meanwhile (admit_circuit, record_circuit).
THEOREM ProbesKeepCircuitsOpen == Spec => []ProbeKeepsCircuitOpen
BY Invariance, PTL DEF Inv

\* An outdated outcome, and that of a replaced probe, decides nothing
\* (record_circuit).
THEOREM OutdatedOutcomesAreIgnored == Spec => OutdatedOutcomeIsIgnored
<1> DEFINE Ignored == /\ \A k \in Keys \ forgotten : ~OutdatedOutcomeChanges(k)
                      /\ ~ReplacedProbeChanges
<1>1. ASSUME Inv, [Next]_vars
      PROVE  [Ignored]_vars
  <2> SUFFICES ASSUME Next PROVE Ignored
    BY <1>1
\* Only the record of a request ends it and changes a circuit.
  <2>1. ASSUME NEW a \in inflight, Ends(a), circuits'[a.key] # circuits[a.key]
        PROVE  \E failed \in BOOLEAN : Record(a, failed)
    <3>1. CASE \E r \in Requests, k \in Keys, p \in Policies :
                 AdmitClosed(r, k, p) \/ AdmitProbe(r, k, p)
      BY <2>1, <3>1 DEF AdmitClosed, AdmitProbe, LetThrough, Ends
    <3>2. CASE \E c \in inflight : Drop(c) \/ \E failed \in BOOLEAN : Record(c, failed)
      <4>1. PICK c \in inflight : Drop(c) \/ \E failed \in BOOLEAN : Record(c, failed)
        BY <3>2
      <4>2. inflight' = inflight \ {c}
        BY <4>1 DEF Drop, Record
      <4>3. c = a
        BY <2>1, <4>2 DEF Ends
      <4>4. ~Drop(a)
        BY <2>1 DEF Drop
      <4> QED BY <4>1, <4>3, <4>4
    <3>3. CASE Tick \/ Quiet
      BY <2>1, <3>3 DEF Tick, Quiet, vars, Ends
    <3> QED BY <3>1, <3>2, <3>3 DEF Next
\* A superseded outcome leaves the state of a key of the map as it was.
  <2>2. ASSUME NEW a \in inflight, NEW failed \in BOOLEAN, Record(a, failed),
               a.key \in stored, Superseded(a, circuits[a.key])
        PROVE  circuits'[a.key] = circuits[a.key]
    <3>1. Entry(a.key) = circuits[a.key] /\ a.key \in Keys
      BY <1>1, <2>2 DEF Entry, Inv, TypeOK, Admission
    <3>2. Recorded(Entry(a.key), a, failed) = circuits[a.key]
      BY <2>2, <3>1 DEF Recorded
    <3> QED BY <2>2, <3>1, <3>2 DEF Record, Put
  <2>3. ASSUME NEW k \in Keys \ forgotten, OutdatedOutcomeChanges(k) PROVE FALSE
    <3>1. PICK a \in inflight : /\ Ends(a) /\ Outdated(a) /\ a.key = k
                                /\ k \in stored /\ circuits'[k] # circuits[k]
      BY <2>3 DEF OutdatedOutcomeChanges
    <3>2. Superseded(a, circuits[k])
      BY <1>1, <3>1 DEF Superseded, Outdated, Inv, EpochsCountTurns, Remembered
    <3> QED BY <2>1, <2>2, <3>1, <3>2
  <2>4. ASSUME ReplacedProbeChanges PROVE FALSE
    <3>1. PICK a \in inflight : /\ Ends(a) /\ a.probe # Never /\ a.probe # newest[a.key]
                                /\ a.key \in stored /\ circuits'[a.key] # circuits[a.key]
      BY <2>4 DEF ReplacedProbeChanges
    <3>2. Superseded(a, circuits[a.key])
      BY <1>1, <3>1 DEF Superseded, Inv, TypeOK, Numbered, Admission
    <3> QED BY <2>1, <2>2, <3>1, <3>2
  <2> QED BY <2>3, <2>4
<1> QED BY <1>1, Invariance, PTL DEF Spec, OutdatedOutcomeIsIgnored

\* The lease of a probe is a number of time units (probe_lease).
LEMMA LeaseType == \A p \in Policies : ProbeLease(p) \in Nat
<1> SUFFICES ASSUME NEW p \in Policies PROVE ProbeLease(p) \in Nat
  OBVIOUS
<1>1. p.recovery \in Nat /\ p.work \in Nat
  BY PoliciesAssumption
<1>2. ASSUME NEW x \in Nat, NEW y \in Nat
      PROVE  Max({x, y}) \in Nat /\ Min({x, y}) \in Nat
  <2>1. \E z \in {x, y} : \A v \in {x, y} : z >= v
    OBVIOUS
  <2>2. \E z \in {x, y} : \A v \in {x, y} : z =< v
    OBVIOUS
  <2> QED BY <2>1, <2>2 DEF Max, Min
<1> QED BY <1>1, <1>2, LeaseAssumption DEF ProbeLease

\* A probe goes out beside the unanswered one before it only after the lease
\* (admit_circuit).
THEOREM ProbesKeepTheirLease == Spec => OneProbePerLease
<1> DEFINE Leased ==
      \A a \in inflight, b \in inflight' \ inflight :
        (/\ a.key = b.key /\ a.key \notin forgotten'
         /\ a.probe # Never /\ a.probe = newest[a.key] /\ b.probe # Never)
          => now >= a.started + ProbeLease(b.policy)
<1>1. ASSUME Inv, [Next]_vars
      PROVE  [Leased]_vars
  <2> SUFFICES ASSUME Next, NEW a \in inflight, NEW b \in inflight' \ inflight,
                      a.key = b.key, a.key \notin forgotten',
                      a.probe # Never, a.probe = newest[a.key], b.probe # Never
               PROVE  now >= a.started + ProbeLease(b.policy)
    BY <1>1
  <2>1. PICK r \in Requests, k \in Keys, p \in Policies :
          AdmitClosed(r, k, p) \/ AdmitProbe(r, k, p)
    BY DEF Next, Drop, Record, Tick, Quiet, vars
  <2>2. AdmitProbe(r, k, p) /\ b.key = k /\ b.policy = p
    BY <2>1 DEF AdmitClosed, AdmitProbe, LetThrough
  <2>3. k \in Remembered
    BY <1>1, <2>2 DEF AdmitProbe, Put, Remembered
  <2>4. Entry(k).probe = a.probe /\ Entry(k).probeStart = a.started
    BY <1>1, <2>2, <2>3, EntryReads DEF Inv, MarkerStands
  <2>5. ~(now < a.started + ProbeLease(p))
    BY <2>2, <2>4 DEF AdmitProbe, Probing
  <2>6. now \in Nat /\ a.started \in Nat /\ ProbeLease(p) \in Nat
    BY <1>1, LeaseType DEF Inv, TypeOK, Admission
  <2> QED BY <2>2, <2>5, <2>6
<1> QED BY <1>1, Invariance, PTL DEF Spec, OneProbePerLease

\* A circuit does not stay closed on failures that every policy in use opens it
\* for (CircuitBreakerPolicy.failure_threshold).
THEOREM ClosedCircuitsAreBelowThreshold ==
  ASSUME Policies # {}
  PROVE  Spec => []ClosedBelowThreshold
<1> DEFINE Below(s) == s.openedAt = Never => \E p \in Policies : s.failures < p.threshold
<1>1. \A p \in Policies : p.threshold \in Nat /\ 0 < p.threshold
  BY PoliciesAssumption
<1>2. Below(Default)
  BY <1>1 DEF Default
<1>3. Init => ClosedBelowThreshold
  BY <1>2 DEF Init, ClosedBelowThreshold
<1>4. ASSUME Inv, ClosedBelowThreshold, [Next]_vars
      PROVE  ClosedBelowThreshold'
  <2>1. \A k \in Keys : Below(circuits[k]) /\ Below(Entry(k))
    BY <1>4, EntryReads DEF ClosedBelowThreshold, Inv
\* Put gives one key a new state, and the others their own or the default.
  <2>2. ASSUME NEW k \in Keys, NEW s, Below(s), NEW victims, Put(k, s, victims)
        PROVE  ClosedBelowThreshold'
    <3>1. \A j \in Keys : circuits'[j] \in {s, Default, circuits[j]}
      BY <2>2 DEF Put
    <3> QED BY <1>2, <2>1, <2>2, <3>1 DEF ClosedBelowThreshold
  <2>3. ASSUME NEW r \in Requests, NEW k \in Keys, NEW p \in Policies, AdmitClosed(r, k, p)
        PROVE  ClosedBelowThreshold'
    BY <2>1, <2>2, <2>3 DEF AdmitClosed
  <2>4. ASSUME NEW r \in Requests, NEW k \in Keys, NEW p \in Policies, AdmitProbe(r, k, p)
        PROVE  ClosedBelowThreshold'
    <3>1. Entry(k) \in State
      BY <1>4, EntryReads DEF Inv
    <3>2. Probed(Entry(k)).openedAt = Entry(k).openedAt
      BY <3>1 DEF Probed, State
    <3>3. Below(Probed(Entry(k)))
      BY <2>4, <3>2 DEF AdmitProbe
    <3> QED BY <2>2, <2>4, <3>3 DEF AdmitProbe
  <2>5. ASSUME NEW a \in inflight, NEW failed \in BOOLEAN, Record(a, failed)
        PROVE  ClosedBelowThreshold'
    <3>1. a \in Admission /\ a.key \in Keys /\ a.policy \in Policies /\ now \in Instant
      BY <1>4 DEF Inv, TypeOK, Admission
    <3>2. Entry(a.key) \in State
      BY <1>4, <3>1, EntryReads DEF Inv
    <3>3. Below(Recorded(Entry(a.key), a, failed))
      BY <1>1, <2>1, <3>1, <3>2, RecordedState
    <3> QED BY <2>2, <2>5, <3>1, <3>3 DEF Record
  <2>6. UNCHANGED circuits => ClosedBelowThreshold'
    BY <1>4 DEF ClosedBelowThreshold
  <2> QED BY <1>4, <2>3, <2>4, <2>5, <2>6 DEF Next, Drop, Tick, Quiet, vars
<1>5. ClosedBelowThreshold /\ []Inv /\ [][Next]_vars => []ClosedBelowThreshold
  BY <1>4, PTL
<1> QED BY <1>3, <1>5, Invariance, PTL DEF Spec
=============================================================================
