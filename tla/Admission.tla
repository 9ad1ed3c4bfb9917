------------------------------- MODULE Admission -------------------------------
(* The way into an execution, execute_with_control up to the first request: *)
(* the engine may be closed, the cookie session is checked, then the        *)
(* idempotency key, then the deadline. Executions run concurrently; they    *)
(* suspend at the session check.                                            *)
EXTENDS Integers, Sequences, FiniteSets, SequencesExt

CONSTANTS
  Calls,       \* executions
  IdempotencyKeys,        \* idempotency keys
  NoKey,       \* options.idempotency_key is absent
  Prints,      \* values of execution_fingerprint
  NoPrint,     \* no fingerprint under the key
  KeyLimits    \* values of max_idempotency_keys

ASSUME KeyLimitsAssumption == KeyLimits \subseteq Nat
ASSUME NoPrintAssumption == NoPrint \notin Prints

VARIABLES
  keyLimit,        \* max_idempotency_keys of the engine
  closed,          \* the engine is closed
  fingerprints,    \* IdempotencyRegistry.fingerprints
  insertionOrder,  \* IdempotencyRegistry.insertion_order
  calls,           \* the executions
  registered       \* history: the keys put in the registry, oldest first

admissionVars ==
  <<keyLimit, closed, fingerprints, insertionOrder, calls, registered>>

AdmissionInit ==
  /\ keyLimit \in KeyLimits
  /\ closed = FALSE
  /\ fingerprints = [k \in IdempotencyKeys |-> NoPrint]
  /\ insertionOrder = <<>>
  /\ calls = [c \in Calls |-> [pc |-> "new"]]
  /\ registered = <<>>

Remembered == {k \in IdempotencyKeys : fingerprints[k] # NoPrint}

Goes(c, pc) == calls' = [calls EXCEPT ![c] = [pc |-> pc, key |-> calls[c].key]]

(* A closed engine refuses before anything else. The fingerprint leaves    *)
(* out the key and the deadline.                                           *)
Enter(c, key, print) ==
  /\ calls[c].pc = "new"
  /\ calls' = [calls EXCEPT ![c] =
       [pc |-> IF closed THEN "refused" ELSE "session", key |-> key, print |-> print]]
  /\ UNCHANGED <<keyLimit, closed, fingerprints, insertionOrder, registered>>

(* The session has ended, or the deadline or the configuration is invalid. *)
RefuseEarly(c) ==
  /\ calls[c].pc = "session"
  /\ Goes(c, "refused")
  /\ UNCHANGED <<keyLimit, closed, fingerprints, insertionOrder, registered>>

\* Faulty variant: one key too many is kept.
PopsLate ==
  IF Len(insertionOrder) <= keyLimit THEN 0 ELSE Len(insertionOrder) - keyLimit

(* The oldest keys are popped until one more fits, and their prints go.    *)
Pops ==
  IF Len(insertionOrder) < keyLimit THEN 0 ELSE Len(insertionOrder) + 1 - keyLimit

Forgotten == {insertionOrder[i] : i \in 1..Pops}

Remember(key, print) ==
  /\ fingerprints' = [k \in IdempotencyKeys |-> IF k = key THEN print
                                     ELSE IF k \in Forgotten THEN NoPrint
                                     ELSE fingerprints[k]]
  /\ insertionOrder' =
       Append(SubSeq(insertionOrder, Pops + 1, Len(insertionOrder)), key)
  /\ registered' = Append(registered, [key |-> key, print |-> print])

(* admit_idempotency, then the deadline: an execution whose deadline has   *)
(* passed leaves its key registered.                                       *)
Proceeds(c) == Goes(c, "running") \/ Goes(c, "expired")

KeyUnknown(c) == calls[c].key # NoKey /\ fingerprints[calls[c].key] = NoPrint

AdmitNew(c) ==
  /\ calls[c].pc = "session"
  /\ KeyUnknown(c)
  /\ keyLimit > 0
  /\ Remember(calls[c].key, calls[c].print)
  /\ Proceeds(c)
  /\ UNCHANGED <<keyLimit, closed>>

AdmitKnown(c) ==
  /\ calls[c].pc = "session"
  /\ calls[c].key # NoKey => fingerprints[calls[c].key] = calls[c].print
  /\ Proceeds(c)
  /\ UNCHANGED <<keyLimit, closed, fingerprints, insertionOrder, registered>>

(* IDEMPOTENCY_CONFLICT, or a key where none may be used.                  *)
RefuseKey(c) ==
  /\ calls[c].pc = "session"
  /\ calls[c].key # NoKey
  /\ keyLimit = 0 \/ fingerprints[calls[c].key] \notin {NoPrint, calls[c].print}
  /\ Goes(c, "conflict")
  /\ UNCHANGED <<keyLimit, closed, fingerprints, insertionOrder, registered>>

CloseEngine ==
  /\ ~closed
  /\ closed' = TRUE
  /\ UNCHANGED <<keyLimit, fingerprints, insertionOrder, calls, registered>>

AdmissionNext ==
  \/ \E c \in Calls :
       \/ \E key \in IdempotencyKeys \cup {NoKey}, print \in Prints : Enter(c, key, print)
       \/ RefuseEarly(c) \/ AdmitNew(c) \/ AdmitKnown(c) \/ RefuseKey(c)
  \/ CloseEngine

AdmissionSpec == AdmissionInit /\ [][AdmissionNext]_admissionVars

-----------------------------------------------------------------------------
(* admit_idempotency: the keys remembered are the last keyLimit that were  *)
(* registered, each with the input it came with, the map and the queue of  *)
(* the registry agreeing. So a key is reused with another input only after *)
(* keyLimit other keys were registered since.                              *)
LastKeysAreRemembered ==
  LET n      == Len(registered)
      recent == {i \in 1..n : i > n - keyLimit}
  IN  /\ \A i \in recent : fingerprints[registered[i].key] = registered[i].print
      /\ Remembered = {registered[i].key : i \in recent}
      /\ Remembered = ToSet(insertionOrder)
      /\ Cardinality(recent) = Len(insertionOrder)
      /\ \A i, j \in 1..n :
           i < j /\ registered[i].key = registered[j].key => j - i > keyLimit
=============================================================================
