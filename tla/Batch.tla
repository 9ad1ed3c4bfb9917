--------------------------------- MODULE Batch ---------------------------------
(* Batch enrichment: the input records are sent in chunks, one request for  *)
(* each. A record that cannot be resolved is left out of its chunk, so the  *)
(* results of a chunk are aligned with the records that were sent.          *)
EXTENDS Integers, Sequences, FiniteSets, Errors, Ordering

CONSTANTS
  Batches,     \* inputs: the records that resolve, max_size, continue_on_error
  NoAdditions  \* the record is returned as it was

ASSUME BatchAssumption ==
  /\ Batches \subseteq [valid: Seq(BOOLEAN), size: Nat \ {0}, continue: BOOLEAN]
  /\ NoAdditions \notin Nat \ {0}

VARIABLES
  batch,    \* the input and the configuration
  chunk,    \* the chunk at hand: its number and the request's state
  enriched, \* the output records: additions, or none
  failures, \* ExecutionError of records, in the order they are reported
  sentFor   \* history: records whose chunk's request was sent with them in it

batchVars == <<batch, chunk, enriched, failures, sentFor>>

BatchInit ==
  /\ batch \in Batches
  /\ chunk = [number |-> 0, pc |-> "resolve"]
  /\ enriched = <<>>
  /\ failures = <<>>
  /\ sentFor = {}

-----------------------------------------------------------------------------
Base    == chunk.number * batch.size

(* The records of the chunk; those that resolve make up the request.       *)
Offsets == 1..(IF Len(batch.valid) - Base < batch.size
               THEN Len(batch.valid) - Base ELSE batch.size)
Valid   == InOrder({o \in Offsets : batch.valid[Base + o]})

\* Faulty variant: the place in the chunk for the record's index.
FailureInChunk(o, variant, sent) ==
  [index |-> o, error |-> Reported(variant, IF sent THEN "read" ELSE "prepare", sent)]

Failure(o, variant, sent) ==
  [index |-> Base + o, error |-> Reported(variant, IF sent THEN "read" ELSE "prepare", sent)]

(* The errors of the records that were sent come first, then those of the  *)
(* ones that did not resolve.                                              *)
Unresolved ==
  LET left == InOrder({o \in Offsets : ~batch.valid[Base + o]})
  IN  [i \in DOMAIN left |-> Failure(left[i], "MissingParameter", FALSE)]

(* The rows of the chunk, with the results taken in order by the records   *)
(* that were sent; a failed request gives none.                            *)
ChunkRows(results) ==
  LET place == [o \in Offsets |-> Cardinality({q \in 1..o : batch.valid[Base + q]})]
  IN  [o \in Offsets |->
         IF batch.valid[Base + o] /\ place[o] <= Len(results)
         THEN results[place[o]] ELSE NoAdditions]

Conclude(results, errors) ==
  /\ enriched' = enriched \o ChunkRows(results)
  /\ failures' = failures \o errors \o Unresolved
  /\ chunk' = [number |-> chunk.number + 1,
               pc |-> IF ~batch.continue /\ failures' # <<>> THEN "stop" ELSE "resolve"]

InChunk == chunk.pc = "resolve" /\ Base < Len(batch.valid)

(* A chunk with nothing to send is not requested.                          *)
SkipChunk ==
  /\ InChunk
  /\ Valid = <<>>
  /\ Conclude(<<>>, <<>>)
  /\ UNCHANGED <<batch, sentFor>>

ChunkFails(variant, sent) ==
  Conclude(<<>>, [i \in DOMAIN Valid |-> Failure(Valid[i], variant, sent)])

(* The request is refused before it is sent.                               *)
RefuseChunk ==
  /\ InChunk
  /\ Valid # <<>>
  /\ ChunkFails("RequestTooLarge", FALSE)
  /\ UNCHANGED <<batch, sentFor>>

SendChunk ==
  /\ InChunk
  /\ Valid # <<>>
  /\ chunk' = [chunk EXCEPT !.pc = "sent"]
  /\ sentFor' = sentFor \cup {Base + Valid[i] : i \in DOMAIN Valid}
  /\ UNCHANGED <<batch, enriched, failures>>

(* The service has one result for each item, or some other number of them. *)
(* batch_response reads them.                                              *)
ReceiveChunk ==
  /\ chunk.pc = "sent"
  /\ \E n \in {Len(Valid) - 1, Len(Valid), Len(Valid) + 1} :
       LET results == [i \in 1..n |->
                         IF i <= Len(Valid) THEN Base + Valid[i] ELSE NoAdditions]
       IN  IF n = Len(Valid) THEN Conclude(results, <<>>)
           ELSE ChunkFails("InvalidResponse", TRUE)
  /\ UNCHANGED <<batch, sentFor>>

LoseChunk ==
  /\ chunk.pc = "sent"
  /\ ChunkFails("Transport", TRUE)
  /\ UNCHANGED <<batch, sentFor>>

BatchNext == SkipChunk \/ RefuseChunk \/ SendChunk \/ ReceiveChunk \/ LoseChunk

BatchSpec == BatchInit /\ [][BatchNext]_batchVars

-----------------------------------------------------------------------------
FailuresOf(r) == {i \in DOMAIN failures : failures[i].index = r}

(* enrich_batch: every record of the output is the input record at its     *)
(* place, with the result the service gave for that very record or with    *)
(* one error of its own, although some were left out of their request; an  *)
(* error says that nothing happened remotely only if the request with the  *)
(* record in it was never sent; and unless errors are to be passed over no *)
(* chunk follows one with an error.                                        *)
BatchIsAligned ==
  /\ \A r \in DOMAIN enriched :
       /\ enriched[r] \in {r, NoAdditions}
       /\ Cardinality(FailuresOf(r)) = (IF enriched[r] = r THEN 0 ELSE 1)
       /\ \A i \in FailuresOf(r) :
            failures[i].error.effect = "none" \/ failures[i].error.retry = "safe" =>
              r \notin sentFor
  /\ \A i \in DOMAIN failures : failures[i].index \in DOMAIN enriched
  /\ InChunk => Len(enriched) = Base
  /\ InChunk /\ ~batch.continue => failures = <<>>
=============================================================================
