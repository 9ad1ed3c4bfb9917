-------------------------------- MODULE Upload --------------------------------
(* An upload reads its source several times by path: its length, a first   *)
(* digest, the body of every attempt, and a last digest. Another process   *)
(* may write the file at any time.                                         *)
(*                                                                         *)
(* Content is a sequence of blocks, each the stamp of the write that put   *)
(* it there; a digest is the content it was computed over. A stamp is      *)
(* never used twice: content put back as it was cannot be told from        *)
(* content left alone, which docs/limiti.md:119 says of the code.          *)
EXTENDS Integers, Sequences, FiniteSetsExt, SequencesExt

CONSTANTS
  UploadLimit,     \* transfer_limit: blocks
  UploadAttempts,  \* RetryPolicy::max_attempts
  MaxBlocks,       \* bound on the blocks of the source
  MaxWrites        \* bound on the writes of the other process

ASSUME UploadAssumption ==
  /\ UploadLimit \in Nat /\ UploadAttempts \in Nat \ {0}
  /\ MaxBlocks \in Nat /\ MaxWrites \in Nat

VARIABLES
  source,     \* the file
  stamp,      \* the last stamp used
  upload      \* the execution and what the service got

uploadVars == <<source, stamp, upload>>

InPhase(phase) == upload.pc = phase
Fails(error)   == upload' = [upload EXCEPT !.pc = "failed", !.error = error]

UploadInit ==
  /\ source \in {[i \in 1..n |-> 0] : n \in 0..MaxBlocks}
  /\ stamp = 0
  /\ upload = [pc |-> "length", length |-> 0, read |-> <<>>, sha256 |-> <<>>,
               attempt |-> 1, delivered |-> <<>>, error |-> "none"]

(* fs::metadata: the length announced, too large refused.                  *)
Measure ==
  /\ InPhase("length")
  /\ IF Len(source) > UploadLimit THEN Fails("too large")
     ELSE upload' = [upload EXCEPT !.pc = "hash", !.length = Len(source)]
  /\ UNCHANGED <<source, stamp>>

(* One block of hash_file, or of the body: ReaderStream.                   *)
More == Len(upload.read) < Len(source)
ReadOn == upload' = [upload EXCEPT !.read = Append(@, source[Len(@) + 1])]

(* hash_file, before and after. A last digest that fails for any reason is *)
(* a checksum mismatch: the request was made.                              *)
HashBlock ==
  /\ InPhase("hash") \/ InPhase("rehash")
  /\ More
  /\ IF Len(upload.read) < UploadLimit THEN ReadOn
     ELSE Fails(IF InPhase("hash") THEN "too large" ELSE "checksum")
  /\ UNCHANGED <<source, stamp>>

HashEnds ==
  /\ InPhase("hash")
  /\ ~More
  /\ upload' = [upload EXCEPT !.pc = "send", !.sha256 = upload.read, !.read = <<>>]
  /\ UNCHANGED <<source, stamp>>

\* Faulty variant: only the lengths are compared.
RehashCountsBlocks ==
  /\ InPhase("rehash")
  /\ ~More
  /\ IF Len(upload.read) = Len(upload.sha256) THEN upload' = [upload EXCEPT !.pc = "done"]
     ELSE Fails("checksum")
  /\ UNCHANGED <<source, stamp>>

RehashEnds ==
  /\ InPhase("rehash")
  /\ ~More
  /\ IF upload.read = upload.sha256 THEN upload' = [upload EXCEPT !.pc = "done"]
     ELSE Fails("checksum")
  /\ UNCHANGED <<source, stamp>>

(* The body of an attempt is the announced number of bytes: a longer file  *)
(* is cut there, a shorter one breaks the request.                         *)
SendBlock ==
  /\ InPhase("send")
  /\ Len(upload.read) < upload.length
  /\ More
  /\ ReadOn
  /\ UNCHANGED <<source, stamp>>

Accepted ==
  /\ InPhase("send")
  /\ Len(upload.read) = upload.length
  /\ upload' = [upload EXCEPT !.pc = "rehash", !.delivered = upload.read, !.read = <<>>]
  /\ UNCHANGED <<source, stamp>>

(* A retryable status or a transport error.                                *)
AttemptFails ==
  /\ InPhase("send")
  /\ IF upload.attempt < UploadAttempts
     THEN upload' = [upload EXCEPT !.attempt = @ + 1, !.read = <<>>]
     ELSE Fails("transport")
  /\ UNCHANGED <<source, stamp>>

(* The file cannot be read, or the first digest is not the one expected.   *)
FileFails ==
  /\ InPhase("length") \/ InPhase("hash") \/ InPhase("rehash")
  /\ Fails(IF InPhase("rehash") THEN "checksum" ELSE "file")
  /\ UNCHANGED <<source, stamp>>

(* The other process writes a block or appends one. It does not shorten    *)
(* the file: after an append that would put the content back.              *)
WriteSource ==
  /\ stamp < MaxWrites
  /\ stamp' = stamp + 1
  /\ \/ \E i \in DOMAIN source : source' = [source EXCEPT ![i] = stamp + 1]
     \/ Len(source) < MaxBlocks /\ source' = Append(source, stamp + 1)
  /\ UNCHANGED upload

UploadNext ==
  \/ Measure \/ HashBlock \/ HashEnds \/ RehashEnds
  \/ SendBlock \/ Accepted \/ AttemptFails \/ FileFails
  \/ WriteSource

UploadSpec == UploadInit /\ [][UploadNext]_uploadVars

-----------------------------------------------------------------------------
(* upload: when a result reports a digest, the service was sent content    *)
(* with that digest, whatever was written to the file between any two of   *)
(* the reads; only up to the announced length when the file had grown      *)
(* between the measure of its length and the first digest.                 *)
UploadIsAuthentic ==
  InPhase("done") =>
    upload.delivered = SubSeq(upload.sha256, 1, upload.length)
=============================================================================
