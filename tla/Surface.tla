-------------------------------- MODULE Surface --------------------------------
(* What the two hosts make of an execution's result: the runtime binding's *)
(* reply and the command line's. Both put one error in the place of the    *)
(* result of a failed execution, and lose the index of its record.         *)
EXTENDS Execution

Answered(error, omitted, recoveries) ==
  [kind |-> "error", jobs |-> recoveries, omitted |-> omitted,
   effect |-> error.axes.effect, retry |-> error.axes.retry]

Returned(execution) ==
  [kind |-> "success", jobs |-> execution.recoveries,
   omitted |-> IF execution.errors = <<>> THEN 0 ELSE Head(execution.errors).omitted]

Limits(errors) == {i \in DOMAIN errors : errors[i].axes.category = "resource_limit"}

\* Faulty variant: the count of the omitted handles stays on the first error.
RuntimeReplyOfLimit(execution) ==
  LET limits == Limits(execution.errors)
      told   == execution.errors[IF limits = {} THEN 1 ELSE Min(limits)]
  IN  IF execution.status = "failed" \/ limits # {}
      THEN Answered(told, told.omitted, execution.recoveries)
      ELSE Returned(execution)

(* execution_message: a limit is never a success, and comes before the     *)
(* other errors; the omitted handles are counted on the first.             *)
RuntimeReply(execution) ==
  LET limits == Limits(execution.errors)
      first  == Head(execution.errors)
      told   == IF limits = {} THEN first ELSE execution.errors[Min(limits)]
  IN  IF execution.status = "failed" \/ limits # {}
      THEN Answered(told, first.omitted, execution.recoveries)
      ELSE Returned(execution)

(* outcome_of: a partial execution is a success, with all of its result.   *)
CommandReply(execution) ==
  LET first == Head(execution.errors)
  IN  IF execution.status = "failed"
      THEN Answered(first, first.omitted, execution.recoveries) ELSE Returned(execution)

Replies == {RuntimeReply(result), CommandReply(result)}

-----------------------------------------------------------------------------
(* execution_message, outcome_of: a job left running is in the reply of    *)
(* either host, or counted among the handles left out, whichever of the    *)
(* execution's errors the host shows. with_recoveries: "a job still        *)
(* running always comes with the failure that interrupted it", so that its *)
(* internal error is never made.                                           *)
HandlesReachHost ==
  result # NoResult =>
    /\ \A r \in Inputs, reply \in Replies :
         records[r].job = "open" /\ Alone(r) =>
           reply.omitted > 0 \/ \E h \in reply.jobs : h.url = records[r].url
    /\ result.recoveries # {} => result.errors # <<>>
    /\ \A i \in DOMAIN result.errors : result.errors[i].axes.category # "internal"

(* docs/architecture.md:473: an error has remote_effect "none" only if no  *)
(* request of the operation was sent. Lines 485-488 judge a record's error *)
(* by the requests of that record, but the hosts' error names no record.   *)
SurfaceEffectIsTold ==
  result # NoResult =>
    \A reply \in Replies :
      reply.kind = "error" /\ reply.effect = "none" => ~Sent
=============================================================================
