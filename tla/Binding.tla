-------------------------------- MODULE Binding --------------------------------
(***************************************************************************)
(* The runtime binding: from the text of an envelope to the execution, or  *)
(* to the refusal that answers it. Each reserved value of an envelope is   *)
(* as it should be ("ok"), absent, malformed, well-formed but not one this *)
(* component serves ("foreign"), or not a string ("untyped"). The deadline *)
(* may pass between any two steps.                                         *)
(***************************************************************************)
EXTENDS FiniteSets

CONSTANTS
  Messages,   \* bound: the envelopes
  NoAnswer

VARIABLES
  message,    \* RuntimeMessage: its values, payload and resources
  step,       \* where the invocation is
  lateAt,     \* the step at which the deadline passed, if it has
  resolved,   \* references the host has resolved
  reply       \* the answer: category and what it copies; NoAnswer before

bindingVars == <<message, step, lateAt, resolved, reply>>

Identity == {"id", "correlation"}
Selector == {"name", "version", "operation", "operationVersion", "input"}
Optional == {"causation", "deadline", "idempotency"}
Metadata == Identity \cup Selector \cup Optional
Envelope == {"kind", "content", "payload", "schema", "contract"}

\* The steps before anything is done on behalf of the message.
Early == {"read", "grammar", "support", "deadline", "payload", "invoke"}

ASSUME NoAnswerAssumption == NoAnswer \notin Early

Is(f) == message.values[f]
late == lateAt # NoAnswer     \* deadline_expired
Canonical(f) == Is(f) \in {"ok", "foreign"}

-----------------------------------------------------------------------------
(* Answers.                                                                *)

\* response_metadata: what a reply copies from the request.
Copied == {f \in Identity \cup {"operation", "operationVersion"} : Canonical(f)}

Answer(category) ==
  /\ reply' = [category |-> category, copies |-> Copied]
  /\ step' = "answered"
  /\ UNCHANGED <<message, lateAt>>

RefuseWith(category) == Answer(category) /\ UNCHANGED resolved

Go(next) == step' = next /\ UNCHANGED <<message, lateAt, resolved, reply>>

BindingStart ==
  /\ step = "read" /\ lateAt = NoAnswer /\ resolved = {} /\ reply = NoAnswer
BindingInit == message \in Messages /\ BindingStart

DeadlinePasses ==
  /\ ~late /\ step # "answered"
  /\ Is("deadline") = "ok"
  /\ lateAt' = step
  /\ UNCHANGED <<message, step, resolved, reply>>

-----------------------------------------------------------------------------
(* The envelope.                                                           *)

\* Text with no envelope in it is an error of the call, and has no answer.
ReadNothing ==
  /\ step = "read" /\ message.text = "other"
  /\ step' = "answered"
  /\ UNCHANGED <<message, lateAt, resolved, reply>>

Untyped == \E f \in Metadata : Is(f) = "untyped"
ReadEnvelope == step = "read" /\ message.text = "envelope" /\ ~Untyped /\ Go("grammar")
RefuseUntyped == step = "read" /\ message.text = "envelope" /\ Untyped /\ RefuseWith("protocol")

\* validate_grammar
IllFormed ==
  \/ \E f \in Metadata \cup Envelope : Is(f) = "malformed"
  \/ \E f \in Identity \cup Selector : Is(f) = "absent"

CheckGrammar == step = "grammar" /\ ~IllFormed /\ Go("support")
RefuseGrammar == step = "grammar" /\ IllFormed /\ RefuseWith("protocol")

\* validate_support, operation_contracts
Unserved == \E f \in Selector \cup {"schema", "contract", "content"} : Is(f) = "foreign"
CheckSupport == step = "support" /\ ~Unserved /\ Go("deadline")
RefuseSupport == step = "support" /\ Unserved /\ RefuseWith("unsupported")

\* A deadline in UTC that is too far to be an instant is "foreign".
CheckDeadline ==
  step = "deadline" /\ Is("deadline") \in {"ok", "absent"} /\ ~late /\ Go("payload")
RefuseFar ==
  step = "deadline" /\ Is("deadline") = "foreign" /\ RefuseWith("invalid_configuration")
RefuseLate ==
  step = "deadline" /\ Is("deadline") = "ok" /\ late /\ RefuseWith("timeout")

\* The payload: one that is no execution request ("alien"), has a key or a
\* deadline of its own, or is of another operation, is refused.
CheckPayload == step = "payload" /\ message.request = "ok" /\ Go("invoke")
RefusePayload ==
  step = "payload" /\ message.request # "ok" /\ RefuseWith("invalid_configuration")

\* Faulty variant: the deadline is not looked at again.
CheckAgainAtOnce == step = "invoke" /\ Go("secrets")

CheckAgain == step = "invoke" /\ ~late /\ Go("secrets")
RefuseAgain == step = "invoke" /\ late /\ RefuseWith("timeout")

-----------------------------------------------------------------------------
(* References.                                                             *)

\* reject_inline_secrets
CheckSecrets == step = "secrets" /\ ~message.inlineSecret /\ Go("credentials")
RefuseSecrets ==
  step = "secrets" /\ message.inlineSecret /\ RefuseWith("invalid_configuration")

\* validate_reference: only an opaque one is shown to the host, which may
\* refuse it.
Shown(what) == resolved' = resolved \cup {what}

ResolveCredentials ==
  /\ step = "credentials" /\ message.credential \in {"none", "opaque"}
  /\ IF message.credential = "opaque" THEN Shown("credential") ELSE UNCHANGED resolved
  /\ step' = "file"
  /\ UNCHANGED <<message, lateAt, reply>>
RefuseCredentials ==
  /\ step = "credentials" /\ message.credential # "none"
  /\ IF message.credential = "opaque"
     THEN Shown("credential") /\ Answer("authorization")      \* the host's error
     ELSE Answer("invalid_configuration") /\ UNCHANGED resolved

\* A transfer names an artifact of its own direction and no local path; any
\* other operation has no file.
Transfers == message.operation \in {"download", "upload"}
FileFits ==
  IF Transfers THEN message.file = [path |-> FALSE, artifact |-> "opaque", other |-> FALSE]
  ELSE message.file = NoAnswer

ResolveFile ==
  /\ step = "file" /\ FileFits
  /\ IF Transfers THEN Shown("artifact") ELSE UNCHANGED resolved
  /\ step' = "execute"
  /\ UNCHANGED <<message, lateAt, reply>>
RefuseFile ==
  /\ step = "file"
  /\ IF FileFits
     THEN Transfers /\ Shown("artifact") /\ Answer("authorization")
     ELSE Answer("invalid_configuration") /\ UNCHANGED resolved

\* The engine's own result, or its refusal when the deadline has passed.
Execute ==
  /\ step = "execute"
  /\ IF late THEN RefuseWith("timeout")
     ELSE \E category \in {"success", "execution", "timeout"} : RefuseWith(category)

BindingNext ==
  \/ DeadlinePasses \/ ReadNothing
  \/ ReadEnvelope \/ RefuseUntyped
  \/ CheckGrammar \/ RefuseGrammar
  \/ CheckSupport \/ RefuseSupport
  \/ CheckDeadline \/ RefuseFar \/ RefuseLate
  \/ CheckPayload \/ RefusePayload
  \/ CheckAgain \/ RefuseAgain
  \/ CheckSecrets \/ RefuseSecrets
  \/ ResolveCredentials \/ RefuseCredentials
  \/ ResolveFile \/ RefuseFile
  \/ Execute

BindingSpec == BindingInit /\ [][BindingNext]_bindingVars

-----------------------------------------------------------------------------

AnsweredAs(category) == reply # NoAnswer /\ reply.category = category

\* The faults of a message that are found before the host is asked for anything.
FaultBeforeHost ==
  \/ Unserved \/ IllFormed \/ Untyped
  \/ message.request # "ok" \/ message.inlineSecret \/ Is("deadline") = "foreign"
  \/ message.credential \notin {"none", "opaque"}

\* The order of the checks is seen by the host: a broken grammar is told before
\* what is not served, that before a deadline, that before what the payload
\* holds. For a message with any of those faults the host is asked for nothing
\* and nothing runs. The one fault found later is that of a file that does not
\* fit: by then the host was asked for the credential, if the message has one,
\* and for nothing else; an artifact is asked for only when the message has no
\* fault at all. A refusal of authorization is the host's own. A deadline that
\* has passed by the time the host is first asked leaves it unasked ("nothing
\* done, local or remote"), whatever step it passed at. What runs has all it
\* names resolved, and an answer copies canonical values only (runtime.rs:
\* invoke, resolve_runtime_inputs).
RefusalIsFirst ==
  /\ AnsweredAs("protocol") => IllFormed \/ Untyped
  /\ AnsweredAs("unsupported") => Unserved /\ ~IllFormed /\ ~Untyped
  /\ AnsweredAs("timeout") => ~Unserved /\ ~IllFormed /\ ~Untyped
  /\ AnsweredAs("invalid_configuration") =>
       /\ ~Unserved /\ ~IllFormed /\ ~Untyped
       /\ IF FaultBeforeHost THEN resolved = {}
          ELSE ~FileFits /\ resolved = (IF message.credential = "none" THEN {} ELSE {"credential"})
  /\ AnsweredAs("authorization") => resolved # {}
  /\ resolved # {} \/ step = "execute" => ~FaultBeforeHost
  /\ "artifact" \in resolved \/ step = "execute" =>
       /\ FileFits
       /\ message.credential # "none" => "credential" \in resolved
  /\ step = "execute" /\ Transfers => "artifact" \in resolved
  /\ lateAt \in Early => resolved = {} /\ step # "execute"
  /\ reply # NoAnswer => \A f \in reply.copies : Is(f) \notin {"absent", "malformed", "untyped"}
=============================================================================
