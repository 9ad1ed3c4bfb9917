-------------------------------- MODULE HostProofs --------------------------------
(***************************************************************************)
(* Theorems about what stands around the engine: the messages of the       *)
(* contract (Binding), the command line and the load campaign, for every   *)
(* value of their constants.                                               *)
(*                                                                         *)
(* Each property speaks of the end of a run, so each invariant says what   *)
(* the steps before it establish: Established, of the checks passed so     *)
(* far; CommandInv, of the document that is handed to be written (it       *)
(* speaks of a cancellation only if a signal was taken); CampaignInv, of   *)
(* who waits for a ticket and for a request, and that as long as nothing   *)
(* went wrong each count is the number of its tickets.                     *)
(***************************************************************************)
EXTENDS Binding, CommandLine, Campaign, FiniteSetTheorems, TLAPS

(* The messages of the contract                                            *)

\* The steps on the way to the host, and those at which it may be asked.
Late  == {"secrets", "credentials", "file", "execute"}
Asked == {"credentials", "file", "execute"}

Established ==
  /\ step \in {"grammar", "support", "deadline", "payload", "invoke"} \cup Late => ~Untyped
  /\ step \in {"support", "deadline", "payload", "invoke"} \cup Late => ~IllFormed
  /\ step \in {"payload", "invoke"} \cup Late => ~Unserved
  /\ step = "deadline" => ~Unserved
  /\ step \in {"invoke"} \cup Late => message.request = "ok"
  /\ step \in {"payload", "invoke"} \cup Late => Is("deadline") # "foreign"
  /\ step \in Asked => ~message.inlineSecret
  /\ step \in Early \cup {"secrets", "credentials"} => resolved = {}
  /\ step \in {"file", "execute"} => message.credential \in {"none", "opaque"}
  /\ step = "file" =>
       resolved = (IF message.credential = "none" THEN {} ELSE {"credential"})
  /\ step \in Late => lateAt \notin Early

BindingInv == Established /\ RefusalIsFirst

-----------------------------------------------------------------------------

\* Nothing is established before the first step.
LEMMA BindingStarts == BindingInit => BindingInv
<1> SUFFICES ASSUME BindingInit PROVE BindingInv
  OBVIOUS
<1>1. Established
  BY DEF BindingInit, BindingStart, Established, Early, Late, Asked
<1>2. RefusalIsFirst
  BY NoAnswerAssumption DEF BindingInit, BindingStart, RefusalIsFirst, AnsweredAs
<1> QED BY <1>1, <1>2 DEF BindingInv

\* No step changes the message, nor what the checks say of it.
LEMMA MessageKept ==
  ASSUME BindingNext
  PROVE  /\ message' = message
         /\ Untyped' = Untyped /\ IllFormed' = IllFormed /\ Unserved' = Unserved
         /\ FileFits' = FileFits /\ Transfers' = Transfers
         /\ FaultBeforeHost' = FaultBeforeHost
         /\ \A f : Is(f)' = Is(f)
<1>1. message' = message
  BY DEF BindingNext, DeadlinePasses, ReadNothing, ReadEnvelope, RefuseUntyped, CheckGrammar,
         RefuseGrammar, CheckSupport, RefuseSupport, CheckDeadline, RefuseFar, RefuseLate,
         CheckPayload, RefusePayload, CheckAgain, RefuseAgain, CheckSecrets, RefuseSecrets,
         ResolveCredentials, RefuseCredentials, ResolveFile, RefuseFile, Execute,
         Go, RefuseWith, Answer
<1> QED BY <1>1 DEF Untyped, IllFormed, Unserved, FileFits, Transfers, FaultBeforeHost, Is

\* At the steps where the host is asked, what is wrong with a message is its file, if
\* anything is.
LEMMA NoFaultLeft ==
  ASSUME Established, step \in {"file", "execute"} \/ (step = "credentials" /\ message.credential = "opaque")
  PROVE  ~FaultBeforeHost
  BY DEF Established, FaultBeforeHost, Late, Asked

\* An answer leaves the host as it was, unless it asked for one thing more.
LEMMA AnswerStep ==
  ASSUME BindingInv, BindingNext, NEW category, Answer(category),
         category = "protocol" => IllFormed \/ Untyped,
         category = "unsupported" => Unserved /\ ~IllFormed /\ ~Untyped,
         category = "timeout" => ~Unserved /\ ~IllFormed /\ ~Untyped,
         category = "invalid_configuration" =>
           /\ ~Unserved /\ ~IllFormed /\ ~Untyped
           /\ IF FaultBeforeHost THEN resolved' = {}
              ELSE /\ ~FileFits
                   /\ resolved' = (IF message.credential = "none" THEN {} ELSE {"credential"}),
         category = "authorization" => resolved' # {},
         resolved' = resolved \/ ~FaultBeforeHost,
         resolved' = resolved \/ lateAt \notin Early,
         "artifact" \in resolved' => "artifact" \in resolved \/ FileFits,
         "artifact" \in resolved' /\ message.credential # "none" => "credential" \in resolved'
  PROVE  BindingInv'
<1>1. /\ step' = "answered" /\ lateAt' = lateAt
      /\ reply' = [category |-> category, copies |-> Copied]
  BY DEF Answer
<1>2. \A c : AnsweredAs(c)' => c = category
  BY <1>1 DEF AnsweredAs
<1>3. \A f \in Copied : Is(f) \notin {"absent", "malformed", "untyped"}
  BY DEF Copied, Canonical
<1>4. Established'
  BY <1>1 DEF Established, Early, Late, Asked
<1>5. /\ resolved' # {} => ~FaultBeforeHost /\ lateAt \notin Early
      /\ "artifact" \in resolved' => FileFits
  BY DEF BindingInv, RefusalIsFirst
<1>6. reply' # NoAnswer => \A f \in reply'.copies : Is(f)' \notin {"absent", "malformed", "untyped"}
  BY <1>1, <1>3, MessageKept
<1>7. RefusalIsFirst'
  BY <1>1, <1>2, <1>5, <1>6, MessageKept DEF RefusalIsFirst
<1> QED BY <1>4, <1>7 DEF BindingInv

\* A refusal for which the host was not asked for anything more.
LEMMA RefusedStep ==
  ASSUME BindingInv, BindingNext, NEW category, RefuseWith(category),
         category # "authorization",
         category = "protocol" => IllFormed \/ Untyped,
         category = "unsupported" => Unserved /\ ~IllFormed /\ ~Untyped,
         category = "timeout" => ~Unserved /\ ~IllFormed /\ ~Untyped,
         category = "invalid_configuration" =>
           /\ ~Unserved /\ ~IllFormed /\ ~Untyped
           /\ IF FaultBeforeHost THEN resolved = {}
              ELSE /\ ~FileFits
                   /\ resolved = (IF message.credential = "none" THEN {} ELSE {"credential"})
  PROVE  BindingInv'
<1>1. Answer(category) /\ resolved' = resolved
  BY DEF RefuseWith
<1>2. /\ "artifact" \in resolved => FileFits
      /\ "artifact" \in resolved /\ message.credential # "none" => "credential" \in resolved
  BY DEF BindingInv, RefusalIsFirst
<1> QED BY <1>1, <1>2, AnswerStep

\* Each step establishes what the later ones rest on.
LEMMA BindingStep == BindingInv /\ [BindingNext]_bindingVars => BindingInv'
<1> SUFFICES ASSUME BindingInv, [BindingNext]_bindingVars PROVE BindingInv'
  OBVIOUS
<1>1. CASE UNCHANGED bindingVars
  BY <1>1 DEF bindingVars, BindingInv, Established, RefusalIsFirst, AnsweredAs, Untyped,
     IllFormed, Unserved, FileFits, Transfers, FaultBeforeHost, Is
<1>2. CASE BindingNext
  <2> USE <1>2
  <2>1. CASE DeadlinePasses
    <3>1. /\ UNCHANGED <<step, resolved, reply>> /\ lateAt' = step
      BY <2>1 DEF DeadlinePasses
    <3>2. Established'
      BY <3>1, MessageKept DEF BindingInv, Established, Early, Late, Asked
    <3>3. RefusalIsFirst'
      BY <3>1, MessageKept DEF BindingInv, Established, RefusalIsFirst, AnsweredAs, Early
    <3> QED BY <3>2, <3>3 DEF BindingInv
  <2>2. CASE ReadNothing
    <3>1. /\ step = "read" /\ step' = "answered" /\ UNCHANGED <<lateAt, resolved, reply>>
      BY <2>2 DEF ReadNothing
    <3>2. Established'
      BY <3>1 DEF Established, Early, Late, Asked
    <3>3. RefusalIsFirst'
      BY <3>1, MessageKept DEF BindingInv, Established, RefusalIsFirst, AnsweredAs, Early
    <3> QED BY <3>2, <3>3 DEF BindingInv
  <2>3. CASE \/ ReadEnvelope \/ CheckGrammar \/ CheckSupport \/ CheckDeadline
             \/ CheckPayload \/ CheckAgain \/ CheckSecrets
    <3>1. /\ UNCHANGED <<lateAt, resolved, reply>>
          /\ \/ step = "read" /\ step' = "grammar" /\ ~Untyped
             \/ step = "grammar" /\ step' = "support" /\ ~IllFormed
             \/ step = "support" /\ step' = "deadline" /\ ~Unserved
             \/ step = "deadline" /\ step' = "payload" /\ Is("deadline") # "foreign"
             \/ step = "payload" /\ step' = "invoke" /\ message.request = "ok"
             \/ step = "invoke" /\ step' = "secrets" /\ lateAt \notin Early
             \/ step = "secrets" /\ step' = "credentials" /\ ~message.inlineSecret
      BY <2>3, NoAnswerAssumption
         DEF ReadEnvelope, CheckGrammar, CheckSupport, CheckDeadline, CheckPayload, CheckAgain,
             CheckSecrets, Go, late
    <3>2. Established'
      BY <3>1, MessageKept DEF BindingInv, Established, Early, Late, Asked
    <3>3. RefusalIsFirst'
      BY <3>1, MessageKept DEF BindingInv, Established, RefusalIsFirst, AnsweredAs, Early
    <3> QED BY <3>2, <3>3 DEF BindingInv
  <2>4. CASE RefuseUntyped \/ RefuseGrammar
    BY <2>4, RefusedStep DEF RefuseUntyped, RefuseGrammar
  <2>5. CASE RefuseSupport
    BY <2>5, RefusedStep DEF RefuseSupport, BindingInv, Established
  <2>6. CASE RefuseFar
    <3>1. /\ RefuseWith("invalid_configuration") /\ FaultBeforeHost /\ resolved = {}
          /\ ~Unserved /\ ~IllFormed /\ ~Untyped
      BY <2>6 DEF RefuseFar, FaultBeforeHost, BindingInv, Established, Early
    <3> QED BY <3>1, RefusedStep
  <2>7. CASE RefuseLate \/ RefuseAgain
    BY <2>7, RefusedStep DEF RefuseLate, RefuseAgain, BindingInv, Established
  <2>8. CASE RefusePayload
    <3>1. /\ RefuseWith("invalid_configuration") /\ FaultBeforeHost /\ resolved = {}
          /\ ~Unserved /\ ~IllFormed /\ ~Untyped
      BY <2>8 DEF RefusePayload, FaultBeforeHost, BindingInv, Established, Early
    <3> QED BY <3>1, RefusedStep
  <2>9. CASE RefuseSecrets
    <3>1. /\ RefuseWith("invalid_configuration") /\ FaultBeforeHost /\ resolved = {}
          /\ ~Unserved /\ ~IllFormed /\ ~Untyped
      BY <2>9 DEF RefuseSecrets, FaultBeforeHost, BindingInv, Established, Late
    <3> QED BY <3>1, RefusedStep
  <2>10. CASE ResolveCredentials
    <3>1. /\ UNCHANGED <<lateAt, reply>> /\ step = "credentials" /\ step' = "file"
          /\ message.credential \in {"none", "opaque"} /\ resolved = {}
          /\ resolved' = (IF message.credential = "none" THEN {} ELSE {"credential"})
      BY <2>10 DEF ResolveCredentials, Shown, BindingInv, Established
    <3>2. message.credential = "opaque" => ~FaultBeforeHost
      BY <3>1, NoFaultLeft DEF BindingInv
    <3>3. Established'
      BY <3>1, MessageKept DEF BindingInv, Established, Early, Late, Asked
    <3>4. RefusalIsFirst'
      BY <3>1, <3>2, MessageKept DEF BindingInv, Established, RefusalIsFirst, AnsweredAs, Late
    <3> QED BY <3>3, <3>4 DEF BindingInv
  <2>11. CASE RefuseCredentials
    <3>1. step = "credentials" /\ resolved = {} /\ lateAt \notin Early
      BY <2>11 DEF RefuseCredentials, BindingInv, Established, Late
    <3>2. CASE message.credential = "opaque"
      <4>1. Answer("authorization") /\ resolved' = {"credential"} /\ ~FaultBeforeHost
        BY <2>11, <3>1, <3>2, NoFaultLeft DEF RefuseCredentials, Shown, BindingInv
      <4> QED BY <3>1, <4>1, AnswerStep
    <3>3. CASE message.credential # "opaque"
      <4>1. /\ RefuseWith("invalid_configuration") /\ FaultBeforeHost
            /\ ~Unserved /\ ~IllFormed /\ ~Untyped
        BY <2>11, <3>1, <3>3
           DEF RefuseCredentials, RefuseWith, FaultBeforeHost, BindingInv, Established, Late
      <4> QED BY <3>1, <4>1, RefusedStep
    <3> QED BY <3>2, <3>3
  <2>12. CASE ResolveFile
    <3>1. /\ UNCHANGED <<lateAt, reply>> /\ step = "file" /\ step' = "execute" /\ FileFits
          /\ resolved' = resolved \cup (IF Transfers THEN {"artifact"} ELSE {})
          /\ message.credential # "none" => "credential" \in resolved
      BY <2>12 DEF ResolveFile, Shown, BindingInv, Established
    <3>2. ~FaultBeforeHost
      BY <3>1, NoFaultLeft DEF BindingInv
    <3>3. Established'
      BY <3>1, MessageKept DEF BindingInv, Established, Early, Late, Asked
    <3>4. RefusalIsFirst'
      BY <3>1, <3>2, MessageKept DEF BindingInv, Established, RefusalIsFirst, AnsweredAs, Late
    <3> QED BY <3>3, <3>4 DEF BindingInv
  <2>13. CASE RefuseFile
    <3>1. /\ step = "file" /\ lateAt \notin Early
          /\ resolved = (IF message.credential = "none" THEN {} ELSE {"credential"})
          /\ ~Unserved /\ ~IllFormed /\ ~Untyped
      BY <2>13 DEF RefuseFile, BindingInv, Established, Late
    <3>2. ~FaultBeforeHost
      BY <3>1, NoFaultLeft DEF BindingInv
    <3>3. CASE FileFits
      <4>1. Answer("authorization") /\ resolved' = resolved \cup {"artifact"}
        BY <2>13, <3>3 DEF RefuseFile, Shown
      <4> QED BY <3>1, <3>2, <3>3, <4>1, AnswerStep
    <3>4. CASE ~FileFits
      <4>1. RefuseWith("invalid_configuration")
        BY <2>13, <3>4 DEF RefuseFile, RefuseWith
      <4> QED BY <3>1, <3>2, <3>4, <4>1, RefusedStep
    <3> QED BY <3>3, <3>4
  <2>14. CASE Execute
    <3>1. PICK category \in {"success", "execution", "timeout"} : RefuseWith(category)
      BY <2>14 DEF Execute
    <3>2. /\ ~Unserved /\ ~IllFormed /\ ~Untyped
      BY <2>14 DEF Execute, BindingInv, Established, Late
    <3> QED BY <3>1, <3>2, RefusedStep
  <2> QED BY <2>1, <2>2, <2>3, <2>4, <2>5, <2>6, <2>7, <2>8, <2>9, <2>10, <2>11, <2>12, <2>13,
             <2>14 DEF BindingNext
<1> QED BY <1>1, <1>2

\* A message is refused for the first of its faults, before the host is asked for
\* anything on its behalf, unless its only fault is its file: then the host was asked for
\* the credential, if it has one, and for nothing else. No artifact is asked for, and
\* nothing runs, for a message with a fault or one that is late at the second look
\* (runtime.rs: invoke, resolve_runtime_inputs).
THEOREM RefusalsComeFirst == BindingSpec => []RefusalIsFirst
<1>1. BindingInv => RefusalIsFirst
  BY DEF BindingInv
<1> QED BY <1>1, BindingStarts, BindingStep, PTL DEF BindingSpec

-----------------------------------------------------------------------------
(* The command line                                                        *)

Categories ==
  {"invalid_plan", "invalid_configuration", "schema", "data_mapping", "unsupported",
   "resource_limit", "io", "protocol", "authentication", "authorization", "timeout",
   "transient", "execution", "internal", "cancelled"}

\* A document that may be written now: it speaks of a cancellation only if a signal
\* was taken, and then calls a retry safe only if nothing was sent.
Truthful(document) ==
  \/ document.status = "ok"
  \/ /\ document.status = "error" /\ document.error.category \in Categories
     /\ document.error.category = "cancelled" =>
          token /\ (document.error.retry = "safe" => ~sent)

BeforeExecution == {"parse", "runtime", "install", "prepare"}

CommandInv ==
  /\ token \in BOOLEAN /\ sent \in BOOLEAN
  /\ flag => token
  /\ stage \in BeforeExecution => ~sent
  /\ stage \in {"parse", "runtime", "install"} => ~handler
  /\ stage \in {"emit", "exited"} => Truthful(output)
  /\ stage = "exited" =>
       /\ exit.written \in BOOLEAN
       /\ exit.code = IF output.status = "error" THEN ExitCode(output.error.category)
                      ELSE IF exit.written THEN 0 ELSE ExitCode("io")
  /\ stage = "killed" => ~handler

\* No category ends the process with 0, and only a cancellation with 130.
LEMMA ExitCodes ==
  ASSUME NEW category \in Categories
  PROVE  ExitCode(category) # 0 /\ (ExitCode(category) = 130 => category = "cancelled")
BY DEF ExitCode, Categories

\* What an error says once it is known whether a request was sent.
LEMMA ReportedErrors ==
  ASSUME NEW v \in {"MissingParameter", "Transport", "FileIo", "Cancelled"},
         NEW known \in BOOLEAN
  PROVE  /\ Reported(v, "none", known).category = Category(v)
         /\ v = "Cancelled" => Reported(v, "none", known).retry = "quarantine"
BY DEF Reported, NormalizePhase, AfterSentRequest, ErrorOf, Category, Phase, RemoteEffect, RetryAdvice

\* A step that hands a truthful document to be written.
LEMMA Written ==
  ASSUME CommandInv, NEW document, ToEmit(document), Truthful(document),
         UNCHANGED <<handler, signals, token, flag, sent, exit>>
  PROVE  CommandInv'
<1>1. Truthful(output)'
  <2>1. output' = document
    BY DEF ToEmit
  <2> QED BY <2>1 DEF Truthful
<1> QED BY <1>1 DEF CommandInv, ToEmit, BeforeExecution

\* Every step keeps the invariant.
LEMMA CommandStep == CommandInv /\ [CommandNext]_commandVars => CommandInv'
<1> SUFFICES ASSUME CommandInv, [CommandNext]_commandVars PROVE CommandInv'
  OBVIOUS
<1>1. /\ Truthful(Success) /\ Truthful(Invalid) /\ Truthful(Internal)
      /\ Truthful(CliError("resource_limit", "validate", "none", "never"))
      /\ Truthful(CliError("io", "read", "none", "never"))
  BY DEF Truthful, Success, Invalid, Internal, CliError, Failed, Categories
<1>2. ASSUME stage' \in {"runtime", "install", "prepare", "execute"},
             ~handler' \/ stage' \in {"prepare", "execute"},
             stage \in BeforeExecution,
             UNCHANGED <<signals, token, flag, sent, exit, output>>
      PROVE  CommandInv'
  BY <1>2 DEF CommandInv, BeforeExecution
<1>3. CASE ParseArguments \/ StartRuntime \/ InstallHandler
  <2>1. CASE ParseArguments
    <3>1. ASSUME stage' = "runtime", ParseArguments, UNCHANGED output PROVE CommandInv'
      BY <1>2, <3>1 DEF ParseArguments, CommandInv, BeforeExecution
    <3>2. ASSUME NEW document \in {Invalid, Success}, ToEmit(document), ParseArguments PROVE CommandInv'
      BY <1>1, <3>2, Written DEF ParseArguments
    <3> QED BY <2>1, <3>1, <3>2 DEF ParseArguments
  <2>2. CASE StartRuntime
    <3>1. ASSUME stage' = "install", UNCHANGED output PROVE CommandInv'
      BY <1>2, <2>2, <3>1 DEF StartRuntime, CommandInv, BeforeExecution
    <3>2. ASSUME ToEmit(Internal) PROVE CommandInv'
      BY <1>1, <2>2, <3>2, Written DEF StartRuntime
    <3> QED BY <2>2, <3>1, <3>2 DEF StartRuntime
  <2>3. CASE InstallHandler
    <3>1. ASSUME stage' = "prepare", UNCHANGED output PROVE CommandInv'
      BY <1>2, <2>3, <3>1 DEF InstallHandler, CommandInv, BeforeExecution
    <3>2. ASSUME ToEmit(Internal), UNCHANGED handler PROVE CommandInv'
      BY <1>1, <2>3, <3>2, Written DEF InstallHandler
    <3> QED BY <2>3, <3>1, <3>2 DEF InstallHandler
  <2> QED BY <1>3, <2>1, <2>2, <2>3
<1>4. CASE Kill
  BY <1>4 DEF Kill, CommandInv, BeforeExecution
<1>5. CASE Signal
  BY <1>5 DEF Signal, CommandInv, Truthful
<1>6. CASE TakeFirst
  BY <1>6 DEF TakeFirst, CommandInv, BeforeExecution
<1>7. CASE TellReader
  BY <1>7 DEF TellReader, CommandInv, Truthful
<1>8. CASE CancelPreparation
  <2>1. token /\ ~sent
    BY <1>8 DEF CancelPreparation, CommandInv, BeforeExecution
  <2>2. Truthful(CancelledBeforeExecution)
    BY <2>1 DEF Truthful, CancelledBeforeExecution, CliError, Failed, Categories
  <2> QED BY <1>8, <2>2, Written DEF CancelPreparation
<1>9. CASE PrepareEnds
  <2>1. ASSUME stage' = "execute", UNCHANGED output PROVE CommandInv'
    BY <1>2, <1>9, <2>1 DEF PrepareEnds, CommandInv, BeforeExecution
  <2>2. ASSUME NEW document, Truthful(document), ToEmit(document) PROVE CommandInv'
    BY <1>9, <2>2, Written DEF PrepareEnds
  <2> QED BY <1>1, <1>9, <2>1, <2>2 DEF PrepareEnds
<1>10. CASE SendRequest
  BY <1>10 DEF SendRequest, CommandInv, BeforeExecution
<1>11. CASE RunOperation
  <2>1. ASSUME NEW document, Truthful(document), ToEmit(document) PROVE CommandInv'
    BY <1>11, <2>1, Written DEF RunOperation
  <2>2. ASSUME NEW v \in {"InvalidInput", "PolicyViolation", "IdempotencyConflict"}, Refused(v)
        PROVE  CommandInv'
    <3>1. Truthful(Failed(ErrorOf(v)))
      BY DEF Truthful, Failed, ErrorOf, Category, Categories
    <3> QED BY <2>1, <2>2, <3>1 DEF Refused
  <2>3. CASE Finished
    <3>1. ASSUME NEW v \in {"MissingParameter", "Transport", "FileIo"}, NEW known \in BOOLEAN
          PROVE  Truthful(Failed(Reported(v, "none", known)))
      <4>1. Category(v) \in Categories \ {"cancelled"}
        BY DEF Category, Categories
      <4> QED BY <4>1, ReportedErrors DEF Truthful, Failed
    <3> QED BY <1>1, <2>1, <2>3, <3>1 DEF Finished
  <2>4. CASE Cancelled
    <3>1. token /\ ToEmit(Failed(Reported("Cancelled", "none", sent)))
      BY <2>4 DEF Cancelled
    <3>2. /\ Reported("Cancelled", "none", sent).category = "cancelled"
          /\ Reported("Cancelled", "none", sent).retry = "quarantine"
      <4>1. Category("Cancelled") = "cancelled"
        BY DEF Category
      <4> QED BY <4>1, ReportedErrors DEF CommandInv
    <3>3. Truthful(Failed(Reported("Cancelled", "none", sent)))
      BY <3>1, <3>2 DEF Truthful, Failed, Categories
    <3> QED BY <2>1, <3>1, <3>3
  <2> QED BY <1>11, <2>2, <2>3, <2>4 DEF RunOperation
<1>12. CASE Panic
  BY <1>1, <1>12, Written DEF Panic
<1>13. CASE Emit
  <2>1. PICK written \in BOOLEAN :
          exit' = [written |-> written,
                   code |-> IF output.status = "error" THEN ExitCode(output.error.category)
                            ELSE IF written THEN 0 ELSE ExitCode("io")]
    BY <1>13 DEF Emit
  <2>2. /\ exit'.written \in BOOLEAN
        /\ exit'.code = IF output.status = "error" THEN ExitCode(output.error.category)
                        ELSE IF exit'.written THEN 0 ELSE ExitCode("io")
    BY <2>1
  <2> QED BY <1>13, <2>2 DEF Emit, CommandInv, BeforeExecution, Truthful
<1>14. CASE UNCHANGED commandVars
  BY <1>14 DEF commandVars, CommandInv, Truthful
<1> QED BY <1>3, <1>4, <1>5, <1>6, <1>7, <1>8, <1>9, <1>10, <1>11, <1>12, <1>13, <1>14
        DEF CommandNext, CommandTask

\* The process ends with 0 exactly when it wrote the document of a success, with 130
\* only for a signal that was taken, and without a document only before the handler
\* is there (main, emit).
THEOREM ExitsAreTrue == CommandSpec => []ExitIsTrue
<1>1. CommandInit => CommandInv
  BY DEF CommandInit, CommandInv
<1>2. CommandInv => ExitIsTrue
  <2> SUFFICES ASSUME CommandInv PROVE ExitIsTrue
    OBVIOUS
  <2>1. CASE stage = "exited"
    <3>1. Truthful(output) /\ "io" \in Categories
      BY <2>1 DEF CommandInv, Categories
    <3>2. CASE output.status = "ok"
      <4>1. exit.code = IF exit.written THEN 0 ELSE ExitCode("io")
        BY <2>1, <3>2 DEF CommandInv
      <4>2. exit.code = 0 <=> exit.written
        BY <3>1, <4>1, ExitCodes
      <4>3. exit.code # 130
        BY <3>1, <4>1, ExitCodes
      <4> QED BY <2>1, <3>2, <4>2, <4>3 DEF ExitIsTrue
    <3>3. CASE output.status # "ok"
      <4>1. exit.code = ExitCode(output.error.category) /\ output.error.category \in Categories
        BY <2>1, <3>1, <3>3 DEF CommandInv, Truthful
      <4>2. exit.code # 0 /\ (exit.code = 130 => output.error.category = "cancelled")
        BY <4>1, ExitCodes
      <4> QED BY <2>1, <3>1, <3>3, <4>2 DEF ExitIsTrue, Truthful
    <3> QED BY <3>2, <3>3
  <2>2. CASE stage # "exited"
    BY <2>2 DEF CommandInv, ExitIsTrue
  <2> QED BY <2>1, <2>2
<1> QED BY <1>1, <1>2, CommandStep, PTL DEF CommandSpec

-----------------------------------------------------------------------------
(* The load campaign                                                       *)

CountFields == {"operations", "functional", "stuck", "panics", "dispatched", "missed"}

CampaignTypes ==
  /\ phase \in {"functional", "load", "drain", "settle", "report"}
  /\ ticket \in 1..(MaxTickets + 1) /\ queue \in Seq(Tickets)
  /\ work \in [Workers -> Tickets \cup {NoTicket, Left}]
  /\ ops \in [Tickets ->
       {"idle", "running", "ended", "stuck", "panicked", "loose", "lost"}]
  /\ requests \in [Tickets -> {"none", "sent", "done", "dropped"}]
  /\ service \in [Tickets -> {"none", "coming", "counted", "released"}]
  /\ counts \in [CountFields -> Nat] /\ peak \in Nat /\ passed \in BOOLEAN

\* A ticket that waits in the channel is there once and nothing else is known of it.
TicketsWait ==
  /\ \A t \in Tickets : t >= ticket => ops[t] = "idle"
  /\ \A i \in DOMAIN queue : queue[i] > FunctionalTickets /\ queue[i] < ticket /\ ops[queue[i]] = "idle"
  /\ \A i, j \in DOMAIN queue : queue[i] = queue[j] => i = j
  /\ Workers = {} => queue = <<>>

\* The load begins after the functional pass, and what runs in it has a worker.
TicketsRun ==
  /\ phase = "functional" =>
       /\ ticket <= FunctionalTickets + 1 /\ queue = <<>>
       /\ \A t \in Tickets : t < ticket => ops[t] # "idle"
  /\ phase # "functional" =>
       /\ ticket > FunctionalTickets
       /\ \A t \in 1..FunctionalTickets : ops[t] \notin {"idle", "running"}
       /\ \A t \in Tickets : Running(t) => \E w \in Workers : work[w] = t
  /\ \A w \in Workers : work[w] = Left => queue = <<>> /\ phase \in {"drain", "settle", "report"}
  /\ phase \in {"settle", "report"} => queue = <<>> /\ \A w \in Workers : work[w] = Left

\* What is sent has someone who waits for the answer, and what the server has
\* before it the client sent.
RequestsAreOwned ==
  /\ \A t \in Tickets : requests[t] = "sent" => Running(t) \/ ops[t] = "loose"
  /\ \A t \in Tickets : service[t] \in {"coming", "counted"} => requests[t] \in {"sent", "dropped"}

Clean == counts.stuck = 0 /\ counts.panics = 0
Ended == {t \in Tickets : ops[t] = "ended"}
Begun == {t \in Tickets : t > FunctionalTickets /\ ops[t] \in {"running", "ended"}}

\* As long as nothing went wrong, each count is the number of its tickets.
CountsAreTrue ==
  /\ phase = "functional" => counts.dispatched = 0 /\ counts.functional = 0
  /\ Clean =>
       /\ \A t \in Tickets : ops[t] \in {"idle", "running", "ended"}
       /\ counts.operations = Cardinality(Ended)
       /\ phase # "functional" => counts.functional = FunctionalTickets
       /\ phase # "functional" => counts.dispatched = Len(queue) + Cardinality(Begun)
  /\ passed => Clean /\ phase = "report"

CampaignInv ==
  /\ CampaignTypes /\ TicketsWait /\ TicketsRun /\ RequestsAreOwned /\ CountsAreTrue
  /\ Cardinality(Busy) <= Permits /\ PeakIsExplained

\* The sets of tickets are finite, and one more ticket is one more.
LEMMA TicketSets ==
  ASSUME NEW S, S \subseteq Tickets
  PROVE  /\ IsFiniteSet(S) /\ Cardinality(S) \in Nat
         /\ \A t \in Tickets \ S : Cardinality(S \cup {t}) = Cardinality(S) + 1
         /\ \A T \in SUBSET Tickets : S \subseteq T => Cardinality(S) <= Cardinality(T)
<1>1. IsFiniteSet(Tickets)
  BY TicketsAssumption, FS_Interval DEF Tickets
<1>2. \A T \in SUBSET Tickets : IsFiniteSet(T)
  BY <1>1, FS_Subset
<1> QED BY <1>2, FS_CardinalityType, FS_AddElement, FS_Subset

\* What a step leaves alone that touches requests only.
LEMMA DriverKept ==
  ASSUME CampaignInv, UNCHANGED <<phase, ticket, queue, work, ops, counts, passed>>
  PROVE  TicketsWait' /\ TicketsRun' /\ CountsAreTrue'
BY DEF CampaignInv, TicketsWait, TicketsRun, CountsAreTrue, Clean, Ended, Begun, Running

\* What a step leaves alone that touches no request.
LEMMA RequestsKept ==
  ASSUME CampaignInv, UNCHANGED <<requests, peak>>
  PROVE  Cardinality(Busy)' <= Permits /\ PeakIsExplained'
BY DEF CampaignInv, Busy, PeakIsExplained

\* One more of one or of two of the counts.
LEMMA CountsGrow ==
  ASSUME NEW c \in [CountFields -> Nat]
  PROVE  /\ \A f \in CountFields : [c EXCEPT ![f] = @ + 1] \in [CountFields -> Nat]
         /\ [c EXCEPT !.operations = @ + 1, !.stuck = @ + 1] \in [CountFields -> Nat]
<1>1. \A f \in CountFields : c[f] + 1 \in Nat
  OBVIOUS
<1>2. {"operations", "stuck"} \subseteq CountFields
  BY DEF CountFields
<1> QED BY <1>1, <1>2

\* Every step keeps the types.
LEMMA CampaignTyped ==
  ASSUME CampaignInv, CampaignNext
  PROVE  CampaignTypes'
<1> USE TicketsAssumption DEF CampaignInv, CampaignTypes
<1>0. {"operations", "functional", "panics", "dispatched", "missed"} \subseteq CountFields
  BY DEF CountFields
<1>10. [counts EXCEPT !.operations = @ + 1, !.stuck = @ + 1] \in [CountFields -> Nat]
  BY CountsGrow
<1>11. \A f \in CountFields : Counted(f) => counts' \in [CountFields -> Nat]
  <2> SUFFICES ASSUME NEW f \in CountFields, Counted(f) PROVE counts' \in [CountFields -> Nat]
    OBVIOUS
  <2>1. [counts EXCEPT ![f] = @ + 1] \in [CountFields -> Nat]
    BY CountsGrow
  <2> QED BY <2>1 DEF Counted
<1>1. CASE StartFunctional \/ StartLoad
  <2>1. CASE StartFunctional
    <3>1. ticket + 1 \in 1..(MaxTickets + 1)
      BY <2>1 DEF StartFunctional
    <3> QED BY <2>1, <3>1 DEF StartFunctional
  <2>2. CASE StartLoad
    BY <1>0, <2>2 DEF StartLoad
  <2> QED BY <1>1, <2>1, <2>2
<1>2. CASE TickLoad
  <2>1. ticket \in Tickets /\ ticket + 1 \in 1..(MaxTickets + 1)
    BY <1>2 DEF TickLoad, Tickets
  <2>2. counts' \in [CountFields -> Nat]
    BY <1>0, <1>2, <1>11 DEF TickLoad
  <2>3. queue' \in Seq(Tickets)
    <3>1. queue' = Append(queue, ticket) \/ queue' = queue
      BY <1>2 DEF TickLoad
    <3>2. Append(queue, ticket) \in Seq(Tickets)
      BY <2>1
    <3> QED BY <3>1, <3>2
  <2> QED BY <1>2, <2>1, <2>2, <2>3 DEF TickLoad
<1>3. CASE EndLoad \/ Drained \/ Report
  BY <1>3 DEF EndLoad, Drained, Report, Verified
<1>4. CASE DrainTimesOut
  <2>1. counts' \in [CountFields -> Nat]
    BY <1>4, <1>10 DEF DrainTimesOut
  <2>2. ops' \in [Tickets ->
       {"idle", "running", "ended", "stuck", "panicked", "loose", "lost"}]
    <3> DEFINE After(t) == IF Running(t) THEN "loose"
                           ELSE IF \E i \in DOMAIN queue : queue[i] = t THEN "lost" ELSE ops[t]
    <3>1. ops' = [t \in Tickets |-> After(t)]
      BY <1>4 DEF DrainTimesOut
    <3>2. \A t \in Tickets :
            After(t) \in {"idle", "running", "ended", "stuck", "panicked", "loose", "lost"}
      OBVIOUS
    <3> HIDE DEF After
    <3> QED BY <3>1, <3>2
  <2> QED BY <1>4, <2>1, <2>2 DEF DrainTimesOut
<1>5. ASSUME NEW w \in Workers, Take(w) PROVE CampaignTypes'
  <2>1. Head(queue) \in Tickets /\ Tail(queue) \in Seq(Tickets)
    BY <1>5 DEF Take
  <2> QED BY <1>5, <2>1 DEF Take
<1>6. ASSUME NEW w \in Workers, Leave(w) PROVE CampaignTypes'
  BY <1>6 DEF Leave
<1>7. ASSUME NEW t \in Tickets, OperationEnds(t) \/ Watchdog(t) PROVE CampaignTypes'
  <2>1. Freed(t) \in [Workers -> Tickets \cup {NoTicket, Left}]
    BY DEF Freed
  <2>2. Abandoned(t) \in {"none", "sent", "done", "dropped"}
    BY DEF Abandoned
  <2> HIDE DEF Freed, Abandoned
  <2>3. CASE OperationEnds(t)
    <3>1. counts' \in [CountFields -> Nat]
      BY <1>0, <1>11, <2>3 DEF OperationEnds
    <3> QED BY <2>1, <2>3, <3>1 DEF OperationEnds
  <2>4. CASE Watchdog(t)
    <3>1. counts' \in [CountFields -> Nat]
      BY <2>4, <1>10 DEF Watchdog
    <3> QED BY <2>1, <2>2, <2>4, <3>1 DEF Watchdog
  <2> QED BY <1>7, <2>3, <2>4
<1>8. ASSUME NEW t \in Tickets, LooseEnds(t) \/ SendOne(t) \/ Release(t) \/ ReplyArrives(t) \/ ClientDrops(t)
      PROVE  CampaignTypes'
  BY <1>8 DEF LooseEnds, SendOne, Release, ReplyArrives, ClientDrops
<1>9. ASSUME NEW t \in Tickets, Arrive(t) PROVE CampaignTypes'
  <2> DEFINE inFlight == Cardinality(InService \cup ({t} \ Hangs))
  <2>1. inFlight \in Nat
    BY TicketSets DEF InService
  <2>2. peak' = (IF inFlight > peak THEN inFlight ELSE peak)
    BY <1>9 DEF Arrive
  <2> HIDE DEF inFlight
  <2>3. peak' \in Nat
    BY <2>1, <2>2
  <2> QED BY <1>9, <2>3 DEF Arrive
<1> QED BY <1>1, <1>2, <1>3, <1>4, <1>5, <1>6, <1>7, <1>8, <1>9 DEF CampaignNext, TicketStep

\* The channel holds each ticket once, and none that was begun.
LEMMA TicketsKeepWaiting ==
  ASSUME CampaignInv, CampaignNext
  PROVE  TicketsWait'
<1> USE TicketsAssumption DEF CampaignInv
<1>1. CASE StartFunctional
  <2>1. queue = <<>> /\ queue' = <<>> /\ ticket \in Nat /\ ticket' = ticket + 1
    BY <1>1 DEF StartFunctional, TicketsRun, CampaignTypes
  <2>2. \A t \in Tickets : t >= ticket' => ops'[t] = "idle"
    BY <1>1, <2>1 DEF StartFunctional, TicketsWait, CampaignTypes, Tickets
  <2> QED BY <2>1, <2>2 DEF TicketsWait
<1>2. CASE UNCHANGED <<ticket, queue, ops>>
  BY <1>2 DEF TicketsWait
<1>3. CASE TickLoad
  <2>1. ticket \in Nat /\ ticket' = ticket + 1 /\ ticket > FunctionalTickets /\ ticket \in Tickets
        /\ ops' = ops /\ queue \in Seq(Tickets)
    BY <1>3 DEF TickLoad, TicketsRun, CampaignTypes, Tickets
  <2>2. \A t \in Tickets : t >= ticket' => ops'[t] = "idle"
    BY <2>1 DEF TicketsWait, Tickets
  <2>3. CASE queue' = queue
    <3>1. \A i \in DOMAIN queue : queue[i] < ticket'
      BY <2>1 DEF TicketsWait, Tickets
    <3> QED BY <2>1, <2>2, <2>3, <3>1 DEF TicketsWait
  <2>4. CASE Len(queue) < Cardinality(Workers) /\ queue' = Append(queue, ticket)
    <3>1. Workers # {}
      <4>1. Cardinality({}) = 0
        BY FS_EmptySet
      <4>2. Len(queue) \in Nat
        BY <2>1
      <4>3. Cardinality(Workers) # 0
        BY <2>4, <4>2
      <4> QED BY <4>1, <4>3
    <3>2. /\ DOMAIN queue' = 1..(Len(queue) + 1) /\ Len(queue) \in Nat /\ DOMAIN queue = 1..Len(queue)
          /\ \A i \in 1..Len(queue) : queue'[i] = queue[i] /\ queue[i] \in Tickets
          /\ queue'[Len(queue) + 1] = ticket
      BY <2>1, <2>4
    <3>3. \A i \in DOMAIN queue' : i = Len(queue) + 1 \/ i \in 1..Len(queue)
      BY <3>2
    <3>4. \A i \in 1..Len(queue) : queue[i] > FunctionalTickets /\ queue[i] < ticket /\ ops[queue[i]] = "idle"
      BY <3>2 DEF TicketsWait
    <3>5. ops[ticket] = "idle"
      BY <2>1 DEF TicketsWait
    <3>6. \A i \in DOMAIN queue' :
            queue'[i] > FunctionalTickets /\ queue'[i] < ticket' /\ ops'[queue'[i]] = "idle"
      <4> SUFFICES ASSUME NEW i \in DOMAIN queue'
                   PROVE  queue'[i] > FunctionalTickets /\ queue'[i] < ticket' /\ ops'[queue'[i]] = "idle"
        OBVIOUS
      <4>1. CASE i = Len(queue) + 1
        BY <2>1, <3>2, <3>5, <4>1
      <4>2. CASE i \in 1..Len(queue)
        BY <2>1, <3>2, <3>4, <4>2 DEF Tickets
      <4> QED BY <3>3, <4>1, <4>2
    <3>7. \A i, j \in DOMAIN queue' : queue'[i] = queue'[j] => i = j
      <4> SUFFICES ASSUME NEW i \in DOMAIN queue', NEW j \in DOMAIN queue', queue'[i] = queue'[j]
                   PROVE  i = j
        OBVIOUS
      <4>1. CASE i \in 1..Len(queue) /\ j \in 1..Len(queue)
        BY <3>2, <4>1 DEF TicketsWait
      <4>2. \A n \in 1..Len(queue) : queue'[n] # ticket
        BY <2>1, <3>2, <3>4 DEF Tickets
      <4> QED BY <3>2, <3>3, <4>1, <4>2
    <3> QED BY <2>2, <3>1, <3>6, <3>7 DEF TicketsWait
  <2> QED BY <1>3, <2>3, <2>4 DEF TickLoad
<1>4. ASSUME NEW w \in Workers, Take(w) PROVE TicketsWait'
  <2>1. /\ queue \in Seq(Tickets) /\ queue # <<>> /\ queue' = Tail(queue) /\ ticket' = ticket
        /\ ops' = [ops EXCEPT ![Head(queue)] = "running"] /\ ticket \in Nat
    BY <1>4 DEF Take, CampaignTypes
  <2>2. /\ DOMAIN queue' = 1..(Len(queue) - 1) /\ Len(queue) \in Nat \ {0} /\ DOMAIN queue = 1..Len(queue)
        /\ Head(queue) = queue[1] /\ \A i \in 1..(Len(queue) - 1) : queue'[i] = queue[i + 1]
        /\ \A i \in DOMAIN queue : queue[i] \in Tickets
    BY <2>1
  <2>3. \A i \in DOMAIN queue' : i + 1 \in DOMAIN queue /\ i + 1 # 1 /\ queue'[i] = queue[i + 1]
    BY <2>2
  <2>4. \A i \in DOMAIN queue' : queue'[i] # Head(queue) /\ queue'[i] \in Tickets
    BY <2>2, <2>3 DEF TicketsWait
  <2>5. \A t \in Tickets : t >= ticket' => ops'[t] = "idle"
    <3>1. queue[1] < ticket /\ queue[1] \in Tickets
      BY <2>2 DEF TicketsWait
    <3> QED BY <2>1, <2>2, <3>1 DEF TicketsWait, Tickets, CampaignTypes
  <2>6. \A i \in DOMAIN queue' :
          queue'[i] > FunctionalTickets /\ queue'[i] < ticket' /\ ops'[queue'[i]] = "idle"
    BY <2>1, <2>3, <2>4 DEF TicketsWait, CampaignTypes
  <2>7. \A i, j \in DOMAIN queue' : queue'[i] = queue'[j] => i = j
    <3>1. \A i, j \in DOMAIN queue' : queue'[i] = queue'[j] => i + 1 = j + 1
      BY <2>3 DEF TicketsWait
    <3> QED BY <2>2, <3>1
  <2> QED BY <2>5, <2>6, <2>7 DEF TicketsWait
<1>5. ASSUME NEW t \in Tickets, OperationEnds(t) \/ Watchdog(t) \/ LooseEnds(t) PROVE TicketsWait'
  <2>1. /\ ops[t] # "idle" /\ UNCHANGED <<ticket, queue>>
        /\ \E s : ops' = [ops EXCEPT ![t] = s]
    BY <1>5 DEF OperationEnds, Watchdog, LooseEnds, Running
  <2>2. \A u \in Tickets : ops[u] = "idle" => ops'[u] = "idle"
    BY <2>1 DEF CampaignTypes
  <2>3. \A i \in DOMAIN queue : queue[i] \in Tickets
    BY DEF CampaignTypes
  <2> QED BY <2>1, <2>2, <2>3 DEF TicketsWait
<1>6. CASE DrainTimesOut
  <2>1. queue' = <<>> /\ ticket' = ticket /\ ticket \in Nat
    BY <1>6 DEF DrainTimesOut, CampaignTypes
  <2>2. \A t \in Tickets : t >= ticket => ops'[t] = "idle"
    <3> SUFFICES ASSUME NEW t \in Tickets, t >= ticket PROVE ops'[t] = "idle"
      OBVIOUS
    <3>1. ops[t] = "idle"
      BY DEF TicketsWait
    <3>2. ~ \E i \in DOMAIN queue : queue[i] = t
      BY <2>1 DEF TicketsWait, Tickets
    <3> QED BY <1>6, <3>1, <3>2 DEF DrainTimesOut, Running
  <2> QED BY <2>1, <2>2 DEF TicketsWait
<1> QED BY <1>1, <1>2, <1>3, <1>4, <1>5, <1>6
        DEF CampaignNext, TicketStep, StartLoad, EndLoad, Drained, Report, Leave,
            SendOne, Arrive, Release, ReplyArrives, ClientDrops

\* A ticket runs in the functional pass, or with a worker that waits for it.
LEMMA TicketsKeepRunning ==
  ASSUME CampaignInv, CampaignNext
  PROVE  TicketsRun'
<1> USE TicketsAssumption DEF CampaignInv
<1>1. CASE StartFunctional
  <2>1. /\ phase = "functional" /\ ticket \in Nat /\ ticket <= FunctionalTickets /\ ticket' = ticket + 1
        /\ UNCHANGED <<phase, queue, work>> /\ ops' = [ops EXCEPT ![ticket] = "running"]
    BY <1>1 DEF StartFunctional, CampaignTypes
  <2>2. \A t \in Tickets : t < ticket' => ops'[t] # "idle"
    BY <2>1 DEF TicketsRun, CampaignTypes, Tickets
  <2> QED BY <2>1, <2>2 DEF TicketsRun
<1>2. CASE StartLoad
  <2>1. /\ phase = "functional" /\ phase' = "load" /\ ticket > FunctionalTickets
        /\ \A t \in Tickets : ~Running(t)
        /\ UNCHANGED <<ticket, queue, work, ops>>
    BY <1>2 DEF StartLoad
  <2>2. \A t \in 1..FunctionalTickets : ops[t] \notin {"idle", "running"}
    BY <2>1 DEF TicketsRun, CampaignTypes, Tickets, Running
  <2> QED BY <2>1, <2>2 DEF TicketsRun, Running
<1>3. CASE UNCHANGED <<phase, ticket, queue, work, ops>>
  BY <1>3 DEF TicketsRun, Running
<1>4. CASE TickLoad
  <2>1. phase = "load" /\ UNCHANGED <<phase, work, ops>> /\ ticket' > FunctionalTickets
    BY <1>4 DEF TickLoad, TicketsRun, CampaignTypes
  <2> QED BY <2>1 DEF TicketsRun, Running
<1>5. CASE EndLoad
  BY <1>5 DEF EndLoad, TicketsRun, Running
<1>6. ASSUME NEW w \in Workers, Take(w) PROVE TicketsRun'
  <2>1. /\ phase \in {"load", "drain"} /\ work[w] = NoTicket /\ queue # <<>> /\ queue \in Seq(Tickets)
        /\ work' = [work EXCEPT ![w] = Head(queue)] /\ queue' = Tail(queue)
        /\ ops' = [ops EXCEPT ![Head(queue)] = "running"] /\ UNCHANGED <<phase, ticket>>
        /\ work \in [Workers -> Tickets \cup {NoTicket, Left}]
        /\ ops \in [Tickets ->
             {"idle", "running", "ended", "stuck", "panicked", "loose", "lost"}]
    BY <1>6 DEF Take, CampaignTypes
  <2>2. Head(queue) \in Tickets /\ Head(queue) > FunctionalTickets
    BY <2>1 DEF TicketsWait
  <2>3. \A t \in 1..FunctionalTickets : ops'[t] = ops[t]
    BY <2>1, <2>2 DEF Tickets
  <2>4. \A t \in Tickets : Running(t)' => \E v \in Workers : work'[v] = t
    <3> SUFFICES ASSUME NEW t \in Tickets, ops'[t] = "running" PROVE \E v \in Workers : work'[v] = t
      BY DEF Running
    <3>1. CASE t = Head(queue)
      BY <2>1, <3>1
    <3>2. CASE t # Head(queue)
      <4>1. PICK v \in Workers : work[v] = t
        BY <2>1, <3>2 DEF TicketsRun, Running
      <4> QED BY <2>1, <4>1, IdleAssumption
    <3> QED BY <3>1, <3>2
  <2>5. \A v \in Workers : work'[v] # Left
    BY <2>1, <2>2, IdleAssumption DEF TicketsRun
  <2> QED BY <2>1, <2>3, <2>4, <2>5 DEF TicketsRun
<1>7. ASSUME NEW w \in Workers, Leave(w) PROVE TicketsRun'
  <2>1. /\ phase = "drain" /\ work[w] = NoTicket /\ queue = <<>> /\ work' = [work EXCEPT ![w] = Left]
        /\ UNCHANGED <<phase, ticket, queue, ops>>
        /\ work \in [Workers -> Tickets \cup {NoTicket, Left}]
    BY <1>7 DEF Leave, CampaignTypes
  <2>2. \A t \in Tickets : Running(t)' => \E v \in Workers : work'[v] = t
    <3> SUFFICES ASSUME NEW t \in Tickets, Running(t) PROVE \E v \in Workers : work'[v] = t
      BY <2>1 DEF Running
    <3>1. PICK v \in Workers : work[v] = t
      BY <2>1 DEF TicketsRun
    <3> QED BY <2>1, <3>1, IdleAssumption
  <2> QED BY <2>1, <2>2 DEF TicketsRun
<1>8. ASSUME NEW t \in Tickets, OperationEnds(t) \/ Watchdog(t) PROVE TicketsRun'
  <2>1. /\ Running(t) /\ work' = Freed(t) /\ UNCHANGED <<phase, ticket, queue>>
        /\ \E s \in {"ended", "panicked", "stuck"} : ops' = [ops EXCEPT ![t] = s]
        /\ ops \in [Tickets ->
             {"idle", "running", "ended", "stuck", "panicked", "loose", "lost"}]
    BY <1>8 DEF OperationEnds, Watchdog, CampaignTypes
  <2>2. \A u \in Tickets : /\ ops'[u] = "running" => ops[u] = "running" /\ u # t
                           /\ ops'[u] = "idle" => ops[u] = "idle"
    BY <2>1
  <2>3. \A v \in Workers : /\ work'[v] = Left => work[v] = Left
                           /\ work[v] \in Tickets \cup {Left} /\ work[v] # t => work'[v] = work[v]
    BY <2>1, IdleAssumption DEF Freed
  <2>4. \A u \in Tickets : phase # "functional" /\ Running(u)' => \E v \in Workers : work'[v] = u
    <3> SUFFICES ASSUME NEW u \in Tickets, phase # "functional", Running(u)'
                 PROVE  \E v \in Workers : work'[v] = u
      OBVIOUS
    <3>1. Running(u) /\ u # t
      BY <2>2 DEF Running
    <3>2. PICK v \in Workers : work[v] = u
      BY <3>1 DEF TicketsRun
    <3> QED BY <2>3, <3>1, <3>2
  <2>5. \A u \in 1..FunctionalTickets : u \in Tickets
    BY DEF Tickets
  <2>6. phase \notin {"settle", "report"}
    <3> SUFFICES ASSUME phase \in {"settle", "report"} PROVE FALSE
      OBVIOUS
    <3>1. PICK v \in Workers : work[v] = t
      BY <2>1 DEF TicketsRun
    <3> QED BY <3>1, IdleAssumption DEF TicketsRun
  <2> QED BY <2>1, <2>2, <2>3, <2>4, <2>5, <2>6 DEF TicketsRun, Running
<1>9. ASSUME NEW t \in Tickets, LooseEnds(t) PROVE TicketsRun'
  <2>1. /\ ops[t] = "loose" /\ ops' = [ops EXCEPT ![t] = "lost"]
        /\ UNCHANGED <<phase, ticket, queue, work>>
    BY <1>9 DEF LooseEnds
  <2>2. \A u \in Tickets : /\ ops'[u] = "running" => ops[u] = "running"
                           /\ ops'[u] = "idle" => ops[u] = "idle"
    BY <2>1 DEF CampaignTypes
  <2>3. \A u \in 1..FunctionalTickets : u \in Tickets
    BY DEF Tickets
  <2> QED BY <2>1, <2>2, <2>3 DEF TicketsRun, Running
<1>10. CASE Drained
  <2>1. queue = <<>>
    <3>1. CASE Workers = {}
      BY <3>1 DEF TicketsWait
    <3>2. CASE Workers # {}
      BY <1>10, <3>2 DEF Drained, TicketsRun
    <3> QED BY <3>1, <3>2
  <2> QED BY <1>10, <2>1 DEF Drained, TicketsRun, Running
<1>11. CASE DrainTimesOut
  <2>1. /\ phase = "drain" /\ phase' = "settle" /\ work' = [w \in Workers |-> Left] /\ queue' = <<>>
        /\ ticket' = ticket
    BY <1>11 DEF DrainTimesOut
  <2>2. \A t \in Tickets : /\ ops'[t] # "running"
                           /\ ops'[t] = "idle" => ops[t] = "idle"
    BY <1>11 DEF DrainTimesOut, Running
  <2>3. \A t \in 1..FunctionalTickets : t \in Tickets /\ ops[t] # "idle"
    BY <2>1 DEF Tickets, TicketsRun
  <2> QED BY <2>1, <2>2, <2>3 DEF TicketsRun, Running
<1>12. CASE Report
  BY <1>12 DEF Report, TicketsRun, Running
<1> QED BY <1>1, <1>2, <1>3, <1>4, <1>5, <1>6, <1>7, <1>8, <1>9, <1>10, <1>11, <1>12
        DEF CampaignNext, TicketStep, SendOne, Arrive, Release, ReplyArrives, ClientDrops

\* What is sent is waited for, and what the server has was sent.
LEMMA RequestsKeepOwners ==
  ASSUME CampaignInv, CampaignNext
  PROVE  RequestsAreOwned'
<1> USE DEF CampaignInv
<1>1. CASE UNCHANGED <<ops, requests, service>>
  BY <1>1 DEF RequestsAreOwned, Running
<1>2. ASSUME UNCHANGED <<requests, service>>,
             \A t \in Tickets : requests[t] = "sent" =>
               ops'[t] = ops[t] \/ ops'[t] \in {"running", "loose"}
      PROVE  RequestsAreOwned'
  BY <1>2 DEF RequestsAreOwned, Running
<1>3. CASE StartFunctional
  BY <1>2, <1>3 DEF StartFunctional, CampaignTypes
<1>4. ASSUME NEW w \in Workers, Take(w) PROVE RequestsAreOwned'
  BY <1>2, <1>4 DEF Take, CampaignTypes
<1>5. CASE DrainTimesOut
  <2>1. \A i \in DOMAIN queue : ops[queue[i]] = "idle"
    BY DEF TicketsWait
  <2>2. \A t \in Tickets : requests[t] = "sent" => ops[t] # "idle"
    BY DEF RequestsAreOwned, Running
  <2> QED BY <1>2, <1>5, <2>1, <2>2 DEF DrainTimesOut
<1>6. ASSUME NEW t \in Tickets, OperationEnds(t) \/ LooseEnds(t) PROVE RequestsAreOwned'
  BY <1>2, <1>6 DEF OperationEnds, LooseEnds, CampaignTypes
<1>7. ASSUME NEW t \in Tickets, Watchdog(t) PROVE RequestsAreOwned'
  <2>1. /\ requests'[t] # "sent" /\ service' = service
        /\ requests[t] \in {"sent", "dropped"} => requests'[t] = "dropped"
    BY <1>7 DEF Watchdog, Abandoned, CampaignTypes
  <2>2. \A u \in Tickets \ {t} : requests'[u] = requests[u] /\ ops'[u] = ops[u]
    BY <1>7 DEF Watchdog, CampaignTypes
  <2> QED BY <2>1, <2>2 DEF RequestsAreOwned, Running
<1>8. ASSUME NEW t \in Tickets, SendOne(t) \/ Arrive(t) \/ Release(t) \/ ReplyArrives(t) \/ ClientDrops(t)
      PROVE  RequestsAreOwned'
  <2>1. ops' = ops /\ \A u \in Tickets \ {t} : requests'[u] = requests[u] /\ service'[u] = service[u]
    BY <1>8 DEF SendOne, Arrive, Release, ReplyArrives, ClientDrops, CampaignTypes
  <2>2. /\ requests'[t] = "sent" => Running(t) \/ ops[t] = "loose"
        /\ service'[t] \in {"coming", "counted"} => requests'[t] \in {"sent", "dropped"}
    BY <1>8 DEF SendOne, Arrive, Release, ReplyArrives, ClientDrops, Answerable, CampaignTypes,
                RequestsAreOwned
  <2> QED BY <2>1, <2>2 DEF RequestsAreOwned, Running
<1> QED BY <1>1, <1>3, <1>4, <1>5, <1>6, <1>7, <1>8
        DEF CampaignNext, TicketStep, StartLoad, TickLoad, EndLoad, Drained, Report, Leave

\* The permits bound what is busy, and what the server has in service is busy or was
\* dropped.
LEMMA PeakKept ==
  ASSUME CampaignInv, CampaignNext
  PROVE  Cardinality(Busy)' <= Permits /\ PeakIsExplained'
<1> DEFINE Dropped == {t \in Tickets \ Hangs : requests[t] = "dropped"}
<1> USE DEF CampaignInv
<1>1. CASE UNCHANGED <<requests, peak>>
  BY <1>1, RequestsKept
<1>2. Dropped \subseteq Tickets /\ Dropped' \subseteq Tickets /\ Busy \subseteq Tickets
      /\ Busy' \subseteq Tickets
  BY DEF Busy
<1>3. /\ Cardinality(Dropped) \in Nat /\ Cardinality(Dropped)' \in Nat
      /\ Cardinality(Busy) \in Nat /\ Cardinality(Busy') \in Nat
  BY <1>2, TicketSets
<1>4. Permits \in Nat /\ peak \in Nat /\ peak <= Permits + Cardinality(Dropped)
  BY TicketsAssumption DEF CampaignTypes, PeakIsExplained
<1>5. ASSUME Cardinality(Busy') <= Permits, Dropped \subseteq Dropped', peak' = peak
      PROVE  Cardinality(Busy)' <= Permits /\ PeakIsExplained'
  <2>1. Cardinality(Dropped) <= Cardinality(Dropped')
    BY <1>2, <1>5, TicketSets
  <2>2. peak' <= Permits + Cardinality(Dropped')
    BY <1>3, <1>4, <1>5, <2>1
  <2> QED BY <1>5, <2>2 DEF PeakIsExplained
<1>6. ASSUME NEW t \in Tickets, Watchdog(t) \/ ReplyArrives(t) \/ ClientDrops(t)
      PROVE  Cardinality(Busy)' <= Permits /\ PeakIsExplained'
  <2>1. \A u \in Tickets : /\ requests'[u] = "sent" => requests[u] = "sent"
                           /\ requests[u] = "dropped" => requests'[u] = "dropped"
    BY <1>6 DEF Watchdog, ReplyArrives, ClientDrops, Abandoned, CampaignTypes
  <2>2. Busy' \subseteq Busy /\ Dropped \subseteq Dropped'
    BY <2>1 DEF Busy
  <2>3. Cardinality(Busy') <= Cardinality(Busy)
    BY <1>2, <2>2, TicketSets
  <2>4. peak' = peak
    BY <1>6 DEF Watchdog, ReplyArrives, ClientDrops
  <2> QED BY <1>3, <1>4, <1>5, <2>2, <2>3, <2>4
<1>7. ASSUME NEW t \in Tickets, SendOne(t) PROVE Cardinality(Busy)' <= Permits /\ PeakIsExplained'
  <2>1. /\ requests[t] = "none" /\ Cardinality(Busy) < Permits /\ peak' = peak
        /\ requests' = [requests EXCEPT ![t] = "sent"]
    BY <1>7 DEF SendOne
  <2>2. Busy' = Busy \cup {t} /\ t \notin Busy /\ Dropped \subseteq Dropped'
    BY <2>1 DEF Busy, CampaignTypes
  <2>3. Cardinality(Busy') = Cardinality(Busy) + 1
    BY <1>2, <2>2, TicketSets
  <2> QED BY <1>3, <1>4, <1>5, <2>1, <2>2, <2>3
<1>8. ASSUME NEW t \in Tickets, Arrive(t) PROVE Cardinality(Busy)' <= Permits /\ PeakIsExplained'
  <2> DEFINE Served == InService \cup ({t} \ Hangs)
  <2>1. /\ service[t] = "coming" /\ requests' = requests
        /\ peak' = (IF Cardinality(Served) > peak THEN Cardinality(Served) ELSE peak)
    BY <1>8 DEF Arrive
  <2>2. Served \subseteq Busy \cup Dropped
    BY <2>1 DEF Busy, InService, RequestsAreOwned
  <2>3. /\ Cardinality(Served) \in Nat /\ Cardinality(Busy \cup Dropped) \in Nat
        /\ Cardinality(Served) <= Cardinality(Busy \cup Dropped)
    BY <1>2, <2>2, TicketSets
  <2>4. Cardinality(Busy \cup Dropped) <= Cardinality(Busy) + Cardinality(Dropped)
    <3>1. IsFiniteSet(Busy) /\ IsFiniteSet(Dropped)
      BY <1>2, TicketSets
    <3>2. /\ Cardinality(Busy \cup Dropped)
               = Cardinality(Busy) + Cardinality(Dropped) - Cardinality(Busy \cap Dropped)
          /\ Cardinality(Busy \cap Dropped) \in Nat
      <4>1. Busy \cap Dropped = {}
        BY DEF Busy
      <4> QED BY <3>1, <4>1, FS_Union, FS_EmptySet, FS_CardinalityType
    <3> QED BY <1>3, <3>2
  <2> HIDE DEF Served, Dropped
  <2>5. peak' <= Permits + Cardinality(Dropped)
    BY <1>3, <1>4, <2>1, <2>3, <2>4
  <2> QED BY <2>1, <2>5 DEF PeakIsExplained, Busy, Dropped
<1> QED BY <1>1, <1>6, <1>7, <1>8
        DEF CampaignNext, TicketStep, StartFunctional, StartLoad, TickLoad, EndLoad, Take, Leave,
            OperationEnds, Drained, DrainTimesOut, LooseEnds, Report, Release

\* As long as nothing went wrong, each count is the number of its tickets.
LEMMA CountsStayTrue ==
  ASSUME CampaignInv, CampaignNext
  PROVE  CountsAreTrue'
<1> USE TicketsAssumption DEF CampaignInv
<1>1. /\ counts.operations \in Nat /\ counts.stuck \in Nat /\ counts.panics \in Nat
      /\ counts.dispatched \in Nat /\ counts.functional \in Nat /\ counts.missed \in Nat
      /\ counts \in [CountFields -> Nat]
  BY DEF CampaignTypes, CountFields
<1>2. Ended \subseteq Tickets /\ Begun \subseteq Tickets
  BY DEF Ended, Begun
<1>3. Cardinality(Ended) \in Nat /\ Cardinality(Begun) \in Nat /\ Len(queue) \in Nat
  BY <1>2, TicketSets DEF CampaignTypes
<1>4. ASSUME UNCHANGED <<ops, queue, counts, passed, phase>> PROVE CountsAreTrue'
  <2>1. Ended' = Ended /\ Begun' = Begun /\ (Clean' <=> Clean)
    BY <1>4 DEF Ended, Begun, Clean
  <2>2. ops' = ops /\ queue' = queue /\ counts' = counts /\ passed' = passed /\ phase' = phase
    BY <1>4
  <2> QED BY <2>1, <2>2 DEF CountsAreTrue
<1>5. CASE EndLoad \/ Drained
  <2>1. /\ phase \in {"load", "drain"} /\ phase' \in {"drain", "settle"}
        /\ ops' = ops /\ queue' = queue /\ counts' = counts /\ passed' = passed
    BY <1>5 DEF EndLoad, Drained
  <2>2. Ended' = Ended /\ Begun' = Begun /\ (Clean' <=> Clean)
    BY <2>1 DEF Ended, Begun, Clean
  <2> QED BY <2>1, <2>2 DEF CountsAreTrue
<1>6. ASSUME NEW w \in Workers, Leave(w) PROVE CountsAreTrue'
  BY <1>4, <1>6 DEF Leave
<1>7. CASE StartFunctional
  <2>1. /\ phase = "functional" /\ UNCHANGED <<phase, counts, passed>>
        /\ ticket \in Tickets /\ ops[ticket] = "idle"
        /\ ops' = [ops EXCEPT ![ticket] = "running"]
    <3>1. ticket \in Tickets
      BY <1>7 DEF StartFunctional, CampaignTypes, Tickets
    <3> QED BY <1>7, <3>1 DEF StartFunctional, TicketsWait, Tickets
  <2>2. Ended' = Ended
    BY <2>1 DEF Ended, CampaignTypes
  <2>3. Clean => \A t \in Tickets : ops'[t] \in {"idle", "running", "ended"}
    BY <2>1 DEF CountsAreTrue, CampaignTypes
  <2> QED BY <2>1, <2>2, <2>3 DEF CountsAreTrue, Clean
<1>8. CASE StartLoad
  <2>1. /\ phase = "functional" /\ phase' = "load" /\ UNCHANGED <<ticket, queue, ops, passed>>
        /\ counts' = [counts EXCEPT !.functional = counts.operations] /\ ~passed
        /\ queue = <<>> /\ ticket = FunctionalTickets + 1 /\ \A t \in Tickets : ~Running(t)
    BY <1>8 DEF StartLoad, CountsAreTrue, TicketsRun, CampaignTypes
  <2>2. Ended' = Ended /\ Begun' = Begun
    BY <2>1 DEF Ended, Begun
  <2>3. ASSUME Clean PROVE Ended = 1..FunctionalTickets /\ Begun = {}
    <3>1. \A t \in Tickets : t <= FunctionalTickets => ops[t] = "ended"
      BY <2>1, <2>3 DEF TicketsRun, CountsAreTrue, Running, Tickets
    <3>2. \A t \in Tickets : t > FunctionalTickets => ops[t] = "idle"
      BY <2>1 DEF TicketsWait, Tickets
    <3>3. 1..FunctionalTickets = {t \in Tickets : t <= FunctionalTickets}
      BY DEF Tickets
    <3>4. \A t \in Tickets : t <= FunctionalTickets \/ t > FunctionalTickets
      BY DEF Tickets
    <3> QED BY <3>1, <3>2, <3>3, <3>4 DEF Ended, Begun
  <2>4. Cardinality(1..FunctionalTickets) = FunctionalTickets /\ Cardinality({}) = 0
    BY FS_Interval, FS_EmptySet
  <2>5. Clean' <=> Clean
    BY <1>1, <2>1 DEF Clean, CountFields
  <2>6. /\ counts'.operations = counts.operations /\ counts'.functional = counts.operations
        /\ counts'.dispatched = 0
    BY <1>1, <2>1 DEF CountFields, CountsAreTrue
  <2>7. ASSUME Clean PROVE Cardinality(Ended) = FunctionalTickets /\ Cardinality(Begun) = 0
    BY <2>3, <2>4, <2>7
  <2>8. Len(queue) = 0
    BY <2>1
  <2> QED BY <2>1, <2>2, <2>5, <2>6, <2>7, <2>8 DEF CountsAreTrue
<1>9. CASE TickLoad
  <2>1. /\ phase = "load" /\ UNCHANGED <<phase, ops, passed>> /\ ~passed
    BY <1>9 DEF TickLoad, CountsAreTrue
  <2>2. Ended' = Ended /\ Begun' = Begun
    BY <2>1 DEF Ended, Begun
  <2>3. CASE queue' = queue /\ Counted("missed")
    <3>1. \A f \in CountFields \ {"missed"} : counts'[f] = counts[f]
      BY <1>1, <2>3 DEF Counted
    <3> QED BY <2>1, <2>2, <2>3, <3>1 DEF CountsAreTrue, Clean, CountFields
  <2>4. CASE queue' = Append(queue, ticket) /\ Counted("dispatched")
    <3>1. /\ \A f \in CountFields \ {"dispatched"} : counts'[f] = counts[f]
          /\ counts'.dispatched = counts.dispatched + 1
      BY <1>1, <2>4 DEF Counted, CountFields
    <3>2. Len(queue') = Len(queue) + 1
      BY <2>4 DEF CampaignTypes
    <3> QED BY <1>1, <1>3, <2>1, <2>2, <3>1, <3>2 DEF CountsAreTrue, Clean, CountFields
  <2> QED BY <1>9, <2>3, <2>4 DEF TickLoad
<1>10. ASSUME NEW w \in Workers, Take(w) PROVE CountsAreTrue'
  <2>1. /\ phase \in {"load", "drain"} /\ queue # <<>> /\ queue' = Tail(queue)
        /\ ops' = [ops EXCEPT ![Head(queue)] = "running"]
        /\ UNCHANGED <<phase, counts, passed>> /\ queue \in Seq(Tickets)
    BY <1>10 DEF Take, CampaignTypes
  <2>2. /\ Head(queue) \in Tickets /\ Head(queue) > FunctionalTickets /\ ops[Head(queue)] = "idle"
    BY <2>1 DEF TicketsWait
  <2>3. Ended' = Ended /\ Begun' = Begun \cup {Head(queue)} /\ Head(queue) \notin Begun
    BY <2>1, <2>2 DEF Ended, Begun, CampaignTypes
  <2>4. Cardinality(Begun') = Cardinality(Begun) + 1
    BY <1>2, <2>2, <2>3, TicketSets
  <2>5. Len(queue) = Len(queue') + 1 /\ Len(queue') \in Nat
    BY <2>1
  <2>6. Clean => \A t \in Tickets : ops'[t] \in {"idle", "running", "ended"}
    BY <2>1, <2>2 DEF CountsAreTrue, CampaignTypes
  <2> QED BY <1>3, <2>1, <2>3, <2>4, <2>5, <2>6 DEF CountsAreTrue, Clean
<1>11. ASSUME NEW t \in Tickets, OperationEnds(t) PROVE CountsAreTrue'
  <2>1. /\ ops[t] = "running" /\ UNCHANGED <<phase, queue, passed>>
        /\ ops \in [Tickets ->
             {"idle", "running", "ended", "stuck", "panicked", "loose", "lost"}]
    BY <1>11 DEF OperationEnds, Running, CampaignTypes
  <2>2. phase \notin {"settle", "report"}
    <3> SUFFICES ASSUME phase \in {"settle", "report"} PROVE FALSE
      OBVIOUS
    <3>1. PICK v \in Workers : work[v] = t
      BY <2>1 DEF TicketsRun, Running
    <3> QED BY <3>1, IdleAssumption DEF TicketsRun
  <2>3. ~passed
    BY <2>2 DEF CountsAreTrue
  <2>4. CASE ops' = [ops EXCEPT ![t] = "ended"] /\ Counted("operations")
    <3>1. /\ \A f \in CountFields \ {"operations"} : counts'[f] = counts[f]
          /\ counts'.operations = counts.operations + 1
      BY <1>1, <2>4 DEF Counted, CountFields
    <3>2. Ended' = Ended \cup {t} /\ t \notin Ended /\ Begun' = Begun
      BY <2>1, <2>4 DEF Ended, Begun
    <3>3. Cardinality(Ended') = Cardinality(Ended) + 1
      BY <1>2, <3>2, TicketSets
    <3>4. Clean => \A u \in Tickets : ops'[u] \in {"idle", "running", "ended"}
      BY <2>1, <2>4 DEF CountsAreTrue
    <3>5. /\ counts'.stuck = counts.stuck /\ counts'.panics = counts.panics
          /\ counts'.dispatched = counts.dispatched /\ counts'.functional = counts.functional
      BY <3>1 DEF CountFields
    <3> QED BY <1>1, <1>3, <2>1, <2>3, <3>1, <3>2, <3>3, <3>4, <3>5 DEF CountsAreTrue, Clean
  <2>5. CASE Counted("panics")
    <3>1. /\ \A f \in CountFields \ {"panics"} : counts'[f] = counts[f]
          /\ counts'.panics = counts.panics + 1
      BY <1>1, <2>5 DEF Counted, CountFields
    <3>2. ~Clean'
      BY <1>1, <3>1 DEF Clean
    <3> QED BY <2>1, <2>3, <3>1, <3>2 DEF CountsAreTrue, CountFields
  <2> QED BY <1>11, <2>4, <2>5 DEF OperationEnds
<1>12. ASSUME counts' = [counts EXCEPT !.operations = @ + 1, !.stuck = @ + 1], passed' = passed, ~passed,
              phase' = phase \/ phase' # "functional"
       PROVE  CountsAreTrue'
  <2>1. /\ counts'.stuck = counts.stuck + 1 /\ counts'.dispatched = counts.dispatched
        /\ counts'.functional = counts.functional
    BY <1>1, <1>12 DEF CountFields
  <2>2. ~Clean'
    BY <1>1, <2>1 DEF Clean
  <2> QED BY <1>12, <2>1, <2>2 DEF CountsAreTrue
<1>13. ASSUME NEW t \in Tickets, Watchdog(t) PROVE CountsAreTrue'
  <2>1. phase \notin {"settle", "report"}
    <3> SUFFICES ASSUME phase \in {"settle", "report"} PROVE FALSE
      OBVIOUS
    <3>1. PICK v \in Workers : work[v] = t
      BY <1>13 DEF Watchdog, TicketsRun, Running
    <3> QED BY <3>1, IdleAssumption DEF TicketsRun
  <2>2. ~passed
    BY <2>1 DEF CountsAreTrue
  <2> QED BY <1>12, <1>13, <2>2 DEF Watchdog
<1>14. CASE DrainTimesOut
  BY <1>12, <1>14 DEF DrainTimesOut, CountsAreTrue
<1>15. ASSUME NEW t \in Tickets, LooseEnds(t) PROVE CountsAreTrue'
  <2>1. ops[t] = "loose" /\ UNCHANGED <<phase, queue, counts, passed>>
    BY <1>15 DEF LooseEnds
  <2>2. ~Clean
    BY <2>1 DEF CountsAreTrue
  <2> QED BY <2>1, <2>2 DEF CountsAreTrue, Clean
<1>16. CASE Report
  <2>1. /\ phase = "settle" /\ phase' = "report" /\ UNCHANGED <<queue, ops, counts>>
        /\ passed' = Verified
    BY <1>16 DEF Report
  <2>2. passed' => Clean
    BY <2>1 DEF Verified, Clean
  <2> QED BY <2>1, <2>2 DEF CountsAreTrue, Clean, Ended, Begun
<1> QED BY <1>4, <1>5, <1>6, <1>7, <1>8, <1>9, <1>10, <1>11, <1>13, <1>14, <1>15, <1>16
        DEF CampaignNext, TicketStep, SendOne, Arrive, Release, ReplyArrives, ClientDrops

\* Every step keeps the invariant.
LEMMA CampaignStep == CampaignInv /\ [CampaignNext]_campaignVars => CampaignInv'
<1>1. ASSUME CampaignInv, CampaignNext PROVE CampaignInv'
  <2>1. CampaignTypes' /\ TicketsWait' /\ TicketsRun' /\ RequestsAreOwned' /\ CountsAreTrue'
    BY <1>1, CampaignTyped, TicketsKeepWaiting, TicketsKeepRunning, RequestsKeepOwners, CountsStayTrue
  <2> QED BY <1>1, <2>1, PeakKept DEF CampaignInv
<1>2. ASSUME CampaignInv, UNCHANGED campaignVars PROVE CampaignInv'
  <2>1. CampaignTypes' /\ RequestsAreOwned'
    BY <1>2 DEF campaignVars, CampaignInv, CampaignTypes, RequestsAreOwned, Running
  <2> QED BY <1>2, <2>1, DriverKept, RequestsKept DEF campaignVars, CampaignInv
<1> QED BY <1>1, <1>2

\* The campaign begins with nothing sent and nothing counted.
LEMMA CampaignStarts == CampaignInit => CampaignInv
<1> SUFFICES ASSUME CampaignInit PROVE CampaignInv
  OBVIOUS
<1> USE TicketsAssumption, IdleAssumption
<1>1. CampaignTypes
  <2>1. counts \in [CountFields -> Nat]
    BY DEF CampaignInit, CountFields
  <2>2. phase = "functional" /\ ticket \in 1..(MaxTickets + 1) /\ queue \in Seq(Tickets)
    BY DEF CampaignInit
  <2> QED BY <2>1, <2>2 DEF CampaignInit, CampaignTypes
<1>2. TicketsWait /\ TicketsRun /\ RequestsAreOwned
  BY DEF CampaignInit, TicketsWait, TicketsRun, RequestsAreOwned, Tickets, Running
<1>3. Ended = {} /\ Busy = {}
  BY DEF CampaignInit, Ended, Busy
<1>4. Cardinality({}) = 0
  BY FS_EmptySet
<1>5. CountsAreTrue
  BY <1>3, <1>4 DEF CampaignInit, CountsAreTrue
<1>6. {t \in Tickets \ Hangs : requests[t] = "dropped"} = {}
  BY DEF CampaignInit
<1>7. PeakIsExplained
  <2>1. peak <= Permits + 0
    BY DEF CampaignInit
  <2> QED BY <1>4, <1>6, <2>1 DEF PeakIsExplained
<1> QED BY <1>1, <1>2, <1>3, <1>4, <1>5, <1>7 DEF CampaignInv

\* The server never saw more requests at once than the permits and what the client
\* dropped explain (server.rs: arrive, depart).
THEOREM PeaksAreExplained == CampaignSpec => []PeakIsExplained
<1>1. CampaignInv => PeakIsExplained
  BY DEF CampaignInv
<1> QED BY <1>1, CampaignStarts, CampaignStep, PTL DEF CampaignSpec

\* A campaign that passes recorded each dispatched operation once, and left none
\* running and no request on its way (driver.rs: run, verify.rs).
THEOREM VerdictsAreEarned == CampaignSpec => []VerdictIsEarned
<1>1. CampaignInv => VerdictIsEarned
  <2> SUFFICES ASSUME CampaignInv, passed PROVE VerdictIsEarned
    BY DEF VerdictIsEarned
  <2> USE TicketsAssumption DEF CampaignInv
  <2>1. Clean /\ phase = "report" /\ queue = <<>>
    BY DEF CountsAreTrue, TicketsRun
  <2>2. \A t \in Tickets : ~Running(t)
    <3> SUFFICES ASSUME NEW t \in Tickets, Running(t) PROVE FALSE
      OBVIOUS
    <3>1. PICK v \in Workers : work[v] = t
      BY <2>1 DEF TicketsRun
    <3> QED BY <2>1, <3>1, IdleAssumption DEF TicketsRun
  <2>3. \A t \in Tickets : ops[t] \in {"idle", "ended"}
    BY <2>1, <2>2 DEF CountsAreTrue, Running
  <2>4. Busy = {}
    BY <2>3 DEF Busy, RequestsAreOwned, Running
  <2>5. \A t \in 1..(ticket - 1) : t \in Tickets
    BY DEF CampaignTypes, Tickets
  <2>6. Ended = (1..FunctionalTickets) \cup Begun /\ (1..FunctionalTickets) \cap Begun = {}
    <3>1. \A t \in 1..FunctionalTickets : t \in Tickets /\ ops[t] = "ended" /\ ~(t > FunctionalTickets)
      BY <2>1, <2>3 DEF TicketsRun, Tickets
    <3>2. \A t \in Tickets : t > FunctionalTickets \/ t \in 1..FunctionalTickets
      BY DEF Tickets
    <3> QED BY <2>3, <3>1, <3>2 DEF Ended, Begun
  <2>7. Cardinality(Ended) = FunctionalTickets + Cardinality(Begun)
    <3>1. IsFiniteSet(1..FunctionalTickets) /\ Cardinality(1..FunctionalTickets) = FunctionalTickets
      BY FS_Interval
    <3>2. IsFiniteSet(Begun) /\ Cardinality(Begun) \in Nat
      BY TicketSets DEF Begun
    <3>3. Cardinality({}) = 0
      BY FS_EmptySet
    <3>4. Cardinality((1..FunctionalTickets) \cup Begun)
            = Cardinality(1..FunctionalTickets) + Cardinality(Begun)
              - Cardinality((1..FunctionalTickets) \cap Begun)
      BY <3>1, <3>2, FS_Union
    <3>5. Cardinality((1..FunctionalTickets) \cap Begun) = 0
      BY <2>6, <3>3
    <3> QED BY <2>6, <3>1, <3>2, <3>4, <3>5
  <2>8. counts.operations = counts.functional + counts.dispatched
    <3>1. Len(queue) = 0 /\ Cardinality(Begun) \in Nat
      BY <2>1, TicketSets DEF Begun
    <3> QED BY <2>1, <2>7, <3>1 DEF CountsAreTrue
  <2> QED BY <2>3, <2>4, <2>5, <2>8 DEF VerdictIsEarned
<1> QED BY <1>1, CampaignStarts, CampaignStep, PTL DEF CampaignSpec
===================================================================================
