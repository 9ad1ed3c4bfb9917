------------------------------ MODULE CommandLine ------------------------------
(* The command line, from the arguments to the exit code: one command, the *)
(* signals it gets, and the one document it writes.                        *)
EXTENDS Naturals, Errors

CONSTANTS
  NoOutput,   \* nothing to write yet, or ever
  MaxSignals  \* bound: signals sent to the process

VARIABLES
  stage,      \* parse, runtime, install, prepare, execute, emit, exited, killed
  handler,    \* the signal handler is installed
  signals,    \* signals the handler has not taken yet
  token,      \* the execution's token is cancelled
  flag,       \* cancelled_rx
  sent,       \* the engine sent a request
  output,     \* the Output
  exit        \* what the process ended with: whether it wrote, and the code

commandVars == <<stage, handler, signals, token, flag, sent, output, exit>>

Success == [status |-> "ok"]
Failed(error) == [status |-> "error", error |-> error]
CliError(category, phase, effect, retry) ==
  Failed([category |-> category, phase |-> phase, effect |-> effect, retry |-> retry])
Invalid  == CliError("invalid_configuration", "validate", "none", "never")
Internal == CliError("internal", "cleanup", "unknown", "quarantine")
CancelledBeforeExecution == CliError("cancelled", "validate", "none", "safe")

ExitCode(category) ==
  CASE category \in {"invalid_plan", "invalid_configuration"} -> 2
    [] category \in {"schema", "data_mapping", "unsupported"} -> 3
    [] category = "resource_limit" -> 4
    [] category \in {"io", "protocol", "authentication", "authorization",
                     "timeout", "transient"} -> 5
    [] category = "execution" -> 6
    [] category = "internal" -> 70
    [] category = "cancelled" -> 130

CommandInit ==
  /\ stage = "parse"
  /\ handler = FALSE /\ signals = 0 /\ token = FALSE /\ flag = FALSE
  /\ sent = FALSE /\ output = NoOutput /\ exit = NoOutput

ToEmit(document) == stage' = "emit" /\ output' = document

(* The arguments are refused, or ask for help, the version or the          *)
(* capabilities; or they name an operation.                                *)
ParseArguments ==
  /\ stage = "parse"
  /\ \/ ToEmit(Invalid)
     \/ ToEmit(Success)
     \/ stage' = "runtime" /\ UNCHANGED output
  /\ UNCHANGED <<handler, signals, token, flag, sent, exit>>

StartRuntime ==
  /\ stage = "runtime"
  /\ \/ ToEmit(Internal)
     \/ stage' = "install" /\ UNCHANGED output
  /\ UNCHANGED <<handler, signals, token, flag, sent, exit>>

InstallHandler ==
  /\ stage = "install"
  /\ \/ ToEmit(Internal) /\ UNCHANGED handler
     \/ stage' = "prepare" /\ handler' = TRUE /\ UNCHANGED output
  /\ UNCHANGED <<signals, token, flag, sent, exit>>

(* Until the handler is there a signal ends the process.                   *)
Kill ==
  /\ ~handler /\ stage \notin {"exited", "killed"}
  /\ stage' = "killed"
  /\ UNCHANGED <<handler, signals, token, flag, sent, output, exit>>

Signal ==
  /\ handler /\ stage \notin {"exited", "killed"}
  /\ signals < MaxSignals
  /\ signals' = signals + 1
  /\ UNCHANGED <<stage, handler, token, flag, sent, output, exit>>

\* Faulty variant: signals are taken once the execution runs.
TakeFirstInExecution ==
  /\ stage = "execute" /\ signals > 0 /\ ~token
  /\ token' = TRUE
  /\ UNCHANGED <<stage, handler, signals, flag, sent, output, exit>>

(* The handler's task, which dies with the runtime: the first signal       *)
(* cancels the token, then tells the reader; the others do nothing.        *)
TakeFirst ==
  /\ stage \in {"prepare", "execute"} /\ signals > 0 /\ ~token
  /\ token' = TRUE
  /\ UNCHANGED <<stage, handler, signals, flag, sent, output, exit>>

TellReader ==
  /\ stage \in {"prepare", "execute"} /\ token /\ ~flag
  /\ flag' = TRUE
  /\ UNCHANGED <<stage, handler, signals, token, sent, output, exit>>

(* biased: each time the reader runs it looks at the flag first.           *)
CancelPreparation ==
  /\ stage = "prepare" /\ flag
  /\ ToEmit(CancelledBeforeExecution)
  /\ UNCHANGED <<handler, signals, token, flag, sent, exit>>

PrepareEnds ==
  /\ stage = "prepare" /\ ~flag
  /\ \/ ToEmit(Invalid)
     \/ ToEmit(CliError("resource_limit", "validate", "none", "never"))
     \/ ToEmit(CliError("io", "read", "none", "never"))
     \/ stage' = "execute" /\ UNCHANGED output
  /\ UNCHANGED <<handler, signals, token, flag, sent, exit>>

(* execute_with_control: refused in validation, cancelled before its next  *)
(* step once the token is, or finished. The first error is of a record:    *)
(* it need not know what the others sent.                                  *)
SendRequest ==
  /\ stage = "execute" /\ ~token /\ ~sent
  /\ sent' = TRUE
  /\ UNCHANGED <<stage, handler, signals, token, flag, output, exit>>

Refused(v) == stage = "execute" /\ ~sent /\ ToEmit(Failed(ErrorOf(v)))

Finished ==
  /\ stage = "execute" /\ ~token
  /\ \/ ToEmit(Success)
     \/ \E v \in {"MissingParameter", "Transport", "FileIo"}, known \in BOOLEAN :
          (known => sent) /\ ToEmit(Failed(Reported(v, "none", known)))

Cancelled ==
  stage = "execute" /\ token /\ ToEmit(Failed(Reported("Cancelled", "none", sent)))

RunOperation ==
  /\ \/ \E v \in {"InvalidInput", "PolicyViolation", "IdempotencyConflict"} : Refused(v)
     \/ Finished
     \/ Cancelled
  /\ UNCHANGED <<handler, signals, token, flag, sent, exit>>

Panic ==
  /\ stage \in {"parse", "runtime", "install", "prepare", "execute"}
  /\ ToEmit(Internal)
  /\ UNCHANGED <<handler, signals, token, flag, sent, exit>>

\* Faulty variant: a success that could not be written still ends with 0.
EmitQuietly ==
  /\ stage = "emit"
  /\ \E written \in BOOLEAN :
       exit' = [written |-> written,
                code |-> IF output.status = "error" THEN ExitCode(output.error.category) ELSE 0]
  /\ stage' = "exited"
  /\ UNCHANGED <<handler, signals, token, flag, sent, output>>

(* A write that fails cannot be told on the same stream.                   *)
Emit ==
  /\ stage = "emit"
  /\ \E written \in BOOLEAN :
       exit' = [written |-> written,
                code |-> IF output.status = "error" THEN ExitCode(output.error.category)
                         ELSE IF written THEN 0 ELSE ExitCode("io")]
  /\ stage' = "exited"
  /\ UNCHANGED <<handler, signals, token, flag, sent, output>>

CommandTask ==
  \/ ParseArguments \/ StartRuntime \/ InstallHandler
  \/ CancelPreparation \/ RunOperation \/ Emit

CommandNext ==
  \/ CommandTask \/ PrepareEnds \/ SendRequest \/ Panic
  \/ Kill \/ Signal \/ TakeFirst \/ TellReader

(* The tasks are scheduled, and the engine returns (ExecutionReturns); the *)
(* request may never come on the standard input.                           *)
CommandFairness ==
  /\ WF_commandVars(CommandTask)
  /\ WF_commandVars(TakeFirst)
  /\ WF_commandVars(TellReader)

CommandSpec == CommandInit /\ [][CommandNext]_commandVars /\ CommandFairness

-----------------------------------------------------------------------------
(* CLI 2.0 §8 and emit: the process ends with 0 exactly when it wrote the  *)
(* document of a success. It ends with 130 only when a signal was taken,   *)
(* and then a retry is called safe only if nothing was sent. Once the      *)
(* handler is installed no signal ends it without a document.              *)
ExitIsTrue ==
  /\ stage = "exited" =>
       /\ exit.code = 0 <=> exit.written /\ output.status = "ok"
       /\ exit.code = 130 => token /\ (output.error.retry = "safe" => ~sent)
  /\ stage = "killed" => ~handler

(* run_operation: a signal ends the command, also while it reads a request *)
(* that never comes.                                                       *)
SignalEndsCommand == handler /\ signals > 0 ~> stage = "exited"
=============================================================================
