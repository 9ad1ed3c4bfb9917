-------------------------------- MODULE Errors --------------------------------
(* The axes of an error: category, phase, remote effect and advice on a    *)
(* retry, first as its variant says and then corrected by what the         *)
(* execution did. Texts, codes and details are left out.                   *)

Variants ==
  {"InvalidInput", "UnsupportedSchema", "InvalidUrl", "UnsafeAddress",
   "PolicyViolation", "DnsResolution", "InvalidHeader", "Timeout", "Cancelled",
   "EngineClosed", "CircuitOpen", "Transport", "ResponseTooLarge",
   "RequestTooLarge", "FileTooLarge", "FileIo", "ChecksumMismatch", "HttpStatus",
   "InvalidResponse", "Application", "MissingParameter", "Authentication",
   "IdempotencyConflict", "PollingTimeout", "PaginationLimit", "DeadlineExpired",
   "DownloadWrite", "CleanupAfterPublish", "Runtime"}

Category(v) ==
  CASE v \in {"InvalidInput", "InvalidUrl", "InvalidHeader", "IdempotencyConflict"} ->
         "invalid_configuration"
    [] v = "UnsupportedSchema" -> "unsupported"
    [] v \in {"UnsafeAddress", "PolicyViolation"} -> "authorization"
    [] v \in {"DnsResolution", "Transport", "CircuitOpen"} -> "transient"
    [] v \in {"Timeout", "PollingTimeout", "DeadlineExpired"} -> "timeout"
    [] v = "Cancelled" -> "cancelled"
    [] v \in {"EngineClosed", "HttpStatus", "Application"} -> "execution"
    [] v \in {"ResponseTooLarge", "RequestTooLarge", "FileTooLarge",
              "PaginationLimit"} -> "resource_limit"
    [] v \in {"FileIo", "DownloadWrite", "CleanupAfterPublish"} -> "io"
    [] v \in {"ChecksumMismatch", "InvalidResponse"} -> "protocol"
    [] v = "MissingParameter" -> "data_mapping"
    [] v = "Authentication" -> "authentication"
    [] v = "Runtime" -> "internal"

Phase(v) ==
  CASE v \in {"InvalidInput", "UnsupportedSchema", "InvalidUrl", "UnsafeAddress",
              "PolicyViolation", "EngineClosed", "IdempotencyConflict",
              "DeadlineExpired"} -> "validate"
    [] v \in {"DnsResolution", "CircuitOpen", "Authentication"} -> "connect"
    [] v \in {"InvalidHeader", "RequestTooLarge", "MissingParameter"} -> "prepare"
    [] v \in {"FileIo", "DownloadWrite"} -> "write"
    [] v \in {"CleanupAfterPublish", "Cancelled", "Runtime"} -> "cleanup"
    [] v = "ChecksumMismatch" -> "finalize"
    [] v \in {"Timeout", "Transport", "ResponseTooLarge", "FileTooLarge",
              "HttpStatus", "InvalidResponse", "Application", "PollingTimeout",
              "PaginationLimit"} -> "read"

RemoteEffect(v) ==
  CASE v \in {"Timeout", "Cancelled", "Transport", "ResponseTooLarge",
              "FileTooLarge", "ChecksumMismatch", "HttpStatus", "InvalidResponse",
              "Application", "PollingTimeout", "DownloadWrite"} -> "unknown"
    [] v = "CleanupAfterPublish" -> "committed"
    [] OTHER -> "none"

RetryAdvice(v) ==
  CASE v \in {"Timeout", "Cancelled", "Transport"} -> "quarantine"
    [] v \in {"PollingTimeout", "DownloadWrite"} -> "requires_recovery"
    [] v \in {"DnsResolution", "CircuitOpen"} -> "safe"
    [] OTHER -> "never"

ErrorOf(v) == [category |-> Category(v), phase |-> Phase(v),
               effect |-> RemoteEffect(v), retry |-> RetryAdvice(v)]

(* normalize_phase: "entered" is the phase the transport entered last, or  *)
(* "none".                                                                 *)
NormalizePhase(error, entered) ==
  IF error.phase = "validate" /\ entered # "none"
  THEN [error EXCEPT !.phase = entered] ELSE error

(* after_sent_request: an error raised once a request was sent cannot say  *)
(* that nothing happened.                                                  *)
AfterSentRequest(error) ==
  IF error.effect # "none" THEN error
  ELSE [error EXCEPT !.effect = "unknown", !.retry = "requires_recovery",
                     !.phase = IF @ = "validate" THEN "read" ELSE @]

\* Faulty variant: an error is reported as its variant says.
ReportedAsRaised(v, entered, sent) == NormalizePhase(ErrorOf(v), entered)

(* account_for_sent_requests, for one error.                               *)
Reported(v, entered, sent) ==
  LET error == NormalizePhase(ErrorOf(v), entered)
  IN  IF sent THEN AfterSentRequest(error) ELSE error
=============================================================================
