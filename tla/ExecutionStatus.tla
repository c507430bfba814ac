--------------------------- MODULE ExecutionStatus ---------------------------
(***************************************************************************)
(* The execution states shared by jobs, tasks and agent results            *)
(* (backend/core/execution.py), and the results a job can end with         *)
(* (JobResult in backend/runtime/task_queue.py).                           *)
(***************************************************************************)

InFlightStatus == {"PENDING", "QUEUED", "RUNNING"}

TerminalStatus == {"SUCCEEDED", "FAILED", "CANCELLED", "TIMED_OUT"}

Status == InFlightStatus \cup TerminalStatus

(***************************************************************************)
(* A result is its terminal status, its error code and whether its two     *)
(* timestamps can be subtracted: a result that a handler built with one    *)
(* naive and one aware datetime cannot be given a duration.  "OWN" stands  *)
(* for a code the handler chose, "NONE" for no code.  The success flag is  *)
(* derived from the status and so is not kept; the payload is opaque.      *)
(***************************************************************************)
ErrorCode == {"NONE", "OWN", "JOB_CANCELLED", "RUNTIME_SHUTDOWN",
              "JOB_TIMEOUT", "HANDLER_NOT_FOUND", "HANDLER_EXCEPTION",
              "INVALID_HANDLER_RESULT", "HANDLER_REPORTED_FAILURE"}

JobResult == [status : TerminalStatus, code : ErrorCode, datable : BOOLEAN]

Outcome(s, c) == [status |-> s, code |-> c, datable |-> TRUE]

JobCancelled    == Outcome("CANCELLED", "JOB_CANCELLED")
RuntimeShutdown == Outcome("CANCELLED", "RUNTIME_SHUTDOWN")

\* The value of job.result before there is one.
NoResult == Outcome("PENDING", "NONE")
==============================================================================
