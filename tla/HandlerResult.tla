---------------------------- MODULE HandlerResult ----------------------------
(***************************************************************************)
(* What the worker makes of the value a job handler leaves behind          *)
(* (Worker._normalise_result and the end of Worker._execute_job).          *)
(***************************************************************************)
EXTENDS ExecutionStatus

(***************************************************************************)
(* A returned value, seen through the tests the worker applies to it.      *)
(*   form     the branch of the code that reads it; "raised" stands for a  *)
(*            handler that ended in an exception                           *)
(*   success  the success entry or attribute and its truth value           *)
(*   status   the status entry or attribute; "other" is a value that is no *)
(*            ExecutionStatus, such as an agent's lifecycle state          *)
(*   error    an error text is given                                       *)
(*   coded    an error code of the handler's own is given                  *)
(*   datable  the timestamps the handler filled in can be subtracted       *)
(* A JobResult has a terminal status (its constructor insists) that its    *)
(* success flag follows; only a JobResult carries timestamps.              *)
(***************************************************************************)
RawValue ==
  [form    : {"JobResult", "dict", "object", "None", "raised"},
   success : {"absent", "true", "false"},
   status  : {"absent", "other"} \cup Status,
   error   : BOOLEAN,
   coded   : BOOLEAN,
   datable : BOOLEAN]

NoRaw == [form |-> "unknown"]

Invalid == Outcome("FAILED", "INVALID_HANDLER_RESULT")

OwnCode(raw) == IF raw.coded THEN "OWN" ELSE "NONE"

\* Whether the value claims an execution status, a flag, or neither.
ClaimsStatus(raw) == raw.status \in Status

\* A value without a flag: false for a dictionary, true for any other object.
Flag(raw) ==
  raw.success = "true" \/ (raw.success = "absent" /\ raw.form = "object")

\* No usable execution result: a dictionary with neither flag nor status, or
\* an object whose only claim is a status of another kind.
Unusable(raw) ==
  /\ raw.success = "absent"
  /\ \/ raw.form = "dict" /\ ~ClaimsStatus(raw)
     \/ raw.form = "object" /\ raw.status = "other"

\* A valid status decides; without one the flag does.
ClaimedStatus(raw) ==
  IF ClaimsStatus(raw) THEN raw.status
  ELSE IF Flag(raw) THEN "SUCCEEDED" ELSE "FAILED"

\* An unsuccessful value without an error text is given one, and a code.
ClaimedCode(raw) ==
  IF ClaimedStatus(raw) # "SUCCEEDED" /\ ~raw.error /\ ~raw.coded
  THEN "HANDLER_REPORTED_FAILURE"
  ELSE OwnCode(raw)

Normalise(raw) ==
  CASE raw.form = "JobResult" ->
         [status |-> raw.status, code |-> OwnCode(raw), datable |-> raw.datable]
    [] raw.form = "None" -> Invalid
    [] raw.form = "raised" -> Outcome("FAILED", "HANDLER_EXCEPTION")
    [] raw.form \in {"dict", "object"} ->
         IF Unusable(raw) \/ ClaimedStatus(raw) \notin TerminalStatus
         THEN Invalid
         ELSE Outcome(ClaimedStatus(raw), ClaimedCode(raw))

\* The values a handler can leave: the combinations Python lets exist.
Producible ==
  {raw \in RawValue :
     /\ raw.form = "JobResult" =>
          /\ raw.status \in TerminalStatus
          /\ raw.success = (IF raw.status = "SUCCEEDED" THEN "true" ELSE "false")
     /\ raw.form \in {"None", "raised"} =>
          raw.success = "absent" /\ raw.status = "absent" /\ ~raw.error /\ ~raw.coded
     /\ raw.form # "JobResult" => raw.datable}
==============================================================================
