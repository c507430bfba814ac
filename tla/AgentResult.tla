----------------------------- MODULE AgentResult -----------------------------
(***************************************************************************)
(* The outcome of an agent's work: backend/agent_system/agent_result.py,   *)
(* and what AgentManager._normalise_result makes of the value an agent's   *)
(* execute() leaves behind.                                                *)
(***************************************************************************)
EXTENDS HandlerResult

AgentCode ==
  {"NONE", "OWN", "TASK_CANCELLED", "NO_CAPABLE_AGENT", "NOT_IMPLEMENTED",
   "AGENT_EXECUTION_FAILED", "INVALID_AGENT_RESULT"}

(***************************************************************************)
(* What execute() leaves.                                                  *)
(*   form      an AgentResult, any other value, an exception, or one that  *)
(*             is no Exception, such as the SystemExit of sys.exit()       *)
(*   status    its status; "other" is no ExecutionStatus                   *)
(*   code      its error_code, from the metadata                           *)
(*   error     it has an error text                                        *)
(*   finished  finished_at is set                                          *)
(*   duration  duration_ms is set                                          *)
(*   zones     started_at and finished_at have a time zone                 *)
(***************************************************************************)
Answer ==
  [form     : {"result", "value", "raised", "exit"},
   status   : Status \cup {"other"},
   code     : AgentCode,
   error    : BOOLEAN,
   finished : BOOLEAN,
   duration : BOOLEAN,
   zones    : [started : BOOLEAN, finished : BOOLEAN]]

Zoned == [started |-> TRUE, finished |-> TRUE]

\* AgentResult.succeeded and AgentResult.failed: complete when they are built.
Succeeded ==
  [form |-> "result", status |-> "SUCCEEDED", code |-> "NONE", error |-> FALSE,
   finished |-> TRUE, duration |-> TRUE, zones |-> Zoned]

Failed(s, c) == [Succeeded EXCEPT !.status = s, !.code = c, !.error = TRUE]

\* complete() stamps the current time and subtracts started_at from it, which
\* raises for a time without a zone.
CompleteRaises(answer) == ~answer.zones.started

Completed(answer) ==
  [answer EXCEPT !.finished = TRUE, !.duration = TRUE, !.zones.finished = TRUE,
                 !.error = (answer.status # "SUCCEEDED")]

InvalidAnswer(answer) ==
  answer.form = "value" \/ answer.status \notin TerminalStatus

\* A result without timing is given one.
TimingRaises(answer) ==
  IF ~answer.finished THEN CompleteRaises(answer)
  ELSE ~answer.duration /\ answer.zones.started # answer.zones.finished

WithTiming(answer) ==
  IF ~answer.finished THEN Completed(answer) ELSE [answer EXCEPT !.duration = TRUE]

\* A failure without a text is completed again.
Unexplained(answer) == answer.status # "SUCCEEDED" /\ ~answer.error

NormaliseRaises(answer) ==
  /\ ~InvalidAnswer(answer)
  /\ \/ TimingRaises(answer)
     \/ Unexplained(WithTiming(answer)) /\ CompleteRaises(answer)

\* A success is shown without an error, a failure with one.
FaultNormalised(answer) ==
  IF InvalidAnswer(answer) THEN Failed("FAILED", "INVALID_AGENT_RESULT")
  ELSE [WithTiming(answer) EXCEPT !.error = (answer.status # "SUCCEEDED"),
          !.status = IF answer.error THEN answer.status ELSE "SUCCEEDED"]

Normalised(answer) ==
  IF InvalidAnswer(answer) THEN Failed("FAILED", "INVALID_AGENT_RESULT")
  ELSE [WithTiming(answer) EXCEPT !.error = (answer.status # "SUCCEEDED")]

\* The worker reads a returned AgentResult by its attributes.
AsHandlerValue(answer) ==
  [form    |-> "object",
   success |-> IF answer.status = "SUCCEEDED" THEN "true" ELSE "false",
   status  |-> answer.status,
   error   |-> answer.error,
   coded   |-> answer.code # "NONE",
   datable |-> TRUE]

RaisedValue ==
  [form |-> "raised", success |-> "absent", status |-> "absent",
   error |-> FALSE, coded |-> FALSE, datable |-> TRUE]

\* Nothing: the handler's thread ended without a result or an Exception.
NothingValue == [RaisedValue EXCEPT !.form = "None"]

------------------------------------------------------------------------------
(* The built-in agents, backend/agent_system/default_agents.py *)

Cancelled == Failed("CANCELLED", "TASK_CANCELLED")

DiagnosticExecute(token) == IF token THEN Cancelled ELSE Succeeded

NotImplementedExecute(token) ==
  IF token THEN Cancelled ELSE Failed("FAILED", "NOT_IMPLEMENTED")
==============================================================================
