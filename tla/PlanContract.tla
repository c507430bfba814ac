---------------------------- MODULE PlanContract -----------------------------
(***************************************************************************)
(* What execute_plan promises about the tasks of a plan, with no loop,     *)
(* tracker, runtime or agent in sight.  A request is refused, or taken up  *)
(* and answered once all its tasks are reported.  A task is reported once: *)
(* as tried, which needs the success of all it depends on; as skipped,     *)
(* since one of these did not succeed; or as unresolvable, with all that   *)
(* is left, when none of them can come to its turn any more.               *)
(***************************************************************************)
EXTENDS ExecutionStatus

CONSTANTS
  Tasks,
  Requests,
  TasksOf,     \* [Requests -> SUBSET Tasks]
  DependsOn    \* [Tasks -> a set of tasks, of which some may not exist]

VARIABLES
  stage,       \* [Requests -> {"asked", "refused", "taken", "answered"}]
  report       \* [Tasks -> what is reported of it]

contractVars == <<stage, report>>

Unreported   == [status |-> "PENDING",   code |-> "NONE"]
Skipped      == [status |-> "CANCELLED", code |-> "DEPENDENCY_FAILED"]
Unresolvable == [status |-> "FAILED",    code |-> "DEPENDENCY_CYCLE_OR_MISSING"]

\* What becomes of a task that is tried; only an agent makes it a success.
Tried ==
  {res \in [status : TerminalStatus,
            code : ErrorCode \cup {"AGENT", "NO_CAPABLE_AGENT", "RUNTIME_UNAVAILABLE",
                                   "RUNTIME_WAIT_TIMEOUT", "INVALID_AGENT_HANDLER_RESULT"}] :
     res.status = "SUCCEEDED" => res.code = "AGENT"}

Unsettled(r) == {t \in TasksOf[r] : report[t] = Unreported}

\* Everything the task depends on is a task of the plan and reported.
HasItsTurn(r, t) == DependsOn[t] \subseteq TasksOf[r] \ Unsettled(r)

Init ==
  /\ stage  = [r \in Requests |-> "asked"]
  /\ report = [t \in Tasks |-> Unreported]

\* A request is taken up or refused.
Enter(r) ==
  /\ stage[r] = "asked"
  /\ \E s \in {"taken", "refused"} : stage' = [stage EXCEPT ![r] = s]
  /\ UNCHANGED report

Try(r, t) ==
  /\ report[t] = Unreported /\ report'[t] \in Tried
  /\ report' = [report EXCEPT ![t] = report'[t]]
  /\ stage[r] = "taken" /\ HasItsTurn(r, t)
  /\ \A d \in DependsOn[t] : report[d].status = "SUCCEEDED"
  /\ UNCHANGED stage

Skip(r, t) ==
  /\ report[t] = Unreported
  /\ report' = [report EXCEPT ![t] = Skipped]
  /\ stage[r] = "taken" /\ HasItsTurn(r, t)
  /\ \E d \in DependsOn[t] : report[d].status # "SUCCEEDED"
  /\ UNCHANGED stage

GiveUp(r) ==
  /\ Unsettled(r) # {} /\ \A t \in Unsettled(r) : ~HasItsTurn(r, t)
  /\ report' = [t \in Tasks |-> IF t \in Unsettled(r) THEN Unresolvable ELSE report[t]]
  /\ stage[r] = "taken"
  /\ UNCHANGED stage

Answer(r) ==
  /\ Unsettled(r) = {}
  /\ stage[r] = "taken"
  /\ stage' = [stage EXCEPT ![r] = "answered"]
  /\ UNCHANGED report

Next ==
  \E r \in Requests :
    \/ Enter(r) \/ GiveUp(r) \/ Answer(r)
    \/ \E t \in TasksOf[r] : Try(r, t) \/ Skip(r, t)

Spec == Init /\ [][Next]_contractVars
==============================================================================
