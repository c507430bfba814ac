----------------------------- MODULE Orchestrator -----------------------------
(***************************************************************************)
(* Plan execution: backend/orchestrator/orchestrator.py with its planner,  *)
(* scheduler, progress tracker and result collector, over the agents of    *)
(* AgentManager and the runtime.  Of the runtime only its contract is      *)
(* used, JobLifecycle, which Runtime implements; each task becomes one     *)
(* job.  Requests run concurrently, each in a thread of its own; the task  *)
(* ids of all plans are distinct.                                          *)
(***************************************************************************)
EXTENDS AgentManager

CONSTANTS
  Requests,    \* the requests that ask for a plan's execution
  Plan,        \* [Requests -> Seq(Tasks)], the plan of each
  DependsOn,   \* [Tasks -> a set of tasks, of which some may not exist]
  Timed        \* the tasks with timeout_seconds

PlanAssumption ==
  /\ Plan \in [Requests -> Seq(Tasks)]
  /\ \A q, r \in Requests : q # r =>
       \A i \in DOMAIN Plan[q], j \in DOMAIN Plan[r] : Plan[q][i] # Plan[r][j]
  /\ Timed \subseteq Tasks

ASSUME PlanAssumption

VARIABLES
  phase, asked, verdict,  \* the jobs, as in JobLifecycle
  delivered,   \* the jobs whose result carries the handler's AgentResult
  running,     \* runtime.running
  request,     \* [Requests -> where execute_plan is]
  remaining,   \* [Requests -> SUBSET Tasks], kept in the plan's order
  batch,       \* [Requests -> SUBSET Tasks], what a loop has not handled, in that order
  outcome,     \* [Tasks -> TaskOutcome], results_by_task of its request
  tracker,     \* the one ProgressTracker
  planStatus   \* [Requests -> PlanStatus]

Job == INSTANCE JobLifecycle WITH Jobs <- Tasks

jobVars == <<phase, asked, verdict, delivered, running>>
planVars == <<request, remaining, batch, outcome, tracker, planStatus>>
allVars == <<agentVars, jobVars, planVars>>

PlanStatus == {"PENDING", "RUNNING", "SUCCEEDED", "PARTIALLY_SUCCEEDED", "FAILED", "CANCELLED"}

Where == {"idle", "refused", "starting", "picking", "next", "checking", "queuing",
          "waiting", "abandoning", "failing", "showing", "done"}

\* What is kept of a task's result.  The code "AGENT" is that of an agent's
\* own result; the others name who made it up.
TaskOutcome(s, c) == [status |-> s, code |-> c]

Unreported == TaskOutcome("PENDING", "NONE")

\* The codes of the results the orchestrator makes up.
OwnTaskCode ==
  {"DEPENDENCY_CYCLE_OR_MISSING", "DEPENDENCY_FAILED", "NO_CAPABLE_AGENT",
   "RUNTIME_UNAVAILABLE", "RUNTIME_WAIT_TIMEOUT", "INVALID_AGENT_HANDLER_RESULT"}

TaskResult == [status : TerminalStatus, code : ErrorCode \cup OwnTaskCode \cup {"AGENT"}]

PlanTasks(r) == {Plan[r][i] : i \in DOMAIN Plan[r]}

Init ==
  /\ AgentInit
  /\ Job!Init
  /\ delivered  = {}
  /\ running    = TRUE
  /\ request    = [r \in Requests |-> "idle"]
  /\ remaining  = [r \in Requests |-> PlanTasks(r)]
  /\ batch      = [r \in Requests |-> {}]
  /\ outcome    = [t \in Tasks |-> Unreported]
  /\ tracker    = [plan |-> "none", entries |-> <<>>]
  /\ planStatus = [r \in Requests |-> "PENDING"]

------------------------------------------------------------------------------
(* The progress tracker and the aggregation *)

\* One entry per task, as a function of the tasks that have one.  An update is
\* one step also where it meets a new list: what it writes into the old list is
\* lost, what it does not find there it appends to the new one.
Tracked(entries, changes) ==
  [t \in DOMAIN entries \cup DOMAIN changes |->
     IF t \in DOMAIN changes THEN changes[t] ELSE entries[t]]

Track(changes) == tracker' = [tracker EXCEPT !.entries = Tracked(@, changes)]

StatusOf(S, s) == [t \in S |-> s]

\* A result is recorded for the task and shown under the task id it carries.
FaultRecord(t, s, c) ==
  /\ outcome' = [outcome EXCEPT ![t] = TaskOutcome(s, c)]
  /\ Track(StatusOf({t}, IF s = "FAILED" THEN s ELSE "SUCCEEDED"))

Record(t, s, c) ==
  /\ outcome' = [outcome EXCEPT ![t] = TaskOutcome(s, c)]
  /\ Track(StatusOf({t}, s))

PlanStatusOf(statuses) ==
  CASE statuses = {} -> "FAILED"
    [] statuses = {"SUCCEEDED"} -> "SUCCEEDED"
    [] statuses = {"CANCELLED"} -> "CANCELLED"
    [] OTHER -> IF "SUCCEEDED" \in statuses THEN "PARTIALLY_SUCCEEDED" ELSE "FAILED"

------------------------------------------------------------------------------
(* execute_plan *)

Go(r, from, to) == request[r] = from /\ request' = [request EXCEPT ![r] = to]

\* The task of S that comes first in the plan.
FirstOf(S, plan) ==
  plan[CHOOSE i \in DOMAIN plan : plan[i] \in S /\ \A j \in 1 .. i - 1 : plan[j] \notin S]

Task(r) == FirstOf(batch[r], Plan[r])

\* ProgressTracker.start is two assignments, without a lock.
StartPlan(r) ==
  /\ Go(r, "idle", "starting")
  /\ running
  /\ tracker' = [tracker EXCEPT !.plan = r]
  /\ UNCHANGED <<agentVars, jobVars, remaining, batch, outcome, planStatus>>

\* The entries of every other plan are dropped.
ListPlan(r) ==
  /\ Go(r, "starting", "picking")
  /\ tracker' = [tracker EXCEPT !.entries = StatusOf(PlanTasks(r), "PENDING")]
  /\ planStatus' = [planStatus EXCEPT ![r] = "RUNNING"]
  /\ UNCHANGED <<agentVars, jobVars, remaining, batch, outcome>>

RefusePlan(r) ==
  /\ Go(r, "idle", "refused")
  /\ ~running
  /\ UNCHANGED <<agentVars, jobVars, remaining, batch, outcome, tracker, planStatus>>

Reported(t) == outcome[t] # Unreported

\* Ready: every dependency is a task of this plan that has been reported.
Ready(r, t) == \A d \in DependsOn[t] : d \in PlanTasks(r) /\ Reported(d)

PickReady(r) ==
  /\ Go(r, "picking", "next")
  /\ batch' = [batch EXCEPT ![r] = {t \in remaining[r] : Ready(r, t)}]
  /\ batch'[r] # {}
  /\ UNCHANGED <<agentVars, jobVars, remaining, outcome, tracker, planStatus>>

Advance(r) == batch' = [batch EXCEPT ![r] = @ \ {Task(r)}]

\* No task is ready: what remains has a dependency that is missing or cyclic.
\* The results are the request's own; they are shown one by one.
FailUnresolvable(r) ==
  /\ Go(r, "picking", "failing")
  /\ remaining[r] # {}
  /\ \A t \in remaining[r] : ~Ready(r, t)
  /\ remaining' = [remaining EXCEPT ![r] = {}]
  /\ batch' = [batch EXCEPT ![r] = remaining[r]]
  /\ outcome' = [t \in Tasks |->
       IF t \in remaining[r] THEN TaskOutcome("FAILED", "DEPENDENCY_CYCLE_OR_MISSING")
       ELSE outcome[t]]
  /\ UNCHANGED <<agentVars, jobVars, tracker, planStatus>>

\* The loop is over; the results are collected, to be shown once more.
FaultCollectResults(r) ==
  /\ \A t \in PlanTasks(r) : Reported(t) \/ ~Ready(r, t)
  /\ Go(r, "picking", "showing")
  /\ batch' = [batch EXCEPT ![r] = PlanTasks(r)]
  /\ UNCHANGED <<agentVars, jobVars, remaining, outcome, tracker, planStatus>>

CollectResults(r) ==
  /\ remaining[r] = {}
  /\ \/ Go(r, "picking", "showing")
     \/ Go(r, "failing", "showing") /\ batch[r] = {}
  /\ batch' = [batch EXCEPT ![r] = PlanTasks(r)]
  /\ UNCHANGED <<agentVars, jobVars, remaining, outcome, tracker, planStatus>>

\* The tracker's complete, or the end of a record: one update for each task.
ShowTask(r) ==
  /\ request[r] \in {"failing", "showing"} /\ batch[r] # {}
  /\ Track(StatusOf({Task(r)}, outcome[Task(r)].status))
  /\ Advance(r)
  /\ UNCHANGED <<agentVars, jobVars, request, remaining, outcome, planStatus>>

FinishPlan(r) ==
  /\ Go(r, "showing", "done") /\ batch[r] = {}
  /\ planStatus' = [planStatus EXCEPT
       ![r] = PlanStatusOf({outcome[t].status : t \in PlanTasks(r)})]
  /\ UNCHANGED <<agentVars, jobVars, remaining, batch, outcome, tracker>>

BatchEnds(r) ==
  /\ batch[r] = {}
  /\ Go(r, "next", "picking")
  /\ UNCHANGED <<agentVars, jobVars, remaining, batch, outcome, tracker, planStatus>>

FaultDependenciesFailed(r) ==
  \E d \in DependsOn[Task(r)] : outcome[d].status = "FAILED"

DependenciesFailed(r) ==
  \E d \in DependsOn[Task(r)] : outcome[d].status # "SUCCEEDED"

Dropped(r) == remaining' = [remaining EXCEPT ![r] = @ \ {Task(r)}]

SkipTask(r) ==
  /\ Go(r, "next", "next")
  /\ batch[r] # {}
  /\ DependenciesFailed(r)
  /\ Dropped(r) /\ Advance(r)
  /\ Record(Task(r), "CANCELLED", "DEPENDENCY_FAILED")
  /\ UNCHANGED <<agentVars, jobVars, planStatus>>

TakeTask(r) ==
  /\ Go(r, "next", "checking")
  /\ batch[r] # {}
  /\ ~DependenciesFailed(r)
  /\ Dropped(r)
  /\ UNCHANGED <<agentVars, jobVars, batch, outcome, tracker, planStatus>>

\* _execute_task: nothing is queued that no agent could take now.
CheckCapability(r) ==
  /\ request[r] = "checking"
  /\ IF HasCapableAgent(Required[Task(r)])
     THEN Go(r, "checking", "queuing") /\ UNCHANGED <<batch, outcome, tracker>>
     ELSE /\ Go(r, "checking", "next")
          /\ Advance(r)
          /\ Record(Task(r), "FAILED", "NO_CAPABLE_AGENT")
  /\ UNCHANGED <<agentVars, jobVars, remaining, planStatus>>

QueueTask(r) ==
  /\ running
  /\ Go(r, "queuing", "waiting")
  /\ Job!Accept(Task(r))
  /\ Track(StatusOf({Task(r)}, "QUEUED"))
  /\ UNCHANGED <<agentVars, delivered, running, remaining, batch, outcome, planStatus>>

\* The error is not caught: it ends the request's thread.
FaultQueueRefused(r) ==
  /\ ~running
  /\ Go(r, "queuing", "refused")
  /\ UNCHANGED <<agentVars, jobVars, remaining, batch, outcome, tracker, planStatus>>

QueueRefused(r) ==
  /\ ~running
  /\ Go(r, "queuing", "next")
  /\ Advance(r)
  /\ Record(Task(r), "FAILED", "RUNTIME_UNAVAILABLE")
  /\ UNCHANGED <<agentVars, jobVars, remaining, planStatus>>

\* The job's result: the AgentResult it carries, or one made from its status.
FaultJobOutcome(t) ==
  IF dispatch[t] = "done" THEN TaskOutcome(Report(t).answer.status, "AGENT")
  ELSE TaskOutcome(verdict[t].status, verdict[t].code)

JobOutcome(t) ==
  IF t \in delivered THEN TaskOutcome(Report(t).answer.status, "AGENT")
  ELSE IF verdict[t].status # "SUCCEEDED" THEN TaskOutcome(verdict[t].status, verdict[t].code)
  ELSE TaskOutcome("FAILED", "INVALID_AGENT_HANDLER_RESULT")

WaitEnds(r) ==
  LET t == Task(r) IN
  /\ Go(r, "waiting", "next")
  /\ phase[t] = "settled"
  /\ Advance(r)
  /\ Record(t, JobOutcome(t).status, JobOutcome(t).code)
  /\ UNCHANGED <<agentVars, jobVars, remaining, planStatus>>

\* The wait is one second longer than the job's own timeout, which counts from
\* the job's start: a job that queues behind others outlasts it.
WaitTimesOut(r) ==
  /\ Go(r, "waiting", "abandoning")
  /\ Task(r) \in Timed
  /\ phase[Task(r)] # "settled"
  /\ UNCHANGED <<agentVars, jobVars, remaining, batch, outcome, tracker, planStatus>>

\* runtime.cancel_job, whose refusal is ignored: by now the job may be settled.
FaultCancelAbandoned(t) == UNCHANGED <<phase, asked, verdict>>

CancelAbandoned(t) ==
  CASE phase[t] = "accepted" -> Job!Withdraw({t}) /\ verdict'[t] = JobCancelled
    [] phase[t] = "begun" -> Job!Ask(t)
    [] OTHER -> UNCHANGED <<phase, asked, verdict>>

FaultAbandon(r) ==
  /\ Go(r, "abandoning", "waiting")
  /\ CancelAbandoned(Task(r))
  /\ Record(Task(r), "TIMED_OUT", "RUNTIME_WAIT_TIMEOUT")
  /\ UNCHANGED <<agentVars, delivered, running, remaining, batch, planStatus>>

Abandon(r) ==
  /\ Go(r, "abandoning", "next")
  /\ CancelAbandoned(Task(r))
  /\ Advance(r)
  /\ Record(Task(r), "TIMED_OUT", "RUNTIME_WAIT_TIMEOUT")
  /\ UNCHANGED <<agentVars, delivered, running, remaining, planStatus>>

ExecutePlan(r) ==
  \/ ListPlan(r) \/ PickReady(r) \/ FailUnresolvable(r) \/ BatchEnds(r)
  \/ CollectResults(r) \/ ShowTask(r) \/ FinishPlan(r)
  \/ SkipTask(r) \/ TakeTask(r) \/ CheckCapability(r)
  \/ QueueTask(r) \/ QueueRefused(r)
  \/ WaitEnds(r) \/ WaitTimesOut(r) \/ Abandon(r)

------------------------------------------------------------------------------
(* The runtime: one handler at a time, until it answers or is given up *)

\* _dispatch_agent_job, in the handler's thread.
HandlerStarts(t) ==
  /\ \A u \in Tasks : phase[u] # "begun"
  /\ Job!Begin(t)
  /\ Stages(t, "uncalled", "called")
  /\ UNCHANGED <<registry, agent, chosen, result, admin>>
  /\ UNCHANGED <<delivered, running, planVars>>

HandlerValue(t) ==
  CASE dispatch[t] = "raised" -> RaisedValue
    [] dispatch[t] = "exited" -> NothingValue
    [] OTHER -> AsHandlerValue(Report(t).answer)

SettledAs(t, res) == Job!Settle(t) /\ verdict'[t] = res

\* The worker stores what the handler returned, unless a cancellation wins.
HandlerSettles(t) ==
  /\ Finished(t) /\ phase[t] = "begun"
  /\ SettledAs(t, IF asked[t] THEN JobCancelled ELSE Normalise(HandlerValue(t)))
  /\ delivered' = IF ~asked[t] /\ dispatch[t] = "done" THEN delivered \cup {t} ELSE delivered
  /\ UNCHANGED <<agentVars, running, planVars>>

\* The worker gives the handler up, whose thread goes on.
WorkerGivesUp(t) ==
  /\ phase[t] = "begun"
  /\ \/ asked[t] /\ SettledAs(t, JobCancelled)
     \/ ~asked[t] /\ t \in Timed /\ SettledAs(t, Outcome("TIMED_OUT", "JOB_TIMEOUT"))
  /\ UNCHANGED <<agentVars, delivered, running, planVars>>

StopRuntime ==
  /\ running /\ running' = FALSE
  /\ UNCHANGED <<agentVars, phase, asked, verdict, delivered, planVars>>

\* The end of stop(): every open job is cancelled.
CloseRuntime ==
  /\ ~running
  /\ LET open == {t \in Tasks : Job!Open(t)} IN
       Job!Withdraw(open) /\ \A t \in open : verdict'[t] = RuntimeShutdown
  /\ UNCHANGED <<agentVars, delivered, running, planVars>>

RuntimeStep ==
  \/ \E t \in Tasks : HandlerStarts(t) \/ HandlerSettles(t) \/ WorkerGivesUp(t)
  \/ CloseRuntime

Next ==
  \/ \E r \in Requests : StartPlan(r) \/ RefusePlan(r) \/ ExecutePlan(r)
  \/ RuntimeStep \/ StopRuntime
  \/ (\E t \in Tasks : DispatchTask(t)) /\ UNCHANGED <<jobVars, planVars>>
  \/ Administration /\ UNCHANGED <<jobVars, planVars>>

Spec == Init /\ [][Next]_allVars

\* The requests' threads and the worker are scheduled.  An agent may hang in
\* execute(), so nothing is assumed of dispatch.
Fairness ==
  /\ \A r \in Requests : WF_planVars(ExecutePlan(r))
  /\ WF_jobVars(RuntimeStep)

FairSpec == Spec /\ Fairness

------------------------------------------------------------------------------
(* Properties *)

\* Every variable has its type.
PlanTypeOK ==
  /\ AgentTypeOK
  /\ phase \in [Tasks -> Job!Phase]
  /\ asked \in [Tasks -> BOOLEAN]
  /\ verdict \in [Tasks -> JobResult \cup {NoResult}]
  /\ delivered \subseteq Tasks
  /\ running \in BOOLEAN
  /\ request \in [Requests -> Where]
  /\ remaining \in [Requests -> SUBSET Tasks]
  /\ batch \in [Requests -> SUBSET Tasks]
  /\ outcome \in [Tasks -> TaskResult \cup {Unreported}]
  /\ tracker \in [plan : Requests \cup {"none"},
                  entries : UNION {[S -> Status] : S \in SUBSET Tasks}]
  /\ planStatus \in [Requests -> PlanStatus]

\* docs/EXECUTION_PIPELINE.md:37, the Orchestrator does not "invent task
\* success": a task reported as succeeded was executed by an agent that
\* answered so, in a job that was stored so, whatever timed out on the way.
SuccessIsExecuted ==
  \A t \in Tasks : outcome[t].status = "SUCCEEDED" =>
    /\ outcome[t].code = "AGENT" /\ t \in delivered
    /\ verdict[t].status = "SUCCEEDED"
    /\ dispatch[t] = "done" /\ chosen[t] # NoAgent

\* A task reaches the queue only after all it depends on was reported as
\* succeeded; docs/EXECUTION_PIPELINE.md, "dependent task is CANCELLED and is
\* not dispatched".
DependentsWait ==
  \A t \in Tasks : phase[t] # "unknown" =>
    \A d \in DependsOn[t] : outcome[d].status = "SUCCEEDED"

\* A task given up by the orchestrator is not started behind its back: its job
\* is settled, or on its way to be cancelled.
AbandonedIsStopped ==
  \A t \in Tasks : outcome[t].code = "RUNTIME_WAIT_TIMEOUT" =>
    phase[t] = "settled" \/ asked[t]

\* A plan that is done has reported each of its tasks, and none of its jobs is
\* waiting to be started.
AllReported ==
  \A r \in Requests : request[r] = "done" =>
    \A t \in PlanTasks(r) : Reported(t) /\ phase[t] # "accepted"

\* execute_plan keeps its contract: each task is reported once, for the reason
\* the contract has for such a report, and no plan is answered before.
StageOf(where) ==
  CASE where = "idle" -> "asked" [] where = "refused" -> "refused"
    [] where = "done" -> "answered" [] OTHER -> "taken"

TasksOf == [r \in Requests |-> PlanTasks(r)]

Contract == INSTANCE PlanContract
            WITH stage <- [r \in Requests |-> StageOf(request[r])], report <- outcome

ContractSpec == Contract!Spec

\* A report is not revised.
ReportsAreFinal == [][\A t \in Tasks : Reported(t) => outcome'[t] = outcome[t]]_allVars

\* Past the first half of ProgressTracker.start, and past both.
Started(r) == request[r] \notin {"idle", "refused"}
Listed(r)  == Started(r) /\ request[r] # "starting"

\* The tracker is shared by all requests, without a lock
\* (backend/orchestrator/progress_tracker.py:32-44).  Whatever they write into
\* it between each other's steps, it shows no end that was not reported,
\* "without manufacturing terminal success" (line 27), and no plan that is done
\* as anything else; one of the plans that were listed is there as a whole.
\* The plan it names is the one it lists as long as only one was started; of
\* two that start at a time it may name one and list the other.
TrackerIsHonest ==
  /\ \A t \in DOMAIN tracker.entries :
       tracker.entries[t] \in InFlightStatus \cup {outcome[t].status}
  /\ \A r \in Requests : request[r] = "done" =>
       \A t \in PlanTasks(r) \cap DOMAIN tracker.entries :
         tracker.entries[t] = outcome[t].status
  /\ (\E r \in Requests : Listed(r)) =>
       \E r \in Requests : Listed(r) /\ PlanTasks(r) \subseteq DOMAIN tracker.entries
  /\ \A r \in Requests : Listed(r) /\ (\A q \in Requests \ {r} : ~Started(q)) =>
       tracker.plan = r /\ DOMAIN tracker.entries = PlanTasks(r)

\* Every request that is taken up is answered, even if the agents hang.
RequestsReturn ==
  \A r \in Requests : request[r] = "starting" ~> request[r] = "done"
==============================================================================
