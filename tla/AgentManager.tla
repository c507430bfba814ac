----------------------------- MODULE AgentManager -----------------------------
(***************************************************************************)
(* The agents, their registry and the dispatcher of                        *)
(* backend/agent_system: dispatch_task is called by one thread for each    *)
(* task, without a lock, while the registry and the agents' lifecycle are  *)
(* administered.  An agent here is an instance; several may share a name.  *)
(* The scan that selects an agent is one step.                             *)
(***************************************************************************)
EXTENDS AgentResult, Integers, Sequences, FiniteSets

CONSTANTS
  Tasks, Agents, Names, Capabilities,
  NoAgent,
  NameOf,      \* [Agents -> Names]
  Rank,        \* [Names -> Nat], the place of a name in the alphabet
  Priority,    \* [Agents -> Int], from the metadata
  Enabled,     \* the agents whose metadata enables them
  Offers,      \* [Agents -> SUBSET Capabilities]
  Required,    \* [Tasks -> SUBSET Capabilities]
  Revoked,     \* the tasks whose cancellation token is set
  Diagnostic,  \* the agents that echo
  Stubs,       \* the agents that are not implemented
  Answers,     \* what any other agent's execute() leaves
  Installed,   \* the agents registered at the start
  Scripts,     \* the lifecycle calls that are made
  Changing     \* the names whose registration changes later

LifecycleCall == {"start_agent", "stop_agent", "restart_agent", "pause", "resume"}

AgentAssumption ==
  /\ IsFiniteSet(Agents)
  /\ NameOf \in [Agents -> Names]
  /\ Rank \in [Names -> Nat]
  /\ \A m, n \in Names : Rank[m] = Rank[n] => m = n
  /\ Priority \in [Agents -> Int]
  /\ Offers \in [Agents -> SUBSET Capabilities]
  /\ Required \in [Tasks -> SUBSET Capabilities]
  /\ Answers \subseteq Answer
  /\ Installed \subseteq Agents
  /\ Scripts \subseteq LifecycleCall
  /\ Changing \subseteq Names
  /\ NoAgent \notin Agents

ASSUME AgentAssumption

VARIABLES
  registry,   \* [Names -> Agents \cup {NoAgent}], AgentRegistry.agents
  agent,      \* [Agents -> AgentStatus], the status of each
  dispatch,   \* [Tasks -> Stage], how far dispatch_task has got
  chosen,     \* [Tasks -> Agents \cup {NoAgent}], selected_agent
  result,     \* [Tasks -> Report], the AgentResult dispatch_task returns
  admin       \* the lifecycle call in progress

agentVars == <<registry, agent, dispatch, chosen, result, admin>>

AgentStatus == {"IDLE", "BUSY", "PAUSED", "OFFLINE", "ERROR", "INITIALIZING"}

Stage == {"uncalled", "called", "selected", "executing", "returned", "freeing",
          "done", "raised", "exited"}

\* The agent a result names, and the rest of it; before there is one, Blank.
Blank == [by |-> NoAgent, answer |-> RaisedValue]

NoCall == [name |-> NoAgent, target |-> NoAgent, todo |-> <<>>]

AgentInit ==
  /\ registry = [n \in Names |->
       IF \E a \in Installed : NameOf[a] = n
       THEN CHOOSE a \in Installed : NameOf[a] = n ELSE NoAgent]
  /\ agent    = [a \in Agents |-> "IDLE"]
  /\ dispatch = [t \in Tasks |-> "uncalled"]
  /\ chosen   = [t \in Tasks |-> NoAgent]
  /\ result   = [t \in Tasks |-> Blank]
  /\ admin    = NoCall

------------------------------------------------------------------------------
(* Selection *)

Registered == {registry[n] : n \in Names} \ {NoAgent}

IsDispatchable(a) == a \in Enabled /\ agent[a] = "IDLE"

\* Nothing is selected for a task that requires nothing.
Candidates(required) ==
  {a \in Registered : required # {} /\ required \subseteq Offers[a] /\ IsDispatchable(a)}

Precedes(a, b) ==
  \/ Priority[a] > Priority[b]
  \/ Priority[a] = Priority[b] /\ Rank[NameOf[a]] < Rank[NameOf[b]]

SelectAgent(required) ==
  CHOOSE a \in Candidates(required) :
    \A b \in Candidates(required) \ {a} : Precedes(a, b)

HasCapableAgent(required) == Candidates(required) # {}

------------------------------------------------------------------------------
(* dispatch_task *)

Stages(t, from, to) ==
  dispatch[t] = from /\ dispatch' = [dispatch EXCEPT ![t] = to]

SetStatus(a, s) == agent' = [agent EXCEPT ![a] = s]

\* The dispatcher names the agent, whatever the agent says.
Return(t, a, answer) == result' = [result EXCEPT ![t] = [by |-> a, answer |-> answer]]

\* The task is cancelled, or no agent is free that can do it.
Refuse(t) ==
  /\ Stages(t, "called", "done")
  /\ \/ t \in Revoked /\ Return(t, NoAgent, Cancelled)
     \/ /\ t \notin Revoked
        /\ ~HasCapableAgent(Required[t])
        /\ Return(t, NoAgent, Failed("FAILED", "NO_CAPABLE_AGENT"))
  /\ UNCHANGED <<registry, agent, chosen, admin>>

Select(t) ==
  /\ Stages(t, "called", "selected")
  /\ t \notin Revoked
  /\ HasCapableAgent(Required[t])
  /\ chosen' = [chosen EXCEPT ![t] = SelectAgent(Required[t])]
  /\ UNCHANGED <<registry, agent, result, admin>>

\* Whatever the agent's status is by now.
Occupy(t) ==
  /\ Stages(t, "selected", "executing")
  /\ SetStatus(chosen[t], "BUSY")
  /\ UNCHANGED <<registry, chosen, result, admin>>

\* What the chosen agent may answer.
Leaves(t) ==
  LET a == chosen[t] IN
  IF a \in Diagnostic THEN {DiagnosticExecute(t \in Revoked)}
  ELSE IF a \in Stubs THEN {NotImplementedExecute(t \in Revoked)}
  ELSE Answers

\* What dispatch_task goes on with is a value that execute() returned.
IsReturned(answer) == answer.form \in {"result", "value"}

\* except Exception.
ExecuteRaises(t) ==
  /\ Stages(t, "executing", "done")
  /\ \E answer \in Leaves(t) : answer.form = "raised"
  /\ SetStatus(chosen[t], "ERROR")
  /\ Return(t, chosen[t], Failed("FAILED", "AGENT_EXECUTION_FAILED"))
  /\ UNCHANGED <<registry, chosen, admin>>

\* An exception that is no Exception passes the handler and leaves dispatch_task
\* before the finally is reached: the agent stays as it is.
ExecuteExits(t) ==
  /\ Stages(t, "executing", "exited")
  /\ \E answer \in Leaves(t) : answer.form = "exit"
  /\ UNCHANGED <<registry, agent, chosen, result, admin>>

FaultExecuteReturns(t) ==
  \E answer \in Leaves(t) :
    /\ IsReturned(answer) /\ ~NormaliseRaises(answer)
    /\ Stages(t, "executing", "done")
    /\ Return(t, chosen[t], Normalised(answer))
    /\ UNCHANGED <<registry, agent, chosen, admin>>

ExecuteReturns(t) ==
  \E answer \in Leaves(t) :
    /\ IsReturned(answer) /\ ~NormaliseRaises(answer)
    /\ Stages(t, "executing", "returned")
    /\ Return(t, chosen[t], Normalised(answer))
    /\ UNCHANGED <<registry, agent, chosen, admin>>

\* The timing of the answer cannot be computed.  The agent is freed first; the
\* exception then leaves dispatch_task, which returns nothing.
NormaliseFails(t) ==
  /\ \E answer \in Leaves(t) : IsReturned(answer) /\ NormaliseRaises(answer)
  /\ Stages(t, "executing", "returned")
  /\ UNCHANGED <<registry, agent, chosen, result, admin>>

Ended(t) == IF result[t] = Blank THEN "raised" ELSE "done"

\* finally: only an agent that is still BUSY is freed.
CheckBusy(t) ==
  /\ Stages(t, "returned", IF agent[chosen[t]] = "BUSY" THEN "freeing" ELSE Ended(t))
  /\ UNCHANGED <<registry, agent, chosen, result, admin>>

Free(t) ==
  /\ Stages(t, "freeing", Ended(t))
  /\ SetStatus(chosen[t], "IDLE")
  /\ UNCHANGED <<registry, chosen, result, admin>>

DispatchTask(t) ==
  \/ Refuse(t) \/ Select(t) \/ Occupy(t)
  \/ ExecuteRaises(t) \/ ExecuteExits(t) \/ ExecuteReturns(t) \/ NormaliseFails(t)
  \/ CheckBusy(t) \/ Free(t)

------------------------------------------------------------------------------
(* Administration *)

Register(a, replace) ==
  /\ replace \/ registry[NameOf[a]] = NoAgent
  /\ registry' = [registry EXCEPT ![NameOf[a]] = a]
  /\ UNCHANGED <<agent, dispatch, chosen, result, admin>>

Unregister(n) ==
  /\ registry' = [registry EXCEPT ![n] = NoAgent]
  /\ UNCHANGED <<agent, dispatch, chosen, result, admin>>

\* The statuses each call writes, one after the other.
Script(call) ==
  CASE call = "start_agent"   -> <<"INITIALIZING", "IDLE">>
    [] call = "stop_agent"    -> <<"OFFLINE">>
    [] call = "restart_agent" -> <<"OFFLINE", "INITIALIZING", "IDLE">>
    [] call = "pause"         -> <<"PAUSED">>
    [] call = "resume"        -> <<"IDLE">>

Administer(n, call) ==
  /\ admin.todo = <<>>
  /\ registry[n] # NoAgent
  /\ admin' = [name |-> n, target |-> registry[n], todo |-> Script(call)]
  /\ UNCHANGED <<registry, agent, dispatch, chosen, result>>

\* restart_agent looks the name up again before it starts the agent, which
\* ends the call if the agent is no longer registered.
AdminStep ==
  LET status == Head(admin.todo)
      target == IF status = "INITIALIZING" THEN registry[admin.name] ELSE admin.target
  IN
  /\ admin.todo # <<>>
  /\ agent' = IF target = NoAgent THEN agent ELSE [agent EXCEPT ![target] = status]
  /\ admin' = IF target = NoAgent \/ Tail(admin.todo) = <<>> THEN NoCall
              ELSE [admin EXCEPT !.target = target, !.todo = Tail(@)]
  /\ UNCHANGED <<registry, dispatch, chosen, result>>

Administration ==
  \/ AdminStep
  \/ \E n \in Names, call \in Scripts : Administer(n, call)
  \/ \E n \in Changing : Unregister(n)
  \/ \E a \in Agents, replace \in BOOLEAN : NameOf[a] \in Changing /\ Register(a, replace)

\* A thread calls dispatch_task.
Call(t) ==
  /\ Stages(t, "uncalled", "called")
  /\ UNCHANGED <<registry, agent, chosen, result, admin>>

AgentNext ==
  \/ \E t \in Tasks : Call(t) \/ DispatchTask(t)
  \/ Administration

AgentSpec == AgentInit /\ [][AgentNext]_agentVars

------------------------------------------------------------------------------
(* Properties *)

\* Every variable has its type.
AgentTypeOK ==
  /\ registry \in [Names -> Agents \cup {NoAgent}]
  /\ agent \in [Agents -> AgentStatus]
  /\ dispatch \in [Tasks -> Stage]
  /\ chosen \in [Tasks -> Agents \cup {NoAgent}]
  /\ result \in [Tasks -> [by : Agents \cup {NoAgent}, answer : Answer \cup {RaisedValue}]]
  /\ \A t \in Tasks :
       dispatch[t] \in {"selected", "executing", "returned", "freeing"} =>
         chosen[t] \in Agents

Finished(t) == dispatch[t] \in {"done", "raised", "exited"}

Executing(t) == dispatch[t] \in {"executing", "returned", "freeing"}

Report(t) == result[t]

\* An agent is BUSY only while a dispatch that will free it is under way, or
\* after an execute() of its own that ended in no Exception, past both the
\* except (agent_manager.py:91) and the finally (115): whatever lifecycle
\* calls, replacements and other dispatches come in between.
BusyIsServed ==
  \A a \in Agents :
    agent[a] = "BUSY" =>
      \E t \in Tasks : chosen[t] = a /\ (Executing(t) \/ dispatch[t] = "exited")

\* A dispatch that returns, returns a terminal result with an error exactly if
\* it is no success, in the name of the agent that was given the task: whatever
\* the agent answered, and whoever changed the registry and the agent's status
\* meanwhile (agent_manager.py:160-209).
ReportsAreTerminal ==
  \A t \in Tasks : dispatch[t] = "done" =>
    /\ Report(t).answer.status \in TerminalStatus
    /\ Report(t).answer.error <=> Report(t).answer.status # "SUCCEEDED"
    /\ Report(t).by = chosen[t]
    /\ Report(t).answer.status = "SUCCEEDED" => chosen[t] # NoAgent
==============================================================================
