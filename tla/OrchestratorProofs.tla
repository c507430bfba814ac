-------------------------- MODULE OrchestratorProofs --------------------------
(***************************************************************************)
(* Proofs about the dispatcher and about plan execution, for any requests, *)
(* plans, dependencies, tasks, agents, capabilities and lifecycle calls.   *)
(* First the dispatcher on its own: the agent it selects is well defined,  *)
(* a BUSY agent is served or was left by an exit, and what a dispatch      *)
(* reports is terminal and its own.  Then the loop of a request, described *)
(* by the tasks that are due, which remain or are in hand: a step reports  *)
(* the tasks that stop being due, and no other.  From that follow the      *)
(* order of a plan, the finality of its reports, what is shown of them and *)
(* what its jobs may still do.                                             *)
(***************************************************************************)
EXTENDS Orchestrator, FiniteSetTheorems, WellFoundedInduction, TLAPS

(***************************************************************************)
(* Selection.  Agents with different names are strictly ordered, and a     *)
(* finite set of them has a first one: of its subsets with a first one     *)
(* take a largest; a further agent would give a larger one.                *)
(***************************************************************************)
LEMMA PrecedesIsTotal ==
  ASSUME AgentAssumption, NEW a \in Agents, NEW b \in Agents, NameOf[a] # NameOf[b]
  PROVE  Precedes(a, b) \/ Precedes(b, a)
<1>1. /\ Priority[a] \in Int /\ Priority[b] \in Int
      /\ NameOf[a] \in Names /\ NameOf[b] \in Names
  BY DEF AgentAssumption
<1>2. Rank[NameOf[a]] \in Nat /\ Rank[NameOf[b]] \in Nat /\ Rank[NameOf[a]] # Rank[NameOf[b]]
  BY <1>1 DEF AgentAssumption
<1> QED
  BY <1>1, <1>2 DEF Precedes

LEMMA PrecedesIsTransitive ==
  ASSUME AgentAssumption, NEW a \in Agents, NEW b \in Agents, NEW c \in Agents,
         Precedes(a, b), Precedes(b, c)
  PROVE  Precedes(a, c)
<1>1. /\ Priority[a] \in Int /\ Priority[b] \in Int /\ Priority[c] \in Int
      /\ Rank[NameOf[a]] \in Nat /\ Rank[NameOf[b]] \in Nat /\ Rank[NameOf[c]] \in Nat
  BY DEF AgentAssumption
<1> QED
  BY <1>1 DEF Precedes

IsFirst(a, S) == a \in S /\ \A b \in S \ {a} : Precedes(a, b)

LEMMA FiniteSetHasFirst ==
  ASSUME AgentAssumption, NEW S, IsFiniteSet(S), S # {}, S \subseteq Agents,
         \A a, b \in S : a # b => NameOf[a] # NameOf[b]
  PROVE  \E a \in S : IsFirst(a, S)
<1> DEFINE Ordered == {T \in SUBSET S : \E a \in T : IsFirst(a, T)}
           Missing == {Cardinality(S) - Cardinality(T) : T \in Ordered}
<1>1. Cardinality(S) \in Nat
  BY FS_CardinalityType
<1>2. \A T \in SUBSET S : Cardinality(T) \in Nat /\ Cardinality(T) <= Cardinality(S)
  BY FS_Subset, FS_CardinalityType
<1>3. Missing \subseteq Nat
  BY <1>1, <1>2
<1>4. Missing # {}
  <2>1. PICK x \in S : TRUE
    OBVIOUS
  <2>2. {x} \in Ordered
    BY DEF IsFirst
  <2> QED
    BY <2>2
<1>5. PICK n \in Missing : \A m \in Missing : ~(m < n)
  <2>1. PICK n \in Missing : \A m \in Missing : ~(<<m, n>> \in OpToRel(<, Nat))
    BY <1>3, <1>4, NatLessThanWellFounded, WFMin
  <2> QED
    BY <1>3, <2>1 DEF OpToRel
<1>6. PICK T \in Ordered : n = Cardinality(S) - Cardinality(T)
  OBVIOUS
<1>7. PICK a \in T : IsFirst(a, T)
  OBVIOUS
<1>8. ASSUME NEW x \in S, x \notin T
      PROVE  FALSE
  <2> DEFINE U == T \cup {x}
  <2>1. IsFirst(a, U) \/ IsFirst(x, U)
    <3>1. CASE Precedes(a, x)
      BY <1>7, <3>1 DEF IsFirst
    <3>2. CASE Precedes(x, a)
      BY <1>7, <1>8, <3>2, PrecedesIsTransitive DEF IsFirst
    <3> QED
      BY <1>7, <1>8, <3>1, <3>2, PrecedesIsTotal
  <2>2. U \in Ordered
    BY <2>1
  <2>3. Cardinality(U) = Cardinality(T) + 1
    BY <1>8, FS_AddElement, FS_Subset
  <2>4. Cardinality(S) - Cardinality(U) \in Missing
    BY <2>2
  <2>5. Cardinality(U) \in Nat /\ Cardinality(T) \in Nat
    BY <1>2
  <2>6. Cardinality(S) - Cardinality(U) < n
    BY <1>1, <1>6, <2>3, <2>5
  <2> QED
    BY <1>5, <2>4, <2>6
<1> QED
  BY <1>7, <1>8

------------------------------------------------------------------------------
(* Answers *)

LEMMA NormalisedIsReport ==
  ASSUME NEW answer \in Answer
  PROVE  /\ Normalised(answer) \in Answer
         /\ Normalised(answer).status \in TerminalStatus
         /\ Normalised(answer).error <=> Normalised(answer).status # "SUCCEEDED"
  BY DEF Answer, Normalised, Failed, Succeeded, Zoned, InvalidAnswer, WithTiming, Completed,
         Status, TerminalStatus, InFlightStatus, AgentCode

LEMMA MadeUpAnswers ==
  /\ Succeeded \in Answer
  /\ \A s \in TerminalStatus \ {"SUCCEEDED"}, c \in AgentCode :
       /\ Failed(s, c) \in Answer
       /\ Failed(s, c).status = s /\ Failed(s, c).error
  BY DEF Answer, Failed, Succeeded, Zoned, Status, TerminalStatus, InFlightStatus, AgentCode

LEMMA LeftIsAnswer ==
  ASSUME AgentAssumption, NEW t \in Tasks
  PROVE  Leaves(t) \subseteq Answer
  BY MadeUpAnswers DEF Leaves, DiagnosticExecute, NotImplementedExecute, Cancelled,
     AgentAssumption, TerminalStatus, AgentCode
------------------------------------------------------------------------------
(* The inductive invariant *)

(***************************************************************************)
(* A name is registered for an agent of that name, and a dispatch has a    *)
(* chosen agent as soon as it is past the selection.                       *)
(***************************************************************************)
NamesAgree == \A n \in Names : registry[n] # NoAgent => NameOf[registry[n]] = n

(***************************************************************************)
(* A result is blank until the dispatch has one, and an exception that     *)
(* passes through leaves it blank; any other is in the name of the agent   *)
(* chosen.                                                                 *)
(***************************************************************************)
IsReport(t) ==
  /\ result[t].answer.status \in TerminalStatus
  /\ result[t].answer.error <=> result[t].answer.status # "SUCCEEDED"
  /\ result[t].by = chosen[t]
  /\ result[t].answer.status = "SUCCEEDED" => chosen[t] # NoAgent

Reporting(t) ==
  /\ dispatch[t] \in {"uncalled", "called"} => chosen[t] = NoAgent
  /\ dispatch[t] \in {"uncalled", "called", "selected", "executing"} => result[t] = Blank
  /\ result[t] = Blank \/ IsReport(t)
  /\ dispatch[t] = "done" => result[t] # Blank

\* No lifecycle call writes BUSY.
AdminTypeOK ==
  /\ admin \in [name : Names \cup {NoAgent}, target : Agents \cup {NoAgent},
               todo : Seq(AgentStatus \ {"BUSY"})]
  /\ admin.todo # <<>> => admin.name \in Names /\ admin.target \in Agents

AgentInv ==
  /\ AgentTypeOK /\ AdminTypeOK /\ NamesAgree
  /\ BusyIsServed
  /\ \A t \in Tasks : Reporting(t)

\* A selection is never undefined: among the candidates, which have names of
\* their own, one precedes all others.
LEMMA SelectionIsDefined ==
  ASSUME AgentAssumption, AgentTypeOK, NamesAgree, NEW required, HasCapableAgent(required)
  PROVE  SelectAgent(required) \in Candidates(required)
<1> DEFINE C == Candidates(required)
<1>1. C \subseteq Agents
  BY DEF Candidates, Registered, AgentTypeOK
<1>2. IsFiniteSet(C)
  BY <1>1, FS_Subset DEF AgentAssumption
<1>3. \A a, b \in C : a # b => NameOf[a] # NameOf[b]
  BY DEF Candidates, Registered, NamesAgree
<1>4. C # {}
  BY DEF HasCapableAgent
<1>5. \E a \in C : \A b \in C \ {a} : Precedes(a, b)
  BY <1>1, <1>2, <1>3, <1>4, FiniteSetHasFirst DEF IsFirst
<1> QED
  BY <1>5 DEF SelectAgent

LEMMA AgentInitial == AgentAssumption /\ AgentInit => AgentInv
<1> SUFFICES ASSUME AgentAssumption, AgentInit PROVE AgentInv
  OBVIOUS
<1> USE DEF AgentAssumption, AgentInit
<1>1. \A n \in Names : registry[n] # NoAgent => registry[n] \in Agents /\ NameOf[registry[n]] = n
  <2> SUFFICES ASSUME NEW n \in Names, registry[n] # NoAgent
               PROVE  registry[n] \in Agents /\ NameOf[registry[n]] = n
    OBVIOUS
  <2>1. \E a \in Installed : NameOf[a] = n
    OBVIOUS
  <2>2. registry[n] = CHOOSE a \in Installed : NameOf[a] = n
    BY <2>1
  <2> QED
    BY <2>1, <2>2
<1>2. AgentTypeOK
  BY <1>1 DEF AgentTypeOK, AgentStatus, Stage, Blank
<1>3. AdminTypeOK
  BY DEF AdminTypeOK, NoCall
<1>4. BusyIsServed
  BY DEF BusyIsServed
<1>5. \A t \in Tasks : Reporting(t)
  BY DEF Reporting, Blank
<1> QED
  BY <1>1, <1>2, <1>3, <1>4, <1>5 DEF AgentInv, NamesAgree

------------------------------------------------------------------------------
(* dispatch_task *)

\* What a step of dispatch t has in common with the others: it leaves the
\* registry, the administration and the other dispatches alone.
OnlyDispatch(t) ==
  /\ UNCHANGED <<registry, admin>>
  /\ \A u \in Tasks \ {t} :
       dispatch'[u] = dispatch[u] /\ chosen'[u] = chosen[u] /\ result'[u] = result[u]

LEMMA DispatchIsLocal ==
  ASSUME AgentTypeOK, NEW t \in Tasks, Call(t) \/ DispatchTask(t)
  PROVE  OnlyDispatch(t)
<1> USE DEF AgentTypeOK, OnlyDispatch, Stages, Return
<1>1. CASE Call(t)
  BY <1>1 DEF Call
<1>2. CASE Refuse(t)
  BY <1>2 DEF Refuse
<1>3. CASE Select(t)
  BY <1>3 DEF Select
<1>4. CASE Occupy(t)
  BY <1>4 DEF Occupy
<1>5. CASE ExecuteRaises(t)
  BY <1>5 DEF ExecuteRaises
<1>6. CASE ExecuteReturns(t)
  BY <1>6 DEF ExecuteReturns
<1>7. CASE NormaliseFails(t)
  BY <1>7 DEF NormaliseFails
<1>8. CASE CheckBusy(t) \/ Free(t)
  BY <1>8 DEF CheckBusy, Free
<1>9. CASE ExecuteExits(t)
  BY <1>9 DEF ExecuteExits
<1> QED
  BY <1>1, <1>2, <1>3, <1>4, <1>5, <1>6, <1>7, <1>8, <1>9 DEF DispatchTask

LEMMA DispatchReports ==
  ASSUME AgentAssumption, AgentInv, NEW t \in Tasks, Call(t) \/ DispatchTask(t)
  PROVE  Reporting(t)'
<1> USE DEF AgentInv, AgentTypeOK, Reporting, IsReport, Stages, Return
<1>1. CASE Call(t)
  BY <1>1 DEF Call
<1>2. CASE Refuse(t)
  BY <1>2, MadeUpAnswers DEF Refuse, Cancelled, Blank, RaisedValue, TerminalStatus, AgentCode
<1>3. CASE Select(t)
  BY <1>3 DEF Select
<1>4. CASE Occupy(t)
  BY <1>4 DEF Occupy
<1>5. CASE ExecuteRaises(t)
  BY <1>5, MadeUpAnswers DEF ExecuteRaises, Blank, TerminalStatus, AgentCode, AgentAssumption
<1>6. CASE ExecuteReturns(t)
  BY <1>6, NormalisedIsReport, LeftIsAnswer DEF ExecuteReturns, AgentAssumption
<1>7. CASE NormaliseFails(t)
  BY <1>7 DEF NormaliseFails
<1>8. CASE CheckBusy(t) \/ Free(t)
  BY <1>8 DEF CheckBusy, Free, Ended
<1>9. CASE ExecuteExits(t)
  BY <1>9 DEF ExecuteExits
<1> QED
  BY <1>1, <1>2, <1>3, <1>4, <1>5, <1>6, <1>7, <1>8, <1>9 DEF DispatchTask

LEMMA DispatchKeepsTypes ==
  ASSUME AgentAssumption, AgentInv, NEW t \in Tasks, Call(t) \/ DispatchTask(t)
  PROVE  AgentTypeOK'
<1> USE DEF AgentInv, AgentTypeOK, Stages, Return, SetStatus, AgentStatus, Stage
<1>1. CASE Call(t)
  BY <1>1 DEF Call
<1>2. CASE Refuse(t)
  BY <1>2, MadeUpAnswers DEF Refuse, Cancelled, TerminalStatus, AgentCode
<1>3. CASE Select(t)
  <2>1. SelectAgent(Required[t]) \in Agents
    BY <1>3, SelectionIsDefined DEF Select, Candidates, Registered
  <2> QED
    BY <1>3, <2>1 DEF Select
<1>4. CASE Occupy(t)
  BY <1>4 DEF Occupy
<1>5. CASE ExecuteRaises(t)
  BY <1>5, MadeUpAnswers DEF ExecuteRaises, TerminalStatus, AgentCode
<1>6. CASE ExecuteReturns(t)
  BY <1>6, NormalisedIsReport, LeftIsAnswer DEF ExecuteReturns
<1>7. CASE NormaliseFails(t)
  BY <1>7 DEF NormaliseFails
<1>8. CASE CheckBusy(t) \/ Free(t)
  BY <1>8 DEF CheckBusy, Free, Ended
<1>9. CASE ExecuteExits(t)
  BY <1>9 DEF ExecuteExits
<1> QED
  BY <1>1, <1>2, <1>3, <1>4, <1>5, <1>6, <1>7, <1>8, <1>9 DEF DispatchTask

(***************************************************************************)
(* A dispatch stops serving its agent only when the agent is not BUSY, or  *)
(* by the step that ends that.                                             *)
(***************************************************************************)
LEMMA DispatchServes ==
  ASSUME AgentInv, NEW t \in Tasks, Call(t) \/ DispatchTask(t)
  PROVE  BusyIsServed'
<1> USE DEF AgentInv, AgentTypeOK, BusyIsServed, Executing, Stages, SetStatus
<1>1. CASE Call(t)
  BY <1>1 DEF Call
<1>2. CASE Refuse(t)
  BY <1>2 DEF Refuse
<1>3. CASE Select(t)
  BY <1>3 DEF Select
<1>4. CASE Occupy(t)
  BY <1>4 DEF Occupy
<1>5. CASE ExecuteRaises(t)
  BY <1>5 DEF ExecuteRaises
<1>6. CASE ExecuteReturns(t)
  BY <1>6 DEF ExecuteReturns
<1>7. CASE NormaliseFails(t)
  BY <1>7 DEF NormaliseFails
<1>8. CASE CheckBusy(t)
  BY <1>8 DEF CheckBusy, Ended
<1>9. CASE Free(t)
  BY <1>9 DEF Free, Ended
<1>10. CASE ExecuteExits(t)
  BY <1>10 DEF ExecuteExits
<1> QED
  BY <1>1, <1>2, <1>3, <1>4, <1>5, <1>6, <1>7, <1>8, <1>9, <1>10 DEF DispatchTask

------------------------------------------------------------------------------
(* Administration *)

LEMMA AdministrationKeepsInv ==
  ASSUME AgentAssumption, AgentInv, Administration
  PROVE  AgentInv'
<1> USE DEF AgentInv, AgentTypeOK, AdminTypeOK
<1>1. UNCHANGED <<dispatch, chosen, result>>
  BY DEF Administration, AdminStep, Administer, Unregister, Register
<1>2. \A t \in Tasks : Reporting(t)'
  BY <1>1 DEF Reporting, IsReport
<1>3. CASE AdminStep
  <2> DEFINE status == Head(admin.todo)
             target == IF status = "INITIALIZING" THEN registry[admin.name] ELSE admin.target
  <2>1. /\ status \in AgentStatus \ {"BUSY"}
        /\ Tail(admin.todo) \in Seq(AgentStatus \ {"BUSY"})
        /\ target \in Agents \cup {NoAgent}
    BY <1>3 DEF AdminStep
  <2>2. agent' = IF target = NoAgent THEN agent ELSE [agent EXCEPT ![target] = status]
    BY <1>3 DEF AdminStep
  <2>3. admin' = IF target = NoAgent \/ Tail(admin.todo) = <<>> THEN NoCall
                 ELSE [admin EXCEPT !.target = target, !.todo = Tail(@)]
    BY <1>3 DEF AdminStep
  <2> HIDE DEF status, target
  <2>4. AdminTypeOK'
    <3>1. CASE target = NoAgent \/ Tail(admin.todo) = <<>>
      BY <2>3, <3>1 DEF NoCall
    <3>2. CASE ~(target = NoAgent \/ Tail(admin.todo) = <<>>)
      <4>1. admin' = [admin EXCEPT !.target = target, !.todo = Tail(admin.todo)]
        BY <2>3, <3>2
      <4>2. target \in Agents /\ admin.name \in Names
        BY <1>3, <2>1, <3>2 DEF AdminStep
      <4> QED
        BY <2>1, <4>1, <4>2
    <3> QED
      BY <3>1, <3>2
  <2>5. agent' \in [Agents -> AgentStatus]
    BY <2>1, <2>2
  <2>6. BusyIsServed'
    BY <1>1, <2>1, <2>2 DEF BusyIsServed, Executing
  <2> QED
    BY <1>1, <1>2, <1>3, <2>4, <2>5, <2>6 DEF AdminStep, NamesAgree
<1>4. ASSUME NEW n \in Names, NEW c \in Scripts, Administer(n, c)
      PROVE  AgentInv'
  <2>1. Script(c) \in Seq(AgentStatus \ {"BUSY"})
    <3>1. c \in LifecycleCall
      BY DEF AgentAssumption
    <3>2. {"INITIALIZING", "IDLE", "OFFLINE", "PAUSED"} \subseteq AgentStatus \ {"BUSY"}
      BY DEF AgentStatus
    <3> HIDE DEF AgentInv, AgentTypeOK, AdminTypeOK
    <3>3. CASE c = "start_agent"
      BY <3>2, <3>3 DEF Script
    <3>4. CASE c = "restart_agent"
      BY <3>2, <3>4 DEF Script
    <3>5. CASE c = "stop_agent"
      BY <3>2, <3>5 DEF Script
    <3>6. CASE c = "pause"
      BY <3>2, <3>6 DEF Script
    <3>7. CASE c = "resume"
      BY <3>2, <3>7 DEF Script
    <3> QED
      BY <3>1, <3>3, <3>4, <3>5, <3>6, <3>7 DEF LifecycleCall
  <2>2. AdminTypeOK'
    BY <1>4, <2>1 DEF Administer
  <2> QED
    BY <1>1, <1>2, <1>4, <2>2 DEF Administer, NamesAgree, BusyIsServed, Executing
<1>5. ASSUME NEW n \in Changing, Unregister(n)
      PROVE  AgentInv'
  <2>1. n \in Names
    BY DEF AgentAssumption
  <2> QED
    BY <1>1, <1>2, <1>5, <2>1 DEF Unregister, NamesAgree, BusyIsServed, Executing
<1>6. ASSUME NEW a \in Agents, NEW replace \in BOOLEAN, Register(a, replace)
      PROVE  AgentInv'
  BY <1>1, <1>2, <1>6 DEF Register, NamesAgree, BusyIsServed, Executing, AgentAssumption
<1> QED
  BY <1>3, <1>4, <1>5, <1>6 DEF Administration

LEMMA AgentStep == AgentAssumption /\ AgentInv /\ [AgentNext]_agentVars => AgentInv'
<1> SUFFICES ASSUME AgentAssumption, AgentInv, [AgentNext]_agentVars PROVE AgentInv'
  OBVIOUS
<1>1. ASSUME NEW t \in Tasks, Call(t) \/ DispatchTask(t)
      PROVE  AgentInv'
  <2>1. OnlyDispatch(t)
    BY <1>1, DispatchIsLocal DEF AgentInv
  <2>2. \A u \in Tasks \ {t} : Reporting(u)'
    BY <2>1 DEF OnlyDispatch, AgentInv, Reporting, IsReport
  <2>3. \A u \in Tasks : Reporting(u)'
    BY <1>1, <2>2, DispatchReports
  <2>4. AdminTypeOK' /\ NamesAgree'
    BY <2>1 DEF OnlyDispatch, AgentInv, AdminTypeOK, NamesAgree
  <2> QED
    BY <1>1, <2>3, <2>4, DispatchKeepsTypes, DispatchServes DEF AgentInv
<1>2. CASE Administration
  BY <1>2, AdministrationKeepsInv
<1>3. CASE UNCHANGED agentVars
  BY <1>3 DEF agentVars, AgentInv, AgentTypeOK, AdminTypeOK, NamesAgree, BusyIsServed,
              Executing, Reporting, IsReport
<1> QED
  BY <1>1, <1>2, <1>3 DEF AgentNext

LEMMA AgentAlwaysInv == AgentSpec => []AgentInv
<1>1. AgentInit => AgentInv
  BY AgentInitial, AgentAssumption
<1>2. AgentInv /\ [AgentNext]_agentVars => AgentInv'
  BY AgentStep, AgentAssumption
<1> QED
  BY <1>1, <1>2, PTL DEF AgentSpec

------------------------------------------------------------------------------

\* Every variable keeps its type; in particular dispatch always chooses an
\* agent (backend/agent_system/agent_manager.py:118-135).
THEOREM AgentsTyped == AgentSpec => []AgentTypeOK
BY AgentAlwaysInv, PTL DEF AgentInv

\* An agent is BUSY only while a dispatch will free it, or after an execute() of
\* its own that ended in no Exception, for any number of dispatches, agents and
\* lifecycle calls (agent_manager.py:88-116).
THEOREM BusyAgentsAreServed == AgentSpec => []BusyIsServed
BY AgentAlwaysInv, PTL DEF AgentInv

\* What a dispatch returns is a terminal result in the name of the agent that
\* was given the task, whatever the agents answer (agent_manager.py:154-214).
THEOREM ReportsStandAsGiven == AgentSpec => []ReportsAreTerminal
<1>1. AgentInv => ReportsAreTerminal
  BY DEF AgentInv, Reporting, IsReport, ReportsAreTerminal, Report
<1> QED
  BY <1>1, AgentAlwaysInv, PTL

------------------------------------------------------------------------------
(* Plans and their tasks *)

\* The plans of different requests have no task in common.
LEMMA PlansAreApart ==
  ASSUME PlanAssumption
  PROVE  /\ \A r \in Requests : PlanTasks(r) \subseteq Tasks
         /\ \A q, r \in Requests : q # r => PlanTasks(q) \cap PlanTasks(r) = {}
<1>1. ASSUME NEW r \in Requests PROVE PlanTasks(r) \subseteq Tasks
  <2>1. Plan[r] \in Seq(Tasks)
    BY DEF PlanAssumption
  <2>2. \A i \in DOMAIN Plan[r] : Plan[r][i] \in Tasks
    BY <2>1
  <2> QED
    BY <2>2 DEF PlanTasks
<1>2. ASSUME NEW q \in Requests, NEW r \in Requests, q # r
      PROVE  PlanTasks(q) \cap PlanTasks(r) = {}
  BY <1>2 DEF PlanAssumption, PlanTasks
<1> QED
  BY <1>1, <1>2

\* A set with tasks of a plan has a first one: the least of their indices.
LEMMA FirstIsMember ==
  ASSUME NEW T, NEW plan \in Seq(T), NEW S, S # {}, \A t \in S : \E i \in DOMAIN plan : plan[i] = t
  PROVE  FirstOf(S, plan) \in S
<1> DEFINE At == {i \in DOMAIN plan : plan[i] \in S}
<1>1. At \subseteq Nat /\ At # {}
  OBVIOUS
<1>2. PICK i \in At : \A j \in At : ~(<<j, i>> \in OpToRel(<, Nat))
  BY <1>1, NatLessThanWellFounded, WFMin
<1>3. \A j \in 1 .. i - 1 : plan[j] \notin S
  <2> SUFFICES ASSUME NEW j \in 1 .. i - 1, plan[j] \in S PROVE FALSE
    OBVIOUS
  <2>1. j \in Nat /\ i \in Nat /\ j < i /\ j \in DOMAIN plan
    BY <1>1
  <2> QED
    BY <1>1, <1>2, <2>1 DEF OpToRel
<1> DEFINE P(k) == plan[k] \in S /\ \A j \in 1 .. k - 1 : plan[j] \notin S
           k == CHOOSE k \in DOMAIN plan : P(k)
<1>4. \E x \in DOMAIN plan : P(x)
  BY <1>3
<1>5. k \in DOMAIN plan /\ P(k)
  <2> HIDE DEF P
  <2> QED
    BY <1>4
<1> QED
  BY <1>5 DEF FirstOf

------------------------------------------------------------------------------
(* The loop of a request *)

Own(r) == StartPlan(r) \/ RefusePlan(r) \/ ExecutePlan(r)

\* A task is in hand from the moment it is taken until it is reported.  What is
\* only shown is no longer due.
Held(r)   == request[r] \in {"checking", "queuing", "waiting", "abandoning"}
Shows(r)  == request[r] \in {"failing", "showing"}
Awaits(r) == request[r] \in {"waiting", "abandoning"}
Hand(r)   == IF Held(r) THEN {Task(r)} ELSE {}
Due(r)    == remaining[r] \cup Hand(r)

\* What remains and what is in the batch, by the place the loop has reached.
LoopOK(r) ==
  /\ remaining[r] \subseteq PlanTasks(r) /\ batch[r] \subseteq PlanTasks(r)
  /\ ~Shows(r) => batch[r] \subseteq Due(r)
  /\ Held(r) => batch[r] # {} /\ Task(r) \notin remaining[r]
  /\ request[r] \in {"idle", "refused", "starting"} => remaining[r] = PlanTasks(r)
  /\ request[r] \in {"idle", "refused", "starting", "picking", "done"} => batch[r] = {}
  /\ Shows(r) \/ request[r] = "done" => remaining[r] = {}

LoopTypes ==
  /\ request \in [Requests -> Where]
  /\ remaining \in [Requests -> SUBSET Tasks]
  /\ batch \in [Requests -> SUBSET Tasks]
  /\ planStatus \in [Requests -> PlanStatus]

LEMMA TaskIsOfBatch ==
  ASSUME PlanAssumption, NEW r \in Requests, LoopOK(r), batch[r] # {}
  PROVE  /\ Task(r) \in batch[r]
         /\ Task(r) \in PlanTasks(r) /\ Task(r) \in Tasks
         /\ ~Shows(r) => Task(r) \in Due(r)
<1>1. Plan[r] \in Seq(Tasks)
  BY DEF PlanAssumption
<1>2. \A t \in batch[r] : \E i \in DOMAIN Plan[r] : Plan[r][i] = t
  BY DEF LoopOK, PlanTasks
<1>3. Task(r) \in batch[r]
  BY <1>1, <1>2, FirstIsMember DEF Task
<1> QED
  BY <1>3, PlansAreApart DEF LoopOK

\* No request touches the loop of another, and only requests touch loops.
Stands(r) ==
  request'[r] = request[r] /\ remaining'[r] = remaining[r] /\ batch'[r] = batch[r]

LEMMA OwnStepsAreLocal ==
  ASSUME LoopTypes, NEW q \in Requests, Own(q), NEW r \in Requests, r # q
  PROVE  Stands(r)
<1> USE DEF LoopTypes, Stands, Go, Dropped, Advance
<1>1. CASE StartPlan(q) \/ RefusePlan(q) \/ ListPlan(q)
  BY <1>1 DEF StartPlan, RefusePlan, ListPlan
<1>2. CASE PickReady(q) \/ FailUnresolvable(q) \/ BatchEnds(q)
  BY <1>2 DEF PickReady, FailUnresolvable, BatchEnds
<1>3. CASE SkipTask(q) \/ TakeTask(q) \/ CheckCapability(q)
  BY <1>3 DEF SkipTask, TakeTask, CheckCapability
<1>4. CASE QueueTask(q) \/ QueueRefused(q)
  BY <1>4 DEF QueueTask, QueueRefused
<1>5. CASE WaitEnds(q) \/ WaitTimesOut(q) \/ Abandon(q)
  BY <1>5 DEF WaitEnds, WaitTimesOut, Abandon
<1>6. CASE CollectResults(q) \/ ShowTask(q) \/ FinishPlan(q)
  BY <1>6 DEF CollectResults, ShowTask, FinishPlan
<1> QED
  BY <1>1, <1>2, <1>3, <1>4, <1>5, <1>6 DEF Own, ExecutePlan

LEMMA OthersStepsAreLocal ==
  ASSUME [Next]_allVars, ~\E q \in Requests : Own(q)
  PROVE  UNCHANGED planVars
<1>1. CASE RuntimeStep \/ StopRuntime
  BY <1>1 DEF RuntimeStep, HandlerStarts, HandlerSettles, WorkerGivesUp, CloseRuntime, StopRuntime
<1>2. CASE UNCHANGED <<jobVars, planVars>> \/ UNCHANGED allVars
  BY <1>2 DEF allVars
<1> QED
  BY <1>1, <1>2 DEF Next, Own

\* A step of a request moves on, or reports what it has in hand or all that
\* remains: the tasks due are those not yet reported.
Moves(r) == outcome' = outcome /\ Due(r)' = Due(r)

Reports(r) ==
  /\ Task(r) \in Due(r) /\ Due(r)' = Due(r) \ {Task(r)}
  /\ \E s, c : /\ Record(Task(r), s, c)
               /\ \/ s \in {"CANCELLED", "FAILED", "TIMED_OUT"} /\ c \in OwnTaskCode
                  \/ WaitEnds(r) /\ s = JobOutcome(Task(r)).status /\ c = JobOutcome(Task(r)).code

Resolves(r) == FailUnresolvable(r) /\ Due(r) = remaining[r] /\ Due(r)' = {}

LEMMA OwnSteps ==
  ASSUME PlanAssumption, LoopTypes, NEW r \in Requests, LoopOK(r), Own(r)
  PROVE  LoopOK(r)' /\ (Moves(r) \/ Reports(r) \/ Resolves(r))
<1> USE DEF LoopTypes, Go, Dropped, Advance, LoopOK, Due, Hand, Held, Shows
<1> USE TaskIsOfBatch
<1>1. CASE StartPlan(r) \/ RefusePlan(r) \/ ListPlan(r)
  BY <1>1 DEF StartPlan, RefusePlan, ListPlan, Moves
<1>2. CASE PickReady(r)
  BY <1>2 DEF PickReady, Moves
<1>3. CASE FailUnresolvable(r)
  BY <1>3 DEF FailUnresolvable, Resolves
<1>4. CASE BatchEnds(r) \/ CollectResults(r) \/ ShowTask(r) \/ FinishPlan(r)
  BY <1>4 DEF BatchEnds, CollectResults, ShowTask, FinishPlan, Moves
<1>5. CASE SkipTask(r)
  BY <1>5 DEF SkipTask, Reports, OwnTaskCode
<1>6. CASE TakeTask(r)
  BY <1>6 DEF TakeTask, Moves, Task
<1>7. CASE CheckCapability(r)
  BY <1>7 DEF CheckCapability, Moves, Reports, Task, OwnTaskCode
<1>8. CASE QueueTask(r)
  BY <1>8 DEF QueueTask, Moves, Task
<1>9. CASE QueueRefused(r)
  BY <1>9 DEF QueueRefused, Reports, OwnTaskCode
<1>10. CASE WaitEnds(r)
  BY <1>10 DEF WaitEnds, Reports
<1>11. CASE WaitTimesOut(r)
  BY <1>11 DEF WaitTimesOut, Moves, Task
<1>12. CASE Abandon(r)
  BY <1>12 DEF Abandon, Reports, OwnTaskCode
<1> QED
  BY <1>1, <1>2, <1>3, <1>4, <1>5, <1>6, <1>7, <1>8, <1>9, <1>10, <1>11, <1>12
     DEF Own, ExecutePlan

LEMMA LoopTypesStay ==
  ASSUME PlanAssumption, LoopTypes, [Next]_allVars
  PROVE  LoopTypes'
<1> USE DEF LoopTypes, Go, Where, Dropped, Advance, PlanStatus
<1>1. ASSUME NEW r \in Requests, Own(r) PROVE LoopTypes'
  <2>1. CASE StartPlan(r) \/ RefusePlan(r) \/ ListPlan(r)
    BY <2>1 DEF StartPlan, RefusePlan, ListPlan
  <2>2. CASE PickReady(r) \/ FailUnresolvable(r) \/ BatchEnds(r)
    BY <2>2 DEF PickReady, FailUnresolvable, BatchEnds
  <2>3. CASE SkipTask(r) \/ TakeTask(r) \/ CheckCapability(r)
    BY <2>3 DEF SkipTask, TakeTask, CheckCapability
  <2>4. CASE QueueTask(r) \/ QueueRefused(r)
    BY <2>4 DEF QueueTask, QueueRefused
  <2>5. CASE WaitEnds(r) \/ WaitTimesOut(r) \/ Abandon(r)
    BY <2>5 DEF WaitEnds, WaitTimesOut, Abandon
  <2>6. CASE CollectResults(r) \/ ShowTask(r) \/ FinishPlan(r)
    BY <2>6, PlansAreApart DEF CollectResults, ShowTask, FinishPlan, PlanStatusOf
  <2> QED
    BY <1>1, <2>1, <2>2, <2>3, <2>4, <2>5, <2>6 DEF Own, ExecutePlan
<1>2. CASE UNCHANGED planVars
  BY <1>2 DEF planVars
<1> QED
  BY <1>1, <1>2, OthersStepsAreLocal

LoopInv == LoopTypes /\ \A r \in Requests : LoopOK(r)

LEMMA LoopStep ==
  ASSUME PlanAssumption, LoopInv, [Next]_allVars
  PROVE  LoopInv'
<1>1. LoopTypes'
  BY LoopTypesStay DEF LoopInv
<1>2. ASSUME NEW r \in Requests PROVE LoopOK(r)'
  <2>1. CASE Own(r)
    BY <2>1, OwnSteps DEF LoopInv
  <2>2. CASE Stands(r)
    BY <2>2 DEF Stands, LoopInv, LoopOK, Due, Hand, Held, Shows, Task
  <2>3. CASE UNCHANGED planVars
    BY <2>2, <2>3 DEF planVars, Stands
  <2> QED
    BY <2>1, <2>2, <2>3, OwnStepsAreLocal, OthersStepsAreLocal DEF LoopInv
<1> QED
  BY <1>1, <1>2 DEF LoopInv

------------------------------------------------------------------------------
(* The jobs *)

\* The contract's results are those of this module.
LEMMA SameResults ==
  Job!JobResult = JobResult /\ Job!JobCancelled = JobCancelled /\ Job!RuntimeShutdown = RuntimeShutdown
BY DEF Job!JobResult, JobResult, Job!TerminalStatus, TerminalStatus, Job!ErrorCode, ErrorCode,
       Job!JobCancelled, JobCancelled, Job!RuntimeShutdown, RuntimeShutdown, Job!Outcome, Outcome

\* The task a request queues, waits for or gives up is one of its plan.
LEMMA TaskInHand ==
  ASSUME PlanAssumption, LoopInv, NEW r \in Requests, Held(r)
  PROVE  /\ Task(r) \in Tasks /\ Task(r) \in PlanTasks(r)
         /\ Task(r) \in Due(r) /\ Task(r) \in batch[r]
BY TaskIsOfBatch DEF LoopInv, LoopOK, Held, Shows

LEMMA StepsOfJobs ==
  ASSUME PlanAssumption, LoopInv, [Next]_allVars
  PROVE  [Job!Next]_(Job!jobVars)
<1> USE DEF Job!jobVars, jobVars
<1>1. ASSUME NEW r \in Requests, StartPlan(r) \/ RefusePlan(r)
      PROVE  UNCHANGED <<phase, asked, verdict>>
  BY <1>1 DEF StartPlan, RefusePlan
<1>2. ASSUME NEW r \in Requests, ExecutePlan(r), ~QueueTask(r), ~Abandon(r)
      PROVE  UNCHANGED <<phase, asked, verdict>>
  BY <1>2 DEF ExecutePlan, ListPlan, PickReady, FailUnresolvable, CollectResults, ShowTask,
              FinishPlan, BatchEnds, SkipTask, TakeTask, CheckCapability, QueueRefused,
              WaitEnds, WaitTimesOut
<1>3. ASSUME NEW t \in Tasks, HandlerStarts(t) PROVE Job!Next
  BY <1>3 DEF HandlerStarts, Job!Next
<1>4. ASSUME NEW t \in Tasks, HandlerSettles(t) \/ WorkerGivesUp(t) PROVE Job!Next
  BY <1>4 DEF HandlerSettles, WorkerGivesUp, SettledAs, Job!Next
<1>5. ASSUME NEW r \in Requests, QueueTask(r) PROVE Job!Next
  <2>1. Task(r) \in Tasks
    BY <1>5, TaskInHand DEF QueueTask, Go, Held
  <2> QED
    BY <1>5, <2>1 DEF QueueTask, Job!Next
<1>6. ASSUME NEW r \in Requests, Abandon(r) PROVE Job!Next \/ UNCHANGED <<phase, asked, verdict>>
  <2>1. Task(r) \in Tasks
    BY <1>6, TaskInHand DEF Abandon, Go, Held
  <2>2. CancelAbandoned(Task(r))
    BY <1>6 DEF Abandon
  <2> QED
    BY <2>1, <2>2 DEF CancelAbandoned, Job!Next
<1>7. CASE CloseRuntime
  BY <1>7 DEF CloseRuntime, Job!Next
<1>8. CASE StopRuntime
  BY <1>8 DEF StopRuntime
<1> QED
  BY <1>1, <1>2, <1>3, <1>4, <1>5, <1>6, <1>7, <1>8 DEF Next, RuntimeStep, allVars

\* A job that is settled has a result.
SettledHasResult == \A t \in Tasks : phase[t] = "settled" => verdict[t] \in JobResult

\* A settled job keeps its result, a flag stays raised, no job is forgotten,
\* and only from the unknown is a job accepted.
JobsKeep ==
  \A t \in Tasks :
    /\ phase[t] = "settled" => phase'[t] = "settled" /\ verdict'[t] = verdict[t]
    /\ asked[t] => asked'[t]
    /\ phase[t] # "unknown" => phase'[t] # "unknown"
    /\ phase'[t] = "accepted" => phase[t] \in {"unknown", "accepted"}

JobTypes ==
  /\ phase \in [Tasks -> Job!Phase]
  /\ asked \in [Tasks -> BOOLEAN]
  /\ verdict \in [Tasks -> JobResult \cup {NoResult}]
  /\ SettledHasResult

LEMMA JobStep ==
  ASSUME JobTypes, [Job!Next]_(Job!jobVars)
  PROVE  JobTypes' /\ JobsKeep
<1> USE DEF JobTypes, SettledHasResult, JobsKeep, Job!Phase, Job!Open
<1>1. ASSUME NEW t \in Tasks, Job!Accept(t) PROVE JobTypes' /\ JobsKeep
  BY <1>1 DEF Job!Accept
<1>2. ASSUME NEW t \in Tasks, Job!Begin(t) PROVE JobTypes' /\ JobsKeep
  BY <1>2 DEF Job!Begin
<1>3. ASSUME NEW t \in Tasks, Job!Ask(t) PROVE JobTypes' /\ JobsKeep
  BY <1>3 DEF Job!Ask
<1>4. ASSUME NEW t \in Tasks, Job!Settle(t) PROVE JobTypes' /\ JobsKeep
  <2>1. PICK v \in JobResult : verdict' = [verdict EXCEPT ![t] = v]
    BY <1>4, SameResults DEF Job!Settle
  <2>2. phase[t] # "settled" /\ phase[t] # "unknown"
        /\ phase' = [phase EXCEPT ![t] = "settled"] /\ asked' = asked
    BY <1>4 DEF Job!Settle
  <2>3. JobTypes'
    BY <2>1, <2>2
  <2>4. JobsKeep
    BY <2>1, <2>2
  <2> QED
    BY <2>3, <2>4
<1>5. ASSUME NEW S \in SUBSET Tasks, Job!Withdraw(S) PROVE JobTypes' /\ JobsKeep
  <2>1. {JobCancelled, RuntimeShutdown} \subseteq JobResult
    BY DEF JobCancelled, RuntimeShutdown, Outcome, JobResult, TerminalStatus, ErrorCode
  <2>2. \E v \in {JobCancelled, RuntimeShutdown} :
          verdict' = [j \in Tasks |-> IF j \in S THEN v ELSE verdict[j]]
    BY <1>5, SameResults DEF Job!Withdraw
  <2>3. PICK v \in JobResult :
          verdict' = [j \in Tasks |-> IF j \in S THEN v ELSE verdict[j]]
    BY <2>1, <2>2
  <2>4. JobTypes'
    BY <1>5, <2>3 DEF Job!Withdraw
  <2>5. JobsKeep
    BY <1>5, <2>3 DEF Job!Withdraw
  <2> QED
    BY <2>4, <2>5
<1>6. CASE UNCHANGED Job!jobVars
  BY <1>6 DEF Job!jobVars
<1> QED
  BY <1>1, <1>2, <1>3, <1>4, <1>5, <1>6 DEF Job!Next

\* Only a request queues a job, that of the task it has in hand.
LEMMA QueueSteps ==
  ASSUME PlanAssumption, JobTypes, LoopInv, [Next]_allVars,
         NEW t \in Tasks, phase[t] = "unknown", phase'[t] # "unknown"
  PROVE  \E r \in Requests : QueueTask(r) /\ t = Task(r)
<1> USE DEF JobTypes
<1>1. ASSUME NEW r \in Requests, Own(r), ~QueueTask(r), ~Abandon(r) PROVE FALSE
  BY <1>1 DEF Own, StartPlan, RefusePlan, ExecutePlan, ListPlan, PickReady, FailUnresolvable,
              CollectResults, ShowTask, FinishPlan, BatchEnds, SkipTask, TakeTask, CheckCapability, QueueRefused, WaitEnds,
              WaitTimesOut, jobVars
<1>2. ASSUME NEW r \in Requests, QueueTask(r) PROVE t = Task(r)
  BY <1>2 DEF QueueTask, Job!Accept
<1>3. ASSUME NEW r \in Requests, Abandon(r) PROVE FALSE
  BY <1>3 DEF Abandon, CancelAbandoned, Job!Withdraw, Job!Ask
<1>4. ASSUME NEW u \in Tasks, HandlerStarts(u) PROVE FALSE
  BY <1>4 DEF HandlerStarts, Job!Begin
<1>5. ASSUME NEW u \in Tasks, HandlerSettles(u) \/ WorkerGivesUp(u) PROVE FALSE
  BY <1>5 DEF HandlerSettles, WorkerGivesUp, SettledAs, Job!Settle, Job!Open
<1>6. CASE CloseRuntime
  BY <1>6 DEF CloseRuntime, Job!Withdraw, Job!Open
<1>7. CASE StopRuntime \/ UNCHANGED jobVars \/ UNCHANGED allVars
  BY <1>7 DEF StopRuntime, jobVars, allVars
<1> QED
  BY <1>1, <1>2, <1>3, <1>4, <1>5, <1>6, <1>7 DEF Next, Own, RuntimeStep

------------------------------------------------------------------------------
(* Reports *)

\* What a job delivered is its own dispatch's report, for good.
DeliveredIsReported ==
  \A t \in Tasks : t \in delivered =>
    /\ phase[t] = "settled" /\ dispatch[t] = "done"
    /\ verdict[t] = Normalise(AsHandlerValue(Report(t).answer))

LEMMA JobOutcomeIsResult ==
  ASSUME AgentInv, SettledHasResult, DeliveredIsReported, NEW t \in Tasks, phase[t] = "settled"
  PROVE  TaskOutcome(JobOutcome(t).status, JobOutcome(t).code) \in TaskResult
<1> USE DEF TaskResult, JobOutcome, TaskOutcome
<1>1. CASE t \in delivered
  <2>1. result[t].answer.status \in TerminalStatus
    BY <1>1 DEF DeliveredIsReported, AgentInv, Reporting, IsReport
  <2> QED
    BY <1>1, <2>1 DEF Report
<1>2. CASE t \notin delivered
  <2>1. verdict[t].status \in TerminalStatus /\ verdict[t].code \in ErrorCode
    BY DEF SettledHasResult, JobResult
  <2> QED
    BY <1>2, <2>1 DEF OwnTaskCode, TerminalStatus
<1> QED
  BY <1>1, <1>2

\* What is reported is what was due: a task of the plan is unreported as long
\* as it remains or is in hand.
Ledger(r) == \A t \in PlanTasks(r) : Reported(t) <=> t \notin Due(r)

LedgerInv ==
  /\ outcome \in [Tasks -> TaskResult \cup {Unreported}]
  /\ \A r \in Requests : Ledger(r)

LEMMA ResultsAreReports == Unreported \notin TaskResult
BY DEF Unreported, TaskOutcome, TaskResult, TerminalStatus

\* A report is made once, for a task that was due.
LEMMA ReportSteps ==
  ASSUME PlanAssumption, AgentInv, SettledHasResult, DeliveredIsReported,
         LoopInv, LedgerInv, NEW r \in Requests, Own(r)
  PROVE  /\ outcome' \in [Tasks -> TaskResult \cup {Unreported}]
         /\ \A t \in Tasks : outcome'[t] = outcome[t] \/ t \in Due(r) \ Due(r)'
         /\ \A t \in Due(r) \ Due(r)' : outcome'[t] \in TaskResult
         /\ Due(r)' \subseteq Due(r) /\ Due(r) \subseteq PlanTasks(r)
<1>0. Due(r) \subseteq PlanTasks(r) /\ Due(r) \subseteq Tasks
  BY TaskInHand, PlansAreApart DEF LoopInv, LoopOK, Due, Hand
<1>1. CASE Moves(r)
  BY <1>0, <1>1 DEF Moves, LedgerInv
<1>2. CASE Reports(r)
  <2>1. PICK s, c : /\ Record(Task(r), s, c)
                    /\ \/ s \in {"CANCELLED", "FAILED", "TIMED_OUT"} /\ c \in OwnTaskCode
                       \/ WaitEnds(r) /\ s = JobOutcome(Task(r)).status
                                      /\ c = JobOutcome(Task(r)).code
    BY <1>2 DEF Reports
  <2>2. Task(r) \in Due(r) /\ Due(r)' = Due(r) \ {Task(r)}
    BY <1>2 DEF Reports
  <2>3. TaskOutcome(s, c) \in TaskResult
    <3>1. CASE s \in {"CANCELLED", "FAILED", "TIMED_OUT"} /\ c \in OwnTaskCode
      BY <3>1 DEF TaskResult, TaskOutcome, TerminalStatus
    <3>2. CASE WaitEnds(r) /\ s = JobOutcome(Task(r)).status /\ c = JobOutcome(Task(r)).code
      BY <1>0, <2>2, <3>2, JobOutcomeIsResult DEF WaitEnds
    <3> QED
      BY <2>1, <3>1, <3>2
  <2>4. outcome' = [outcome EXCEPT ![Task(r)] = TaskOutcome(s, c)]
    BY <2>1 DEF Record
  <2> QED
    BY <1>0, <2>2, <2>3, <2>4 DEF LedgerInv
<1>3. CASE Resolves(r)
  <2>1. TaskOutcome("FAILED", "DEPENDENCY_CYCLE_OR_MISSING") \in TaskResult
    BY DEF TaskResult, TaskOutcome, TerminalStatus, OwnTaskCode
  <2>2. /\ Due(r)' = {} /\ Due(r) = remaining[r]
        /\ outcome' = [t \in Tasks |->
             IF t \in remaining[r] THEN TaskOutcome("FAILED", "DEPENDENCY_CYCLE_OR_MISSING")
             ELSE outcome[t]]
    BY <1>3 DEF Resolves, FailUnresolvable
  <2> QED
    BY <1>0, <2>1, <2>2 DEF LedgerInv
<1> QED
  BY <1>1, <1>2, <1>3, OwnSteps DEF LoopInv

PlanContext == AgentInv /\ SettledHasResult /\ DeliveredIsReported /\ LoopInv /\ LedgerInv

\* A report is final.
LEMMA ReportsStay ==
  ASSUME PlanAssumption, PlanContext, [Next]_allVars, NEW t \in Tasks, Reported(t)
  PROVE  outcome'[t] = outcome[t]
<1>1. ASSUME NEW r \in Requests, Own(r) PROVE outcome'[t] = outcome[t]
  BY <1>1, ReportSteps DEF PlanContext, LedgerInv, Ledger
<1>2. CASE UNCHANGED planVars
  BY <1>2 DEF planVars
<1> QED
  BY <1>1, <1>2, OthersStepsAreLocal

LEMMA LedgerStep ==
  ASSUME PlanAssumption, PlanContext, [Next]_allVars
  PROVE  LedgerInv'
<1>1. ASSUME NEW q \in Requests, Own(q) PROVE LedgerInv'
  <2>1. /\ outcome' \in [Tasks -> TaskResult \cup {Unreported}]
        /\ \A t \in Tasks : outcome'[t] = outcome[t] \/ t \in Due(q) \ Due(q)'
        /\ \A t \in Due(q) \ Due(q)' : outcome'[t] \in TaskResult
        /\ Due(q)' \subseteq Due(q) /\ Due(q) \subseteq PlanTasks(q)
    BY <1>1, ReportSteps DEF PlanContext
  <2>2. Ledger(q)'
    BY <2>1, ResultsAreReports, PlansAreApart DEF PlanContext, LedgerInv, Ledger, Reported
  <2>3. ASSUME NEW r \in Requests, r # q PROVE Ledger(r)'
    <3>1. Due(r)' = Due(r)
      BY <1>1, <2>3, OwnStepsAreLocal
         DEF PlanContext, LoopInv, Stands, Due, Hand, Held, Task
    <3>2. \A t \in PlanTasks(r) : outcome'[t] = outcome[t]
      BY <2>1, <2>3, PlansAreApart
    <3> QED
      BY <3>1, <3>2 DEF PlanContext, LedgerInv, Ledger, Reported
  <2> QED
    BY <2>1, <2>2, <2>3 DEF LedgerInv
<1>2. CASE UNCHANGED planVars
  BY <1>2 DEF planVars, PlanContext, LedgerInv, Ledger, Reported, Due, Hand, Held, Task
<1> QED
  BY <1>1, <1>2, OthersStepsAreLocal

\* A task's job is unknown until the request waits for it, and does not wait
\* to be started any more when the task is reported.
JobsFollow(r) ==
  \A t \in PlanTasks(r) :
    IF t \in Due(r) THEN phase[t] # "unknown" <=> Awaits(r) /\ t = Task(r)
    ELSE phase[t] # "accepted"

\* A request begins to wait by queueing, and the wait ends with a result or is
\* given up.
LEMMA WaitingSteps ==
  ASSUME PlanAssumption, LoopInv, NEW r \in Requests, Own(r)
  PROVE  \/ QueueTask(r)
         \/ WaitEnds(r)
         \/ Abandon(r)
         \/ /\ Awaits(r) <=> Awaits(r)'
            /\ Awaits(r) => Due(r)' = Due(r) /\ Task(r)' = Task(r)
            /\ UNCHANGED phase
<1> USE DEF LoopInv, LoopTypes, Go, Awaits, jobVars
<1>1. CASE StartPlan(r) \/ RefusePlan(r) \/ ListPlan(r)
  BY <1>1 DEF StartPlan, RefusePlan, ListPlan
<1>2. CASE PickReady(r) \/ FailUnresolvable(r) \/ BatchEnds(r)
  BY <1>2 DEF PickReady, FailUnresolvable, BatchEnds
<1>3. CASE SkipTask(r) \/ TakeTask(r) \/ CheckCapability(r) \/ QueueRefused(r)
  BY <1>3 DEF SkipTask, TakeTask, CheckCapability, QueueRefused
<1>4. CASE WaitTimesOut(r)
  BY <1>4 DEF WaitTimesOut, Due, Hand, Held, Task
<1>5. CASE CollectResults(r) \/ ShowTask(r) \/ FinishPlan(r)
  BY <1>5 DEF CollectResults, ShowTask, FinishPlan
<1> QED
  BY <1>1, <1>2, <1>3, <1>4, <1>5 DEF Own, ExecutePlan

LEMMA JobsFollowStep ==
  ASSUME PlanAssumption, PlanContext, JobTypes, \A r \in Requests : JobsFollow(r),
         [Next]_allVars, JobsKeep, NEW r \in Requests
  PROVE  JobsFollow(r)'
<1> SUFFICES ASSUME NEW t \in PlanTasks(r)
             PROVE  IF t \in Due(r)' THEN phase'[t] # "unknown" <=> Awaits(r)' /\ t = Task(r)'
                    ELSE phase'[t] # "accepted"
  BY DEF JobsFollow
<1>1. t \in Tasks
  BY PlansAreApart
<1>2. CASE Own(r)
  <2>1. Due(r)' \subseteq Due(r)
    BY <1>2, ReportSteps DEF PlanContext
  <2>2. CASE QueueTask(r)
    <3>1. request[r] = "queuing" /\ request'[r] = "waiting" /\ batch' = batch
          /\ remaining' = remaining
      BY <2>2 DEF QueueTask, Go, PlanContext, LoopInv, LoopTypes
    <3>2. Task(r)' = Task(r) /\ Due(r)' = Due(r) /\ Awaits(r)' /\ ~Awaits(r)
      BY <3>1 DEF Task, Due, Hand, Held, Awaits
    <3>3. phase' = [phase EXCEPT ![Task(r)] = "accepted"]
      BY <2>2 DEF QueueTask, Job!Accept
    <3>4. Task(r) \in Due(r)
      BY <3>1, TaskInHand DEF Held, PlanContext
    <3> QED
      BY <1>1, <3>2, <3>3, <3>4 DEF JobsFollow, JobTypes
  <2>3. CASE WaitEnds(r) \/ Abandon(r)
    <3>1. Awaits(r) /\ ~Awaits(r)' /\ ~Held(r)'
      BY <2>3 DEF WaitEnds, Abandon, Go, PlanContext, LoopInv, LoopTypes, Awaits, Held
    <3>2. Due(r)' = Due(r) \ {Task(r)}
      <4>1. remaining' = remaining /\ Task(r) \notin remaining[r] /\ Held(r)
        BY <2>3, <3>1 DEF WaitEnds, Abandon, PlanContext, LoopInv, LoopOK, Awaits, Held
      <4> QED
        BY <3>1, <4>1 DEF Due, Hand
    <3>3. CASE t = Task(r)
      <4>1. CASE WaitEnds(r)
        BY <1>1, <3>2, <3>3, <4>1 DEF WaitEnds, JobsKeep
      <4>2. CASE Abandon(r)
        <5>1. CancelAbandoned(t)
          BY <3>3, <4>2 DEF Abandon
        <5>2. phase[t] # "unknown"
          BY <3>1, <3>3, TaskInHand DEF JobsFollow, PlanContext, Held, Awaits
        <5>3. phase'[t] # "accepted"
          BY <1>1, <5>1, <5>2 DEF CancelAbandoned, Job!Withdraw, Job!Ask, JobTypes, JobsKeep
        <5> QED
          BY <3>2, <3>3, <5>3
      <4> QED
        BY <2>3, <4>1, <4>2
    <3>4. CASE t # Task(r)
      <4>1. ~\E q \in Requests : QueueTask(q) /\ t = Task(q)
        BY <2>3 DEF QueueTask, WaitEnds, Abandon, Go, PlanContext, LoopInv, LoopTypes
      <4>2. phase[t] = "unknown" => phase'[t] = "unknown"
        BY <1>1, <4>1, QueueSteps DEF PlanContext
      <4> QED
        BY <1>1, <3>1, <3>2, <3>4, <4>2 DEF JobsFollow, JobsKeep
    <3> QED
      BY <3>3, <3>4
  <2>4. CASE /\ Awaits(r) <=> Awaits(r)'
             /\ Awaits(r) => Due(r)' = Due(r) /\ Task(r)' = Task(r)
             /\ UNCHANGED phase
    BY <2>1, <2>4 DEF JobsFollow
  <2> QED
    BY <1>2, <2>2, <2>3, <2>4, WaitingSteps DEF PlanContext
<1>3. CASE ~Own(r)
  <2>1. Stands(r)
    BY <1>3, OwnStepsAreLocal, OthersStepsAreLocal DEF PlanContext, LoopInv, Stands, planVars
  <2>2. Due(r)' = Due(r) /\ (Awaits(r)' <=> Awaits(r)) /\ Task(r)' = Task(r)
    BY <2>1 DEF Stands, Due, Hand, Held, Task, Awaits
  <2>3. ASSUME NEW q \in Requests, QueueTask(q) PROVE t # Task(q)
    <3>1. q # r
      BY <1>3, <2>3 DEF Own, ExecutePlan
    <3>2. Task(q) \in PlanTasks(q)
      BY <2>3, TaskInHand DEF QueueTask, Go, Held, PlanContext
    <3> QED
      BY <3>1, <3>2, PlansAreApart
  <2>4. phase[t] = "unknown" <=> phase'[t] = "unknown"
    BY <1>1, <2>3, QueueSteps DEF PlanContext, JobsKeep
  <2> QED
    BY <1>1, <2>2, <2>4 DEF JobsFollow, JobsKeep
<1> QED
  BY <1>2, <1>3

------------------------------------------------------------------------------
(* The order of a plan *)

\* What a batch holds to be tried is ready, what is in hand is free to run, and what was
\* queued remains so.
Succeeds(d) == d \in Tasks /\ outcome[d].status = "SUCCEEDED"

ReadyInv ==
  /\ \A r \in Requests : Shows(r) \/ \A t \in batch[r] : Ready(r, t)
  /\ \A r \in Requests : Held(r) => \A d \in DependsOn[Task(r)] : Succeeds(d)
  /\ \A t \in Tasks : phase[t] # "unknown" => \A d \in DependsOn[t] : Succeeds(d)

LEMMA SuccessStays ==
  ASSUME PlanAssumption, PlanContext, [Next]_allVars, NEW d, Succeeds(d)
  PROVE  Succeeds(d)'
<1>1. Reported(d)
  BY DEF Succeeds, Reported, Unreported, TaskOutcome
<1> QED
  BY <1>1, ReportsStay DEF Succeeds

LEMMA ReadyStays ==
  ASSUME PlanAssumption, PlanContext, [Next]_allVars, NEW r \in Requests, NEW t, Ready(r, t)
  PROVE  Ready(r, t)'
BY ReportsStay, PlansAreApart DEF Ready, Reported

\* A task gets into the batch by being ready, and into the hand by having no
\* dependency that failed.
LEMMA PickSteps ==
  ASSUME LoopTypes, NEW r \in Requests, Own(r)
  PROVE  /\ \/ Shows(r)'
            \/ ~Shows(r) /\ batch'[r] \subseteq batch[r]
            \/ \A t \in batch'[r] : Ready(r, t)
         /\ Held(r)' => /\ Task(r)' = Task(r)
                        /\ Held(r) \/ (batch[r] # {} /\ ~Shows(r) /\ ~DependenciesFailed(r))
<1> USE DEF LoopTypes, Go, Held, Shows, Task, Advance
<1>1. CASE StartPlan(r) \/ RefusePlan(r) \/ ListPlan(r)
  BY <1>1 DEF StartPlan, RefusePlan, ListPlan
<1>2. CASE PickReady(r) \/ FailUnresolvable(r) \/ BatchEnds(r)
  BY <1>2 DEF PickReady, FailUnresolvable, BatchEnds
<1>3. CASE SkipTask(r) \/ TakeTask(r)
  BY <1>3 DEF SkipTask, TakeTask
<1>4. CASE QueueRefused(r) \/ WaitEnds(r) \/ Abandon(r)
  BY <1>4 DEF QueueRefused, WaitEnds, Abandon
<1>5. CASE CheckCapability(r) \/ QueueTask(r) \/ WaitTimesOut(r)
  BY <1>5 DEF CheckCapability, QueueTask, WaitTimesOut
<1>6. CASE CollectResults(r) \/ ShowTask(r) \/ FinishPlan(r)
  BY <1>6 DEF CollectResults, ShowTask, FinishPlan
<1> QED
  BY <1>1, <1>2, <1>3, <1>4, <1>5, <1>6 DEF Own, ExecutePlan

LEMMA ReadyStep ==
  ASSUME PlanAssumption, PlanContext, JobTypes, ReadyInv, [Next]_allVars
  PROVE  ReadyInv'
<1>1. ASSUME NEW r \in Requests, ~Shows(r)', NEW t \in batch'[r] PROVE Ready(r, t)'
  <2>1. CASE Own(r)
    BY <1>1, <2>1, PickSteps, ReadyStays DEF PlanContext, LoopInv, ReadyInv
  <2>2. CASE Stands(r)
    BY <1>1, <2>2, ReadyStays DEF Stands, Shows, ReadyInv
  <2> QED
    BY <2>1, <2>2, OwnStepsAreLocal, OthersStepsAreLocal DEF PlanContext, LoopInv, Stands, planVars
<1>2. ASSUME NEW r \in Requests, Held(r)', NEW d \in DependsOn[Task(r)'] PROVE Succeeds(d)'
  <2>1. CASE Own(r) /\ ~Held(r)
    <3>1. batch[r] # {} /\ ~Shows(r) /\ ~DependenciesFailed(r) /\ Task(r)' = Task(r)
      BY <1>2, <2>1, PickSteps DEF PlanContext, LoopInv
    <3>2. Ready(r, Task(r))
      BY <3>1, TaskIsOfBatch DEF PlanContext, LoopInv, ReadyInv
    <3>3. Succeeds(d)
      BY <1>2, <3>1, <3>2, PlansAreApart DEF DependenciesFailed, Ready, Succeeds
    <3> QED
      BY <3>3, SuccessStays
  <2>2. CASE Own(r) /\ Held(r)
    BY <1>2, <2>2, PickSteps, SuccessStays DEF PlanContext, LoopInv, ReadyInv
  <2>3. CASE Stands(r)
    <3>1. Held(r) /\ Task(r)' = Task(r)
      BY <1>2, <2>3 DEF Stands, Held, Task
    <3> QED
      BY <1>2, <3>1, SuccessStays DEF ReadyInv
  <2> QED
    BY <2>1, <2>2, <2>3, OwnStepsAreLocal, OthersStepsAreLocal
       DEF PlanContext, LoopInv, Stands, planVars
<1>3. ASSUME NEW t \in Tasks, phase'[t] # "unknown", NEW d \in DependsOn[t] PROVE Succeeds(d)'
  <2>1. Succeeds(d)
    <3>1. CASE phase[t] # "unknown"
      BY <1>3, <3>1 DEF ReadyInv
    <3>2. CASE phase[t] = "unknown"
      <4>1. PICK r \in Requests : QueueTask(r) /\ t = Task(r)
        BY <1>3, <3>2, QueueSteps DEF PlanContext
      <4>2. Held(r)
        BY <4>1 DEF QueueTask, Go, Held
      <4> QED
        BY <1>3, <4>1, <4>2 DEF ReadyInv
    <3> QED
      BY <3>1, <3>2
  <2> QED
    BY <2>1, SuccessStays
<1> QED
  BY <1>1, <1>2, <1>3 DEF ReadyInv

------------------------------------------------------------------------------
(* The tracker *)

\* What a request has concluded and not shown yet.
Lags(r, t) == request[r] = "failing" /\ t \in batch[r]

\* No other request has started.
Alone(r) == Started(r) /\ \A q \in Requests \ {r} : ~Started(q)

TrackerTypeOK ==
  tracker \in [plan : Requests \cup {"none"},
              entries : UNION {[S -> Status] : S \in SUBSET Tasks}]

TrackerInv ==
  /\ TrackerTypeOK
  /\ \A t \in DOMAIN tracker.entries :
       tracker.entries[t] \in InFlightStatus \cup {outcome[t].status}
  /\ \A r \in Requests : \A t \in PlanTasks(r) \cap DOMAIN tracker.entries :
       Reported(t) => tracker.entries[t] = outcome[t].status \/ Lags(r, t)
  /\ (\E r \in Requests : Listed(r)) =>
       \E r \in Requests : Listed(r) /\ PlanTasks(r) \subseteq DOMAIN tracker.entries
  /\ \A r \in Requests : Alone(r) =>
       tracker.plan = r /\ (Listed(r) => DOMAIN tracker.entries = PlanTasks(r))

\* What is shown of a task after a change: what is changed, or what was shown.
LEMMA TrackedEntries ==
  ASSUME TrackerTypeOK, NEW S \in SUBSET Tasks, NEW changes \in [S -> Status], Track(changes)
  PROVE  /\ TrackerTypeOK'
         /\ tracker'.plan = tracker.plan
         /\ DOMAIN tracker'.entries = DOMAIN tracker.entries \cup S
         /\ \A t \in S : tracker'.entries[t] = changes[t]
         /\ \A t \in DOMAIN tracker.entries \ S : tracker'.entries[t] = tracker.entries[t]
<1> DEFINE e == tracker.entries
<1>1. PICK R \in SUBSET Tasks : e \in [R -> Status]
  BY DEF TrackerTypeOK
<1>2. tracker' = [tracker EXCEPT !.entries = Tracked(e, changes)]
  BY DEF Track
<1>3. tracker'.plan = tracker.plan /\ tracker'.entries = Tracked(e, changes)
      /\ tracker.plan \in Requests \cup {"none"}
  BY <1>2 DEF TrackerTypeOK
<1>4. Tracked(e, changes) = [t \in R \cup S |-> IF t \in S THEN changes[t] ELSE e[t]]
  BY <1>1 DEF Tracked
<1>5. Tracked(e, changes) \in [R \cup S -> Status]
  BY <1>1, <1>4
<1>6. TrackerTypeOK'
  BY <1>2, <1>3, <1>5 DEF TrackerTypeOK
<1> QED
  BY <1>1, <1>3, <1>4, <1>6

\* Past its start a request remains listed, and no request is listed or started
\* by another's step; what lags behind is caught up by showing it.
LEMMA PlacesStay ==
  ASSUME PlanAssumption, LoopInv, NEW r \in Requests, Own(r), ~StartPlan(r), ~ListPlan(r)
  PROVE  /\ Listed(r) \/ RefusePlan(r)
         /\ \A q \in Requests : (Started(q)' <=> Started(q)) /\ (Listed(q)' <=> Listed(q))
         /\ \A q \in Requests, t \in Tasks :
              Lags(q, t) => Lags(q, t)' \/ (q = r /\ ShowTask(r) /\ t = Task(r))
<1> USE DEF LoopInv, LoopTypes, Go, Started, Listed, Lags, Advance
<1>1. \A q \in Requests \ {r} : Stands(q)
  BY OwnStepsAreLocal
<1>2. CASE RefusePlan(r)
  BY <1>1, <1>2 DEF RefusePlan, Stands
<1>3. CASE PickReady(r) \/ FailUnresolvable(r) \/ BatchEnds(r)
  BY <1>1, <1>3 DEF PickReady, FailUnresolvable, BatchEnds, Stands
<1>4. CASE CollectResults(r) \/ ShowTask(r) \/ FinishPlan(r)
  BY <1>1, <1>4 DEF CollectResults, ShowTask, FinishPlan, Stands
<1>5. CASE SkipTask(r) \/ TakeTask(r) \/ CheckCapability(r)
  BY <1>1, <1>5 DEF SkipTask, TakeTask, CheckCapability, Stands
<1>6. CASE QueueTask(r) \/ QueueRefused(r)
  BY <1>1, <1>6 DEF QueueTask, QueueRefused, Stands
<1>7. CASE WaitEnds(r) \/ WaitTimesOut(r) \/ Abandon(r)
  BY <1>1, <1>7 DEF WaitEnds, WaitTimesOut, Abandon, Stands
<1> QED
  BY <1>2, <1>3, <1>4, <1>5, <1>6, <1>7 DEF Own, ExecutePlan

\* A change that shows what is reported, or no end where nothing is, keeps the
\* tracker honest.
LEMMA HonestChange ==
  ASSUME TrackerInv, PlanAssumption, LoopInv, NEW r \in Requests, Own(r), Listed(r),
         NEW S \in SUBSET PlanTasks(r), NEW changes \in [S -> Status], Track(changes),
         ShowTask(r) => Task(r) \in S,
         \A t \in Tasks \ S : outcome'[t] = outcome[t],
         \A t \in S : \/ changes[t] = outcome'[t].status
                      \/ outcome'[t] = Unreported /\ changes[t] \in InFlightStatus
  PROVE  TrackerInv'
<1>1. S \in SUBSET Tasks
  BY PlansAreApart
<1>2. /\ TrackerTypeOK'
      /\ tracker'.plan = tracker.plan
      /\ DOMAIN tracker'.entries = DOMAIN tracker.entries \cup S
      /\ \A t \in S : tracker'.entries[t] = changes[t]
      /\ \A t \in DOMAIN tracker.entries \ S : tracker'.entries[t] = tracker.entries[t]
  BY <1>1, TrackedEntries DEF TrackerInv
<1>3. DOMAIN tracker.entries \subseteq Tasks
  BY DEF TrackerInv, TrackerTypeOK
<1>4. /\ \A q \in Requests : (Started(q)' <=> Started(q)) /\ (Listed(q)' <=> Listed(q))
      /\ \A q \in Requests, t \in Tasks \ S : Lags(q, t) => Lags(q, t)'
  <2>1. ~StartPlan(r) /\ ~ListPlan(r)
    BY DEF StartPlan, ListPlan, Go, Listed, Started
  <2> QED
    BY <2>1, PlacesStay
<1>5. ASSUME NEW t \in DOMAIN tracker'.entries
      PROVE  tracker'.entries[t] \in InFlightStatus \cup {outcome'[t].status}
  <2>1. CASE t \in S
    BY <1>2, <2>1
  <2>2. CASE t \notin S
    BY <1>2, <1>3, <1>5, <2>2 DEF TrackerInv
  <2> QED
    BY <2>1, <2>2
<1>6. ASSUME NEW q \in Requests, NEW t \in PlanTasks(q) \cap DOMAIN tracker'.entries, Reported(t)'
      PROVE  tracker'.entries[t] = outcome'[t].status \/ Lags(q, t)'
  <2>1. CASE t \in S
    BY <1>2, <1>6, <2>1 DEF Reported
  <2>2. CASE t \notin S
    BY <1>2, <1>3, <1>4, <1>6, <2>2 DEF Reported, TrackerInv
  <2> QED
    BY <2>1, <2>2
<1>7. (\E q \in Requests : Listed(q)') =>
        \E q \in Requests : Listed(q)' /\ PlanTasks(q) \subseteq DOMAIN tracker'.entries
  BY <1>2, <1>4 DEF TrackerInv
<1>8. ASSUME NEW q \in Requests, Alone(q)'
      PROVE  tracker'.plan = q /\ (Listed(q)' => DOMAIN tracker'.entries = PlanTasks(q))
  <2>1. Alone(q) /\ q = r
    BY <1>4, <1>8 DEF Alone, Listed
  <2> QED
    BY <1>2, <2>1 DEF TrackerInv
<1> QED
  BY <1>2, <1>5, <1>6, <1>7, <1>8 DEF TrackerInv

\* The two halves of a start: the plan is named, and its tasks are listed.
LEMMA StartsAreShown ==
  ASSUME PlanAssumption, PlanContext, TrackerInv, NEW r \in Requests,
         StartPlan(r) \/ ListPlan(r)
  PROVE  TrackerInv'
<1> USE DEF PlanContext, LoopInv, LoopTypes, Go
<1>1. /\ outcome' = outcome /\ batch' = batch
      /\ \A q \in Requests \ {r} : request'[q] = request[q]
      /\ request[r] \in {"idle", "starting"} /\ request'[r] \in {"starting", "picking"}
      /\ Started(r)'
  BY DEF StartPlan, ListPlan, Started
<1>2. \A q \in Requests : \A t : Lags(q, t)' <=> Lags(q, t)
  BY <1>1 DEF Lags
<1>3. CASE StartPlan(r)
  <2>1. request'[r] = "starting" /\ tracker' = [tracker EXCEPT !.plan = r]
    BY <1>3 DEF StartPlan
  <2>2. TrackerTypeOK' /\ tracker'.plan = r /\ tracker'.entries = tracker.entries
    BY <2>1 DEF TrackerInv, TrackerTypeOK
  <2>3. \A q \in Requests : Listed(q)' <=> Listed(q)
    BY <1>1, <1>3, <2>1 DEF StartPlan, Listed, Started
  <2>4. \A q \in Requests : Alone(q)' => q = r /\ ~Listed(q)'
    BY <1>1, <2>1 DEF Alone, Listed
  <2> QED
    BY <1>1, <1>2, <2>2, <2>3, <2>4 DEF TrackerInv, Reported
<1>4. CASE ListPlan(r)
  <2> DEFINE e == StatusOf(PlanTasks(r), "PENDING")
  <2>1. request[r] = "starting" /\ request'[r] = "picking"
        /\ tracker' = [tracker EXCEPT !.entries = e]
    BY <1>4 DEF ListPlan
  <2>2. PlanTasks(r) \subseteq Tasks /\ "PENDING" \in InFlightStatus
    BY PlansAreApart DEF InFlightStatus
  <2>3. e \in [PlanTasks(r) -> Status] /\ \A t \in PlanTasks(r) : e[t] = "PENDING"
    BY <2>2 DEF StatusOf, Status
  <2>4. TrackerTypeOK' /\ tracker'.plan = tracker.plan /\ tracker'.entries = e
    BY <2>1, <2>2, <2>3 DEF TrackerInv, TrackerTypeOK
  <2>5. \A t \in PlanTasks(r) : outcome'[t] = Unreported
    <3>1. \A t \in PlanTasks(r) : ~Reported(t)
      BY <2>1 DEF LoopOK, Due, LedgerInv, Ledger
    <3> QED
      BY <1>1, <3>1 DEF Reported
  <2>6. Listed(r)'
    BY <2>1 DEF Listed, Started
  <2>7. \A q \in Requests : Alone(q)' => q = r /\ Alone(r)
    BY <1>1, <2>1 DEF Alone, Started
  <2> HIDE DEF e
  <2>8. DOMAIN tracker'.entries = PlanTasks(r)
    BY <2>3, <2>4
  <2> QED
    BY <2>2, <2>3, <2>4, <2>5, <2>6, <2>7, <2>8 DEF TrackerInv, Reported
<1> QED
  BY <1>3, <1>4

\* What a request's step shows.
LEMMA TrackSteps ==
  ASSUME PlanAssumption, LoopInv, NEW r \in Requests, Own(r)
  PROVE  \/ UNCHANGED <<tracker, outcome>> /\ ~StartPlan(r) /\ ~ListPlan(r) /\ ~ShowTask(r)
         \/ StartPlan(r) \/ ListPlan(r) \/ FailUnresolvable(r) \/ ShowTask(r) \/ QueueTask(r)
         \/ /\ Listed(r) /\ Task(r) \in PlanTasks(r)
            /\ ~ShowTask(r)
            /\ \E s, c : Record(Task(r), s, c)
<1> USE DEF Go
<1>1. CASE RefusePlan(r) \/ PickReady(r) \/ BatchEnds(r) \/ TakeTask(r) \/ WaitTimesOut(r)
           \/ CollectResults(r) \/ FinishPlan(r)
  BY <1>1 DEF RefusePlan, PickReady, BatchEnds, TakeTask, WaitTimesOut, CollectResults, FinishPlan
<1>2. CASE SkipTask(r) \/ CheckCapability(r) \/ QueueRefused(r) \/ WaitEnds(r) \/ Abandon(r)
  <2>1. batch[r] # {} /\ request[r] \in {"next", "checking", "queuing", "waiting", "abandoning"}
    BY <1>2 DEF SkipTask, CheckCapability, QueueRefused, WaitEnds, Abandon, LoopInv, LoopOK, Held
  <2>2. Task(r) \in PlanTasks(r)
    BY <2>1, TaskIsOfBatch DEF LoopInv
  <2>3. Listed(r) /\ ~ShowTask(r) /\ ~StartPlan(r) /\ ~ListPlan(r)
    BY <2>1 DEF Listed, Started, ShowTask, StartPlan, ListPlan
  <2> QED
    BY <1>2, <2>2, <2>3 DEF SkipTask, CheckCapability, QueueRefused, WaitEnds, Abandon
<1> QED
  BY <1>1, <1>2 DEF Own, ExecutePlan

LEMMA TrackerStep ==
  ASSUME PlanAssumption, PlanContext, TrackerInv, [Next]_allVars
  PROVE  TrackerInv'
<1>1. ASSUME NEW r \in Requests, Own(r) PROVE TrackerInv'
  <2> USE DEF PlanContext
  <2>1. /\ outcome' \in [Tasks -> TaskResult \cup {Unreported}]
        /\ \A t \in Tasks : outcome'[t] = outcome[t] \/ t \in Due(r) \ Due(r)'
        /\ \A t \in Due(r) \ Due(r)' : outcome'[t] \in TaskResult
        /\ Due(r) \subseteq PlanTasks(r)
    BY <1>1, ReportSteps
  <2>2. PlanTasks(r) \subseteq Tasks
    BY PlansAreApart
  <2>3. CASE UNCHANGED <<tracker, outcome>> /\ ~StartPlan(r) /\ ~ListPlan(r) /\ ~ShowTask(r)
    <3>1. /\ \A q \in Requests : (Started(q)' <=> Started(q)) /\ (Listed(q)' <=> Listed(q))
          /\ \A q \in Requests, t \in Tasks : Lags(q, t) => Lags(q, t)'
      BY <1>1, <2>3, PlacesStay
    <3>2. \A q \in Requests : Alone(q)' <=> Alone(q)
      BY <3>1 DEF Alone
    <3>3. \A q \in Requests : PlanTasks(q) \subseteq Tasks
      BY PlansAreApart
    <3> QED
      BY <2>3, <3>1, <3>2, <3>3 DEF TrackerInv, TrackerTypeOK, Reported
  <2>4. CASE StartPlan(r) \/ ListPlan(r)
    BY <2>4, StartsAreShown
  <2>5. CASE FailUnresolvable(r)
    <3>1. /\ UNCHANGED tracker
          /\ request[r] = "picking" /\ request'[r] = "failing" /\ batch'[r] = remaining[r]
          /\ \A t \in Tasks \ remaining[r] : outcome'[t] = outcome[t]
      BY <2>5 DEF FailUnresolvable, Go, LoopInv, LoopTypes
    <3>2. \A t \in remaining[r] : outcome[t] = Unreported /\ Lags(r, t)' /\ t \in PlanTasks(r)
      BY <3>1 DEF LoopInv, LoopOK, Due, LedgerInv, Ledger, Reported, Lags
    <3>3. /\ \A q \in Requests : (Started(q)' <=> Started(q)) /\ (Listed(q)' <=> Listed(q))
          /\ \A q \in Requests, t \in Tasks : Lags(q, t) => Lags(q, t)'
      <4>1. ~StartPlan(r) /\ ~ListPlan(r) /\ ~ShowTask(r)
        BY <3>1 DEF StartPlan, ListPlan, ShowTask, Go
      <4> QED
        BY <1>1, <4>1, PlacesStay
    <3>4. \A q \in Requests : Alone(q)' <=> Alone(q)
      BY <3>3 DEF Alone
    <3>5. ASSUME NEW t \in DOMAIN tracker.entries
          PROVE  tracker.entries[t] \in InFlightStatus \cup {outcome'[t].status}
      <4>1. t \in Tasks
        BY <3>5 DEF TrackerInv, TrackerTypeOK
      <4>2. Unreported.status \in InFlightStatus
        BY DEF Unreported, TaskOutcome, InFlightStatus
      <4>3. tracker.entries[t] \in InFlightStatus \cup {outcome[t].status}
        BY <3>5 DEF TrackerInv
      <4> QED
        BY <3>1, <3>2, <4>1, <4>2, <4>3
    <3>6. ASSUME NEW q \in Requests, NEW t \in PlanTasks(q) \cap DOMAIN tracker.entries,
                 Reported(t)'
          PROVE  tracker.entries[t] = outcome'[t].status \/ Lags(q, t)'
      <4>1. t \in Tasks
        BY PlansAreApart
      <4>2. CASE t \in remaining[r]
        BY <3>2, <3>6, <4>2, PlansAreApart
      <4>3. CASE t \notin remaining[r]
        BY <3>1, <3>3, <3>6, <4>1, <4>3 DEF TrackerInv, Reported
      <4> QED
        BY <4>2, <4>3
    <3> QED
      BY <3>1, <3>3, <3>4, <3>5, <3>6 DEF TrackerInv, TrackerTypeOK
  <2>6. CASE ShowTask(r)
    <3>1. /\ Track(StatusOf({Task(r)}, outcome[Task(r)].status)) /\ outcome' = outcome
          /\ batch[r] # {} /\ request[r] \in {"failing", "showing"}
      BY <2>6 DEF ShowTask
    <3>2. Listed(r) /\ Task(r) \in PlanTasks(r) /\ Task(r) \in Tasks
      BY <3>1, TaskIsOfBatch DEF Listed, Started, LoopInv
    <3>3. outcome[Task(r)].status \in Status
      BY <3>2 DEF LedgerInv, TaskResult, Unreported, TaskOutcome, Status, InFlightStatus
    <3>4. StatusOf({Task(r)}, outcome[Task(r)].status) \in [{Task(r)} -> Status]
      BY <3>3 DEF StatusOf
    <3>5. \A t \in {Task(r)} : StatusOf({Task(r)}, outcome[Task(r)].status)[t] = outcome'[t].status
      BY <3>1 DEF StatusOf
    <3> QED
      BY <1>1, <3>1, <3>2, <3>4, <3>5, HonestChange
  <2>7. CASE QueueTask(r)
    <3>1. /\ Track(StatusOf({Task(r)}, "QUEUED")) /\ outcome' = outcome
          /\ Held(r) /\ Listed(r) /\ ~ShowTask(r)
      BY <2>7 DEF QueueTask, Go, Held, Listed, Started, ShowTask
    <3>2. {Task(r)} \in SUBSET PlanTasks(r) /\ outcome[Task(r)] = Unreported
      BY <3>1, TaskInHand DEF LedgerInv, Ledger, Reported
    <3>3. StatusOf({Task(r)}, "QUEUED") \in [{Task(r)} -> Status]
      BY DEF StatusOf, Status, InFlightStatus
    <3>4. \A t \in {Task(r)} :
            outcome'[t] = Unreported /\ StatusOf({Task(r)}, "QUEUED")[t] \in InFlightStatus
      BY <3>1, <3>2 DEF StatusOf, InFlightStatus
    <3> QED
      BY <1>1, <3>1, <3>2, <3>3, <3>4, HonestChange
  <2>8. ASSUME Listed(r), Task(r) \in PlanTasks(r), ~ShowTask(r),
               NEW s, NEW c, Record(Task(r), s, c)
        PROVE  TrackerInv'
    <3>1. Track(StatusOf({Task(r)}, s))
          /\ outcome' = [outcome EXCEPT ![Task(r)] = TaskOutcome(s, c)]
      BY <2>8 DEF Record
    <3>2. outcome'[Task(r)].status = s /\ \A t \in Tasks \ {Task(r)} : outcome'[t] = outcome[t]
      BY <2>2, <2>8, <3>1 DEF LedgerInv, TaskOutcome
    <3>3. s \in Status
      BY <2>1, <2>2, <2>8, <3>2 DEF TaskResult, Unreported, TaskOutcome, Status, InFlightStatus
    <3>4. StatusOf({Task(r)}, s) \in [{Task(r)} -> Status]
      BY <3>3 DEF StatusOf
    <3>5. \A t \in {Task(r)} : StatusOf({Task(r)}, s)[t] = outcome'[t].status
      BY <3>2 DEF StatusOf
    <3> QED
      BY <1>1, <2>8, <3>1, <3>2, <3>4, <3>5, HonestChange
  <2> QED
    BY <1>1, <2>3, <2>4, <2>5, <2>6, <2>7, <2>8, TrackSteps
<1>2. CASE UNCHANGED planVars
  BY <1>2 DEF planVars, TrackerInv, TrackerTypeOK, Reported, Lags, Alone, Started, Listed
<1> QED
  BY <1>1, <1>2, OthersStepsAreLocal

------------------------------------------------------------------------------
(* What a step does to the agents and to what is delivered *)

LEMMA StepsOfAgents == ASSUME [Next]_allVars PROVE [AgentNext]_agentVars
<1>1. ASSUME NEW r \in Requests, StartPlan(r) \/ RefusePlan(r) \/ ExecutePlan(r)
      PROVE  UNCHANGED agentVars
  BY <1>1 DEF StartPlan, RefusePlan, ExecutePlan, ListPlan, PickReady, FailUnresolvable,
              CollectResults, ShowTask, FinishPlan, BatchEnds, SkipTask, TakeTask,
              CheckCapability, QueueTask, QueueRefused, WaitEnds, WaitTimesOut, Abandon
<1>2. ASSUME NEW t \in Tasks, HandlerStarts(t) PROVE Call(t)
  BY <1>2 DEF HandlerStarts, Call
<1>3. ASSUME NEW t \in Tasks, HandlerSettles(t) \/ WorkerGivesUp(t) PROVE UNCHANGED agentVars
  BY <1>3 DEF HandlerSettles, WorkerGivesUp
<1>4. CASE CloseRuntime \/ StopRuntime
  BY <1>4 DEF CloseRuntime, StopRuntime
<1>5. CASE (\E t \in Tasks : DispatchTask(t)) \/ Administration
  BY <1>5 DEF AgentNext
<1>6. CASE UNCHANGED allVars
  BY <1>6 DEF allVars
<1> QED
  BY <1>1, <1>2, <1>3, <1>4, <1>5, <1>6 DEF Next, RuntimeStep, AgentNext

\* A dispatch that is over stays as it is.
LEMMA DoneStays ==
  ASSUME AgentInv, [AgentNext]_agentVars, NEW t \in Tasks, dispatch[t] = "done"
  PROVE  dispatch'[t] = "done" /\ chosen'[t] = chosen[t] /\ result'[t] = result[t]
<1>1. ASSUME NEW u \in Tasks, Call(u) \/ DispatchTask(u)
      PROVE  dispatch'[t] = "done" /\ chosen'[t] = chosen[t] /\ result'[t] = result[t]
  <2>1. OnlyDispatch(u)
    BY <1>1, DispatchIsLocal DEF AgentInv
  <2>2. dispatch[u] # "done"
    BY <1>1 DEF Call, DispatchTask, Refuse, Select, Occupy, ExecuteRaises, ExecuteExits,
                ExecuteReturns, NormaliseFails, CheckBusy, Free, Stages
  <2> QED
    BY <2>1, <2>2 DEF OnlyDispatch
<1>2. CASE Administration
  BY <1>2 DEF Administration, AdminStep, Administer, Unregister, Register
<1>3. CASE UNCHANGED agentVars
  BY <1>3 DEF agentVars
<1> QED
  BY <1>1, <1>2, <1>3 DEF AgentNext

LEMMA DeliverySteps ==
  ASSUME [Next]_allVars, NEW t, t \in delivered', t \notin delivered
  PROVE  t \in Tasks /\ HandlerSettles(t) /\ ~asked[t] /\ dispatch[t] = "done"
<1>1. ASSUME NEW r \in Requests, StartPlan(r) \/ RefusePlan(r) \/ ExecutePlan(r)
      PROVE  delivered' = delivered
  BY <1>1 DEF StartPlan, RefusePlan, ExecutePlan, ListPlan, PickReady, FailUnresolvable,
              CollectResults, ShowTask, FinishPlan, BatchEnds, SkipTask, TakeTask,
              CheckCapability, QueueTask, QueueRefused, WaitEnds, WaitTimesOut, Abandon, jobVars
<1>2. ASSUME NEW u \in Tasks, HandlerStarts(u) \/ WorkerGivesUp(u) PROVE delivered' = delivered
  BY <1>2 DEF HandlerStarts, WorkerGivesUp
<1>3. CASE CloseRuntime \/ StopRuntime \/ UNCHANGED jobVars \/ UNCHANGED allVars
  BY <1>3 DEF CloseRuntime, StopRuntime, jobVars, allVars
<1>4. PICK u \in Tasks : HandlerSettles(u)
  BY <1>1, <1>2, <1>3 DEF Next, RuntimeStep
<1> QED
  BY <1>4 DEF HandlerSettles

LEMMA RunningSteps == ASSUME [Next]_allVars PROVE running' = running \/ running' = FALSE
<1>1. ASSUME NEW r \in Requests, StartPlan(r) \/ RefusePlan(r) \/ ExecutePlan(r)
      PROVE  running' = running
  BY <1>1 DEF StartPlan, RefusePlan, ExecutePlan, ListPlan, PickReady, FailUnresolvable,
              CollectResults, ShowTask, FinishPlan, BatchEnds, SkipTask, TakeTask,
              CheckCapability, QueueTask, QueueRefused, WaitEnds, WaitTimesOut, Abandon, jobVars
<1>2. ASSUME NEW t \in Tasks, HandlerStarts(t) \/ HandlerSettles(t) \/ WorkerGivesUp(t)
      PROVE  running' = running
  BY <1>2 DEF HandlerStarts, HandlerSettles, WorkerGivesUp
<1>3. CASE CloseRuntime \/ StopRuntime \/ UNCHANGED jobVars \/ UNCHANGED allVars
  BY <1>3 DEF CloseRuntime, StopRuntime, jobVars, allVars
<1> QED
  BY <1>1, <1>2, <1>3 DEF Next, RuntimeStep

LEMMA DeliveriesStay == ASSUME [Next]_allVars PROVE delivered \subseteq delivered'
<1>1. ASSUME NEW r \in Requests, StartPlan(r) \/ RefusePlan(r) \/ ExecutePlan(r)
      PROVE  delivered' = delivered
  BY <1>1 DEF StartPlan, RefusePlan, ExecutePlan, ListPlan, PickReady, FailUnresolvable,
              CollectResults, ShowTask, FinishPlan, BatchEnds, SkipTask, TakeTask,
              CheckCapability, QueueTask, QueueRefused, WaitEnds, WaitTimesOut, Abandon, jobVars
<1>2. ASSUME NEW u \in Tasks, HandlerStarts(u) \/ WorkerGivesUp(u) \/ HandlerSettles(u)
      PROVE  delivered \subseteq delivered'
  BY <1>2 DEF HandlerStarts, WorkerGivesUp, HandlerSettles
<1>3. CASE CloseRuntime \/ StopRuntime \/ UNCHANGED jobVars \/ UNCHANGED allVars
  BY <1>3 DEF CloseRuntime, StopRuntime, jobVars, allVars
<1> QED
  BY <1>1, <1>2, <1>3 DEF Next, RuntimeStep

\* The worker's reading of an agent's success is a success.
LEMMA SuccessIsRead ==
  ASSUME NEW answer \in Answer \cup {RaisedValue}, answer.status = "SUCCEEDED"
  PROVE  Normalise(AsHandlerValue(answer)).status = "SUCCEEDED"
BY DEF Normalise, AsHandlerValue, Unusable, ClaimedStatus, ClaimsStatus, Status, TerminalStatus,
       InFlightStatus, Outcome

Unchanged(t) == outcome'[t] = outcome[t]

\* A report that neither claims a success nor gives a job up.
FailsOutright(t) ==
  outcome'[t].status # "SUCCEEDED" /\ outcome'[t].code # "RUNTIME_WAIT_TIMEOUT"

ReportsJob(t) ==
  phase[t] = "settled" /\ outcome'[t] = TaskOutcome(JobOutcome(t).status, JobOutcome(t).code)

GivesUp(t) ==
  /\ outcome'[t] = TaskOutcome("TIMED_OUT", "RUNTIME_WAIT_TIMEOUT")
  /\ CancelAbandoned(t) /\ phase[t] # "unknown"

LEMMA KindsOfReport ==
  ASSUME PlanAssumption, PlanContext, \A r \in Requests : JobsFollow(r),
         [Next]_allVars, NEW t \in Tasks
  PROVE  Unchanged(t) \/ FailsOutright(t) \/ ReportsJob(t) \/ GivesUp(t)
<1> USE DEF Unchanged, FailsOutright, TaskOutcome
<1>1. ASSUME NEW r \in Requests, NEW s \in {"CANCELLED", "FAILED"}, NEW c, Record(Task(r), s, c),
             c # "RUNTIME_WAIT_TIMEOUT"
      PROVE  Unchanged(t) \/ FailsOutright(t)
  BY <1>1 DEF Record, PlanContext, LedgerInv
<1>2. ASSUME NEW r \in Requests,
             StartPlan(r) \/ RefusePlan(r) \/ ListPlan(r) \/ PickReady(r) \/ BatchEnds(r)
             \/ TakeTask(r) \/ QueueTask(r) \/ WaitTimesOut(r)
             \/ CollectResults(r) \/ ShowTask(r) \/ FinishPlan(r)
      PROVE  Unchanged(t)
  BY <1>2 DEF StartPlan, RefusePlan, ListPlan, PickReady, BatchEnds, TakeTask, QueueTask,
              WaitTimesOut, CollectResults, ShowTask, FinishPlan
<1>3. ASSUME NEW r \in Requests, FailUnresolvable(r)
      PROVE  Unchanged(t) \/ FailsOutright(t)
  BY <1>3 DEF FailUnresolvable
<1>4. ASSUME NEW r \in Requests, SkipTask(r) \/ QueueRefused(r)
      PROVE  Unchanged(t) \/ FailsOutright(t)
  BY <1>1, <1>4 DEF SkipTask, QueueRefused
<1>5. ASSUME NEW r \in Requests, CheckCapability(r)
      PROVE  Unchanged(t) \/ FailsOutright(t)
  <2>1. CASE HasCapableAgent(Required[Task(r)])
    BY <1>5, <2>1 DEF CheckCapability
  <2>2. CASE ~HasCapableAgent(Required[Task(r)])
    BY <1>1, <1>5, <2>2 DEF CheckCapability
  <2> QED
    BY <2>1, <2>2
<1>6. ASSUME NEW r \in Requests, WaitEnds(r)
      PROVE  Unchanged(t) \/ ReportsJob(t)
  BY <1>6 DEF WaitEnds, Record, ReportsJob, PlanContext, LedgerInv
<1>7. ASSUME NEW r \in Requests, Abandon(r)
      PROVE  Unchanged(t) \/ GivesUp(t)
  <2>1. Held(r) /\ Awaits(r)
    BY <1>7 DEF Abandon, Go, Held, Awaits
  <2>2. phase[Task(r)] # "unknown"
    BY <2>1, TaskInHand DEF PlanContext, JobsFollow
  <2> QED
    BY <1>7, <2>2 DEF Abandon, Record, GivesUp, PlanContext, LedgerInv
<1>8. ASSUME NEW u \in Tasks, HandlerStarts(u) \/ HandlerSettles(u) \/ WorkerGivesUp(u)
      PROVE  Unchanged(t)
  BY <1>8 DEF HandlerStarts, HandlerSettles, WorkerGivesUp, planVars
<1>9. CASE CloseRuntime \/ StopRuntime \/ UNCHANGED planVars \/ UNCHANGED allVars
  BY <1>9 DEF CloseRuntime, StopRuntime, planVars, allVars
<1> QED
  BY <1>2, <1>3, <1>4, <1>5, <1>6, <1>7, <1>8, <1>9 DEF Next, ExecutePlan, RuntimeStep

------------------------------------------------------------------------------
(* The inductive invariant *)

PlanInv ==
  /\ PlanContext /\ JobTypes /\ delivered \subseteq Tasks /\ running \in BOOLEAN
  /\ \A r \in Requests : JobsFollow(r)
  /\ ReadyInv /\ TrackerInv
  /\ SuccessIsExecuted /\ AbandonedIsStopped

LEMMA PlanInitial == ASSUME PlanAssumption, Init PROVE PlanInv
<1> USE DEF Init, Job!Init
<1>1. AgentInv
  BY AgentInitial, AgentAssumption
<1>2. JobTypes /\ delivered \subseteq Tasks /\ running \in BOOLEAN
  BY DEF JobTypes, SettledHasResult, Job!Phase, NoResult, Job!NoResult, Outcome, Job!Outcome
<1>3. LoopInv
  BY PlansAreApart DEF LoopInv, LoopTypes, LoopOK, Where, PlanStatus, Due, Hand, Held, Shows
<1>4. LedgerInv
  BY PlansAreApart DEF LedgerInv, Ledger, Reported, Due
<1>5. \A r \in Requests : JobsFollow(r)
  BY PlansAreApart DEF JobsFollow, Due, Awaits
<1>6. ReadyInv /\ DeliveredIsReported
  BY DEF ReadyInv, Held, DeliveredIsReported
<1>7. TrackerInv
  <2>1. <<>> \in [{} -> Status]
    OBVIOUS
  <2> QED
    BY <2>1 DEF TrackerInv, TrackerTypeOK, Reported, Alone, Started, Listed
<1>8. SuccessIsExecuted /\ AbandonedIsStopped
  BY DEF SuccessIsExecuted, AbandonedIsStopped, Unreported, TaskOutcome
<1> QED
  BY <1>1, <1>2, <1>3, <1>4, <1>5, <1>6, <1>7, <1>8 DEF PlanInv, PlanContext, JobTypes

LEMMA PlanStep == ASSUME PlanAssumption, PlanInv, [Next]_allVars PROVE PlanInv'
<1> USE DEF PlanInv, PlanContext
<1>1. AgentInv' /\ [AgentNext]_agentVars
  BY StepsOfAgents, AgentStep, AgentAssumption
<1>2. JobTypes' /\ JobsKeep
  BY StepsOfJobs, JobStep
<1>3. LoopInv' /\ LedgerInv'
  BY LoopStep, LedgerStep
<1>4. \A r \in Requests : JobsFollow(r)'
  BY <1>2, JobsFollowStep
<1>5. ReadyInv' /\ TrackerInv'
  BY ReadyStep, TrackerStep
<1>6. DeliveredIsReported'
  <2> SUFFICES ASSUME NEW t \in Tasks, t \in delivered'
               PROVE  /\ phase'[t] = "settled" /\ dispatch'[t] = "done"
                      /\ verdict'[t] = Normalise(AsHandlerValue(result'[t].answer))
    BY DEF DeliveredIsReported, Report
  <2>1. CASE t \in delivered
    BY <1>1, <1>2, <2>1, DoneStays DEF DeliveredIsReported, JobsKeep, Report
  <2>2. CASE t \notin delivered
    <3>1. HandlerSettles(t) /\ ~asked[t] /\ dispatch[t] = "done"
      BY <2>2, DeliverySteps
    <3>2. verdict'[t] = Normalise(AsHandlerValue(result[t].answer))
      BY <3>1 DEF HandlerSettles, SettledAs, HandlerValue, Report
    <3>3. phase'[t] = "settled"
      BY <3>1 DEF HandlerSettles, SettledAs, Job!Settle, JobTypes
    <3> QED
      BY <1>1, <3>1, <3>2, <3>3, DoneStays
  <2> QED
    BY <2>1, <2>2
<1>7. delivered' \subseteq Tasks /\ running' \in BOOLEAN
  BY DeliverySteps, RunningSteps
<1>8. SuccessIsExecuted'
  <2> SUFFICES ASSUME NEW t \in Tasks, outcome'[t].status = "SUCCEEDED"
               PROVE  /\ outcome'[t].code = "AGENT" /\ t \in delivered'
                      /\ verdict'[t].status = "SUCCEEDED"
                      /\ dispatch'[t] = "done" /\ chosen'[t] # NoAgent
    BY DEF SuccessIsExecuted
  <2>1. /\ outcome'[t].code = "AGENT" /\ t \in delivered
        /\ verdict[t].status = "SUCCEEDED"
        /\ dispatch[t] = "done" /\ chosen[t] # NoAgent
    <3>1. CASE Unchanged(t)
      BY <3>1 DEF Unchanged, SuccessIsExecuted
    <3>2. CASE ReportsJob(t)
      <4>1. JobOutcome(t).status = "SUCCEEDED" /\ outcome'[t].code = JobOutcome(t).code
        BY <3>2 DEF ReportsJob, TaskOutcome
      <4>2. t \in delivered /\ JobOutcome(t).code = "AGENT" /\ result[t].answer.status = "SUCCEEDED"
        BY <4>1 DEF JobOutcome, TaskOutcome, Report
      <4>3. dispatch[t] = "done" /\ verdict[t] = Normalise(AsHandlerValue(result[t].answer))
        BY <4>2 DEF DeliveredIsReported, Report
      <4>4. result[t].answer \in Answer \cup {RaisedValue}
        BY DEF AgentInv, AgentTypeOK
      <4>5. verdict[t].status = "SUCCEEDED"
        BY <4>2, <4>3, <4>4, SuccessIsRead
      <4>6. chosen[t] # NoAgent
        BY <4>2, <4>3 DEF AgentInv, Reporting, IsReport
      <4> QED
        BY <4>1, <4>2, <4>3, <4>5, <4>6
    <3>3. CASE FailsOutright(t) \/ GivesUp(t)
      BY <3>3 DEF FailsOutright, GivesUp, TaskOutcome
    <3> QED
      BY <3>1, <3>2, <3>3, KindsOfReport
  <2>2. phase[t] = "settled"
    BY <2>1 DEF DeliveredIsReported
  <2>3. t \in delivered'
    BY <2>1, DeliveriesStay
  <2> QED
    BY <1>1, <1>2, <2>1, <2>2, <2>3, DoneStays DEF JobsKeep
<1>9. AbandonedIsStopped'
  <2> SUFFICES ASSUME NEW t \in Tasks, outcome'[t].code = "RUNTIME_WAIT_TIMEOUT"
               PROVE  phase'[t] = "settled" \/ asked'[t]
    BY DEF AbandonedIsStopped
  <2>1. CASE Unchanged(t)
    BY <1>2, <2>1 DEF Unchanged, AbandonedIsStopped, JobsKeep
  <2>2. CASE ReportsJob(t)
    BY <1>2, <2>2 DEF ReportsJob, JobsKeep
  <2>3. CASE GivesUp(t)
    <3>1. CASE phase[t] = "accepted"
      BY <2>3, <3>1 DEF GivesUp, CancelAbandoned, Job!Withdraw
    <3>2. CASE phase[t] = "begun"
      BY <2>3, <3>2 DEF GivesUp, CancelAbandoned, Job!Ask, JobTypes
    <3>3. CASE phase[t] = "settled"
      BY <1>2, <3>3 DEF JobsKeep
    <3> QED
      BY <2>3, <3>1, <3>2, <3>3 DEF GivesUp, JobTypes, Job!Phase
  <2>4. CASE FailsOutright(t)
    BY <2>4 DEF FailsOutright
  <2> QED
    BY <2>1, <2>2, <2>3, <2>4, KindsOfReport
<1> QED
  BY <1>1, <1>2, <1>3, <1>4, <1>5, <1>6, <1>7, <1>8, <1>9 DEF JobTypes

LEMMA PlanAlwaysInv == Spec => []PlanInv
<1>1. Init => PlanInv
  BY PlanInitial, PlanAssumption
<1>2. PlanInv /\ [Next]_allVars => PlanInv'
  BY PlanStep, PlanAssumption
<1> QED
  BY <1>1, <1>2, PTL DEF Spec

------------------------------------------------------------------------------
(* The contract of a plan *)

\* What the contract finds unsettled is due, and what has its turn is ready.
LEMMA ContractTerms ==
  ASSUME PlanAssumption, LoopInv, LedgerInv, NEW r \in Requests
  PROVE  /\ Contract!Unsettled(r) = Due(r)
         /\ \A t : Contract!HasItsTurn(r, t) <=> Ready(r, t)
         /\ Contract!Unreported = Unreported
<1>1. TasksOf[r] = PlanTasks(r)
  BY DEF TasksOf
<1>2. Due(r) \subseteq PlanTasks(r)
  BY TaskInHand DEF LoopInv, LoopOK, Due, Hand
<1>3. Contract!Unreported = Unreported
  BY DEF Contract!Unreported, Unreported, TaskOutcome
<1>4. Contract!Unsettled(r) = Due(r)
  BY <1>1, <1>2, <1>3 DEF Contract!Unsettled, LedgerInv, Ledger, Reported
<1> QED
  BY <1>1, <1>2, <1>3, <1>4 DEF Contract!HasItsTurn, Ready, LedgerInv, Ledger

\* A request that goes on is taken up and remains so.
StageAt == [r \in Requests |-> StageOf(request[r])]

Taken == {"starting", "picking", "next", "checking", "queuing", "waiting", "abandoning",
          "failing", "showing"}

LEMMA GoingOnIsTaken ==
  ASSUME LoopTypes, NEW r \in Requests, request[r] \in Taken,
         \/ UNCHANGED request
         \/ \E to \in Taken : request' = [request EXCEPT ![r] = to]
  PROVE  StageAt[r] = "taken" /\ UNCHANGED StageAt
<1>1. \A to \in Taken : StageOf(to) = "taken"
  BY DEF Taken, StageOf
<1>2. \A q \in Requests : StageOf(request'[q]) = StageOf(request[q])
  BY <1>1 DEF LoopTypes
<1> QED
  BY <1>1, <1>2 DEF StageAt

\* The results a wait can end with are results of a task that was tried.
LEMMA JobOutcomeIsTried ==
  ASSUME AgentInv, SettledHasResult, DeliveredIsReported, NEW t \in Tasks, phase[t] = "settled"
  PROVE  TaskOutcome(JobOutcome(t).status, JobOutcome(t).code) \in Contract!Tried
<1> USE DEF Contract!Tried, JobOutcome, TaskOutcome, Contract!TerminalStatus, TerminalStatus,
            Contract!ErrorCode, ErrorCode
<1>1. CASE t \in delivered
  <2>1. result[t].answer.status \in TerminalStatus
    BY <1>1 DEF DeliveredIsReported, AgentInv, Reporting, IsReport
  <2> QED
    BY <1>1, <2>1 DEF Report
<1>2. CASE t \notin delivered
  <2>1. verdict[t].status \in TerminalStatus /\ verdict[t].code \in ErrorCode
    BY DEF SettledHasResult, JobResult
  <2> QED
    BY <1>2, <2>1
<1> QED
  BY <1>1, <1>2

\* A task in hand that is reported was tried.
LEMMA InHandIsTried ==
  ASSUME PlanAssumption, PlanContext, ReadyInv, NEW r \in Requests, Held(r),
         request' = [request EXCEPT ![r] = "next"],
         NEW s, NEW c, TaskOutcome(s, c) \in Contract!Tried, Record(Task(r), s, c)
  PROVE  Task(r) \in TasksOf[r] /\ Contract!Try(r, Task(r))
<1> DEFINE t == Task(r)
<1>1. t \in Tasks /\ t \in PlanTasks(r) /\ t \in Due(r) /\ t \in batch[r]
  BY TaskInHand DEF PlanContext
<1>2. outcome[t] = Contract!Unreported
  BY <1>1, ContractTerms DEF PlanContext, LedgerInv, Ledger, Reported
<1>3. outcome' = [outcome EXCEPT ![t] = TaskOutcome(s, c)] /\ outcome'[t] = TaskOutcome(s, c)
  BY <1>1 DEF Record, PlanContext, LedgerInv
<1>4. StageAt[r] = "taken" /\ UNCHANGED StageAt
  BY GoingOnIsTaken DEF PlanContext, LoopInv, Held, Taken
<1>5. Contract!HasItsTurn(r, t)
  BY <1>1, ContractTerms DEF ReadyInv, PlanContext, Held, Shows
<1>6. \A d \in DependsOn[t] : outcome[d].status = "SUCCEEDED"
  BY DEF ReadyInv, Succeeds
<1> QED
  BY <1>1, <1>2, <1>3, <1>4, <1>5, <1>6 DEF Contract!Try, StageAt, TasksOf

LEMMA ContractStep ==
  ASSUME PlanAssumption, PlanContext, ReadyInv, [Next]_allVars
  PROVE  [Contract!Next]_(Contract!contractVars)
<1> USE DEF Contract!contractVars
<1>1. ASSUME NEW r \in Requests, Own(r)
      PROVE  Contract!Next \/ UNCHANGED <<StageAt, outcome>>
  <2> USE DEF PlanContext, LoopInv
  <2>1. CASE StartPlan(r) \/ RefusePlan(r)
    <3>1. PICK to \in {"starting", "refused"} :
            /\ request[r] = "idle" /\ request' = [request EXCEPT ![r] = to] /\ UNCHANGED outcome
      BY <2>1 DEF StartPlan, RefusePlan, Go
    <3>2. /\ StageAt[r] = "asked" /\ StageOf(to) \in {"taken", "refused"}
          /\ StageAt' = [StageAt EXCEPT ![r] = StageOf(to)]
      BY <3>1 DEF StageAt, StageOf, LoopTypes
    <3>3. Contract!Enter(r)
      BY <3>1, <3>2 DEF Contract!Enter, StageAt
    <3> QED
      BY <3>3 DEF Contract!Next
  <2>2. CASE FinishPlan(r)
    <3>1. /\ request[r] = "showing" /\ request' = [request EXCEPT ![r] = "done"]
          /\ UNCHANGED outcome /\ remaining[r] = {}
      BY <2>2 DEF FinishPlan, Go, LoopOK, Shows
    <3>2. StageAt[r] = "taken" /\ StageAt' = [StageAt EXCEPT ![r] = "answered"]
      BY <3>1 DEF StageAt, StageOf, LoopTypes
    <3>3. Contract!Unsettled(r) = {}
      BY <3>1, ContractTerms DEF Due, Hand, Held
    <3>4. Contract!Answer(r)
      BY <3>1, <3>2, <3>3 DEF Contract!Answer, StageAt
    <3> QED
      BY <3>4 DEF Contract!Next
  <2>3. CASE FailUnresolvable(r)
    <3>1. /\ request[r] = "picking" /\ request' = [request EXCEPT ![r] = "failing"]
          /\ remaining[r] # {}
          /\ \A t \in remaining[r] : ~Ready(r, t)
          /\ outcome' = [t \in Tasks |->
               IF t \in remaining[r] THEN TaskOutcome("FAILED", "DEPENDENCY_CYCLE_OR_MISSING")
               ELSE outcome[t]]
      BY <2>3 DEF FailUnresolvable, Go
    <3>2. StageAt[r] = "taken" /\ UNCHANGED StageAt
      BY <3>1, GoingOnIsTaken DEF Taken
    <3>3. Contract!Unsettled(r) = remaining[r]
      BY <3>1, ContractTerms DEF Due, Hand, Held
    <3>4. Contract!Unresolvable = TaskOutcome("FAILED", "DEPENDENCY_CYCLE_OR_MISSING")
      BY DEF Contract!Unresolvable, TaskOutcome
    <3>5. Contract!GiveUp(r)
      BY <3>1, <3>2, <3>3, <3>4, ContractTerms DEF Contract!GiveUp, StageAt
    <3> QED
      BY <3>5 DEF Contract!Next
  <2>4. CASE SkipTask(r)
    <3> DEFINE t == Task(r)
    <3>1. /\ request[r] = "next" /\ request' = [request EXCEPT ![r] = "next"] /\ batch[r] # {}
          /\ \E d \in DependsOn[t] : outcome[d].status # "SUCCEEDED"
          /\ outcome' = [outcome EXCEPT ![t] = TaskOutcome("CANCELLED", "DEPENDENCY_FAILED")]
      BY <2>4 DEF SkipTask, Go, Record, DependenciesFailed
    <3>2. t \in batch[r] /\ t \in PlanTasks(r) /\ t \in Due(r)
      BY <3>1, TaskIsOfBatch DEF Shows
    <3>3. outcome[t] = Contract!Unreported
      BY <3>2, ContractTerms DEF LedgerInv, Ledger, Reported
    <3>4. StageAt[r] = "taken" /\ UNCHANGED StageAt
      BY <3>1, GoingOnIsTaken DEF Taken
    <3>5. Contract!HasItsTurn(r, t)
      BY <3>1, <3>2, ContractTerms DEF ReadyInv, Shows
    <3>6. Contract!Skipped = TaskOutcome("CANCELLED", "DEPENDENCY_FAILED")
      BY DEF Contract!Skipped, TaskOutcome
    <3>7. Contract!Skip(r, t)
      BY <3>1, <3>3, <3>4, <3>5, <3>6 DEF Contract!Skip, StageAt
    <3>8. t \in TasksOf[r]
      BY <3>2 DEF TasksOf
    <3> QED
      BY <3>7, <3>8 DEF Contract!Next
  <2>5. CASE CheckCapability(r) \/ QueueRefused(r) \/ WaitEnds(r) \/ Abandon(r)
    <3>1. CASE CheckCapability(r) /\ HasCapableAgent(Required[Task(r)])
      <4>1. /\ request[r] = "checking" /\ request' = [request EXCEPT ![r] = "queuing"]
            /\ UNCHANGED outcome
        BY <3>1 DEF CheckCapability, Go
      <4> QED
        BY <4>1, GoingOnIsTaken DEF Taken
    <3>2. CASE ~(CheckCapability(r) /\ HasCapableAgent(Required[Task(r)]))
      <4>1. Held(r) /\ request' = [request EXCEPT ![r] = "next"]
        BY <2>5, <3>2 DEF CheckCapability, QueueRefused, WaitEnds, Abandon, Go, Held
      <4>2. \E s, c : Record(Task(r), s, c) /\ TaskOutcome(s, c) \in Contract!Tried
        <5>1. CASE WaitEnds(r)
          <6>1. Task(r) \in Tasks /\ phase[Task(r)] = "settled"
            BY <4>1, <5>1, TaskInHand DEF WaitEnds
          <6> QED
            BY <5>1, <6>1, JobOutcomeIsTried DEF WaitEnds
        <5>2. CASE ~WaitEnds(r)
          <6>1. /\ TaskOutcome("FAILED", "NO_CAPABLE_AGENT") \in Contract!Tried
                /\ TaskOutcome("FAILED", "RUNTIME_UNAVAILABLE") \in Contract!Tried
                /\ TaskOutcome("TIMED_OUT", "RUNTIME_WAIT_TIMEOUT") \in Contract!Tried
            BY DEF Contract!Tried, TaskOutcome, Contract!TerminalStatus
          <6> QED
            BY <2>5, <3>2, <5>2, <6>1 DEF CheckCapability, QueueRefused, Abandon
        <5> QED
          BY <5>1, <5>2
      <4>3. Task(r) \in TasksOf[r] /\ Contract!Try(r, Task(r))
        BY <4>1, <4>2, InHandIsTried
      <4> QED
        BY <4>3 DEF Contract!Next
    <3> QED
      BY <3>1, <3>2
  <2>6. CASE \/ ListPlan(r) \/ PickReady(r) \/ BatchEnds(r) \/ TakeTask(r) \/ QueueTask(r)
             \/ WaitTimesOut(r) \/ CollectResults(r) \/ ShowTask(r)
    <3>1. /\ request[r] \in Taken /\ UNCHANGED outcome
          /\ \/ UNCHANGED request
             \/ \E to \in Taken : request' = [request EXCEPT ![r] = to]
      BY <2>6 DEF ListPlan, PickReady, BatchEnds, TakeTask, QueueTask, WaitTimesOut,
                  CollectResults, ShowTask, Go, Taken
    <3> QED
      BY <3>1, GoingOnIsTaken
  <2> QED
    BY <1>1, <2>1, <2>2, <2>3, <2>4, <2>5, <2>6 DEF Own, ExecutePlan
<1>2. CASE UNCHANGED planVars
  BY <1>2 DEF planVars
<1>3. CASE \E r \in Requests : Own(r)
  BY <1>1, <1>3 DEF StageAt
<1> QED
  BY <1>2, <1>3, OthersStepsAreLocal

------------------------------------------------------------------------------
(* Theorems *)

\* Every variable has its type: among others a task's report is terminal,
\* whatever a job or an agent left (orchestrator.py:212-234).
THEOREM TypesHold == Spec => []PlanTypeOK
<1>1. PlanInv => PlanTypeOK
  BY DEF PlanInv, PlanContext, AgentInv, JobTypes, LoopInv, LoopTypes, LedgerInv, TrackerInv,
         TrackerTypeOK, PlanTypeOK
<1> QED
  BY <1>1, PlanAlwaysInv, PTL

\* docs/EXECUTION_PIPELINE.md:37: the Orchestrator does not "invent task
\* success".  A task reported as succeeded was executed by an agent that
\* answered so and stored so, whatever timed out, was cancelled or was stopped
\* on the way (Orchestrator._execute_task and _from_runtime_result).
THEOREM SuccessesAreExecuted == Spec => []SuccessIsExecuted
BY PlanAlwaysInv, PTL DEF PlanInv

\* A task whose wait timed out is settled or on its way to be cancelled, also
\* when cancel_job was refused (orchestrator.py:199-208).
THEOREM AbandonedAreStopped == Spec => []AbandonedIsStopped
BY PlanAlwaysInv, PTL DEF PlanInv

\* A task is queued only when all it depends on was reported as succeeded, for
\* any dependencies: cycles, missing tasks and tasks of other plans included
\* (orchestrator.py:82-126).
THEOREM DependentsHaveWaited == Spec => []DependentsWait
<1>1. PlanInv => DependentsWait
  BY DEF PlanInv, ReadyInv, Succeeds, DependentsWait
<1> QED
  BY <1>1, PlanAlwaysInv, PTL

\* A plan that is done has reported every task, and none of its jobs is left
\* waiting in the queue (orchestrator.py:81-140).
THEOREM PlansAreReported == Spec => []AllReported
<1>1. ASSUME PlanInv, NEW r \in Requests, request[r] = "done", NEW t \in PlanTasks(r)
      PROVE  Reported(t) /\ phase[t] # "accepted"
  <2>1. t \notin Due(r)
    BY <1>1 DEF PlanInv, PlanContext, LoopInv, LoopOK, Due, Hand, Held
  <2> QED
    BY <1>1, <2>1 DEF PlanInv, PlanContext, LedgerInv, Ledger, JobsFollow
<1>2. PlanInv => AllReported
  BY <1>1 DEF AllReported
<1> QED
  BY <1>2, PlanAlwaysInv, PTL

\* A report is not revised, neither by the late result of a job that was given
\* up nor by another request (orchestrator.py:236-244).
THEOREM ReportsAreNotRevised == Spec => ReportsAreFinal
<1>1. PlanInv /\ [Next]_allVars =>
        [\A t \in Tasks : Reported(t) => outcome'[t] = outcome[t]]_allVars
  BY ReportsStay, PlanAssumption DEF PlanInv
<1> QED
  BY <1>1, PlanAlwaysInv, PTL DEF Spec, ReportsAreFinal

\* The tracker, written by every request's thread without a lock, shows no end
\* that was not reported and no plan that is done as anything else, however the
\* two assignments of a start and the updates of other requests fall between
\* each other (backend/orchestrator/progress_tracker.py:32-64).
THEOREM TrackerStaysHonest == Spec => []TrackerIsHonest
<1>1. ASSUME PlanInv, NEW r \in Requests, request[r] = "done",
             NEW t \in PlanTasks(r) \cap DOMAIN tracker.entries
      PROVE  tracker.entries[t] = outcome[t].status
  <2>1. t \notin Due(r)
    BY <1>1 DEF PlanInv, PlanContext, LoopInv, LoopOK, Due, Hand, Held
  <2>2. Reported(t) /\ ~Lags(r, t)
    BY <1>1, <2>1 DEF PlanInv, PlanContext, LedgerInv, Ledger, Lags
  <2> QED
    BY <1>1, <2>2 DEF PlanInv, TrackerInv
<1>2. PlanInv => TrackerIsHonest
  BY <1>1 DEF PlanInv, TrackerInv, TrackerIsHonest, Alone, Listed
<1> QED
  BY <1>2, PlanAlwaysInv, PTL

\* execute_plan, among concurrent requests, a runtime that stops and agents that
\* hang, is the contract of a plan: each report has its reason and is made once,
\* and an answered plan has no task left (orchestrator.py:74-145).
THEOREM PlansKeepTheirContract == Spec => ContractSpec
<1>1. Init => Contract!Init
  BY DEF Init, Contract!Init, StageOf, Unreported, TaskOutcome, Contract!Unreported
<1>2. PlanInv /\ [Next]_allVars => [Contract!Next]_(Contract!contractVars)
  BY ContractStep, PlanAssumption DEF PlanInv
<1> QED
  BY <1>1, <1>2, PlanAlwaysInv, PTL DEF Spec, ContractSpec, Contract!Spec

\* The requests, with their waits that time out and the cancellations that
\* follow, ask of the runtime nothing its contract does not have, and see
\* nothing of a job it does not allow (runtime.py:160-179).
THEOREM ContractIsKept == Spec => Job!Spec
<1>1. Init => Job!Init
  BY DEF Init
<1>2. PlanInv /\ [Next]_allVars => [Job!Next]_(Job!jobVars)
  BY StepsOfJobs, PlanAssumption DEF PlanInv, PlanContext
<1> QED
  BY <1>1, <1>2, PlanAlwaysInv, PTL DEF Spec, Job!Spec
==============================================================================
