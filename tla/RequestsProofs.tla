---------------------------- MODULE RequestsProofs ----------------------------
(***************************************************************************)
(* Proofs about the lifespan of the application and about the requests it  *)
(* answers, for any number of requests.                                    *)
(***************************************************************************)
EXTENDS Requests, TLAPS

(***************************************************************************)
(* The inductive invariant of the lifespan.  What a Runtime is made of     *)
(* agrees in every phase, also after a start or a stop that failed; the    *)
(* phases then say which of the parts are there.                           *)
(***************************************************************************)
RuntimeAgrees ==
  /\ started => ~stopped /\ worker # "none"
  /\ worker = "running" => started

PhasesAgree ==
  /\ lifespan # "down" => container
  /\ lifespan \in {"manager", "serving"} => started
  /\ lifespan = "stopping runtime" => ~managing /\ ~connected

AppInv == AppTypeOK /\ RuntimeAgrees /\ PhasesAgree /\ DownIsStopped

LEMMA AppInitial == AppInit => AppInv
BY DEF AppInit, AppInv, AppTypeOK, RuntimeAgrees, PhasesAgree, DownIsStopped

LEMMA AppStep == AppInv /\ [AppNext]_appVars => AppInv'
<1> SUFFICES ASSUME AppInv, [AppNext]_appVars PROVE AppInv'
  OBVIOUS
<1> USE DEF AppInv, Moves, runtime, manager
<1>1. CASE Build
  <2>1. AppTypeOK'
    BY <1>1 DEF Build, AppTypeOK
  <2>2. RuntimeAgrees'
    BY <1>1 DEF Build, AppTypeOK, RuntimeAgrees
  <2>3. PhasesAgree'
    BY <1>1 DEF Build, AppTypeOK, RuntimeAgrees, PhasesAgree
  <2>4. DownIsStopped'
    BY <1>1 DEF Build, AppTypeOK, RuntimeAgrees, PhasesAgree, DownIsStopped
  <2> QED
    BY <2>1, <2>2, <2>3, <2>4
<1>2. CASE ReuseContainer
  <2>1. AppTypeOK'
    BY <1>2 DEF ReuseContainer, AppTypeOK
  <2>2. RuntimeAgrees'
    BY <1>2 DEF ReuseContainer, AppTypeOK, RuntimeAgrees
  <2>3. PhasesAgree'
    BY <1>2 DEF ReuseContainer, AppTypeOK, RuntimeAgrees, PhasesAgree
  <2>4. DownIsStopped'
    BY <1>2 DEF ReuseContainer, AppTypeOK, RuntimeAgrees, PhasesAgree, DownIsStopped
  <2> QED
    BY <2>1, <2>2, <2>3, <2>4
<1>3. CASE StartRuntime
  <2>1. AppTypeOK'
    BY <1>3 DEF StartRuntime, AppTypeOK
  <2>2. RuntimeAgrees'
    BY <1>3 DEF StartRuntime, AppTypeOK, RuntimeAgrees
  <2>3. PhasesAgree'
    BY <1>3 DEF StartRuntime, AppTypeOK, RuntimeAgrees, PhasesAgree
  <2>4. DownIsStopped'
    BY <1>3 DEF StartRuntime, AppTypeOK, RuntimeAgrees, PhasesAgree, DownIsStopped
  <2> QED
    BY <2>1, <2>2, <2>3, <2>4
<1>4. CASE StartRuntimeFails
  <2>1. AppTypeOK'
    BY <1>4 DEF StartRuntimeFails, AppTypeOK
  <2>2. RuntimeAgrees'
    <3>1. CASE UNCHANGED runtime
      BY <1>4, <3>1 DEF StartRuntimeFails, RuntimeAgrees
    <3>2. CASE started' = TRUE /\ stopped' = FALSE /\ worker' = "running"
      BY <1>4, <3>2 DEF RuntimeAgrees
    <3> QED
      BY <1>4, <3>1, <3>2 DEF StartRuntimeFails
  <2>3. PhasesAgree'
    BY <1>4 DEF StartRuntimeFails, AppTypeOK, RuntimeAgrees, PhasesAgree
  <2>4. DownIsStopped'
    BY <1>4 DEF StartRuntimeFails, AppTypeOK, RuntimeAgrees, PhasesAgree, DownIsStopped
  <2> QED
    BY <2>1, <2>2, <2>3, <2>4
<1>5. CASE StartManager
  <2>1. AppTypeOK'
    BY <1>5 DEF StartManager, AppTypeOK
  <2>2. RuntimeAgrees'
    BY <1>5 DEF StartManager, AppTypeOK, RuntimeAgrees
  <2>3. PhasesAgree'
    BY <1>5 DEF StartManager, AppTypeOK, RuntimeAgrees, PhasesAgree
  <2>4. DownIsStopped'
    BY <1>5 DEF StartManager, AppTypeOK, RuntimeAgrees, PhasesAgree, DownIsStopped
  <2> QED
    BY <2>1, <2>2, <2>3, <2>4
<1>6. CASE StartManagerCancelled
  <2>1. AppTypeOK'
    BY <1>6 DEF StartManagerCancelled, AppTypeOK
  <2>2. RuntimeAgrees'
    BY <1>6 DEF StartManagerCancelled, AppTypeOK, RuntimeAgrees
  <2>3. PhasesAgree'
    BY <1>6 DEF StartManagerCancelled, AppTypeOK, RuntimeAgrees, PhasesAgree
  <2>4. DownIsStopped'
    BY <1>6 DEF StartManagerCancelled, AppTypeOK, RuntimeAgrees, PhasesAgree, DownIsStopped
  <2> QED
    BY <2>1, <2>2, <2>3, <2>4
<1>7. CASE Connect
  <2>1. AppTypeOK'
    BY <1>7 DEF Connect, AppTypeOK
  <2>2. RuntimeAgrees'
    BY <1>7 DEF Connect, AppTypeOK, RuntimeAgrees
  <2>3. PhasesAgree'
    BY <1>7 DEF Connect, AppTypeOK, RuntimeAgrees, PhasesAgree
  <2>4. DownIsStopped'
    BY <1>7 DEF Connect, AppTypeOK, RuntimeAgrees, PhasesAgree, DownIsStopped
  <2> QED
    BY <2>1, <2>2, <2>3, <2>4
<1>8. CASE ShutDown
  <2>1. AppTypeOK'
    BY <1>8 DEF ShutDown, AppTypeOK
  <2>2. RuntimeAgrees'
    BY <1>8 DEF ShutDown, AppTypeOK, RuntimeAgrees
  <2>3. PhasesAgree'
    BY <1>8 DEF ShutDown, AppTypeOK, RuntimeAgrees, PhasesAgree
  <2>4. DownIsStopped'
    BY <1>8 DEF ShutDown, AppTypeOK, RuntimeAgrees, PhasesAgree, DownIsStopped
  <2> QED
    BY <2>1, <2>2, <2>3, <2>4
<1>9. CASE Hang
  <2>1. AppTypeOK'
    BY <1>9 DEF Hang, AppTypeOK
  <2>2. RuntimeAgrees'
    BY <1>9 DEF Hang, AppTypeOK, RuntimeAgrees
  <2>3. PhasesAgree'
    BY <1>9 DEF Hang, AppTypeOK, RuntimeAgrees, PhasesAgree
  <2>4. DownIsStopped'
    BY <1>9 DEF Hang, AppTypeOK, RuntimeAgrees, PhasesAgree, DownIsStopped
  <2> QED
    BY <2>1, <2>2, <2>3, <2>4
<1>10. CASE ComeBack
  <2>1. AppTypeOK'
    BY <1>10 DEF ComeBack, AppTypeOK
  <2>2. RuntimeAgrees'
    BY <1>10 DEF ComeBack, AppTypeOK, RuntimeAgrees
  <2>3. PhasesAgree'
    BY <1>10 DEF ComeBack, AppTypeOK, RuntimeAgrees, PhasesAgree
  <2>4. DownIsStopped'
    BY <1>10 DEF ComeBack, AppTypeOK, RuntimeAgrees, PhasesAgree, DownIsStopped
  <2> QED
    BY <2>1, <2>2, <2>3, <2>4
<1>11. CASE StopManager
  <2>1. AppTypeOK'
    BY <1>11 DEF StopManager, AppTypeOK
  <2>2. RuntimeAgrees'
    BY <1>11 DEF StopManager, AppTypeOK, RuntimeAgrees
  <2>3. PhasesAgree'
    BY <1>11 DEF StopManager, AppTypeOK, RuntimeAgrees, PhasesAgree
  <2>4. DownIsStopped'
    BY <1>11 DEF StopManager, AppTypeOK, RuntimeAgrees, PhasesAgree, DownIsStopped
  <2> QED
    BY <2>1, <2>2, <2>3, <2>4
<1>12. CASE StopManagerCancelled
  <2>1. AppTypeOK'
    BY <1>12 DEF StopManagerCancelled, AppTypeOK
  <2>2. RuntimeAgrees'
    BY <1>12 DEF StopManagerCancelled, AppTypeOK, RuntimeAgrees
  <2>3. PhasesAgree'
    BY <1>12 DEF StopManagerCancelled, AppTypeOK, RuntimeAgrees, PhasesAgree
  <2>4. DownIsStopped'
    BY <1>12 DEF StopManagerCancelled, AppTypeOK, RuntimeAgrees, PhasesAgree, DownIsStopped
  <2> QED
    BY <2>1, <2>2, <2>3, <2>4
<1>13. CASE StopRuntime
  <2>1. AppTypeOK'
    BY <1>13 DEF StopRuntime, AppTypeOK
  <2>2. RuntimeAgrees'
    BY <1>13 DEF StopRuntime, AppTypeOK, RuntimeAgrees
  <2>3. PhasesAgree'
    BY <1>13 DEF StopRuntime, AppTypeOK, RuntimeAgrees, PhasesAgree
  <2>4. DownIsStopped'
    BY <1>13 DEF StopRuntime, AppTypeOK, RuntimeAgrees, PhasesAgree, DownIsStopped
  <2> QED
    BY <2>1, <2>2, <2>3, <2>4
<1>14. CASE UNCHANGED appVars
  <2>1. AppTypeOK'
    BY <1>14 DEF appVars, AppTypeOK
  <2>2. RuntimeAgrees'
    BY <1>14 DEF appVars, AppTypeOK, RuntimeAgrees
  <2>3. PhasesAgree'
    BY <1>14 DEF appVars, AppTypeOK, RuntimeAgrees, PhasesAgree
  <2>4. DownIsStopped'
    BY <1>14 DEF appVars, AppTypeOK, RuntimeAgrees, PhasesAgree, DownIsStopped
  <2> QED
    BY <2>1, <2>2, <2>3, <2>4
<1> QED
  BY <1>1, <1>2, <1>3, <1>4, <1>5, <1>6, <1>7, <1>8, <1>9, <1>10, <1>11, <1>12, <1>13, <1>14 DEF AppNext

LEMMA AppGuarantees == AppInv => ServingIsHealthy /\ DownIsStopped
BY DEF AppInv, AppTypeOK, RuntimeAgrees, PhasesAgree, ServingIsHealthy, Healthy

\* Every step of a request leaves the application alone.
LEMMA RequestsKeepApp == [Next]_vars => [AppNext]_appVars
BY DEF Next, vars

LEMMA AppAlwaysInv == Spec => []AppInv
<1>1. Init => AppInv
  BY AppInitial DEF Init
<1>2. AppInv /\ [Next]_vars => AppInv'
  BY AppStep, RequestsKeepApp
<1> QED
  BY <1>1, <1>2, PTL DEF Spec

\* While the application serves it is healthy, whatever failed before
\* (backend/app/main.py:58, api/routes/health.py).
THEOREM ServesHealthy == Spec => []ServingIsHealthy
BY AppAlwaysInv, AppGuarantees, PTL

\* When a lifespan is over, and its shutdown was not cut short, nothing of it
\* goes on (backend/app/main.py:64-69).
THEOREM LeavesNothing == Spec => []DownIsStopped
BY AppAlwaysInv, AppGuarantees, PTL

------------------------------------------------------------------------------
(* Requests *)

(***************************************************************************)
(* The inductive invariant of a request: where it is says at which         *)
(* endpoint it came in, what the Brain and the Planner have found, and     *)
(* that nothing was queued or stored too early.                            *)
(***************************************************************************)
NothingYet(r) ==
  pc[r] \in {"unsent", "new", "analyzing", "planning", "executing"} =>
    r \notin jobs \cup entries

OnItsWay(r) ==
  /\ pc[r] = "analyzing" => endpoint[r] # "/orchestrator/request"
  /\ pc[r] \in {"planning", "executing"} => endpoint[r] # "/brain/analyze"
  /\ pc[r] = "storing" => endpoint[r] = "/brain/execute"

Agreed(r) ==
  /\ pc[r] \in {"executing", "storing"} => Supported(text[r])
  /\ pc[r] \in {"planning", "executing", "storing"} /\ endpoint[r] = "/brain/execute" =>
       goals[r] = Decision(text[r])

Told(r) ==
  pc[r] = "answered" =>
    /\ r \in jobs \cup entries => answer[r] = 200
    /\ endpoint[r] = "/brain/execute" =>
         /\ answer[r] = 200 => r \in entries \cup warned
         /\ r \in jobs => goals[r] = "execute-diagnostic"
    /\ endpoint[r] = "/brain/analyze" => r \notin jobs \cup entries

RequestShape ==
  /\ pc \in [Request -> {"unsent", "new", "analyzing", "planning", "executing", "storing",
                         "answered"}]
  /\ DOMAIN endpoint = Request /\ DOMAIN text = Request
  /\ DOMAIN goals = Request /\ DOMAIN answer = Request
  /\ \A r \in Request : endpoint[r] \in Endpoint

Good(r) == NothingYet(r) /\ OnItsWay(r) /\ Agreed(r) /\ Told(r)

RequestInv == RequestShape /\ \A r \in Request : Good(r)

\* What the Planner lets through the Brain has decided to execute.
LEMMA SupportedIsDiagnostic ==
  ASSUME NEW t, Supported(t)
  PROVE  Decision(t) = "execute-diagnostic"
BY DEF Supported, Decision, Diagnostic

LEMMA RequestInitial == Init => RequestInv
BY DEF Init, RequestInv, RequestShape, Endpoint, Good, NothingYet, OnItsWay, Agreed, Told

\* A step of one request leaves what the others have.
LEMMA OthersStay ==
  ASSUME RequestShape, NEW r \in Request, NEW q \in Request, q # r, Ask(r) \/ Handle(r)
  PROVE  /\ pc'[q] = pc[q] /\ endpoint'[q] = endpoint[q] /\ text'[q] = text[q]
         /\ goals'[q] = goals[q] /\ answer'[q] = answer[q]
         /\ q \in jobs' <=> q \in jobs
         /\ q \in entries' <=> q \in entries
         /\ q \in warned' <=> q \in warned
<1> USE DEF RequestShape, Goes, Answers, asked
<1>1. CASE Ask(r)
  BY <1>1 DEF Ask
<1>2. CASE Reject(r) \/ PlanRefused(r)
  BY <1>2 DEF Reject, PlanRefused
<1>3. CASE Accept(r) \/ Plan(r)
  BY <1>3 DEF Accept, Plan
<1>4. CASE Analyze(r)
  BY <1>4 DEF Analyze
<1>5. CASE Execute(r)
  BY <1>5 DEF Execute
<1>6. CASE Store(r)
  BY <1>6 DEF Store
<1> QED
  BY <1>1, <1>2, <1>3, <1>4, <1>5, <1>6 DEF Handle

LEMMA ShapeStays ==
  ASSUME RequestShape, NEW r \in Request, Ask(r) \/ Handle(r)
  PROVE  RequestShape'
<1> USE DEF RequestShape, Goes, Answers, asked
<1>1. CASE Ask(r)
  BY <1>1 DEF Ask
<1>2. CASE Reject(r) \/ PlanRefused(r)
  BY <1>2 DEF Reject, PlanRefused
<1>3. CASE Accept(r) \/ Plan(r)
  BY <1>3 DEF Accept, Plan
<1>4. CASE Analyze(r)
  BY <1>4 DEF Analyze
<1>5. CASE Execute(r)
  BY <1>5 DEF Execute
<1>6. CASE Store(r)
  BY <1>6 DEF Store
<1> QED
  BY <1>1, <1>2, <1>3, <1>4, <1>5, <1>6 DEF Handle

LEMMA GoodStays ==
  ASSUME RequestShape, NEW r \in Request, Good(r), Ask(r) \/ Handle(r)
  PROVE  Good(r)'
<1> USE DEF RequestShape, Endpoint, Goes, Answers, asked,
            Good, NothingYet, OnItsWay, Agreed, Told
<1>1. CASE Ask(r)
  BY <1>1 DEF Ask
<1>2. CASE Reject(r)
  BY <1>2 DEF Reject
<1>3. CASE Accept(r)
  BY <1>3 DEF Accept
<1>4. CASE Analyze(r)
  BY <1>4 DEF Analyze
<1>5. CASE PlanRefused(r)
  BY <1>5 DEF PlanRefused
<1>6. CASE Plan(r)
  BY <1>6 DEF Plan
<1>7. CASE Execute(r)
  BY <1>7, SupportedIsDiagnostic DEF Execute
<1>8. CASE Store(r)
  BY <1>8, SupportedIsDiagnostic DEF Store
<1> QED
  BY <1>1, <1>2, <1>3, <1>4, <1>5, <1>6, <1>7, <1>8 DEF Handle

LEMMA RequestStep == RequestInv /\ [Next]_vars => RequestInv'
<1> SUFFICES ASSUME RequestInv, [Next]_vars PROVE RequestInv'
  OBVIOUS
<1>1. CASE UNCHANGED requestVars
  BY <1>1 DEF RequestInv, RequestShape, Good, NothingYet, OnItsWay, Agreed, Told,
              requestVars, asked
<1>2. ASSUME NEW r \in Request, Ask(r) \/ Handle(r)
      PROVE  RequestInv'
  <2>1. RequestShape'
    BY <1>2, ShapeStays DEF RequestInv
  <2>2. ASSUME NEW q \in Request PROVE Good(q)'
    <3>1. CASE q = r
      BY <1>2, <3>1, GoodStays DEF RequestInv
    <3>2. CASE q # r
      BY <1>2, <3>2, OthersStay DEF RequestInv, Good, NothingYet, OnItsWay, Agreed, Told
    <3> QED
      BY <3>1, <3>2
  <2> QED
    BY <2>1, <2>2 DEF RequestInv
<1> QED
  BY <1>1, <1>2 DEF Next, vars

\* An answer tells what has happened, wherever the application stops on the way
\* and for any number of requests (services/development_request_service.py:35).
THEOREM AnswersAreTrue == Spec => []AnswersTellWhatHappened
<1>1. RequestInv => AnswersTellWhatHappened
  BY DEF RequestInv, Good, Told, AnswersTellWhatHappened
<1> QED
  BY <1>1, RequestInitial, RequestStep, PTL DEF Spec
==============================================================================
