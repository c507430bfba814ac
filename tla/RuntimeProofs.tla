---------------------------- MODULE RuntimeProofs ----------------------------
(***************************************************************************)
(* Proofs about Runtime for any jobs, priorities, handler values and       *)
(* number of worker threads: the runtime uses the queue only through its   *)
(* operations, so what TaskQueueProofs shows of the queue holds of it; on  *)
(* top of that, the safety of the worker's loop and of the lifecycle.      *)
(***************************************************************************)
EXTENDS Runtime, TaskQueueProofs

\* What the hands of a worker thread hold: a job the queue knows, a value the
\* handler really left, a result that may be handed in.
HandInv ==
  \A t \in Threads :
    /\ wpc[t] \in {"marking"} \cup Holding => wjob[t] \in known
    /\ wpc[t] = "waiting" =>
         /\ handler[wjob[t]] # "none"
         /\ handler[wjob[t]] = "returned" => raw[wjob[t]] \in Returns
    /\ wpc[t] = "completing" => outcome[t] \in WorkerResults

BaseInv == QueueInv /\ TypeOK /\ HandInv

\* The results the worker makes itself.
LEMMA OwnResults ==
  /\ JobCancelled \in WorkerResults
  /\ Outcome("TIMED_OUT", "JOB_TIMEOUT") \in WorkerResults
  /\ Outcome("FAILED", "HANDLER_NOT_FOUND") \in WorkerResults
  /\ \A v \in Returns : Normalise(v) \in WorkerResults
  BY DEF WorkerResults

LEMMA BaseInit == Init => BaseInv
<1> SUFFICES ASSUME Init PROVE BaseInv
  OBVIOUS
<1>1. QueueInv
  BY QueueInvInit DEF Init
<1>2. WorkerTypeOK
  BY DEF Init, WorkerInit, WorkerTypeOK, Location
<1>3. TypeOK
  BY <1>1, <1>2 DEF Init, TypeOK, QueueInv, Call
<1>4. HandInv
  BY DEF Init, WorkerInit, HandInv, Holding
<1> QED
  BY <1>1, <1>3, <1>4 DEF BaseInv

\* A step of the runtime is one operation of the queue, or leaves it alone.
LEMMA QueueStep ==
  ASSUME BaseInv, [Next]_vars
  PROVE  [QueueNext]_queueVars
<1> USE DEF BaseInv
<1>1. ASSUME NEW t \in Threads, WorkerStep(t)
      PROVE  [QueueNext]_queueVars
  <2>1. CASE GoOn(t) \/ Exit(t)
    BY <2>1 DEF GoOn, Exit
  <2>2. CASE Fetch(t)
    <3>1. PICK j \in heap : Dequeue(j)
      BY <2>2 DEF Fetch
    <3>2. j \in Jobs
      BY DEF QueueInv, QueueTypeOK
    <3> QED
      BY <3>1, <3>2 DEF QueueNext
  <2>3. CASE FetchNothing(t)
    BY <2>3 DEF FetchNothing, QueueNext
  <2>4. CASE Mark(t)
    <3>1. wjob[t] \in known /\ MarkRunning(wjob[t])
      BY <2>4 DEF Mark, HandInv
    <3> QED
      BY <3>1 DEF QueueNext
  <2>5. CASE ResolveHandler(t)
    BY <2>5 DEF ResolveHandler, StartHandler, HandlerMissing, Deliver
  <2>6. CASE NoticeCancellation(t) \/ TimeOut(t) \/ Collect(t)
    BY <2>6 DEF NoticeCancellation, TimeOut, Collect, Deliver
  <2>7. CASE HandIn(t) \/ HandInRaises(t)
    <3>1. wpc[t] = "completing" /\ Complete(wjob[t], outcome[t])
      BY <2>7 DEF HandIn, HandInRaises
    <3>2. wjob[t] \in Jobs /\ outcome[t] \in Offered
      BY <3>1, WorkerAssumption DEF HandInv, Holding, QueueInv, QueueTypeOK
    <3> QED
      BY <3>1, <3>2 DEF QueueNext
  <2> QED
    BY <1>1, <2>1, <2>2, <2>3, <2>4, <2>5, <2>6, <2>7 DEF WorkerStep
<1>2. ASSUME NEW j \in Jobs, HandlerStep(j)
      PROVE  [QueueNext]_queueVars
  BY <1>2 DEF HandlerStep, HandlerReturns, LateReturn
<1>3. CASE LifecycleStep
  <2>1. CASE ForceShutdown \/ CloseQueue
    BY <2>1 DEF ForceShutdown, CloseQueue, QueueNext
  <2>2. CASE ~(ForceShutdown \/ CloseQueue)
    BY <1>3, <2>2 DEF LifecycleStep, FinishStart, StartRefused, DrainEnds,
         ForcedJoinEnds, UnloadRaises, Announce
  <2> QED
    BY <2>1, <2>2
<1>4. CASE BeginStart
  BY <1>4 DEF BeginStart, QueueNext
<1>5. CASE BeginStop
  BY <1>5 DEF BeginStop
<1>6. ASSUME NEW j \in Jobs, EnqueueJob(j) \/ CancelJob(j)
      PROVE  [QueueNext]_queueVars
  BY <1>6 DEF EnqueueJob, CancelJob, QueueNext
<1>7. ASSUME NEW n \in Names, RegisterHandler(n) \/ UnregisterHandler(n)
      PROVE  [QueueNext]_queueVars
  BY <1>7 DEF RegisterHandler, UnregisterHandler
<1>8. CASE UNCHANGED vars
  BY <1>8 DEF vars
<1> QED
  BY <1>1, <1>2, <1>3, <1>4, <1>5, <1>6, <1>7, <1>8 DEF Next

\* The store never forgets a job.
LEMMA KnownGrows ==
  ASSUME [QueueNext]_queueVars
  PROVE  known \subseteq known'
<1>1. ASSUME NEW j \in Jobs, NEW r \in Offered, Complete(j, r)
      PROVE  known \subseteq known'
  BY <1>1 DEF Complete
<1>2. ASSUME NEW j \in Jobs, Enqueue(j) \/ Dequeue(j) \/ Cancel(j)
      PROVE  known \subseteq known'
  BY <1>2 DEF Enqueue, Dequeue, Cancel
<1>3. ASSUME NEW j \in known, MarkRunning(j)
      PROVE  known \subseteq known'
  BY <1>3 DEF MarkRunning
<1>4. ASSUME NEW p \in BOOLEAN, Shutdown(p)
      PROVE  known \subseteq known'
  BY <1>4 DEF Shutdown
<1>5. CASE Initialize \/ DequeueNothing \/ UNCHANGED queueVars
  BY <1>5 DEF Initialize, DequeueNothing, queueVars
<1> QED
  BY <1>1, <1>2, <1>3, <1>4, <1>5 DEF QueueNext

\* A worker action keeps the types and the contents of the hands.
LEMMA WorkerStepKeeps ==
  ASSUME BaseInv, NEW t \in Threads, WorkerStep(t), known \subseteq known'
  PROVE  WorkerTypeOK' /\ HandInv'
<1> USE DEF BaseInv
<1>0. /\ WorkerTypeOK /\ QueueTypeOK
      /\ wpc[t] \in {"marking"} \cup Holding => wjob[t] \in Jobs
  BY DEF TypeOK, QueueInv, QueueTypeOK, HandInv
<1>1. CASE GoOn(t) \/ Exit(t)
  <2>1. \E to \in {"fetching", "dead"} : wpc' = [wpc EXCEPT ![t] = to]
    BY <1>1 DEF GoOn, Exit, Goto
  <2>2. UNCHANGED <<queueVars, controlVars, wjob, outcome, handlerVars>>
    BY <1>1 DEF GoOn, Exit
  <2> QED
    BY <1>0, <2>1, <2>2 DEF queueVars, controlVars, handlerVars, WorkerTypeOK,
         HandInv, Location, Holding
<1>2. CASE Fetch(t)
  <2>1. PICK j \in heap : wjob' = [wjob EXCEPT ![t] = j]
    BY <1>2 DEF Fetch
  <2>2. /\ wpc' = [wpc EXCEPT ![t] = "marking"]
        /\ UNCHANGED <<controlVars, outcome, handlerVars>>
    BY <1>2 DEF Fetch, Goto
  <2>3. j \in Jobs /\ j \in known
    BY <1>0 DEF QueueTypeOK
  <2> QED
    BY <1>0, <2>1, <2>2, <2>3 DEF controlVars, handlerVars, WorkerTypeOK,
         HandInv, Location, Holding
<1>3. CASE FetchNothing(t)
  BY <1>0, <1>3 DEF FetchNothing, Goto, controlVars, handlerVars, WorkerTypeOK,
       HandInv, Location, Holding
<1>4. CASE Mark(t)
  <2>1. UNCHANGED <<controlVars, handlerVars>> /\ wpc[t] = "marking"
    BY <1>4 DEF Mark
  <2>2. CASE MayRun(wjob[t])
    BY <1>0, <1>4, <2>1, <2>2 DEF Mark, Goto, controlVars, handlerVars, WorkerTypeOK,
         HandInv, Location, Holding
  <2>3. CASE ~MayRun(wjob[t])
    BY <1>0, <1>4, <2>1, <2>3 DEF Mark, Goto, LetGo, controlVars, handlerVars,
         WorkerTypeOK, HandInv, Location, Holding
  <2> QED
    BY <2>2, <2>3
<1>5. ASSUME NEW from \in Holding, NEW r \in WorkerResults, Deliver(t, from, r)
      PROVE  WorkerTypeOK' /\ HandInv'
  BY <1>0, <1>5 DEF Deliver, Goto, queueVars, controlVars, handlerVars,
       WorkerTypeOK, HandInv, Location, Holding
<1>6. CASE ResolveHandler(t)
  <2>1. CASE HandlerMissing(t)
    BY <1>5, <2>1, OwnResults DEF HandlerMissing, Holding
  <2>2. CASE StartHandler(t)
    <3>1. /\ wpc[t] = "starting"
          /\ wpc' = [wpc EXCEPT ![t] = "waiting"]
          /\ handler' = [handler EXCEPT ![wjob[t]] = "executing"]
          /\ UNCHANGED <<known, thread, stopRequested, drainOnStop, wjob, outcome, raw>>
      BY <2>2 DEF StartHandler, Goto, queueVars, controlVars
    <3>2. wjob[t] \in Jobs
      BY <1>0, <3>1 DEF Holding
    <3>3. WorkerTypeOK'
      BY <1>0, <3>1, <3>2 DEF WorkerTypeOK, Location
    <3>4. HandInv'
      <4> SUFFICES ASSUME NEW u \in Threads
                   PROVE  HandInv!(u)'
        BY DEF HandInv
      <4>1. CASE u = t
        BY <1>0, <3>1, <3>2, <4>1 DEF WorkerTypeOK, HandInv, Holding
      <4>2. CASE u # t
        BY <1>0, <3>1, <3>2, <4>2 DEF WorkerTypeOK, HandInv, Holding
      <4> QED
        BY <4>1, <4>2
    <3> QED
      BY <3>3, <3>4
  <2> QED
    BY <1>6, <2>1, <2>2 DEF ResolveHandler
<1>7. CASE NoticeCancellation(t)
  BY <1>5, <1>7, OwnResults DEF NoticeCancellation, Holding
<1>8. CASE TimeOut(t)
  BY <1>5, <1>8, OwnResults DEF TimeOut, Holding
<1>9. CASE Collect(t)
  <2>1. raw[wjob[t]] \in Returns
    BY <1>9 DEF Collect, HandInv
  <2> QED
    BY <1>5, <1>9, <2>1, OwnResults DEF Collect, Holding
<1>10. CASE HandIn(t) \/ HandInRaises(t)
  <2>1. /\ \E to \in {"checking", "dead"} : wpc' = [wpc EXCEPT ![t] = to]
        /\ wjob' = [wjob EXCEPT ![t] = NoJob]
        /\ outcome' = [outcome EXCEPT ![t] = NoResult]
        /\ UNCHANGED <<controlVars, handlerVars>>
    BY <1>10 DEF HandIn, HandInRaises, Goto, LetGo
  <2> QED
    BY <1>0, <2>1 DEF controlVars, handlerVars, WorkerTypeOK, HandInv, Location, Holding
<1> QED
  BY <1>1, <1>2, <1>3, <1>4, <1>6, <1>7, <1>8, <1>9, <1>10 DEF WorkerStep

\* So does a step of a handler thread: it only touches a job nobody has
\* collected yet.
LEMMA HandlerStepKeeps ==
  ASSUME BaseInv, NEW j \in Jobs, HandlerStep(j)
  PROVE  WorkerTypeOK' /\ HandInv'
<1> USE DEF BaseInv
<1>0. WorkerTypeOK /\ QueueTypeOK
  BY DEF TypeOK, QueueInv
<1>1. UNCHANGED <<queueVars, controlVars, loopVars>>
  BY DEF HandlerStep, HandlerReturns, LateReturn
<1>2. CASE HandlerReturns(j)
  <2>1. PICK v \in Returns : raw' = [raw EXCEPT ![j] = v]
    BY <1>2 DEF HandlerReturns
  <2>2. handler' = [handler EXCEPT ![j] = "returned"]
    BY <1>2 DEF HandlerReturns
  <2> QED
    BY <1>0, <1>1, <2>1, <2>2 DEF queueVars, controlVars, loopVars, WorkerTypeOK,
         QueueTypeOK, HandInv, Holding
<1>3. CASE LateReturn(j)
  BY <1>0, <1>1, <1>3 DEF LateReturn, Awaited, queueVars, controlVars, loopVars,
       WorkerTypeOK, QueueTypeOK, HandInv, Holding
<1> QED
  BY <1>2, <1>3 DEF HandlerStep

LEMMA BaseNext == BaseInv /\ [Next]_vars => BaseInv'
<1> SUFFICES ASSUME BaseInv, [Next]_vars
             PROVE  BaseInv'
  OBVIOUS
<1> USE DEF BaseInv
<1>1. [QueueNext]_queueVars
  BY QueueStep
<1>2. QueueInv'
  BY <1>1, QueueInvNext
<1>3. known \subseteq known'
  BY <1>1, KnownGrows
<1>4. WorkerTypeOK /\ QueueTypeOK
  BY DEF TypeOK, QueueInv
<1>5. ASSUME WorkerTypeOK', HandInv',
             UNCHANGED lifecycleVars
      PROVE  BaseInv'
  BY <1>2, <1>5 DEF lifecycleVars, TypeOK, QueueInv
<1>6. ASSUME UNCHANGED <<loopVars, handlerVars>>
      PROVE  HandInv'
  BY <1>3, <1>6 DEF loopVars, handlerVars, HandInv
<1>7. ASSUME UNCHANGED workerVars
      PROVE  WorkerTypeOK' /\ HandInv'
  BY <1>4, <1>6, <1>7 DEF workerVars, loopVars, handlerVars, WorkerTypeOK
<1>8. ASSUME NEW d \in BOOLEAN, RequestStop(d)
      PROVE  WorkerTypeOK' /\ HandInv'
  BY <1>4, <1>6, <1>8 DEF RequestStop, loopVars, handlerVars, WorkerTypeOK
<1>9. ASSUME Joined
      PROVE  WorkerTypeOK' /\ HandInv'
  BY <1>4, <1>6, <1>9 DEF Joined, loopVars, handlerVars, WorkerTypeOK
<1>10. ASSUME WorkerStart
       PROVE  WorkerTypeOK' /\ HandInv'
  <2>1. CASE Alive
    BY <1>7, <1>10, <2>1 DEF WorkerStart
  <2>2. CASE ~Alive
    BY <1>3, <1>4, <1>10, <2>2 DEF WorkerStart, WorkerTypeOK, HandInv, Holding,
         Location, handlerVars
  <2> QED
    BY <2>1, <2>2
<1>11. ASSUME WorkerTypeOK', HandInv', started' \in BOOLEAN, stopped' \in BOOLEAN,
              call' \in Call, registered' \subseteq Names
       PROVE  BaseInv'
  BY <1>2, <1>11 DEF TypeOK, QueueInv
<1>12. CASE \E t \in Threads : WorkerStep(t) /\ UNCHANGED lifecycleVars
  BY <1>3, <1>5, <1>12, WorkerStepKeeps
<1>13. CASE \E j \in Jobs : HandlerStep(j) /\ UNCHANGED lifecycleVars
  BY <1>5, <1>13, HandlerStepKeeps
<1>14. CASE LifecycleStep
  <2> USE DEF TypeOK, Step, Call
  <2>1. CASE FinishStart
    BY <1>10, <1>11, <2>1 DEF FinishStart
  <2>2. CASE StartRefused
    BY <1>7, <1>11, <2>2 DEF StartRefused
  <2>3. CASE DrainEnds
    BY <1>9, <1>11, <2>3 DEF DrainEnds
  <2>4. CASE ForceShutdown
    BY <1>8, <1>11, <2>4 DEF ForceShutdown
  <2>5. CASE ForcedJoinEnds
    BY <1>9, <1>11, <2>5 DEF ForcedJoinEnds
  <2>6. CASE UnloadRaises
    BY <1>7, <1>11, <2>6 DEF UnloadRaises
  <2>7. CASE CloseQueue
    BY <1>7, <1>11, <2>7 DEF CloseQueue
  <2>8. CASE Announce
    BY <1>7, <1>11, <2>8 DEF Announce
  <2> QED
    BY <1>14, <2>1, <2>2, <2>3, <2>4, <2>5, <2>6, <2>7, <2>8 DEF LifecycleStep
<1>15. CASE BeginStart
  BY <1>7, <1>11, <1>15 DEF BeginStart, TypeOK, Step, Call
<1>16. CASE BeginStop
  BY <1>8, <1>11, <1>16 DEF BeginStop, TypeOK, Step, Call
<1>17. CASE \E j \in Jobs : EnqueueJob(j) \/ CancelJob(j)
  BY <1>5, <1>7, <1>17 DEF EnqueueJob, CancelJob
<1>18. CASE \E n \in Names : RegisterHandler(n) \/ UnregisterHandler(n)
  BY <1>7, <1>11, <1>18 DEF RegisterHandler, UnregisterHandler, TypeOK
<1>19. CASE UNCHANGED vars
  BY <1>5, <1>7, <1>19 DEF vars
<1> QED
  BY <1>12, <1>13, <1>14, <1>15, <1>16, <1>17, <1>18, <1>19 DEF Next

LEMMA BaseAlways == Spec => []BaseInv
  BY BaseInit, BaseNext, PTL DEF Spec

------------------------------------------------------------------------------
(* The runtime as a client of the queue *)

\* Every variable of the runtime keeps its type, whatever handlers return.
THEOREM TypeCorrect == Spec => []TypeOK
<1>1. BaseInv => TypeOK
  BY DEF BaseInv
<1> QED
  BY <1>1, BaseAlways, PTL

\* The runtime changes the queue through the queue's operations only.
THEOREM RuntimeUsesQueue == Spec => QueueSpec
<1>1. Init => QueueInit
  BY DEF Init
<1>2. BaseInv /\ [Next]_vars => [QueueNext]_queueVars
  BY QueueStep
<1> QED
  BY <1>1, <1>2, BaseAlways, PTL DEF Spec, QueueSpec

\* An accepted cancellation is honoured by the running system.
THEOREM CancellationHonoured == Spec => []CancellationWins
  BY RuntimeUsesQueue, QueueCancellationWins, PTL

\* No late completion, retry, shutdown or restart changes a verdict.
THEOREM VerdictsAreFinal == Spec => VerdictIsFinal
  BY RuntimeUsesQueue, QueueVerdictIsFinal, PTL

\* The runtime implements the abstract life of a job.
THEOREM RuntimeKeepsLifecycle == Spec => LifecycleSpec
  BY RuntimeUsesQueue, QueueKeepsLifecycle, PTL

------------------------------------------------------------------------------
(* What the worker makes of a handler's value *)

\* Every value a handler can leave becomes a result the queue can store, and
\* only a JobResult of the handler's own can lack a duration.
THEOREM NormalisedIsResult ==
  ASSUME NEW v \in Producible
  PROVE  /\ Normalise(v) \in JobResult
         /\ v.form # "JobResult" => Normalise(v).datable
<1> USE DEF JobResult, ErrorCode, Outcome, OwnCode, Invalid
<1>0. v \in RawValue
  BY DEF Producible
<1>1. CASE v.form = "JobResult"
  <2>1. v.status \in TerminalStatus /\ v.datable \in BOOLEAN
    BY <1>1 DEF Producible, RawValue
  <2> QED
    BY <1>1, <2>1 DEF Normalise
<1>2. CASE v.form = "None" \/ v.form = "raised"
  BY <1>2 DEF Normalise, TerminalStatus
<1>3. CASE v.form = "dict" \/ v.form = "object"
  <2>1. CASE Unusable(v) \/ ClaimedStatus(v) \notin TerminalStatus
    BY <1>3, <2>1 DEF Normalise, TerminalStatus
  <2>2. CASE ~(Unusable(v) \/ ClaimedStatus(v) \notin TerminalStatus)
    BY <1>3, <2>2 DEF Normalise, ClaimedCode
  <2> QED
    BY <2>1, <2>2
<1> QED
  BY <1>0, <1>1, <1>2, <1>3 DEF RawValue

\* docs/runtime.md:28, "SUCCEEDED is set only after the handler returns a
\* valid successful terminal result": a success comes from a value that says
\* so with its status or, if its status is no execution status, does not deny
\* it with its flag; never from an exception or from no value.
THEOREM SuccessIsClaimed ==
  ASSUME NEW v \in Producible, Normalise(v).status = "SUCCEEDED"
  PROVE  /\ v.form \notin {"None", "raised"}
         /\ v.status = "SUCCEEDED" \/ (~ClaimsStatus(v) /\ v.success # "false")
<1> USE DEF Outcome, Invalid
<1>0. v \in RawValue
  BY DEF Producible
<1>1. CASE v.form = "JobResult"
  BY <1>1 DEF Normalise
<1>2. CASE v.form = "None" \/ v.form = "raised"
  BY <1>2 DEF Normalise
<1>3. CASE v.form = "dict" \/ v.form = "object"
  <2>1. ClaimedStatus(v) = "SUCCEEDED"
    BY <1>3 DEF Normalise
  <2> QED
    BY <1>3, <2>1 DEF ClaimedStatus, Flag
<1> QED
  BY <1>0, <1>1, <1>2, <1>3 DEF RawValue

------------------------------------------------------------------------------
(* What a step can do *)

\* The queue operations of clients and of lifecycle calls.
ClientOperation ==
  \/ Initialize
  \/ \E j \in Jobs : Enqueue(j) \/ Cancel(j)
  \/ Shutdown(TRUE)
  \/ UNCHANGED queueVars

\* A step of neither the worker nor a handler, start's new thread apart:
\* at most a thread that has ended is forgotten.
Aside ==
  /\ UNCHANGED <<loopVars, handlerVars>>
  /\ thread' = thread \/ (thread' = NoThread /\ ~Alive)
  /\ ClientOperation

LEMMA StepKinds ==
  ASSUME [Next]_vars
  PROVE  \/ \E t \in Threads : WorkerStep(t) /\ UNCHANGED lifecycleVars
         \/ \E j \in Jobs : HandlerStep(j) /\ UNCHANGED lifecycleVars
         \/ FinishStart
         \/ Aside
<1> USE DEF ClientOperation
<1>1. ASSUME UNCHANGED workerVars, ClientOperation
      PROVE  Aside
  BY <1>1 DEF workerVars, loopVars, handlerVars, Aside
<1>2. ASSUME NEW d \in BOOLEAN, RequestStop(d), ClientOperation
      PROVE  Aside
  BY <1>2 DEF RequestStop, Aside
<1>3. ASSUME Joined, ClientOperation
      PROVE  Aside
  BY <1>3 DEF Joined, Aside
<1>4. CASE LifecycleStep
  <2>1. CASE StartRefused \/ UnloadRaises \/ Announce
    BY <1>1, <2>1 DEF StartRefused, UnloadRaises, Announce
  <2>2. CASE CloseQueue
    BY <1>1, <2>2 DEF CloseQueue
  <2>3. CASE DrainEnds \/ ForcedJoinEnds
    BY <1>3, <2>3 DEF DrainEnds, ForcedJoinEnds
  <2>4. CASE ForceShutdown
    BY <1>2, <2>4 DEF ForceShutdown
  <2> QED
    BY <1>4, <2>1, <2>2, <2>3, <2>4 DEF LifecycleStep
<1>5. CASE BeginStart
  BY <1>1, <1>5 DEF BeginStart
<1>6. CASE BeginStop
  BY <1>2, <1>6 DEF BeginStop
<1>7. CASE \E j \in Jobs : EnqueueJob(j) \/ CancelJob(j)
  BY <1>1, <1>7 DEF EnqueueJob, CancelJob
<1>8. CASE \E n \in Names : RegisterHandler(n) \/ UnregisterHandler(n)
  BY <1>1, <1>8 DEF RegisterHandler, UnregisterHandler
<1>9. CASE UNCHANGED vars
  BY <1>1, <1>9 DEF vars
<1> QED
  BY <1>4, <1>5, <1>6, <1>7, <1>8, <1>9 DEF Next

\* A worker thread moves itself only.
LEMMA WorkerMoves ==
  ASSUME WorkerTypeOK, NEW t \in Threads, WorkerStep(t)
  PROVE  /\ Live(t) /\ UNCHANGED controlVars
         /\ wpc' = [wpc EXCEPT ![t] = wpc'[t]] /\ wpc'[t] # "unborn"
         /\ \A u \in Threads \ {t} : wjob'[u] = wjob[u] /\ outcome'[u] = outcome[u]
<1> USE DEF WorkerTypeOK, Live, Goto, LetGo
<1>1. CASE GoOn(t) \/ Exit(t) \/ Fetch(t) \/ FetchNothing(t)
  BY <1>1 DEF GoOn, Exit, Fetch, FetchNothing
<1>2. CASE Mark(t)
  BY <1>2 DEF Mark
<1>3. CASE ResolveHandler(t)
  BY <1>3 DEF ResolveHandler, StartHandler, HandlerMissing, Deliver
<1>4. CASE NoticeCancellation(t) \/ TimeOut(t) \/ Collect(t)
  BY <1>4 DEF NoticeCancellation, TimeOut, Collect, Deliver
<1>5. CASE HandIn(t) \/ HandInRaises(t)
  BY <1>5 DEF HandIn, HandInRaises
<1> QED
  BY <1>1, <1>2, <1>3, <1>4, <1>5 DEF WorkerStep

------------------------------------------------------------------------------
(* One loop *)

\* A live thread is the current one: stop forgets a thread only when it has
\* ended, and start makes one only when the current one has.
LoopInv == \A t \in Threads : Live(t) => thread = t

LEMMA LoopInit == Init => LoopInv
  BY DEF Init, WorkerInit, LoopInv, Live

LEMMA LoopNext == BaseInv /\ LoopInv /\ [Next]_vars => LoopInv'
<1> SUFFICES ASSUME BaseInv, LoopInv, [Next]_vars
             PROVE  LoopInv'
  OBVIOUS
<1>0. WorkerTypeOK
  BY DEF BaseInv, TypeOK
<1>1. ASSUME NEW t \in Threads, WorkerStep(t)
      PROVE  LoopInv'
  BY <1>0, <1>1, WorkerMoves DEF LoopInv, Live, controlVars, WorkerTypeOK
<1>2. ASSUME NEW j \in Jobs, HandlerStep(j)
      PROVE  LoopInv'
  BY <1>2 DEF HandlerStep, HandlerReturns, LateReturn, controlVars, loopVars, LoopInv, Live
<1>3. CASE FinishStart
  <2>1. CASE Alive
    BY <1>3, <2>1 DEF FinishStart, WorkerStart, workerVars, LoopInv, Live
  <2>2. CASE ~Alive
    <3>1. PICK t \in Threads : thread' = t /\ wpc' = [wpc EXCEPT ![t] = "checking"]
      BY <1>3, <2>2 DEF FinishStart, WorkerStart
    <3>2. \A u \in Threads : ~Live(u)
      BY <2>2, WorkerAssumption DEF LoopInv, Alive
    <3> QED
      BY <1>0, <3>1, <3>2 DEF LoopInv, Live, WorkerTypeOK
  <2> QED
    BY <2>1, <2>2
<1>4. CASE Aside
  BY <1>4, WorkerAssumption DEF Aside, loopVars, LoopInv, Live, Alive
<1> QED
  BY <1>1, <1>2, <1>3, <1>4, StepKinds

LEMMA LoopAlways == Spec => []LoopInv
  BY BaseAlways, LoopInit, LoopNext, PTL DEF Spec

\* However often the runtime is stopped and started, whether or not its
\* handlers return, at most one loop serves the queue.
THEOREM AtMostOneLoop == Spec => []OneLoop
<1>1. LoopInv => OneLoop
  BY DEF LoopInv, OneLoop
<1> QED
  BY <1>1, LoopAlways, PTL

\* While a worker thread takes a step no other thread is alive.
LEMMA Alone ==
  ASSUME BaseInv, LoopInv, NEW t \in Threads, WorkerStep(t),
         NEW u \in Threads, u # t
  PROVE  ~Live(u) /\ ~Live(u)'
<1>1. WorkerTypeOK
  BY DEF BaseInv, TypeOK
<1> QED
  BY <1>1, WorkerMoves DEF LoopInv, Live, WorkerTypeOK

------------------------------------------------------------------------------
(* Nothing lost *)

\* The queue operations of clients leave a job they do not finish in the heap.
LEMMA ClientKeepsHeap ==
  ASSUME QueueInv, ClientOperation, NEW j \in Jobs, status'[j] = "QUEUED"
  PROVE  j \in heap' \/ (status[j] = "QUEUED" /\ (j \in heap => j \in heap'))
<1> USE DEF QueueInv, QueueTypeOK
<1>1. ASSUME NEW k \in Jobs, Enqueue(k)
      PROVE  j \in heap' \/ (status[j] = "QUEUED" /\ heap \subseteq heap')
  BY <1>1 DEF Enqueue
<1>2. ASSUME NEW k \in Jobs, Cancel(k)
      PROVE  status[j] = "QUEUED" /\ heap' = heap
  BY <1>2, QueueResults DEF Cancel, Finish
<1>3. CASE Shutdown(TRUE)
  <2>1. Finish(Unfinished, RuntimeShutdown)
    BY <1>3 DEF Shutdown
  <2>2. j \notin Unfinished /\ status[j] = "QUEUED"
    BY <2>1, QueueResults DEF Finish
  <2>3. j \notin known
    BY <2>2 DEF Unfinished, IsTerminal, TerminalStatus
  <2> QED
    BY <2>2, <2>3 DEF RecordsAgree
<1>4. CASE Initialize \/ UNCHANGED queueVars
  BY <1>4 DEF Initialize, queueVars
<1> QED
  BY <1>1, <1>2, <1>3, <1>4 DEF ClientOperation

\* Every queued job is in the heap or in the worker's hand.
LEMMA NothingLostNext == BaseInv /\ NothingLost /\ [Next]_vars => NothingLost'
<1> SUFFICES ASSUME BaseInv, NothingLost, [Next]_vars,
                    NEW j \in Jobs, status'[j] = "QUEUED"
             PROVE  j \in heap' \/ \E t \in Threads : wpc'[t] = "marking" /\ wjob'[t] = j
  BY DEF NothingLost
<1> DEFINE Safe == j \in heap' \/ \E t \in Threads : wpc'[t] = "marking" /\ wjob'[t] = j
<1>0. WorkerTypeOK /\ QueueTypeOK
  BY DEF BaseInv, TypeOK
<1>a. ASSUME status[j] = "QUEUED", j \in heap => j \in heap',
             \A t \in Threads : wpc[t] = "marking" => wpc'[t] = wpc[t] /\ wjob'[t] = wjob[t]
      PROVE  Safe
  BY <1>a DEF NothingLost
<1>1. ASSUME NEW t \in Threads, WorkerStep(t)
      PROVE  Safe
  <2>0. /\ wpc' = [wpc EXCEPT ![t] = wpc'[t]]
        /\ \A u \in Threads \ {t} : wjob'[u] = wjob[u] /\ wpc'[u] = wpc[u]
    BY <1>0, <1>1, WorkerMoves DEF WorkerTypeOK
  <2>1. ASSUME UNCHANGED queueVars, wpc[t] # "marking"
        PROVE  Safe
    BY <2>0, <2>1, <1>a DEF queueVars
  <2>2. CASE GoOn(t) \/ Exit(t)
    BY <2>1, <2>2 DEF GoOn, Exit, Goto
  <2>3. CASE Fetch(t)
    <3>1. PICK k \in heap : Dequeue(k) /\ wjob' = [wjob EXCEPT ![t] = k]
      BY <2>3 DEF Fetch
    <3>2. wpc[t] = "fetching" /\ wpc'[t] = "marking"
      BY <1>0, <2>3 DEF Fetch, Goto, WorkerTypeOK
    <3>3. CASE j = k
      BY <1>0, <3>1, <3>2, <3>3 DEF WorkerTypeOK
    <3>4. CASE j # k
      <4>1. status[j] = "QUEUED" /\ (j \in heap => j \in heap')
        BY <3>1, <3>4 DEF Dequeue
      <4> QED
        BY <4>1, <2>0, <3>2, <1>a
    <3> QED
      BY <3>3, <3>4
  <2>4. CASE FetchNothing(t)
    <3>1. status[j] = "QUEUED" /\ j \notin heap /\ wpc[t] = "fetching"
      BY <2>4 DEF FetchNothing, DequeueNothing, Goto
    <3> QED
      BY <3>1, <2>0, <1>a
  <2>5. CASE Mark(t)
    <3>1. wpc[t] = "marking" /\ MarkRunning(wjob[t]) /\ wjob[t] \in Jobs
      BY <1>0, <2>5 DEF Mark, BaseInv, HandInv, QueueTypeOK
    <3>2. status'[wjob[t]] # "QUEUED" /\ heap' = heap
      BY <1>0, <3>1, QueueResults DEF MarkRunning, MayRun, Finish, QueueTypeOK
    <3>3. status[j] = "QUEUED"
      BY <1>0, <3>1, QueueResults DEF MarkRunning, MayRun, Finish, QueueTypeOK
    <3>4. j # wjob[t]
      BY <3>2
    <3> QED
      BY <2>0, <3>2, <3>3, <3>4 DEF NothingLost
  <2>6. CASE ResolveHandler(t)
    BY <2>1, <2>6 DEF ResolveHandler, StartHandler, HandlerMissing, Deliver, Goto
  <2>7. CASE NoticeCancellation(t) \/ TimeOut(t) \/ Collect(t)
    BY <2>1, <2>7 DEF NoticeCancellation, TimeOut, Collect, Deliver, Goto
  <2>8. CASE HandIn(t) \/ HandInRaises(t)
    <3>1. wpc[t] = "completing" /\ Complete(wjob[t], outcome[t])
          /\ wjob[t] \in Jobs /\ outcome[t] \in Offered
      BY <2>8, <1>0, WorkerAssumption DEF HandIn, HandInRaises, BaseInv, HandInv,
           Holding, QueueTypeOK
    <3>2. Settlement(wjob[t], outcome[t]).status \in TerminalStatus
      BY <1>0, <3>1, SettlementResult DEF JobResult
    <3>3. status[j] = "QUEUED" /\ heap' = heap
      BY <1>0, <3>1, <3>2 DEF Complete, Finish, QueueTypeOK, TerminalStatus
    <3> QED
      BY <2>0, <3>1, <3>3, <1>a
  <2> QED
    BY <1>1, <2>2, <2>3, <2>4, <2>5, <2>6, <2>7, <2>8 DEF WorkerStep
<1>2. ASSUME NEW k \in Jobs, HandlerStep(k)
      PROVE  Safe
  BY <1>2, <1>a DEF HandlerStep, HandlerReturns, LateReturn, queueVars, loopVars
<1>3. CASE FinishStart
  BY <1>0, <1>3, <1>a DEF FinishStart, WorkerStart, queueVars, workerVars, WorkerTypeOK
<1>4. CASE Aside
  <2>1. j \in heap' \/ (status[j] = "QUEUED" /\ (j \in heap => j \in heap'))
    BY <1>4, ClientKeepsHeap DEF Aside, BaseInv
  <2> QED
    BY <1>4, <2>1, <1>a DEF Aside, loopVars
<1> QED
  BY <1>1, <1>2, <1>3, <1>4, StepKinds

\* An accepted job is never dropped, by any shutdown, cancellation, refused
\* start or death of the worker.
THEOREM NeverLost == Spec => []NothingLost
<1>1. Init => NothingLost
  BY DEF Init, QueueInit, NothingLost
<1> QED
  BY <1>1, BaseAlways, NothingLostNext, PTL DEF Spec

------------------------------------------------------------------------------
(* The job in hand *)

\* The job a thread executes has been marked running and can only have been
\* cancelled since; a handler thread is started at most once; a success on its
\* way to complete() is what the job's own handler returned.
HoldInv ==
  /\ \A t \in Threads :
       /\ wpc[t] \in Holding => status[wjob[t]] \in {"RUNNING", "CANCELLED"}
       /\ wpc[t] = "starting" => handler[wjob[t]] = "none"
       /\ wpc[t] = "completing" /\ outcome[t].status = "SUCCEEDED" =>
            /\ handler[wjob[t]] = "returned"
            /\ raw[wjob[t]] \in Returns
            /\ Normalise(raw[wjob[t]]) = outcome[t]
  /\ \A j \in Jobs : status[j] \in {"PENDING", "QUEUED"} => handler[j] = "none"

LEMMA HoldInit == Init => HoldInv
  BY DEF Init, QueueInit, WorkerInit, HoldInv, Holding

\* Clients and lifecycle calls move a job that runs to CANCELLED, if anywhere,
\* and no job back to waiting but one the queue has not seen.
LEMMA ClientKeepsStatus ==
  ASSUME QueueInv, ClientOperation, NEW j \in Jobs
  PROVE  /\ status[j] \in {"RUNNING", "CANCELLED"} => status'[j] \in {"RUNNING", "CANCELLED"}
         /\ status'[j] \in {"PENDING", "QUEUED"} => status[j] \in {"PENDING", "QUEUED"}
         /\ status'[j] = "SUCCEEDED" => status[j] = "SUCCEEDED"
<1> USE DEF QueueInv, QueueTypeOK
<1> DEFINE Kept ==
      /\ status[j] \in {"RUNNING", "CANCELLED"} => status'[j] \in {"RUNNING", "CANCELLED"}
      /\ status'[j] \in {"PENDING", "QUEUED"} => status[j] \in {"PENDING", "QUEUED"}
      /\ status'[j] = "SUCCEEDED" => status[j] = "SUCCEEDED"
<1>1. ASSUME NEW k \in Jobs, Enqueue(k)
      PROVE  Kept
  <2>1. status[k] = "PENDING" /\ status' = [status EXCEPT ![k] = "QUEUED"]
    BY <1>1 DEF Enqueue, RecordsAgree
  <2> QED
    BY <2>1
<1>2. ASSUME NEW k \in Jobs, Cancel(k)
      PROVE  Kept
  BY <1>2, QueueResults DEF Cancel, Finish
<1>3. CASE Shutdown(TRUE)
  BY <1>3, QueueResults DEF Shutdown, Finish
<1>4. CASE Initialize \/ UNCHANGED queueVars
  BY <1>4 DEF Initialize, queueVars
<1> QED
  BY <1>1, <1>2, <1>3, <1>4 DEF ClientOperation

\* complete() settles the one job it is given.
LEMMA CompleteStatus ==
  ASSUME QueueInv, NEW j \in Jobs, NEW r \in Offered, Complete(j, r), NEW k \in Jobs
  PROVE  /\ k # j => status'[k] = status[k] /\ result'[k] = result[k]
         /\ status'[k] = status[k] \/ status'[k] \in TerminalStatus
         /\ cancelled' = cancelled
  BY SettlementResult DEF QueueInv, Complete, Finish, QueueTypeOK, JobResult

LEMMA HoldNext == BaseInv /\ LoopInv /\ HoldInv /\ [Next]_vars => HoldInv'
<1> SUFFICES ASSUME BaseInv, LoopInv, HoldInv, [Next]_vars
             PROVE  HoldInv'
  OBVIOUS
<1> DEFINE HoldOf(u) == HoldInv!1!(u)
           Waits(k) == status[k] \in {"PENDING", "QUEUED"} => handler[k] = "none"
<1>0. WorkerTypeOK /\ QueueTypeOK /\ QueueInv /\ HandInv
  BY DEF BaseInv, TypeOK
<1>h. \A t \in Threads : wpc[t] \in Holding \cup {"marking"} => wjob[t] \in Jobs
  BY <1>0 DEF HandInv, QueueTypeOK
<1>1. ASSUME NEW t \in Threads, WorkerStep(t)
      PROVE  HoldInv'
  <2>0. \A u \in Threads \ {t} : wpc'[u] \notin Holding
    BY <1>1, Alone DEF Live, Holding
  <2>a. ASSUME HoldOf(t)', \A k \in Jobs : Waits(k)'
        PROVE  HoldInv'
    BY <2>0, <2>a DEF HoldInv, Holding
  <2>b. ASSUME UNCHANGED <<status, handler>>
        PROVE  \A k \in Jobs : Waits(k)'
    BY <2>b DEF HoldInv
  <2>1. CASE GoOn(t) \/ Exit(t) \/ Fetch(t) \/ FetchNothing(t)
    <3>1. wpc'[t] \notin Holding /\ UNCHANGED <<status, handler>>
      BY <1>0, <2>1 DEF GoOn, Exit, Fetch, FetchNothing, Goto, Holding, Dequeue,
           DequeueNothing, queueVars, handlerVars, WorkerTypeOK
    <3> QED
      BY <3>1, <2>a, <2>b DEF Holding
  <2>2. CASE Mark(t)
    <3>1. wpc[t] = "marking" /\ MarkRunning(wjob[t]) /\ wjob[t] \in Jobs
          /\ UNCHANGED <<handler, raw>>
      BY <1>h, <2>2 DEF Mark, handlerVars
    <3>2. CASE MayRun(wjob[t])
      <4>1. /\ wpc'[t] = "starting" /\ wjob' = wjob
            /\ status[wjob[t]] = "QUEUED"
            /\ status' = [status EXCEPT ![wjob[t]] = "RUNNING"]
        BY <1>0, <2>2, <3>1, <3>2 DEF Mark, MarkRunning, MayRun, Goto, WorkerTypeOK
      <4>2. HoldOf(t)'
        BY <1>0, <3>1, <4>1 DEF HoldInv, QueueTypeOK
      <4>3. \A k \in Jobs : Waits(k)'
        BY <1>0, <3>1, <4>1 DEF HoldInv, QueueTypeOK
      <4> QED
        BY <2>a, <4>2, <4>3
    <3>3. CASE ~MayRun(wjob[t])
      <4>1. wpc'[t] = "checking"
        BY <1>0, <2>2, <3>3 DEF Mark, Goto, WorkerTypeOK
      <4>2. \A k \in Jobs : Waits(k)'
        BY <1>0, <3>1, <3>3, QueueResults DEF MarkRunning, Finish, HoldInv, QueueTypeOK
      <4> QED
        BY <2>a, <4>1, <4>2 DEF Holding
    <3> QED
      BY <3>2, <3>3
  <2>3. ASSUME NEW from \in Holding, NEW r \in WorkerResults, Deliver(t, from, r),
               r.status = "SUCCEEDED" =>
                 /\ handler[wjob[t]] = "returned"
                 /\ raw[wjob[t]] \in Returns
                 /\ Normalise(raw[wjob[t]]) = r
        PROVE  HoldInv'
    <3>1. /\ wpc[t] \in Holding /\ wpc'[t] = "completing" /\ outcome'[t] = r
          /\ UNCHANGED <<status, handler, raw, wjob>>
      BY <1>0, <2>3 DEF Deliver, Goto, queueVars, handlerVars, WorkerTypeOK
    <3>2. HoldOf(t)'
      BY <2>3, <3>1 DEF HoldInv
    <3> QED
      BY <3>1, <3>2, <2>a, <2>b
  <2>4. CASE HandlerMissing(t) /\ wpc[t] = "starting"
    BY <2>3, <2>4, OwnResults DEF HandlerMissing, Holding, Outcome
  <2>5. CASE StartHandler(t)
    <3>1. /\ wpc[t] = "starting" /\ wpc'[t] = "waiting" /\ wjob[t] \in Jobs
          /\ handler' = [handler EXCEPT ![wjob[t]] = "executing"]
          /\ UNCHANGED <<status, wjob>>
      BY <1>0, <1>h, <2>5 DEF StartHandler, Goto, queueVars, WorkerTypeOK, Holding
    <3>2. status[wjob[t]] \in {"RUNNING", "CANCELLED"}
      BY <3>1 DEF HoldInv, Holding
    <3>3. HoldOf(t)'
      BY <3>1, <3>2
    <3>4. \A k \in Jobs : Waits(k)'
      BY <1>0, <3>1, <3>2 DEF HoldInv, WorkerTypeOK
    <3> QED
      BY <2>a, <3>3, <3>4
  <2>6. CASE NoticeCancellation(t)
    BY <2>3, <2>6, OwnResults, QueueResults DEF NoticeCancellation, Holding
  <2>7. CASE TimeOut(t)
    BY <2>3, <2>7, OwnResults DEF TimeOut, Holding, Outcome
  <2>8. CASE Collect(t)
    <3>1. handler[wjob[t]] = "returned" /\ raw[wjob[t]] \in Returns
      BY <1>0, <2>8 DEF Collect, HandInv
    <3> QED
      BY <2>3, <2>8, <3>1, OwnResults DEF Collect, Holding
  <2>9. CASE HandIn(t) \/ HandInRaises(t)
    <3>1. /\ wpc[t] = "completing" /\ wpc'[t] \notin Holding
          /\ Complete(wjob[t], outcome[t]) /\ handler' = handler
      BY <1>0, <2>9 DEF HandIn, HandInRaises, Goto, Holding, handlerVars, WorkerTypeOK
    <3>2. wjob[t] \in Jobs /\ outcome[t] \in Offered
      BY <1>0, <1>h, <3>1, WorkerAssumption DEF HandInv, Holding
    <3>3. \A k \in Jobs : Waits(k)'
      BY <1>0, <3>1, <3>2, CompleteStatus DEF HoldInv, TerminalStatus
    <3> QED
      BY <2>a, <3>1, <3>3 DEF Holding
  <2> QED
    BY <1>1, <2>1, <2>2, <2>4, <2>5, <2>6, <2>7, <2>8, <2>9 DEF WorkerStep, ResolveHandler
<1>2. ASSUME NEW j \in Jobs, HandlerStep(j)
      PROVE  HoldInv'
  <2>0. /\ UNCHANGED <<status, wpc, wjob, outcome>>
        /\ handler[j] = "executing"
        /\ handler' = [handler EXCEPT ![j] = "returned"]
        /\ \A k \in Jobs \ {j} : raw'[k] = raw[k]
    BY <1>0, <1>2 DEF HandlerStep, HandlerReturns, LateReturn, queueVars, loopVars, WorkerTypeOK
  <2>1. ASSUME NEW u \in Threads, wpc[u] \in {"starting", "completing"}, wjob[u] = j
        PROVE  handler[j] # "none" /\ wpc[u] = "completing" /\ UNCHANGED raw
    <3>1. wpc[u] = "completing"
      BY <2>0, <2>1 DEF HoldInv
    <3>2. ~HandlerReturns(j)
      BY <2>1, <3>1 DEF HandlerReturns, Awaited, LoopInv, Live
    <3> QED
      BY <1>2, <2>0, <3>1, <3>2 DEF HandlerStep, LateReturn
  <2>2. ASSUME NEW u \in Threads
        PROVE  HoldOf(u)'
    <3>1. CASE wpc[u] \in Holding /\ wjob[u] = j
      BY <1>0, <2>0, <2>1, <2>2, <3>1 DEF HoldInv, Holding, WorkerTypeOK
    <3>2. CASE wpc[u] \in Holding /\ wjob[u] # j
      BY <1>0, <1>h, <2>0, <2>2, <3>2 DEF HoldInv, Holding, WorkerTypeOK
    <3>3. CASE wpc[u] \notin Holding
      BY <2>0, <3>3 DEF Holding
    <3> QED
      BY <3>1, <3>2, <3>3
  <2>3. \A k \in Jobs : Waits(k)'
    BY <1>0, <2>0 DEF HoldInv, WorkerTypeOK
  <2> QED
    BY <2>2, <2>3 DEF HoldInv
<1>3. CASE FinishStart
  <2>1. UNCHANGED <<status, handler, raw, outcome, wjob>>
    BY <1>3 DEF FinishStart, WorkerStart, queueVars, workerVars, handlerVars
  <2>2. \A u \in Threads : wpc'[u] \in Holding => wpc'[u] = wpc[u]
    BY <1>0, <1>3 DEF FinishStart, WorkerStart, workerVars, WorkerTypeOK, Holding
  <2> QED
    BY <2>1, <2>2 DEF HoldInv, Holding
<1>4. CASE Aside
  <2>1. UNCHANGED <<wpc, wjob, outcome, handler, raw>>
    BY <1>4 DEF Aside, loopVars, handlerVars
  <2>2. \A k \in Jobs :
          /\ status[k] \in {"RUNNING", "CANCELLED"} => status'[k] \in {"RUNNING", "CANCELLED"}
          /\ status'[k] \in {"PENDING", "QUEUED"} => status[k] \in {"PENDING", "QUEUED"}
    BY <1>0, <1>4, ClientKeepsStatus DEF Aside
  <2> QED
    BY <1>h, <2>1, <2>2 DEF HoldInv
<1> QED
  BY <1>1, <1>2, <1>3, <1>4, StepKinds

LEMMA HoldAlways == Spec => [](BaseInv /\ LoopInv /\ HoldInv)
  BY BaseAlways, LoopAlways, HoldInit, HoldNext, PTL DEF Spec

------------------------------------------------------------------------------
(* Success is earned *)

\* What SuccessIsEarned says of one job.
Earned(j) ==
  status[j] = "SUCCEEDED" =>
    /\ handler[j] = "returned"
    /\ raw[j] \in Returns
    /\ Normalise(raw[j]) = result[j]
    /\ ~cancelled[j]

\* A success that is already stored stays earned as long as nothing rewrites
\* what its handler left, which only a thread holding the job can do.
LEMMA EarnedStays ==
  ASSUME BaseInv, [Next]_vars, NEW j \in Jobs, Earned(j), status[j] = "SUCCEEDED",
         handler'[j] = handler[j], raw'[j] = raw[j]
  PROVE  Earned(j)'
<1>1. QueueInv /\ [QueueNext]_queueVars
  BY QueueStep DEF BaseInv
<1>2. IsTerminal(j)
  BY DEF IsTerminal, TerminalStatus
<1>3. status'[j] = status[j] /\ result'[j] = result[j] /\ cancelled'[j] = cancelled[j]
  BY <1>1, <1>2, TerminalStays
<1> QED
  BY <1>3 DEF Earned

LEMMA EarnedNext ==
  BaseInv /\ LoopInv /\ HoldInv /\ SuccessIsEarned /\ [Next]_vars => SuccessIsEarned'
<1> SUFFICES ASSUME BaseInv, LoopInv, HoldInv, SuccessIsEarned, [Next]_vars,
                    NEW j \in Jobs, status'[j] = "SUCCEEDED"
             PROVE  Earned(j)'
  BY DEF SuccessIsEarned, Earned
<1>0. WorkerTypeOK /\ QueueTypeOK /\ QueueInv /\ HandInv /\ Earned(j)
  BY DEF BaseInv, TypeOK, SuccessIsEarned, Earned
<1>1. ASSUME NEW t \in Threads, WorkerStep(t)
      PROVE  Earned(j)'
  <2>1. CASE HandIn(t) \/ HandInRaises(t)
    <3>1. /\ wpc[t] = "completing" /\ Complete(wjob[t], outcome[t])
          /\ UNCHANGED <<cancelled, handler, raw>>
      BY <2>1 DEF HandIn, HandInRaises, Complete, handlerVars
    <3>2. wjob[t] \in Jobs /\ outcome[t] \in Offered
      BY <1>0, <3>1, WorkerAssumption DEF HandInv, Holding, QueueTypeOK
    <3>3. CASE status[j] = "SUCCEEDED"
      BY <1>0, <3>1, <3>3, EarnedStays
    <3>4. CASE status[j] # "SUCCEEDED"
      <4>1. j = wjob[t]
        BY <1>0, <3>1, <3>2, <3>4, CompleteStatus
      <4>2. result'[j] = Settlement(j, outcome[t]) /\ Settlement(j, outcome[t]).status = "SUCCEEDED"
        BY <1>0, <3>1, <3>4, <4>1 DEF Complete, Finish, QueueTypeOK
      <4>3. ~cancelled[j] /\ result'[j] = outcome[t] /\ outcome[t].status = "SUCCEEDED"
        BY <1>0, <3>2, <4>2, SettlementResult DEF Settlement
      <4> QED
        BY <3>1, <4>1, <4>3 DEF HoldInv, Earned
    <3> QED
      BY <3>3, <3>4
  <2>2. CASE StartHandler(t)
    <3>1. /\ wpc[t] = "starting" /\ handler' = [handler EXCEPT ![wjob[t]] = "executing"]
          /\ UNCHANGED <<status, raw>>
      BY <2>2 DEF StartHandler, Goto, queueVars
    <3>2. j # wjob[t]
      BY <3>1 DEF HoldInv, Holding
    <3> QED
      BY <1>0, <3>1, <3>2, EarnedStays DEF WorkerTypeOK
  <2>3. CASE Mark(t)
    <3>1. wjob[t] \in Jobs /\ MarkRunning(wjob[t]) /\ UNCHANGED <<handler, raw>>
      BY <1>0, <2>3 DEF Mark, HandInv, QueueTypeOK, handlerVars
    <3>2. status[j] = "SUCCEEDED"
      BY <1>0, <3>1, QueueResults DEF MarkRunning, Finish, QueueTypeOK
    <3> QED
      BY <1>0, <3>1, <3>2, EarnedStays
  <2>4. CASE ~(HandIn(t) \/ HandInRaises(t) \/ StartHandler(t) \/ Mark(t))
    <3>1. UNCHANGED <<status, handler, raw>>
      BY <1>1, <2>4 DEF WorkerStep, GoOn, Exit, Fetch, FetchNothing, Dequeue, DequeueNothing,
           ResolveHandler, HandlerMissing, NoticeCancellation, TimeOut, Collect, Deliver,
           queueVars, handlerVars
    <3> QED
      BY <1>0, <3>1, EarnedStays
  <2> QED
    BY <2>1, <2>2, <2>3, <2>4
<1>2. ASSUME NEW k \in Jobs, HandlerStep(k)
      PROVE  Earned(j)'
  <2>1. /\ UNCHANGED status /\ handler[k] = "executing"
        /\ \A i \in Jobs \ {k} : handler'[i] = handler[i] /\ raw'[i] = raw[i]
    BY <1>0, <1>2 DEF HandlerStep, HandlerReturns, LateReturn, queueVars, WorkerTypeOK
  <2>2. j # k
    BY <1>0, <2>1 DEF Earned
  <2> QED
    BY <1>0, <2>1, <2>2, EarnedStays
<1>3. CASE FinishStart
  BY <1>0, <1>3, EarnedStays DEF FinishStart, WorkerStart, queueVars, workerVars, handlerVars
<1>4. CASE Aside
  <2>1. UNCHANGED <<handler, raw>> /\ status[j] = "SUCCEEDED"
    BY <1>0, <1>4, ClientKeepsStatus DEF Aside, handlerVars
  <2> QED
    BY <1>0, <2>1, EarnedStays
<1> QED
  BY <1>1, <1>2, <1>3, <1>4, StepKinds

\* A job is recorded SUCCEEDED only for a success its own handler returned in
\* time and before any accepted cancellation.
THEOREM SuccessAlwaysEarned == Spec => []SuccessIsEarned
<1>1. Init => SuccessIsEarned
  BY DEF Init, QueueInit, SuccessIsEarned
<1> QED
  BY <1>1, HoldAlways, EarnedNext, PTL DEF Spec

------------------------------------------------------------------------------
(* A settled job never starts *)

LEMMA NeverStartsStep ==
  ASSUME BaseInv, LoopInv, HoldInv, [Next]_vars, NEW j \in Jobs
  PROVE  /\ IsTerminal(j) /\ ~Held(j) => ~Held(j)'
         /\ handler[j] = "returned" => handler'[j] = "returned"
<1> DEFINE Good == /\ IsTerminal(j) /\ ~Held(j) => ~Held(j)'
                   /\ handler[j] = "returned" => handler'[j] = "returned"
<1>0. WorkerTypeOK /\ QueueTypeOK
  BY DEF BaseInv, TypeOK
<1>a. ASSUME handler'[j] = handler[j],
             \A t \in Threads : wpc'[t] \in Holding => wpc[t] \in Holding /\ wjob'[t] = wjob[t]
      PROVE  Good
  BY <1>a DEF Held
<1>1. ASSUME NEW t \in Threads, WorkerStep(t)
      PROVE  Good
  <2>0. /\ wpc' = [wpc EXCEPT ![t] = wpc'[t]]
        /\ \A u \in Threads \ {t} : wjob'[u] = wjob[u] /\ wpc'[u] = wpc[u]
    BY <1>0, <1>1, WorkerMoves DEF WorkerTypeOK
  <2>a. ASSUME handler'[j] = handler[j],
               wpc'[t] \in Holding => wpc[t] \in Holding /\ wjob'[t] = wjob[t]
        PROVE  Good
    BY <1>a, <2>0, <2>a
  <2>1. CASE Mark(t) /\ MayRun(wjob[t])
    <3>1. /\ wjob' = wjob /\ handler' = handler /\ status[wjob[t]] = "QUEUED"
      BY <2>1 DEF Mark, MayRun, handlerVars
    <3>2. CASE IsTerminal(j)
      BY <2>0, <3>1, <3>2 DEF Held, IsTerminal, TerminalStatus
    <3>3. CASE ~IsTerminal(j)
      BY <3>1, <3>3
    <3> QED
      BY <3>2, <3>3
  <2>2. CASE StartHandler(t)
    <3>1. /\ wpc[t] = "starting" /\ wjob' = wjob
          /\ handler' = [handler EXCEPT ![wjob[t]] = "executing"]
      BY <2>2 DEF StartHandler, Goto
    <3>2. handler[wjob[t]] = "none"
      BY <3>1 DEF HoldInv
    <3>3. handler[j] = "returned" => handler'[j] = "returned"
      BY <1>0, <3>1, <3>2 DEF WorkerTypeOK
    <3> QED
      BY <2>0, <3>1, <3>3 DEF Held, Holding
  <2>3. CASE HandlerMissing(t) \/ NoticeCancellation(t) \/ TimeOut(t) \/ Collect(t)
    BY <2>3, <2>a DEF HandlerMissing, NoticeCancellation, TimeOut, Collect, Deliver, Goto,
         Holding, handlerVars
  <2>4. CASE GoOn(t) \/ Exit(t) \/ Fetch(t) \/ FetchNothing(t)
    BY <1>0, <2>4, <2>a DEF GoOn, Exit, Fetch, FetchNothing, Goto, Holding, handlerVars,
         WorkerTypeOK
  <2>5. CASE Mark(t) /\ ~MayRun(wjob[t])
    BY <1>0, <2>5, <2>a DEF Mark, Goto, Holding, handlerVars, WorkerTypeOK
  <2>6. CASE HandIn(t) \/ HandInRaises(t)
    BY <1>0, <2>6, <2>a DEF HandIn, HandInRaises, Goto, Holding, handlerVars, WorkerTypeOK
  <2> QED
    BY <1>1, <2>1, <2>2, <2>3, <2>4, <2>5, <2>6 DEF WorkerStep, ResolveHandler
<1>2. ASSUME NEW k \in Jobs, HandlerStep(k)
      PROVE  Good
  BY <1>0, <1>2 DEF HandlerStep, HandlerReturns, LateReturn, loopVars, Held, WorkerTypeOK
<1>3. CASE FinishStart
  BY <1>0, <1>3, <1>a DEF FinishStart, WorkerStart, workerVars, handlerVars, Holding, WorkerTypeOK
<1>4. CASE Aside
  BY <1>4, <1>a DEF Aside, loopVars, handlerVars
<1> QED
  BY <1>1, <1>2, <1>3, <1>4, StepKinds

\* A job settled before it was marked running is never executed, and no
\* handler is started twice, across any stops, starts and restarts.
THEOREM SettledStaysOut == Spec => SettledNeverStarts
<1>1. BaseInv /\ LoopInv /\ HoldInv /\ [Next]_vars =>
        [\A j \in Jobs :
           /\ IsTerminal(j) /\ ~Held(j) => ~Held(j)'
           /\ handler[j] = "returned" => handler'[j] = "returned"]_<<queueVars, workerVars>>
  BY NeverStartsStep
<1> QED
  BY <1>1, HoldAlways, PTL DEF Spec, SettledNeverStarts

------------------------------------------------------------------------------
(* A stopped runtime owes nothing *)

\* The lifecycle lock and the flags: only an idle, unstopped runtime is
\* started, and nothing is open once the queue was closed for good.
RestInv ==
  /\ started => ~stopped /\ call = "idle"
  /\ stopped \/ call = "announcing" => \A j \in known : IsTerminal(j)

LEMMA RestInit == Init => RestInv
  BY DEF Init, RestInv

LEMMA RestNext == BaseInv /\ RestInv /\ [Next]_vars => RestInv'
<1> SUFFICES ASSUME BaseInv, RestInv, [Next]_vars
             PROVE  RestInv'
  OBVIOUS
<1> DEFINE Settled == \A j \in known : IsTerminal(j)
<1>0. QueueInv /\ QueueTypeOK /\ [QueueNext]_queueVars
  BY QueueStep DEF BaseInv, TypeOK
<1>1. ASSUME Settled, known' = known
      PROVE  Settled'
  BY <1>0, <1>1, TerminalStays DEF IsTerminal, QueueTypeOK
<1>2. ASSUME UNCHANGED <<started, stopped, call, known>>
      PROVE  RestInv'
  BY <1>1, <1>2 DEF RestInv
<1>3. CASE \E t \in Threads : WorkerStep(t) /\ UNCHANGED lifecycleVars
  <2>1. PICK t \in Threads : WorkerStep(t) /\ UNCHANGED lifecycleVars
    BY <1>3
  <2>2. known' = known
    BY <2>1 DEF WorkerStep, GoOn, Exit, Fetch, FetchNothing, Dequeue, DequeueNothing, Mark,
         MarkRunning, ResolveHandler, StartHandler, HandlerMissing, NoticeCancellation,
         TimeOut, Collect, Deliver, HandIn, HandInRaises, Complete, queueVars
  <2> QED
    BY <1>2, <2>1, <2>2 DEF lifecycleVars
<1>4. CASE \E j \in Jobs : HandlerStep(j) /\ UNCHANGED lifecycleVars
  BY <1>2, <1>4 DEF HandlerStep, HandlerReturns, LateReturn, queueVars, lifecycleVars
<1>5. CASE LifecycleStep
  <2> USE DEF Step, RestInv
  <2>1. CASE FinishStart
    <3>1. started' = TRUE /\ stopped' = FALSE /\ call' = "idle"
      BY <2>1 DEF FinishStart
    <3> QED
      BY <3>1
  <2>2. CASE StartRefused \/ UnloadRaises
    BY <1>1, <2>2 DEF StartRefused, UnloadRaises, queueVars
  <2>6. CASE Announce
    <3>1. /\ call = "announcing" /\ call' = "idle" /\ started' = started /\ known' = known
      BY <2>6 DEF Announce, queueVars
    <3>2. ~started' /\ Settled
      BY <3>1
    <3> QED
      BY <1>1, <3>1, <3>2
  <2>3. CASE DrainEnds \/ ForcedJoinEnds
    BY <1>1, <2>3 DEF DrainEnds, ForcedJoinEnds, queueVars
  <2>4. CASE ForceShutdown
    BY <1>1, <2>4 DEF ForceShutdown, Shutdown
  <2>5. CASE CloseQueue
    <3>1. /\ Finish(Unfinished, RuntimeShutdown) /\ known' = known
          /\ UNCHANGED <<started, stopped>> /\ call' = "announcing" /\ call = "unloading"
      BY <2>5 DEF CloseQueue, Shutdown
    <3>2. Settled'
      BY <1>0, <3>1, QueueResults DEF Finish, Unfinished, IsTerminal, TerminalStatus, QueueTypeOK
    <3> QED
      BY <3>1, <3>2
  <2> QED
    BY <1>5, <2>1, <2>2, <2>3, <2>4, <2>5, <2>6 DEF LifecycleStep
<1>6. CASE BeginStart
  BY <1>1, <1>6 DEF BeginStart, Initialize, Step, RestInv
<1>7. CASE BeginStop
  BY <1>1, <1>7 DEF BeginStop, queueVars, Step, RestInv
<1>8. ASSUME NEW j \in Jobs, EnqueueJob(j)
      PROVE  RestInv'
  BY <1>8 DEF EnqueueJob, lifecycleVars, RestInv
<1>9. ASSUME NEW j \in Jobs, CancelJob(j)
      PROVE  RestInv'
  BY <1>2, <1>9 DEF CancelJob, Cancel, lifecycleVars
<1>10. CASE \E n \in Names : RegisterHandler(n) \/ UnregisterHandler(n)
  BY <1>2, <1>10 DEF RegisterHandler, UnregisterHandler, queueVars
<1>11. CASE UNCHANGED vars
  BY <1>2, <1>11 DEF vars, queueVars, lifecycleVars
<1> QED
  BY <1>3, <1>4, <1>5, <1>6, <1>7, <1>8, <1>9, <1>10, <1>11 DEF Next

\* A stopped runtime has answered for every job it ever accepted, whether its
\* worker ended in time, was left running, or died.
THEOREM StoppedOwesNothing == Spec => []StoppedIsSettled
<1>1. RestInv => StoppedIsSettled
  BY DEF RestInv, StoppedIsSettled, AtRest
<1> QED
  BY <1>1, RestInit, BaseAlways, RestNext, PTL DEF Spec

------------------------------------------------------------------------------
(* Submission order *)

\* No queued job was submitted before the one in hand with at least its
\* priority.
OrderInv ==
  /\ \A j \in Jobs : order[j] <= sequence
  /\ \A t \in Threads : wpc[t] = "marking" /\ status[wjob[t]] = "QUEUED" =>
       \A k \in Jobs \ {wjob[t]} : status[k] = "QUEUED" =>
         ~(Priority[k] >= Priority[wjob[t]] /\ order[k] < order[wjob[t]])

LEMMA OrderInit == Init => OrderInv
  BY DEF Init, QueueInit, WorkerInit, OrderInv

LEMMA OrderNext ==
  BaseInv /\ LoopInv /\ NothingLost /\ OrderInv /\ [Next]_vars => OrderInv'
<1> SUFFICES ASSUME BaseInv, LoopInv, NothingLost, OrderInv, [Next]_vars
             PROVE  OrderInv'
  OBVIOUS
<1>0. /\ WorkerTypeOK /\ QueueTypeOK /\ QueueInv /\ HandInv
      /\ \A t \in Threads : wpc[t] = "marking" => wjob[t] \in known
  BY DEF BaseInv, TypeOK, HandInv
<1>a. ASSUME UNCHANGED <<order, sequence>>,
             \A t \in Threads : wpc'[t] = "marking" => wpc[t] = "marking" /\ wjob'[t] = wjob[t],
             \A k \in Jobs : status'[k] = "QUEUED" => status[k] = "QUEUED"
      PROVE  OrderInv'
  BY <1>0, <1>a DEF OrderInv, QueueTypeOK
<1>1. ASSUME NEW t \in Threads, WorkerStep(t)
      PROVE  OrderInv'
  <2>0. /\ wpc' = [wpc EXCEPT ![t] = wpc'[t]]
        /\ \A u \in Threads \ {t} : wpc'[u] = wpc[u] /\ wpc[u] # "marking"
    BY <1>0, <1>1, WorkerMoves, Alone DEF WorkerTypeOK, Live
  <2>a. ASSUME UNCHANGED <<order, sequence>>, wpc'[t] # "marking",
               \A k \in Jobs : status'[k] = "QUEUED" => status[k] = "QUEUED"
        PROVE  OrderInv'
    BY <1>a, <2>0, <2>a
  <2>1. CASE Fetch(t)
    <3>1. PICK j \in heap : Dequeue(j) /\ wjob' = [wjob EXCEPT ![t] = j]
      BY <2>1 DEF Fetch
    <3>2. /\ wpc[t] = "fetching" /\ wjob'[t] = j /\ j \in Jobs
          /\ UNCHANGED <<status, order, sequence>>
      BY <1>0, <2>1, <3>1 DEF Fetch, Goto, Dequeue, WorkerTypeOK, QueueTypeOK
    <3>3. ASSUME NEW k \in Jobs \ {j}, status[k] = "QUEUED"
          PROVE  ~(Priority[k] >= Priority[j] /\ order[k] < order[j])
      <4>1. k \in heap
        BY <2>0, <3>2, <3>3 DEF NothingLost
      <4>2. Before(j, k)
        BY <3>1, <3>3, <4>1 DEF Dequeue
      <4>3. Priority[j] \in Nat /\ Priority[k] \in Nat /\ order[j] \in Nat /\ order[k] \in Nat
        BY <1>0, <3>2, QueueAssumption DEF QueueTypeOK
      <4> QED
        BY <4>2, <4>3 DEF Before
    <3> QED
      BY <2>0, <3>2, <3>3 DEF OrderInv
  <2>2. CASE GoOn(t) \/ Exit(t) \/ FetchNothing(t)
    BY <1>0, <2>2, <2>a DEF GoOn, Exit, FetchNothing, DequeueNothing, Goto, queueVars, WorkerTypeOK
  <2>3. CASE Mark(t)
    <3>1. wjob[t] \in Jobs /\ MarkRunning(wjob[t]) /\ wpc'[t] # "marking"
      BY <1>0, <2>3 DEF Mark, Goto, QueueTypeOK, WorkerTypeOK
    <3>2. \A k \in Jobs : status'[k] = "QUEUED" => status[k] = "QUEUED"
      BY <1>0, <3>1, QueueResults DEF MarkRunning, Finish, QueueTypeOK
    <3> QED
      BY <2>a, <3>1, <3>2 DEF MarkRunning
  <2>4. CASE ResolveHandler(t) \/ NoticeCancellation(t) \/ TimeOut(t) \/ Collect(t)
    BY <1>0, <2>4, <2>a DEF ResolveHandler, StartHandler, HandlerMissing, NoticeCancellation,
         TimeOut, Collect, Deliver, Goto, queueVars, WorkerTypeOK
  <2>5. CASE HandIn(t) \/ HandInRaises(t)
    <3>1. /\ wpc[t] = "completing" /\ Complete(wjob[t], outcome[t])
          /\ wpc'[t] # "marking"
      BY <1>0, <2>5 DEF HandIn, HandInRaises, Goto, WorkerTypeOK
    <3>2. wjob[t] \in Jobs /\ outcome[t] \in Offered
      BY <1>0, <3>1, WorkerAssumption DEF HandInv, Holding, QueueTypeOK
    <3>3. \A k \in Jobs : status'[k] = "QUEUED" => status[k] = "QUEUED"
      BY <1>0, <3>1, <3>2, CompleteStatus DEF TerminalStatus
    <3> QED
      BY <2>a, <3>1, <3>3 DEF Complete
  <2> QED
    BY <1>1, <2>1, <2>2, <2>3, <2>4, <2>5 DEF WorkerStep
<1>2. ASSUME NEW k \in Jobs, HandlerStep(k)
      PROVE  OrderInv'
  BY <1>2, <1>a DEF HandlerStep, HandlerReturns, LateReturn, queueVars, loopVars
<1>3. CASE FinishStart
  BY <1>0, <1>3, <1>a DEF FinishStart, WorkerStart, queueVars, workerVars, WorkerTypeOK
<1>4. CASE Aside
  <2>0. UNCHANGED <<wpc, wjob>>
    BY <1>4 DEF Aside, loopVars
  <2>1. ASSUME NEW j \in Jobs, Enqueue(j)
        PROVE  OrderInv'
    <3>1. /\ j \notin known /\ sequence' = sequence + 1
          /\ order' = [order EXCEPT ![j] = sequence + 1]
          /\ status' = [status EXCEPT ![j] = "QUEUED"]
      BY <2>1 DEF Enqueue
    <3>2. \A k \in Jobs : order'[k] <= sequence'
      BY <1>0, <3>1 DEF OrderInv, QueueTypeOK
    <3>3. ASSUME NEW t \in Threads, wpc[t] = "marking", status'[wjob[t]] = "QUEUED",
                 NEW k \in Jobs \ {wjob[t]}, status'[k] = "QUEUED"
          PROVE  ~(Priority[k] >= Priority[wjob[t]] /\ order'[k] < order'[wjob[t]])
      <4>1. /\ wjob[t] \in Jobs /\ wjob[t] # j
            /\ status[wjob[t]] = "QUEUED" /\ order'[wjob[t]] = order[wjob[t]]
        BY <1>0, <3>1, <3>3 DEF QueueTypeOK
      <4>2. CASE k = j
        BY <1>0, <3>1, <4>1, <4>2 DEF OrderInv, QueueTypeOK
      <4>3. CASE k # j
        BY <1>0, <3>1, <3>3, <4>1, <4>3 DEF OrderInv, QueueTypeOK
      <4> QED
        BY <4>2, <4>3
    <3> QED
      BY <2>0, <3>2, <3>3 DEF OrderInv
  <2>2. ASSUME NEW j \in Jobs, Cancel(j)
        PROVE  OrderInv'
    BY <1>0, <2>0, <2>2, <1>a, QueueResults DEF Cancel, Finish, QueueTypeOK
  <2>3. CASE Shutdown(TRUE)
    BY <1>0, <2>0, <2>3, <1>a, QueueResults DEF Shutdown, Finish, QueueTypeOK
  <2>4. CASE Initialize \/ UNCHANGED queueVars
    BY <2>0, <2>4, <1>a DEF Initialize, queueVars
  <2> QED
    BY <1>4, <2>1, <2>2, <2>3, <2>4 DEF Aside, ClientOperation
<1> QED
  BY <1>1, <1>2, <1>3, <1>4, StepKinds

LEMMA OnlyMarkRuns ==
  ASSUME BaseInv, [Next]_vars, NEW j \in Jobs, status[j] = "QUEUED", status'[j] = "RUNNING"
  PROVE  \E t \in Threads : wpc[t] = "marking" /\ wjob[t] = j
<1>0. QueueInv /\ QueueTypeOK /\ HandInv
  BY DEF BaseInv, TypeOK
<1>1. ASSUME NEW t \in Threads, WorkerStep(t)
      PROVE  wpc[t] = "marking" /\ wjob[t] = j
  <2>1. CASE Mark(t)
    <3>1. wpc[t] = "marking" /\ MarkRunning(wjob[t])
      BY <2>1 DEF Mark
    <3>2. wjob[t] = j
      BY <1>0, <3>1, QueueResults DEF MarkRunning, Finish, QueueTypeOK
    <3> QED
      BY <3>1, <3>2
  <2>2. CASE HandIn(t) \/ HandInRaises(t)
    <3>1. wpc[t] = "completing" /\ Complete(wjob[t], outcome[t])
      BY <2>2 DEF HandIn, HandInRaises
    <3>2. wjob[t] \in Jobs /\ outcome[t] \in Offered
      BY <1>0, <3>1, WorkerAssumption DEF HandInv, Holding, QueueTypeOK
    <3> QED
      BY <1>0, <3>1, <3>2, CompleteStatus DEF TerminalStatus
  <2>3. CASE ~(Mark(t) \/ HandIn(t) \/ HandInRaises(t))
    BY <1>1, <2>3 DEF WorkerStep, GoOn, Exit, Fetch, FetchNothing, Dequeue, DequeueNothing,
         ResolveHandler, StartHandler, HandlerMissing, NoticeCancellation, TimeOut, Collect,
         Deliver, queueVars
  <2> QED
    BY <2>1, <2>2, <2>3
<1>2. ASSUME NEW k \in Jobs, HandlerStep(k)
      PROVE  FALSE
  BY <1>2 DEF HandlerStep, HandlerReturns, LateReturn, queueVars
<1>3. ~FinishStart
  BY DEF FinishStart, queueVars
<1>4. ASSUME Aside
      PROVE  FALSE
  <2>1. ASSUME NEW k \in Jobs, Enqueue(k) PROVE FALSE
    BY <1>0, <2>1 DEF Enqueue, QueueTypeOK
  <2>2. ASSUME NEW k \in Jobs, Cancel(k) PROVE FALSE
    BY <1>0, <2>2, QueueResults DEF Cancel, Finish, QueueTypeOK
  <2>3. CASE Shutdown(TRUE)
    BY <1>0, <2>3, QueueResults DEF Shutdown, Finish, QueueTypeOK
  <2>4. CASE Initialize \/ UNCHANGED queueVars
    BY <2>4 DEF Initialize, queueVars
  <2> QED
    BY <1>4, <2>1, <2>2, <2>3, <2>4 DEF Aside, ClientOperation
<1> QED
  BY <1>1, <1>2, <1>3, <1>4, StepKinds

\* Jobs start in the order of priority and submission, for any number of jobs
\* and priorities and across restarts.
THEOREM StartedInOrder == Spec => NoOvertaking
<1>1. Init => NothingLost
  BY DEF Init, QueueInit, NothingLost
<1>2. BaseInv /\ OrderInv /\ [Next]_vars =>
        [\A j \in Jobs : status[j] = "QUEUED" /\ status'[j] = "RUNNING" =>
           \A k \in Jobs \ {j} : status[k] = "QUEUED" =>
             ~(Priority[k] >= Priority[j] /\ order[k] < order[j])]_<<queueVars, workerVars>>
  BY OnlyMarkRuns DEF OrderInv
<1> QED
  BY <1>1, <1>2, BaseAlways, LoopAlways, NothingLostNext, OrderInit, OrderNext, PTL
  DEF Spec, NoOvertaking

------------------------------------------------------------------------------
(* The drain, with handler values that can be stored *)

\* What the first finding shows to be needed: no handler leaves a result whose
\* timestamps cannot be subtracted.
StorableValues == \A v \in Returns : Normalise(v).datable

\* An unsettled job is in the care of a live loop that will not end before it
\* has looked at every queued job, until a lifecycle call has settled them all.
CareInv ==
  /\ RunningIsHeld
  /\ started => Alive /\ ~stopRequested
  /\ Unfinished # {} =>
       /\ Alive
       /\ started \/ call \in {"draining", "forcing"}
       /\ stopRequested => drainOnStop

LEMMA CareInit == Init => CareInv
  BY DEF Init, QueueInit, WorkerInit, CareInv, RunningIsHeld, Unfinished

\* With storable values complete() never raises on what the worker hands in.
LEMMA AlwaysAccepted ==
  ASSUME StorableValues, NEW j \in Jobs, NEW r \in WorkerResults
  PROVE  Accepts(j, r)
  BY QueueResults DEF StorableValues, WorkerResults, Accepts, Settlement, Outcome

\* A step of the worker that keeps its job in hand, and its thread alive.
LEMMA CareOfWorker ==
  ASSUME StorableValues, BaseInv, LoopInv, HoldInv, CareInv,
         NEW t \in Threads, WorkerStep(t), UNCHANGED lifecycleVars,
         [QueueNext]_queueVars
  PROVE  CareInv'
<1>0. /\ WorkerTypeOK /\ QueueTypeOK /\ QueueInv /\ HandInv
      /\ started' = started /\ call' = call
  BY DEF BaseInv, TypeOK, lifecycleVars
<1>1. /\ Live(t) /\ thread = t /\ UNCHANGED controlVars
      /\ \A u \in Threads \ {t} : ~Live(u)
      /\ wpc' = [wpc EXCEPT ![t] = wpc'[t]]
  BY <1>0, WorkerMoves, Alone DEF LoopInv
<1>2. Alive
  BY <1>1, WorkerAssumption DEF Alive
<1>3. \A j \in Jobs : Held(j) => wpc[t] \in Holding /\ wjob[t] = j
  BY <1>1 DEF Held, Holding, Live
<1>a. ASSUME wpc'[t] \notin {"unborn", "dead"}
      PROVE  Alive'
  BY <1>1, <1>2, <1>a DEF Alive, Live, controlVars
<1>b. known' = known
  BY DEF WorkerStep, GoOn, Exit, Fetch, FetchNothing, Dequeue, DequeueNothing, Mark,
     MarkRunning, ResolveHandler, StartHandler, HandlerMissing, NoticeCancellation,
     TimeOut, Collect, Deliver, HandIn, HandInRaises, Complete, queueVars
<1>c. Unfinished' \subseteq Unfinished
  <2>1. ASSUME NEW j \in Jobs, IsTerminal(j)
        PROVE  IsTerminal(j)'
    BY <1>0, <2>1, TerminalStays DEF IsTerminal
  <2> QED
    BY <1>0, <1>b, <2>1 DEF Unfinished, QueueTypeOK
<1>d. ASSUME wpc'[t] \notin {"unborn", "dead"}, RunningIsHeld'
      PROVE  CareInv'
  BY <1>0, <1>1, <1>a, <1>c, <1>d DEF CareInv, controlVars
<1>e. ASSUME wpc'[t] \in Holding, wjob' = wjob, wpc[t] \in Holding, status' = status
      PROVE  CareInv'
  <2>1. RunningIsHeld'
    BY <1>3, <1>e DEF CareInv, RunningIsHeld, Held
  <2> QED
    BY <1>d, <1>e, <2>1 DEF Holding
<1>f. ASSUME wpc[t] \notin Holding, \A j \in Jobs : status'[j] # "RUNNING" \/ status'[j] = status[j]
      PROVE  RunningIsHeld'
  BY <1>3, <1>f DEF CareInv, RunningIsHeld
<1>4. CASE GoOn(t) \/ Fetch(t) \/ FetchNothing(t)
  <2>1. /\ wpc[t] \notin Holding /\ status' = status
        /\ wpc'[t] \notin {"unborn", "dead"}
    BY <1>0, <1>4 DEF GoOn, Fetch, FetchNothing, Dequeue, DequeueNothing, Goto, Holding,
         queueVars, WorkerTypeOK
  <2> QED
    BY <1>d, <1>f, <2>1
<1>5. CASE Exit(t)
  <2>1. /\ ShouldStop /\ wpc[t] = "checking" /\ status' = status
    BY <1>5 DEF Exit, Goto, queueVars
  <2>2. ~started
    BY <2>1 DEF ShouldStop, CareInv
  <2>3. Unfinished = {}
    <3> SUFFICES ASSUME NEW j \in Unfinished PROVE FALSE
      OBVIOUS
    <3>1. j \in Jobs /\ j \in known /\ ~IsTerminal(j)
      BY <1>0 DEF Unfinished, QueueTypeOK
    <3>2. ~HasQueuedJobs
      BY <2>1 DEF ShouldStop, CareInv
    <3>3. status[j] = "RUNNING"
      BY <1>0, <3>1, <3>2 DEF HasQueuedJobs, QueueInv, RecordsAgree, QueueTypeOK, Status,
           InFlightStatus, IsTerminal
    <3> QED
      BY <1>3, <2>1, <3>1, <3>3 DEF CareInv, RunningIsHeld, Holding
  <2>4. RunningIsHeld'
    BY <1>f, <2>1 DEF Holding
  <2> QED
    BY <1>0, <1>c, <2>2, <2>3, <2>4 DEF CareInv
<1>6. CASE Mark(t)
  <2>1. wpc[t] = "marking" /\ MarkRunning(wjob[t]) /\ wjob[t] \in Jobs
    BY <1>0, <1>6 DEF Mark, HandInv, QueueTypeOK
  <2>2. CASE MayRun(wjob[t])
    <3>1. wpc'[t] = "starting" /\ wjob' = wjob /\ status' = [status EXCEPT ![wjob[t]] = "RUNNING"]
      BY <1>0, <1>6, <2>1, <2>2 DEF Mark, MarkRunning, Goto, WorkerTypeOK
    <3>2. RunningIsHeld'
      BY <1>0, <1>3, <2>1, <3>1 DEF CareInv, RunningIsHeld, Held, Holding, QueueTypeOK
    <3> QED
      BY <1>d, <3>1, <3>2
  <2>3. CASE ~MayRun(wjob[t])
    <3>1. wpc'[t] = "checking"
      BY <1>0, <1>6, <2>3 DEF Mark, Goto, WorkerTypeOK
    <3>2. \A j \in Jobs : status'[j] # "RUNNING" \/ status'[j] = status[j]
      BY <1>0, <2>1, <2>3, QueueResults DEF MarkRunning, Finish, QueueTypeOK
    <3> QED
      BY <1>d, <1>f, <2>1, <3>1, <3>2 DEF Holding
  <2> QED
    BY <2>2, <2>3
<1>7. CASE ResolveHandler(t)
  BY <1>0, <1>7, <1>e DEF ResolveHandler, StartHandler, HandlerMissing, Deliver, Goto, Holding,
       queueVars, WorkerTypeOK
<1>8. CASE NoticeCancellation(t) \/ TimeOut(t) \/ Collect(t)
  BY <1>0, <1>8, <1>e DEF NoticeCancellation, TimeOut, Collect, Deliver, Goto, Holding,
       queueVars, WorkerTypeOK
<1>9. CASE HandIn(t) \/ HandInRaises(t)
  <2>1. /\ wpc[t] = "completing" /\ Complete(wjob[t], outcome[t])
        /\ wjob[t] \in known /\ wjob[t] \in Jobs
        /\ outcome[t] \in WorkerResults /\ outcome[t] \in Offered
    BY <1>0, <1>9, WorkerAssumption DEF HandIn, HandInRaises, HandInv, Holding, QueueTypeOK
  <2>2. HandIn(t) /\ wpc'[t] = "checking"
    BY <1>0, <1>9, <2>1, AlwaysAccepted DEF HandIn, HandInRaises, Goto, WorkerTypeOK
  <2>3. status'[wjob[t]] \in TerminalStatus
    <3>1. CASE IsTerminal(wjob[t])
      BY <1>0, <2>1, <3>1 DEF Complete, Finish, IsTerminal, QueueTypeOK
    <3>2. CASE ~IsTerminal(wjob[t])
      <4>1. status'[wjob[t]] = Settlement(wjob[t], outcome[t]).status
        BY <2>1, <3>2, AlwaysAccepted DEF Complete, Finish
      <4> QED
        BY <1>0, <2>1, <4>1, SettlementResult DEF JobResult
    <3> QED
      BY <3>1, <3>2
  <2>4. \A j \in Jobs : j # wjob[t] => status[j] # "RUNNING" /\ status'[j] = status[j]
    BY <1>0, <1>3, <2>1, CompleteStatus DEF CareInv, RunningIsHeld
  <2>5. RunningIsHeld'
    BY <2>3, <2>4 DEF RunningIsHeld, TerminalStatus
  <2> QED
    BY <1>d, <2>2, <2>5
<1> QED
  BY <1>4, <1>5, <1>6, <1>7, <1>8, <1>9 DEF WorkerStep

\* Clients and lifecycle calls put no job in execution and take none back.
LEMMA ClientStartsNothing ==
  ASSUME QueueInv, ClientOperation, NEW j \in Jobs, status'[j] = "RUNNING"
  PROVE  status[j] = "RUNNING"
<1> USE DEF QueueInv, QueueTypeOK
<1>1. ASSUME NEW k \in Jobs, Enqueue(k) \/ Cancel(k)
      PROVE  status[j] = "RUNNING"
  BY <1>1, QueueResults DEF Enqueue, Cancel, Finish
<1>2. CASE Shutdown(TRUE)
  BY <1>2, QueueResults DEF Shutdown, Finish
<1>3. CASE Initialize \/ UNCHANGED queueVars
  BY <1>3 DEF Initialize, queueVars
<1> QED
  BY <1>1, <1>2, <1>3 DEF ClientOperation

LEMMA CareNext ==
  ASSUME StorableValues
  PROVE  BaseInv /\ LoopInv /\ HoldInv /\ RestInv /\ CareInv /\ [Next]_vars => CareInv'
<1> SUFFICES ASSUME BaseInv, LoopInv, HoldInv, RestInv, CareInv, [Next]_vars
             PROVE  CareInv'
  OBVIOUS
<1>0. /\ WorkerTypeOK /\ QueueTypeOK /\ QueueInv /\ [QueueNext]_queueVars
      /\ started \in BOOLEAN /\ stopRequested \in BOOLEAN
  BY QueueStep DEF BaseInv, TypeOK, WorkerTypeOK
<1>a. ASSUME known' = known PROVE Unfinished' \subseteq Unfinished
  BY <1>0, <1>a, TerminalStays DEF Unfinished, IsTerminal, QueueTypeOK
<1>b. ASSUME Unfinished = {} PROVE \A j \in Jobs : status[j] # "RUNNING"
  BY <1>0, <1>b DEF Unfinished, QueueInv, RecordsAgree, IsTerminal, TerminalStatus
<1>c. Aside => RunningIsHeld'
  BY <1>0, ClientStartsNothing DEF Aside, loopVars, CareInv, RunningIsHeld, Held
<1>d. UNCHANGED <<thread, wpc>> => Alive' = Alive
  BY DEF Alive, Live
<1>1. CASE \E t \in Threads : WorkerStep(t) /\ UNCHANGED lifecycleVars
  BY <1>0, <1>1, CareOfWorker
<1>2. CASE \E j \in Jobs : HandlerStep(j) /\ UNCHANGED lifecycleVars
  BY <1>2 DEF HandlerStep, HandlerReturns, LateReturn, queueVars, controlVars, loopVars,
       lifecycleVars, CareInv, RunningIsHeld, Held, Alive, Live, Unfinished, IsTerminal
<1>3. ASSUME Aside, Unfinished' \subseteq Unfinished, UNCHANGED <<thread, stopRequested, drainOnStop, started>>,
             started \/ call' \in {"draining", "forcing"} \/ Unfinished' = {}
      PROVE  CareInv'
  BY <1>3, <1>c, <1>d DEF CareInv, Aside, loopVars
<1>4. ASSUME Unfinished' = {}, ~started', Aside
      PROVE  CareInv'
  BY <1>4, <1>c DEF CareInv
<1>k. ASSUME UNCHANGED <<queueVars, workerVars>> \/ UNCHANGED queueVars \/ Initialize
      PROVE  Unfinished' \subseteq Unfinished
  BY <1>k, <1>a DEF queueVars, Initialize
<1>s. call # "idle" => ~started
  BY DEF RestInv
<1>5. CASE FinishStart
  <2>0. call = "starting" /\ call' = "idle" /\ UNCHANGED queueVars /\ WorkerStart /\ ~StillStopping
    BY <1>5 DEF FinishStart, Step
  <2>1. Unfinished = {}
    BY <1>s, <2>0 DEF CareInv
  <2>2. Unfinished' = {}
    BY <1>k, <2>0, <2>1
  <2>3. RunningIsHeld'
    BY <1>b, <2>0, <2>1 DEF RunningIsHeld, queueVars
  <2>4. Alive' /\ ~stopRequested'
    <3>1. CASE Alive
      BY <1>d, <2>0, <3>1 DEF WorkerStart, StillStopping, workerVars
    <3>2. CASE ~Alive
      <4>1. PICK t \in Threads : thread' = t /\ wpc' = [wpc EXCEPT ![t] = "checking"]
        BY <2>0, <3>2 DEF WorkerStart
      <4>2. stopRequested' = FALSE
        BY <2>0, <3>2 DEF WorkerStart
      <4> QED
        BY <1>0, <4>1, <4>2, WorkerAssumption DEF Alive, Live, WorkerTypeOK
    <3> QED
      BY <3>1, <3>2
  <2> QED
    BY <2>2, <2>3, <2>4 DEF CareInv
<1>6. CASE StartRefused \/ UnloadRaises \/ Announce \/ ForcedJoinEnds
  <2>1. Unfinished' \subseteq Unfinished /\ call \in {"starting", "unloading", "announcing", "joining"}
        /\ started' = started /\ Aside
    BY <1>6, <1>k DEF StartRefused, UnloadRaises, Announce, ForcedJoinEnds, Joined, Step, Aside,
         workerVars, loopVars, handlerVars, ClientOperation
  <2> QED
    BY <1>4, <1>s, <2>1 DEF CareInv
<1>7. CASE DrainEnds
  <2>0. /\ UNCHANGED <<queueVars, started, stopRequested, drainOnStop>> /\ call = "draining"
        /\ thread' = (IF Alive THEN thread ELSE NoThread)
        /\ call' = (IF Alive THEN "forcing" ELSE "unloading")
        /\ Aside /\ Unfinished' \subseteq Unfinished
    BY <1>7, <1>k DEF DrainEnds, Joined, Step, Aside, ClientOperation
  <2>1. CASE Alive
    BY <1>3, <2>0, <2>1
  <2>2. CASE ~Alive
    BY <1>4, <1>s, <2>0, <2>2 DEF CareInv
  <2> QED
    BY <2>1, <2>2
<1>8. CASE ForceShutdown \/ CloseQueue
  <2>0. /\ Shutdown(TRUE) /\ started' = started /\ ~started /\ Aside
    BY <1>8, <1>s DEF ForceShutdown, CloseQueue, RequestStop, Step, Aside, workerVars, loopVars,
         handlerVars, ClientOperation
  <2>1. Unfinished' = {}
    BY <1>0, <2>0, QueueResults DEF Shutdown, Finish, Unfinished, IsTerminal, TerminalStatus, QueueTypeOK
  <2> QED
    BY <1>4, <2>0, <2>1
<1>9. CASE BeginStart
  <2>1. ~started /\ started' = started /\ call = "idle" /\ Aside /\ Unfinished' \subseteq Unfinished
    BY <1>9, <1>k DEF BeginStart, Step, Aside, workerVars, loopVars, handlerVars, ClientOperation
  <2> QED
    BY <1>4, <2>1 DEF CareInv
<1>10. CASE BeginStop
  <2>1. /\ started' = FALSE /\ call' = "draining" /\ RequestStop(TRUE)
        /\ UNCHANGED <<thread, wpc>> /\ Aside /\ Unfinished' \subseteq Unfinished
    BY <1>10, <1>k DEF BeginStop, RequestStop, Step, Aside, loopVars, ClientOperation
  <2>2. Alive => thread # NoThread
    BY DEF Alive
  <2>3. Unfinished # {} => Alive' /\ drainOnStop' = TRUE
    BY <1>d, <2>1, <2>2 DEF CareInv, RequestStop
  <2> QED
    BY <1>c, <2>1, <2>3 DEF CareInv
<1>11. ASSUME NEW j \in Jobs, EnqueueJob(j)
       PROVE  CareInv'
  <2>1. started /\ UNCHANGED <<workerVars, lifecycleVars>> /\ Aside
    BY <1>11 DEF EnqueueJob, Aside, workerVars, loopVars, handlerVars, ClientOperation
  <2> QED
    BY <1>c, <1>d, <2>1 DEF CareInv, workerVars, lifecycleVars
<1>12. ASSUME NEW j \in Jobs, CancelJob(j)
       PROVE  CareInv'
  <2>1. UNCHANGED <<workerVars, lifecycleVars>> /\ Aside /\ Unfinished' \subseteq Unfinished
    BY <1>12, <1>a DEF CancelJob, Cancel, Aside, workerVars, loopVars, handlerVars, ClientOperation
  <2> QED
    BY <1>3, <2>1 DEF CareInv, workerVars, lifecycleVars
<1>13. CASE (\E n \in Names : RegisterHandler(n) \/ UnregisterHandler(n)) \/ UNCHANGED vars
  <2>1. /\ UNCHANGED <<workerVars, queueVars, started, call>> /\ Aside
        /\ Unfinished' \subseteq Unfinished
    BY <1>13, <1>k DEF RegisterHandler, UnregisterHandler, vars, lifecycleVars, Aside,
         workerVars, loopVars, handlerVars, ClientOperation
  <2> QED
    BY <1>3, <2>1 DEF CareInv, workerVars
<1> QED
  BY <1>1, <1>2, <1>5, <1>6, <1>7, <1>8, <1>9, <1>10, <1>11, <1>12, <1>13 DEF Next, LifecycleStep

LEMMA CareAlways ==
  ASSUME StorableValues
  PROVE  Spec => []CareInv
<1>1. BaseInv /\ LoopInv /\ HoldInv /\ RestInv /\ CareInv /\ [Next]_vars => CareInv'
  BY CareNext
<1> QED
  BY <1>1, CareInit, HoldAlways, RestInit, RestNext, PTL DEF Spec

\* If no handler leaves timestamps that cannot be subtracted, a RUNNING job is
\* always in the hands of a loop that will settle it.
THEOREM RunningAlwaysHeld ==
  ASSUME StorableValues
  PROVE  Spec => []RunningIsHeld
<1>1. CareInv => RunningIsHeld
  BY DEF CareInv
<1> QED
  BY <1>1, CareAlways, PTL

\* Under the same condition the worker outlives its handlers: the documented
\* promise whose violation without the condition is the first finding.
THEOREM WorkerSurvives ==
  ASSUME StorableValues
  PROVE  Spec => []WorkerSurvivesHandlers
<1>1. CareInv => WorkerSurvivesHandlers
  BY DEF CareInv, WorkerSurvivesHandlers
<1> QED
  BY <1>1, CareAlways, PTL

\* Under the same condition stop() drains: a queue that was not closed by
\* force has no unsettled job left when stop() goes on to close it.
THEOREM StopDrains ==
  ASSUME StorableValues
  PROVE  Spec => []DrainedBeforeClose
<1>1. BaseInv /\ RestInv /\ CareInv => DrainedBeforeClose
  BY DEF CareInv, RestInv, DrainedBeforeClose, Unfinished
<1> QED
  BY <1>1, CareAlways, BaseAlways, RestInit, RestNext, PTL DEF Spec
==============================================================================
