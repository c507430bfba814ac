------------------------------- MODULE Runtime -------------------------------
(***************************************************************************)
(* The runtime of backend/runtime/runtime.py: the queue, the worker and    *)
(* its handlers, under the lifecycle calls start() and stop() and the      *)
(* client calls of the Runtime API.                                        *)
(*                                                                         *)
(* start, stop and enqueue_job hold the lifecycle lock from beginning to   *)
(* end; "call" is how far the call that holds it has got.  cancel_job      *)
(* and the handler registry do not take that lock.                         *)
(***************************************************************************)
EXTENDS Worker

CONSTANTS
  Names,        \* the names handlers are registered under
  HandlerName   \* [Jobs -> Names], Job.effective_handler_name

ASSUME RuntimeAssumption == HandlerName \in [Jobs -> Names]

VARIABLES
  started,      \* _started
  stopped,      \* _stopped
  call,         \* the lifecycle call in progress, "idle" if the lock is free
  registered    \* the keys of _handlers

lifecycleVars == <<started, stopped, call, registered>>
vars == <<queueVars, workerVars, lifecycleVars>>

Init ==
  /\ QueueInit
  /\ WorkerInit
  /\ started    = FALSE
  /\ stopped    = FALSE
  /\ call       = "idle"
  /\ registered = {}

Step(from, to) == call = from /\ call' = to

------------------------------------------------------------------------------
(* start() *)

\* Up to the opening of the queue.  The second conjunct bounds the number of
\* starts by the number of threads the model has.
BeginStart ==
  /\ ~started
  /\ \E t \in Threads : wpc[t] = "unborn"
  /\ Initialize
  /\ Step("idle", "starting")
  /\ UNCHANGED <<workerVars, started, stopped, registered>>

FinishStart ==
  /\ ~StillStopping
  /\ WorkerStart
  /\ started' = TRUE
  /\ stopped' = FALSE
  /\ Step("starting", "idle")
  /\ UNCHANGED <<queueVars, registered>>

\* Worker.start raises; the queue has been opened and stays open.
StartRefused ==
  /\ StillStopping
  /\ Step("starting", "idle")
  /\ UNCHANGED <<queueVars, workerVars, started, stopped, registered>>

------------------------------------------------------------------------------
(* stop() *)

BeginStop ==
  /\ ~stopped
  /\ started' = FALSE
  /\ RequestStop(TRUE)
  /\ Step("idle", "draining")
  /\ UNCHANGED <<queueVars, stopped, registered>>

\* The worker is joined without a timeout.
FaultDrainEnds ==
  /\ ~Alive
  /\ Joined
  /\ Step("draining", "unloading")
  /\ UNCHANGED <<queueVars, started, stopped, registered>>

\* The join returns when the thread has ended, or after five seconds.
DrainEnds ==
  /\ Joined
  /\ Step("draining", IF Alive THEN "forcing" ELSE "unloading")
  /\ UNCHANGED <<queueVars, started, stopped, registered>>

\* A worker that is still running has its jobs cancelled under it.
ForceShutdown ==
  /\ Shutdown(TRUE)
  /\ RequestStop(FALSE)
  /\ Step("forcing", "joining")
  /\ UNCHANGED <<started, stopped, registered>>

\* The last join, of one second; a thread still alive is left to itself.
ForcedJoinEnds ==
  /\ Joined
  /\ Step("joining", "unloading")
  /\ UNCHANGED <<queueVars, started, stopped, registered>>

\* A plugin's unload() raises out of stop(), which can be called again.
UnloadRaises ==
  /\ Step("unloading", "idle")
  /\ UNCHANGED <<queueVars, workerVars, started, stopped, registered>>

CloseQueue ==
  /\ Shutdown(TRUE)
  /\ Step("unloading", "announcing")
  /\ UNCHANGED <<workerVars, started, stopped, registered>>

\* RuntimeStopped is published before _stopped is set; a subscriber may raise.
Announce ==
  /\ Step("announcing", "idle")
  /\ stopped' \in {stopped, TRUE}
  /\ UNCHANGED <<queueVars, workerVars, started, registered>>

------------------------------------------------------------------------------
(* Client calls *)

EnqueueJob(j) ==
  /\ call = "idle"
  /\ started
  /\ Enqueue(j)
  /\ UNCHANGED <<workerVars, lifecycleVars>>

\* The flag is raised without asking the queue.
FaultCancelJob(j) ==
  /\ j \in known
  /\ cancelled' = [cancelled EXCEPT ![j] = TRUE]
  /\ UNCHANGED <<known, status, result, heap, order, sequence, closed>>
  /\ UNCHANGED <<workerVars, lifecycleVars>>

CancelJob(j) ==
  /\ Cancel(j)
  /\ UNCHANGED <<workerVars, lifecycleVars>>

RegisterHandler(n) ==
  /\ registered' = registered \cup {n}
  /\ UNCHANGED <<queueVars, workerVars, started, stopped, call>>

UnregisterHandler(n) ==
  /\ registered' = registered \ {n}
  /\ UNCHANGED <<queueVars, workerVars, started, stopped, call>>

------------------------------------------------------------------------------

\* The worker looks the handler up when it starts the job.
ResolveHandler(t) ==
  /\ wpc[t] = "starting"
  /\ IF HandlerName[wjob[t]] \in registered THEN StartHandler(t) ELSE HandlerMissing(t)

WorkerStep(t) ==
  \/ GoOn(t) \/ Exit(t) \/ Fetch(t) \/ FetchNothing(t) \/ Mark(t)
  \/ ResolveHandler(t) \/ NoticeCancellation(t) \/ TimeOut(t) \/ Collect(t)
  \/ HandIn(t) \/ HandInRaises(t)

LifecycleStep ==
  \/ FinishStart \/ StartRefused
  \/ DrainEnds \/ ForceShutdown \/ ForcedJoinEnds
  \/ UnloadRaises \/ CloseQueue \/ Announce

HandlerStep(j) == HandlerReturns(j) \/ LateReturn(j)

Next ==
  \/ \E t \in Threads : WorkerStep(t) /\ UNCHANGED lifecycleVars
  \/ \E j \in Jobs : HandlerStep(j) /\ UNCHANGED lifecycleVars
  \/ LifecycleStep
  \/ BeginStart \/ BeginStop
  \/ \E j \in Jobs : EnqueueJob(j) \/ CancelJob(j)
  \/ \E n \in Names : RegisterHandler(n) \/ UnregisterHandler(n)

Spec == Init /\ [][Next]_vars

\* The threads of the worker and of a lifecycle call in progress are
\* scheduled, and their clocks run.  Clients and handlers owe nothing: a
\* handler may never return.
Fairness ==
  /\ \A t \in Threads : WF_vars(WorkerStep(t) /\ UNCHANGED lifecycleVars)
  /\ WF_vars(LifecycleStep)

FairSpec == Spec /\ Fairness

------------------------------------------------------------------------------
(* Properties *)

Call == {"idle", "starting", "draining", "forcing", "joining", "unloading",
         "announcing"}

\* Every variable has its type.
TypeOK ==
  /\ QueueTypeOK
  /\ WorkerTypeOK
  /\ started \in BOOLEAN
  /\ stopped \in BOOLEAN
  /\ call \in Call
  /\ registered \subseteq Names

\* The runtime is inactive, from the setting of _stopped to the next start.
AtRest == stopped /\ call = "idle"

\* A stopped runtime owes nobody an answer: every job it ever accepted has its
\* terminal result, even if a handler ignored its cancellation, the worker
\* outlived both joins or died, or an attempt to start again was refused.
StoppedIsSettled == AtRest => \A j \in known : IsTerminal(j)

\* stop() lets accepted jobs finish: unless the drain ran into its timeout
\* (which closes the queue), every job is settled, by the worker, before the
\* queue is closed over it.
DrainedBeforeClose ==
  call = "unloading" /\ ~closed => \A j \in known : IsTerminal(j)

\* docs/runtime.md:46, of a stopped runtime: an enqueue after shutdown is
\* rejected with a RuntimeError.
StoppedQueueIsClosed == AtRest => closed

\* backend/runtime/worker.py:156, "boundary converts arbitrary handlers
\* safely": no value a handler returns ends the loop, which ends only when it
\* is asked to.
WorkerSurvivesHandlers == started => Alive

\* stop() always returns, and so gives the lifecycle lock back, whatever the
\* handlers do; so does start().
CallsReturn == call # "idle" ~> call = "idle"

\* Unless a job without a timeout is executed for ever, every accepted job is
\* settled in the end, across any number of stops and starts.
AcceptedIsSettled ==
  \/ \E k \in Jobs \ Timed : <>[](status[k] = "RUNNING")
  \/ \A j \in Jobs : j \in known ~> IsTerminal(j)

\* An accepted cancellation takes effect even if the handler never returns.
CancellationSettles == \A j \in Jobs : cancelled[j] ~> status[j] = "CANCELLED"
==============================================================================
