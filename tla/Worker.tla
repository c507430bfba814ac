------------------------------- MODULE Worker --------------------------------
(***************************************************************************)
(* The worker of backend/runtime/worker.py: the loop of its thread, the    *)
(* handler threads it starts, and its start and stop.  The operations on   *)
(* the queue are those of TaskQueue; between two of them other threads     *)
(* run.  A handler thread cannot be stopped: once the worker gives up on   *)
(* it (cancellation, timeout) it goes on in the background.                *)
(***************************************************************************)
EXTENDS TaskQueue, HandlerResult

CONSTANTS
  Threads,    \* the worker threads start() may create, one per start
  NoThread,
  NoJob,
  Timed,      \* the jobs with a timeout_seconds
  Returns     \* the values handlers leave behind

\* Everything the worker can hand to complete().
WorkerResults ==
  {JobCancelled, Outcome("TIMED_OUT", "JOB_TIMEOUT"),
   Outcome("FAILED", "HANDLER_NOT_FOUND")} \cup {Normalise(v) : v \in Returns}

ASSUME WorkerAssumption ==
  /\ NoThread \notin Threads
  /\ NoJob \notin Jobs
  /\ Timed \subseteq Jobs
  /\ Returns \subseteq Producible
  /\ WorkerResults \subseteq Offered

VARIABLES
  thread,         \* _thread, or NoThread for None
  stopRequested,  \* _stop_requested
  drainOnStop,    \* _drain_on_stop
  wpc,            \* [Threads -> where the thread is in _run_loop]
  wjob,           \* [Threads -> the job in its hands, or NoJob]
  outcome,        \* [Threads -> the result it is about to hand in]
  handler,        \* [Jobs -> state of the job's handler thread]
  raw             \* [Jobs -> value the handler left for the worker, or NoRaw]

controlVars == <<thread, stopRequested, drainOnStop>>
loopVars    == <<wpc, wjob, outcome>>
handlerVars == <<handler, raw>>
workerVars  == <<thread, stopRequested, drainOnStop, wpc, wjob, outcome, handler, raw>>

Location == {"unborn", "checking", "fetching", "marking", "starting",
             "waiting", "completing", "dead"}

Holding == {"starting", "waiting", "completing"}

Live(t) == wpc[t] \notin {"unborn", "dead"}

\* is_alive() of the current thread.  The loop clears _running as its last
\* act, so this is also the value of Worker.running.
Alive == thread # NoThread /\ Live(thread)

WorkerInit ==
  /\ thread        = NoThread
  /\ stopRequested = FALSE
  /\ drainOnStop   = FALSE
  /\ wpc           = [t \in Threads |-> "unborn"]
  /\ wjob          = [t \in Threads |-> NoJob]
  /\ outcome       = [t \in Threads |-> NoResult]
  /\ handler       = [j \in Jobs |-> "none"]
  /\ raw           = [j \in Jobs |-> NoRaw]

------------------------------------------------------------------------------
(* start and stop, called by the runtime *)

\* A new thread, unless the current one is alive.  (The runtime refuses a
\* thread that is alive and still stopping before it gets here.)
WorkerStart ==
  IF Alive THEN UNCHANGED workerVars
  ELSE /\ \E t \in Threads :
            /\ wpc[t] = "unborn"
            /\ thread' = t
            /\ wpc' = [wpc EXCEPT ![t] = "checking"]
       /\ stopRequested' = FALSE
       /\ drainOnStop' = FALSE
       /\ UNCHANGED <<wjob, outcome, handlerVars>>

StillStopping == Alive /\ stopRequested

\* The first half of stop(): leave the flags for the loop to see.
RequestStop(drain) ==
  /\ IF thread = NoThread
     THEN UNCHANGED <<stopRequested, drainOnStop>>
     ELSE stopRequested' = TRUE /\ drainOnStop' = drain
  /\ UNCHANGED <<thread, loopVars, handlerVars>>

\* The thread is forgotten even if the join timed out.
FaultJoined ==
  /\ thread' = NoThread
  /\ UNCHANGED <<stopRequested, drainOnStop, loopVars, handlerVars>>

\* The second half, after join(timeout): a thread still alive is kept.
Joined ==
  /\ thread' = IF Alive THEN thread ELSE NoThread
  /\ UNCHANGED <<stopRequested, drainOnStop, loopVars, handlerVars>>

------------------------------------------------------------------------------
(* The loop of thread t *)

\* A stop request ends the loop whether or not it is to drain.
FaultShouldStop == stopRequested

ShouldStop == stopRequested /\ (drainOnStop => ~HasQueuedJobs)

Goto(t, from, to) == wpc[t] = from /\ wpc' = [wpc EXCEPT ![t] = to]

LetGo(t) ==
  /\ wjob' = [wjob EXCEPT ![t] = NoJob]
  /\ outcome' = [outcome EXCEPT ![t] = NoResult]

GoOn(t) ==
  /\ ~ShouldStop
  /\ Goto(t, "checking", "fetching")
  /\ UNCHANGED <<queueVars, controlVars, wjob, outcome, handlerVars>>

Exit(t) ==
  /\ ShouldStop
  /\ Goto(t, "checking", "dead")
  /\ UNCHANGED <<queueVars, controlVars, wjob, outcome, handlerVars>>

Fetch(t) ==
  /\ Goto(t, "fetching", "marking")
  /\ \E j \in heap : Dequeue(j) /\ wjob' = [wjob EXCEPT ![t] = j]
  /\ UNCHANGED <<controlVars, outcome, handlerVars>>

FetchNothing(t) ==
  /\ Goto(t, "fetching", "checking")
  /\ DequeueNothing
  /\ UNCHANGED <<controlVars, wjob, outcome, handlerVars>>

\* The job may have been cancelled since it was dequeued.
Mark(t) ==
  /\ wpc[t] = "marking"
  /\ MarkRunning(wjob[t])
  /\ \/ /\ MayRun(wjob[t])
        /\ Goto(t, "marking", "starting")
        /\ UNCHANGED <<wjob, outcome>>
     \/ /\ ~MayRun(wjob[t])
        /\ Goto(t, "marking", "checking")
        /\ LetGo(t)
  /\ UNCHANGED <<controlVars, handlerVars>>

Deliver(t, from, r) ==
  /\ Goto(t, from, "completing")
  /\ outcome' = [outcome EXCEPT ![t] = r]
  /\ UNCHANGED <<queueVars, controlVars, wjob, handlerVars>>

\* A job without a handler is skipped instead of failed.
FaultHandlerMissing(t) ==
  /\ Goto(t, "starting", "checking")
  /\ LetGo(t)
  /\ UNCHANGED <<queueVars, controlVars, handlerVars>>

HandlerMissing(t) == Deliver(t, "starting", Outcome("FAILED", "HANDLER_NOT_FOUND"))

\* The handler thread starts whatever happened to the job since mark_running.
StartHandler(t) ==
  /\ Goto(t, "starting", "waiting")
  /\ handler' = [handler EXCEPT ![wjob[t]] = "executing"]
  /\ UNCHANGED <<queueVars, controlVars, wjob, outcome, raw>>

\* The flag is read only after the handler returned.
FaultNoticeCancellation(t) ==
  /\ wpc[t] = "waiting"
  /\ cancelled[wjob[t]]
  /\ handler[wjob[t]] = "returned"
  /\ Deliver(t, "waiting", JobCancelled)

\* The flag is read between two waits, and again after the handler returned.
NoticeCancellation(t) ==
  /\ wpc[t] = "waiting"
  /\ cancelled[wjob[t]]
  /\ Deliver(t, "waiting", JobCancelled)

\* The clock is read only after the handler returned.
FaultTimeOut(t) ==
  /\ wpc[t] = "waiting"
  /\ wjob[t] \in Timed
  /\ handler[wjob[t]] = "returned"
  /\ Deliver(t, "waiting", Outcome("TIMED_OUT", "JOB_TIMEOUT"))

\* The clock is read after an unsuccessful wait and after the flag: the
\* handler may return, and the flag be raised, before the verdict is drawn.
TimeOut(t) ==
  /\ wpc[t] = "waiting"
  /\ wjob[t] \in Timed
  /\ Deliver(t, "waiting", Outcome("TIMED_OUT", "JOB_TIMEOUT"))

Collect(t) ==
  /\ wpc[t] = "waiting"
  /\ handler[wjob[t]] = "returned"
  /\ ~cancelled[wjob[t]]
  /\ Deliver(t, "waiting", Normalise(raw[wjob[t]]))

HandIn(t) ==
  /\ wpc[t] = "completing"
  /\ Accepts(wjob[t], outcome[t])
  /\ Complete(wjob[t], outcome[t])
  /\ Goto(t, "completing", "checking")
  /\ LetGo(t)
  /\ UNCHANGED <<controlVars, handlerVars>>

\* complete() raises: nothing in the loop catches it and the thread ends.
HandInRaises(t) ==
  /\ wpc[t] = "completing"
  /\ ~Accepts(wjob[t], outcome[t])
  /\ Complete(wjob[t], outcome[t])
  /\ Goto(t, "completing", "dead")
  /\ LetGo(t)
  /\ UNCHANGED <<controlVars, handlerVars>>

------------------------------------------------------------------------------
(* The handler thread of job j *)

Awaited(j) == \E t \in Threads : wpc[t] = "waiting" /\ wjob[t] = j

HandlerReturns(j) ==
  /\ handler[j] = "executing"
  /\ Awaited(j)
  /\ handler' = [handler EXCEPT ![j] = "returned"]
  /\ \E v \in Returns : raw' = [raw EXCEPT ![j] = v]
  /\ UNCHANGED <<queueVars, controlVars, loopVars>>

\* Nobody reads what a handler leaves after the worker has given up on it.
LateReturn(j) ==
  /\ handler[j] = "executing"
  /\ ~Awaited(j)
  /\ handler' = [handler EXCEPT ![j] = "returned"]
  /\ UNCHANGED <<queueVars, controlVars, loopVars, raw>>

------------------------------------------------------------------------------
(* Properties *)

\* The variables of the worker have their types.
WorkerTypeOK ==
  /\ thread \in Threads \cup {NoThread}
  /\ stopRequested \in BOOLEAN
  /\ drainOnStop \in BOOLEAN
  /\ wpc \in [Threads -> Location]
  /\ wjob \in [Threads -> Jobs \cup {NoJob}]
  /\ outcome \in [Threads -> WorkerResults \cup {NoResult}]
  /\ handler \in [Jobs -> {"none", "executing", "returned"}]
  /\ raw \in [Jobs -> Returns \cup {NoRaw}]

\* However often the runtime is stopped and started, one loop at a time
\* serves the queue: start never adds a thread to one that is still alive.
OneLoop == \A t, u \in Threads : Live(t) /\ Live(u) => t = u

\* An accepted job is never dropped: as long as it is queued the heap has its
\* entry, or the worker has it in hand between dequeue and mark_running.
NothingLost ==
  \A j \in Jobs : status[j] = "QUEUED" =>
    j \in heap \/ \E t \in Threads : wpc[t] = "marking" /\ wjob[t] = j

\* Job j is being executed, as far as the worker goes.
Held(j) == \E t \in Threads : wpc[t] \in Holding /\ wjob[t] = j

\* A job is shown RUNNING only while a live loop has it in hand and will
\* settle it.
RunningIsHeld ==
  \A j \in Jobs : status[j] = "RUNNING" => Held(j)

\* SUCCEEDED is never manufactured: the job's own handler returned while the
\* worker waited for it, its value is a success, and no cancellation was
\* accepted at any time before the result was stored.
SuccessIsEarned ==
  \A j \in Jobs : status[j] = "SUCCEEDED" =>
    /\ handler[j] = "returned"
    /\ raw[j] \in Returns
    /\ Normalise(raw[j]) = result[j]
    /\ ~cancelled[j]

\* A job settled while it was queued, or in hand but not yet marked running
\* (by a cancellation or a shutdown), never enters execution; and no handler
\* is started a second time.
SettledNeverStarts ==
  [][\A j \in Jobs :
        /\ IsTerminal(j) /\ ~Held(j) => ~Held(j)'
        /\ handler[j] = "returned" => handler'[j] = "returned"]_<<queueVars, workerVars>>

\* No job starts ahead of one that was submitted before it with at least the
\* same priority and is still queued, wherever the worker stands.
NoOvertaking ==
  [][\A j \in Jobs : status[j] = "QUEUED" /\ status'[j] = "RUNNING" =>
        \A k \in Jobs \ {j} : status[k] = "QUEUED" =>
           ~(Priority[k] >= Priority[j] /\ order[k] < order[j])]_<<queueVars, workerVars>>
==============================================================================
