------------------------------ MODULE TaskQueue ------------------------------
(***************************************************************************)
(* The priority queue and job store of backend/runtime/task_queue.py,      *)
(* under clients that call its public operations in any order.  Every      *)
(* operation runs under one reentrant lock, so each is one action.         *)
(* A completion event is set exactly where a result is stored, and the     *)
(* records of a job (job.result and _results[id]) are the same object, so  *)
(* "result" stands for all three.                                          *)
(***************************************************************************)
EXTENDS ExecutionStatus, Naturals

CONSTANTS
  Jobs,       \* the jobs clients may submit, each under an id of its own
  Priority,   \* [Jobs -> Nat], JobPriority: a larger number is served first
  Offered     \* the results complete() may be called with

ASSUME QueueAssumption ==
  /\ Priority \in [Jobs -> Nat]
  /\ Offered \subseteq JobResult

VARIABLES
  known,      \* the ids in _jobs; a job is remembered for ever
  status,     \* [Jobs -> Status]
  cancelled,  \* [Jobs -> BOOLEAN]
  result,     \* [Jobs -> JobResult \cup {NoResult}]
  heap,       \* the jobs with an entry in _heap
  order,      \* [Jobs -> Nat], the sequence number of a job's heap entry
  sequence,   \* the last sequence number given out
  closed      \* _shutdown

queueVars == <<known, status, cancelled, result, heap, order, sequence, closed>>

IsTerminal(j) == status[j] \in TerminalStatus

QueueInit ==
  /\ known     = {}
  /\ status    = [j \in Jobs |-> "PENDING"]
  /\ cancelled = [j \in Jobs |-> FALSE]
  /\ result    = [j \in Jobs |-> NoResult]
  /\ heap      = {}
  /\ order     = [j \in Jobs |-> 0]
  /\ sequence  = 0
  /\ closed    = FALSE

------------------------------------------------------------------------------
(* Operations.  A definition named Fault... is a mistake that could be made *)
(* in the operation below it; the specification does not use it, and the   *)
(* README names the property that tells the two apart.                     *)

\* Opens the queue for a (possibly restarted) runtime; keeps heap and records.
Initialize ==
  /\ closed' = FALSE
  /\ UNCHANGED <<known, status, cancelled, result, heap, order, sequence>>

\* The job is queued but not recorded in _jobs.
FaultEnqueue(j) ==
  /\ ~closed
  /\ j \notin known
  /\ status'    = [status EXCEPT ![j] = "QUEUED"]
  /\ sequence'  = sequence + 1
  /\ order'     = [order EXCEPT ![j] = sequence + 1]
  /\ heap'      = heap \cup {j}
  /\ UNCHANGED <<known, cancelled, result, closed>>

\* Rejects a closed queue and an id it has seen before.
Enqueue(j) ==
  /\ ~closed
  /\ j \notin known
  /\ known'     = known \cup {j}
  /\ status'    = [status EXCEPT ![j] = "QUEUED"]
  /\ cancelled' = [cancelled EXCEPT ![j] = FALSE]
  /\ result'    = [result EXCEPT ![j] = NoResult]
  /\ sequence'  = sequence + 1
  /\ order'     = [order EXCEPT ![j] = sequence + 1]
  /\ heap'      = heap \cup {j}
  /\ UNCHANGED closed

\* The sequence number has the wrong sign: last in, first out.
FaultBefore(i, j) ==
  \/ Priority[i] > Priority[j]
  \/ Priority[i] = Priority[j] /\ order[i] > order[j]

\* The order of the heap entries (-priority, sequence, id).
Before(i, j) ==
  \/ Priority[i] > Priority[j]
  \/ Priority[i] = Priority[j] /\ order[i] < order[j]

\* Pops entries until one belongs to a job that is still QUEUED, and hands
\* that job out.  Its status does not change until mark_running.
Dequeue(j) ==
  /\ j \in heap
  /\ status[j] = "QUEUED"
  /\ \A k \in heap \ {j} : status[k] = "QUEUED" => Before(j, k)
  /\ heap' = {k \in heap : Before(j, k)}
  /\ UNCHANGED <<known, status, cancelled, result, order, sequence, closed>>

\* Nothing executable: stale entries are dropped and the wait ends empty.
DequeueNothing ==
  /\ \A k \in heap : status[k] # "QUEUED"
  /\ heap' = {}
  /\ UNCHANGED <<known, status, cancelled, result, order, sequence, closed>>

\* The status is set, the result is not stored.
\* _finish_locked on jobs that are not terminal yet.
Finish(S, r) ==
  /\ status' = [j \in Jobs |-> IF j \in S THEN r.status ELSE status[j]]
  /\ result' = [j \in Jobs |-> IF j \in S THEN r ELSE result[j]]

\* A job taken from the heap is run without looking at its state again.
FaultMayRun(j) == j \in known

\* Whether mark_running returns True.
MayRun(j) == status[j] = "QUEUED" /\ ~cancelled[j]

MarkRunning(j) ==
  /\ \/ /\ MayRun(j)
        /\ status' = [status EXCEPT ![j] = "RUNNING"]
        /\ UNCHANGED result
     \/ /\ ~MayRun(j)
        /\ Finish(IF status[j] = "QUEUED" THEN {j} ELSE {}, JobCancelled)
  /\ UNCHANGED <<known, cancelled, heap, order, sequence, closed>>

\* The handler's result is stored although the job was cancelled meanwhile.
FaultSettlement(j, r) == r

\* The result complete() stores: a cancelled job is never anything else.
Settlement(j, r) ==
  IF cancelled[j] /\ r.status # "CANCELLED" THEN JobCancelled ELSE r

\* Whether complete() gets past the duration of the result it would store.
Accepts(j, r) == IsTerminal(j) \/ Settlement(j, r).datable

\* A late completion replaces the result of a job that has one.
\* complete(): a terminal job keeps its result, and a result whose duration
\* cannot be computed raises before any field is set.
Complete(j, r) ==
  /\ Finish(IF j \in known /\ ~IsTerminal(j) /\ Accepts(j, r) THEN {j} ELSE {},
            Settlement(j, r))
  /\ UNCHANGED <<known, cancelled, heap, order, sequence, closed>>

\* Accepted unless the job is unknown or terminal.  A job that has not
\* started is finished here; a running one is only flagged.
Cancel(j) ==
  /\ j \in known
  /\ ~IsTerminal(j)
  /\ cancelled' = [cancelled EXCEPT ![j] = TRUE]
  /\ Finish(IF status[j] \in {"PENDING", "QUEUED"} THEN {j} ELSE {}, JobCancelled)
  /\ UNCHANGED <<known, heap, order, sequence, closed>>

\* The jobs a shutdown has to finish; the fault leaves a running one out.
FaultUnfinished == {j \in known : status[j] = "QUEUED"}

Unfinished == {j \in known : ~IsTerminal(j)}

\* The heap is emptied and only the running job is finished.
FaultShutdown(cancelPending) ==
  /\ closed' = TRUE
  /\ IF cancelPending
     THEN /\ cancelled' = [j \in Jobs |-> cancelled[j] \/ status[j] = "RUNNING"]
          /\ Finish({j \in known : status[j] = "RUNNING"}, RuntimeShutdown)
          /\ heap' = {}
     ELSE UNCHANGED <<cancelled, status, result, heap>>
  /\ UNCHANGED <<known, order, sequence>>

\* Closes the queue; with cancel_pending every unfinished job, a running one
\* included, is finished as cancelled and the heap is emptied.
Shutdown(cancelPending) ==
  /\ closed' = TRUE
  /\ IF cancelPending
     THEN /\ cancelled' = [j \in Jobs |-> cancelled[j] \/ j \in Unfinished]
          /\ Finish(Unfinished, RuntimeShutdown)
          /\ heap' = {}
     ELSE UNCHANGED <<cancelled, status, result, heap>>
  /\ UNCHANGED <<known, order, sequence>>

\* Whether the drain of the worker still has something to do.
HasQueuedJobs == \E j \in known : status[j] = "QUEUED"

QueueNext ==
  \/ Initialize
  \/ \E j \in Jobs : Enqueue(j)
  \/ \E j \in Jobs : Dequeue(j)
  \/ DequeueNothing
  \/ \E j \in known : MarkRunning(j)
  \/ \E j \in Jobs, r \in Offered : Complete(j, r)
  \/ \E j \in Jobs : Cancel(j)
  \/ \E cancelPending \in BOOLEAN : Shutdown(cancelPending)

QueueSpec == QueueInit /\ [][QueueNext]_queueVars

------------------------------------------------------------------------------
(* Properties *)

\* The records have their types.
QueueTypeOK ==
  /\ known \subseteq Jobs
  /\ status \in [Jobs -> Status]
  /\ cancelled \in [Jobs -> BOOLEAN]
  /\ result \in [Jobs -> JobResult \cup {NoResult}]
  /\ heap \subseteq known
  /\ order \in [Jobs -> Nat]
  /\ sequence \in Nat
  /\ closed \in BOOLEAN

\* Status, result and the heap tell one story about a job: only a job the
\* queue has seen leaves PENDING, the stored result is the one the status
\* came from, and it has a duration.
RecordsAgree ==
  \A j \in Jobs :
    /\ j \in known <=> status[j] # "PENDING"
    /\ IsTerminal(j) => result[j].status = status[j] /\ result[j].datable
    /\ ~IsTerminal(j) => result[j] = NoResult

\* An accepted cancellation wins every race with start, completion and
\* shutdown: a job whose flag is set is running and not settled, or CANCELLED
\* (cancel, complete and shutdown, which never meet in one call).
CancellationWins ==
  \A j \in Jobs : cancelled[j] => status[j] \in {"RUNNING", "CANCELLED"}

\* The first terminal result of a job is its only one: no late completion,
\* cancellation, shutdown or restart replaces it or reopens the job.
VerdictIsFinal ==
  [][\A j \in Jobs : IsTerminal(j) =>
        /\ status'[j] = status[j]
        /\ result'[j] = result[j]
        /\ cancelled'[j] = cancelled[j]]_queueVars

\* A queued job leaves the heap still queued only when it is handed out, and
\* then no job left behind has a higher priority, or the same priority and an
\* earlier call of enqueue.
ServedInOrder ==
  [][\A j \in heap \ heap' : status[j] = "QUEUED" /\ status'[j] = "QUEUED" =>
        \A k \in heap' : status[k] = "QUEUED" =>
          /\ Priority[k] <= Priority[j]
          /\ Priority[k] = Priority[j] => order[j] < order[k]]_queueVars

\* The queue keeps the promise of JobLifecycle, whoever calls it.
Phase(j) == CASE status[j] = "PENDING" -> "unknown"
              [] status[j] = "QUEUED"  -> "accepted"
              [] status[j] = "RUNNING" -> "begun"
              [] OTHER                 -> "settled"

Lifecycle == INSTANCE JobLifecycle WITH
  phase   <- [j \in Jobs |-> Phase(j)],
  asked   <- cancelled,
  verdict <- result

LifecycleSpec == Lifecycle!Spec
==============================================================================
