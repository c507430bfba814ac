--------------------------- MODULE TaskQueueProofs ---------------------------
(***************************************************************************)
(* Proofs about TaskQueue for any set of jobs, any priorities and any      *)
(* offered results: the queue's invariant, the finality of verdicts, and   *)
(* that the queue implements JobLifecycle whoever calls it.                *)
(***************************************************************************)
EXTENDS TaskQueue, TLAPS

\* The inductive invariant.  RecordsAgree keeps a known job from being taken
\* for a new one, which finality needs; the other conjuncts stand alone.
QueueInv == QueueTypeOK /\ RecordsAgree /\ CancellationWins

\* NoResult is told from every result by its status.
LEMMA NoResultIsNone == NoResult \notin JobResult /\ NoResult.status = "PENDING"
  BY DEF NoResult, Outcome, JobResult, TerminalStatus

\* The two results the queue itself makes are results of a cancellation.
LEMMA QueueResults ==
  /\ JobCancelled \in JobResult /\ JobCancelled.status = "CANCELLED" /\ JobCancelled.datable
  /\ RuntimeShutdown \in JobResult /\ RuntimeShutdown.status = "CANCELLED" /\ RuntimeShutdown.datable
  BY DEF JobCancelled, RuntimeShutdown, Outcome, JobResult, TerminalStatus, ErrorCode

\* What complete() stores is a result, and CANCELLED if the job is flagged.
LEMMA SettlementResult ==
  ASSUME QueueTypeOK, NEW j \in Jobs, NEW r \in Offered
  PROVE  /\ Settlement(j, r) \in JobResult
         /\ cancelled[j] => Settlement(j, r).status = "CANCELLED"
  BY QueueAssumption, QueueResults DEF Settlement, QueueTypeOK

\* Finishing a set of open jobs with one result, CANCELLED wherever the flag
\* is set, keeps the records in agreement.
LEMMA FinishKeepsRecords ==
  ASSUME QueueTypeOK, RecordsAgree,
         NEW S \in SUBSET known, NEW r \in JobResult, r.datable,
         Finish(S, r), known' = known,
         cancelled' \in [Jobs -> BOOLEAN],
         \A j \in Jobs : cancelled'[j] =>
           IF j \in S THEN r.status = "CANCELLED"
                      ELSE status[j] \in {"RUNNING", "CANCELLED"}
  PROVE  /\ status' \in [Jobs -> Status]
         /\ result' \in [Jobs -> JobResult \cup {NoResult}]
         /\ RecordsAgree'
         /\ CancellationWins'
<1> USE DEF QueueTypeOK, Finish
<1>1. r.status \in TerminalStatus
  BY DEF JobResult
<1>2. status' \in [Jobs -> Status] /\ result' \in [Jobs -> JobResult \cup {NoResult}]
  BY <1>1 DEF Status
<1>3. RecordsAgree'
  BY <1>1 DEF RecordsAgree, IsTerminal, TerminalStatus
<1>4. CancellationWins'
  BY <1>1 DEF CancellationWins
<1> QED
  BY <1>2, <1>3, <1>4

LEMMA QueueInvInit == QueueInit => QueueInv
<1> SUFFICES ASSUME QueueInit PROVE QueueInv
  OBVIOUS
<1>1. QueueTypeOK
  BY DEF QueueInit, QueueTypeOK, Status, InFlightStatus
<1>2. RecordsAgree
  BY DEF QueueInit, RecordsAgree, IsTerminal, TerminalStatus
<1>3. CancellationWins
  BY DEF QueueInit, CancellationWins
<1> QED
  BY <1>1, <1>2, <1>3 DEF QueueInv

LEMMA QueueInvNext == QueueInv /\ [QueueNext]_queueVars => QueueInv'
<1> SUFFICES ASSUME QueueInv, [QueueNext]_queueVars
             PROVE  QueueInv'
  OBVIOUS
<1> USE DEF QueueInv
<1>1. CASE Initialize
  BY <1>1 DEF Initialize, QueueTypeOK, RecordsAgree, CancellationWins, IsTerminal
<1>2. ASSUME NEW j \in Jobs, Enqueue(j)
      PROVE  QueueInv'
  <2>1. QueueTypeOK'
    BY <1>2 DEF Enqueue, QueueTypeOK, Status, InFlightStatus
  <2>2. RecordsAgree'
    BY <1>2 DEF Enqueue, QueueTypeOK, RecordsAgree, IsTerminal, TerminalStatus
  <2>3. CancellationWins'
    BY <1>2 DEF Enqueue, QueueTypeOK, CancellationWins
  <2> QED
    BY <2>1, <2>2, <2>3
<1>3. ASSUME NEW j \in Jobs, Dequeue(j)
      PROVE  QueueInv'
  BY <1>3 DEF Dequeue, QueueTypeOK, RecordsAgree, CancellationWins, IsTerminal
<1>4. CASE DequeueNothing
  BY <1>4 DEF DequeueNothing, QueueTypeOK, RecordsAgree, CancellationWins, IsTerminal
<1>5. ASSUME NEW j \in known, MarkRunning(j)
      PROVE  QueueInv'
  <2>1. CASE MayRun(j)
    BY <1>5, <2>1 DEF MarkRunning, MayRun, QueueTypeOK, RecordsAgree,
         CancellationWins, IsTerminal, Status, InFlightStatus, TerminalStatus
  <2>2. CASE ~MayRun(j)
    <3> DEFINE S == IF status[j] = "QUEUED" THEN {j} ELSE {}
    <3>1. Finish(S, JobCancelled) /\ UNCHANGED <<known, cancelled, heap, order, sequence, closed>>
      BY <1>5, <2>2 DEF MarkRunning
    <3>2. S \in SUBSET known /\ \A k \in S : status[k] = "QUEUED"
      OBVIOUS
    <3> HIDE DEF S
    <3>3. /\ status' \in [Jobs -> Status]
          /\ result' \in [Jobs -> JobResult \cup {NoResult}]
          /\ RecordsAgree' /\ CancellationWins'
      BY <3>1, <3>2, QueueResults, FinishKeepsRecords DEF QueueTypeOK, CancellationWins
    <3> QED
      BY <3>1, <3>3 DEF QueueTypeOK
  <2> QED
    BY <2>1, <2>2
<1>6. ASSUME NEW j \in Jobs, NEW r \in Offered, Complete(j, r)
      PROVE  QueueInv'
  <2> DEFINE ok == j \in known /\ ~IsTerminal(j) /\ Accepts(j, r)
  <2>1. UNCHANGED <<known, cancelled, heap, order, sequence, closed>>
    BY <1>6 DEF Complete
  <2>2. CASE ok
    <3>1. Finish({j}, Settlement(j, r)) /\ Settlement(j, r).datable
      BY <1>6, <2>2 DEF Complete, Accepts
    <3>2. Settlement(j, r) \in JobResult
          /\ (cancelled[j] => Settlement(j, r).status = "CANCELLED")
      BY SettlementResult
    <3>3. /\ status' \in [Jobs -> Status]
          /\ result' \in [Jobs -> JobResult \cup {NoResult}]
          /\ RecordsAgree' /\ CancellationWins'
      BY <2>1, <2>2, <3>1, <3>2, FinishKeepsRecords DEF QueueTypeOK, CancellationWins
    <3> QED
      BY <2>1, <3>3 DEF QueueTypeOK
  <2>3. CASE ~ok
    <3>1. Finish({}, Settlement(j, r))
      BY <1>6, <2>3 DEF Complete
    <3>2. status' = status /\ result' = result
      BY <3>1 DEF Finish, QueueTypeOK
    <3> QED
      BY <2>1, <3>2 DEF QueueTypeOK, RecordsAgree, CancellationWins, IsTerminal
  <2> QED
    BY <2>2, <2>3
<1>7. ASSUME NEW j \in Jobs, Cancel(j)
      PROVE  QueueInv'
  <2> DEFINE S == IF status[j] \in {"PENDING", "QUEUED"} THEN {j} ELSE {}
  <2>1. /\ Finish(S, JobCancelled)
        /\ j \in known /\ ~IsTerminal(j)
        /\ cancelled' = [cancelled EXCEPT ![j] = TRUE]
        /\ UNCHANGED <<known, heap, order, sequence, closed>>
    BY <1>7 DEF Cancel
  <2>2. S \in SUBSET known
    BY <2>1
  <2>3. j \in S \/ status[j] = "RUNNING"
    BY <2>1 DEF QueueTypeOK, IsTerminal, Status, InFlightStatus
  <2>4. \A k \in S : k = j
    OBVIOUS
  <2> HIDE DEF S
  <2>5. cancelled' \in [Jobs -> BOOLEAN]
    BY <2>1 DEF QueueTypeOK
  <2>6. \A k \in Jobs : cancelled'[k] =>
          IF k \in S THEN JobCancelled.status = "CANCELLED"
                     ELSE status[k] \in {"RUNNING", "CANCELLED"}
    BY <2>1, <2>3, QueueResults DEF QueueTypeOK, CancellationWins
  <2>7. /\ status' \in [Jobs -> Status]
        /\ result' \in [Jobs -> JobResult \cup {NoResult}]
        /\ RecordsAgree' /\ CancellationWins'
    BY <2>1, <2>2, <2>5, <2>6, QueueResults, FinishKeepsRecords
  <2> QED
    BY <2>1, <2>5, <2>7 DEF QueueTypeOK
<1>8. ASSUME NEW p \in BOOLEAN, Shutdown(p)
      PROVE  QueueInv'
  <2>1. CASE p
    <3>1. /\ Finish(Unfinished, RuntimeShutdown)
          /\ cancelled' = [j \in Jobs |-> cancelled[j] \/ j \in Unfinished]
          /\ heap' = {} /\ closed' = TRUE
          /\ UNCHANGED <<known, order, sequence>>
      BY <1>8, <2>1 DEF Shutdown
    <3>2. Unfinished \in SUBSET known
      BY DEF Unfinished
    <3>3. cancelled' \in [Jobs -> BOOLEAN]
      BY <3>1 DEF QueueTypeOK
    <3>4. \A j \in Jobs : cancelled'[j] =>
            IF j \in Unfinished THEN RuntimeShutdown.status = "CANCELLED"
                                ELSE status[j] \in {"RUNNING", "CANCELLED"}
      BY <3>1, QueueResults DEF CancellationWins
    <3>5. /\ status' \in [Jobs -> Status]
          /\ result' \in [Jobs -> JobResult \cup {NoResult}]
          /\ RecordsAgree' /\ CancellationWins'
      BY <3>1, <3>2, <3>3, <3>4, QueueResults, FinishKeepsRecords
    <3> QED
      BY <3>1, <3>3, <3>5 DEF QueueTypeOK
  <2>2. CASE ~p
    BY <1>8, <2>2 DEF Shutdown, QueueTypeOK, RecordsAgree, CancellationWins, IsTerminal
  <2> QED
    BY <2>1, <2>2
<1>9. CASE UNCHANGED queueVars
  BY <1>9 DEF queueVars, QueueTypeOK, RecordsAgree, CancellationWins, IsTerminal
<1> QED
  BY <1>1, <1>2, <1>3, <1>4, <1>5, <1>6, <1>7, <1>8, <1>9 DEF QueueNext

\* The records of the queue have their types under any use of its operations.
THEOREM QueueTypeCorrect == QueueSpec => []QueueTypeOK
<1>1. QueueInv => QueueTypeOK
  BY DEF QueueInv
<1> QED
  BY <1>1, QueueInvInit, QueueInvNext, PTL DEF QueueSpec

\* Status, result and membership of the store never disagree.
THEOREM QueueRecordsAgree == QueueSpec => []RecordsAgree
<1>1. QueueInv => RecordsAgree
  BY DEF QueueInv
<1> QED
  BY <1>1, QueueInvInit, QueueInvNext, PTL DEF QueueSpec

\* A job whose cancellation was accepted is never settled as anything else.
THEOREM QueueCancellationWins == QueueSpec => []CancellationWins
<1>1. QueueInv => CancellationWins
  BY DEF QueueInv
<1> QED
  BY <1>1, QueueInvInit, QueueInvNext, PTL DEF QueueSpec

------------------------------------------------------------------------------
(* Finality *)

\* One step of the queue leaves a terminal job as it is.
LEMMA TerminalStays ==
  ASSUME QueueInv, [QueueNext]_queueVars, NEW j \in Jobs, IsTerminal(j)
  PROVE  status'[j] = status[j] /\ result'[j] = result[j] /\ cancelled'[j] = cancelled[j]
<1> USE DEF QueueInv
<1>1. /\ j \in known
      /\ status[j] \notin {"PENDING", "QUEUED", "RUNNING"}
      /\ j \notin Unfinished
  BY DEF RecordsAgree, IsTerminal, TerminalStatus, Unfinished
<1>2. CASE Initialize
  BY <1>2 DEF Initialize
<1>3. ASSUME NEW k \in Jobs, Enqueue(k)
      PROVE  status'[j] = status[j] /\ result'[j] = result[j] /\ cancelled'[j] = cancelled[j]
  BY <1>1, <1>3 DEF Enqueue, QueueTypeOK
<1>4. ASSUME NEW k \in Jobs, Dequeue(k)
      PROVE  status'[j] = status[j] /\ result'[j] = result[j] /\ cancelled'[j] = cancelled[j]
  BY <1>4 DEF Dequeue
<1>5. CASE DequeueNothing
  BY <1>5 DEF DequeueNothing
<1>6. ASSUME NEW k \in known, MarkRunning(k)
      PROVE  status'[j] = status[j] /\ result'[j] = result[j] /\ cancelled'[j] = cancelled[j]
  BY <1>1, <1>6 DEF MarkRunning, MayRun, Finish, QueueTypeOK
<1>7. ASSUME NEW k \in Jobs, NEW r \in Offered, Complete(k, r)
      PROVE  status'[j] = status[j] /\ result'[j] = result[j] /\ cancelled'[j] = cancelled[j]
  BY <1>7 DEF Complete, Finish, QueueTypeOK
<1>8. ASSUME NEW k \in Jobs, Cancel(k)
      PROVE  status'[j] = status[j] /\ result'[j] = result[j] /\ cancelled'[j] = cancelled[j]
  BY <1>8 DEF Cancel, Finish, QueueTypeOK
<1>9. ASSUME NEW p \in BOOLEAN, Shutdown(p)
      PROVE  status'[j] = status[j] /\ result'[j] = result[j] /\ cancelled'[j] = cancelled[j]
  BY <1>1, <1>9 DEF Shutdown, Finish, QueueTypeOK
<1>10. CASE UNCHANGED queueVars
  BY <1>10 DEF queueVars
<1> QED
  BY <1>2, <1>3, <1>4, <1>5, <1>6, <1>7, <1>8, <1>9, <1>10 DEF QueueNext

\* The first terminal status, result and cancellation flag of a job are its
\* last, for any interleaving of calls on any number of jobs.
THEOREM QueueVerdictIsFinal == QueueSpec => VerdictIsFinal
<1>1. QueueInv /\ [QueueNext]_queueVars =>
        [\A j \in Jobs : IsTerminal(j) =>
           /\ status'[j] = status[j]
           /\ result'[j] = result[j]
           /\ cancelled'[j] = cancelled[j]]_queueVars
  BY TerminalStays
<1> QED
  BY <1>1, QueueInvInit, QueueInvNext, PTL DEF QueueSpec, VerdictIsFinal

------------------------------------------------------------------------------
(* Order of service *)

\* What ServedInOrder says of job j, the one that leaves the heap.
ServedFirst(j) ==
  \A k \in heap' : status[k] = "QUEUED" =>
    /\ Priority[k] <= Priority[j]
    /\ Priority[k] = Priority[j] => order[j] < order[k]

LEMMA ServedStep ==
  ASSUME QueueInv, [QueueNext]_queueVars, NEW j \in heap \ heap',
         status[j] = "QUEUED", status'[j] = "QUEUED"
  PROVE  ServedFirst(j)
<1> USE DEF QueueInv
<1>0. j \in known /\ j \in Jobs
  BY DEF QueueTypeOK
<1>1. ASSUME NEW i \in Jobs, Dequeue(i)
      PROVE  ServedFirst(j)
  <2>1. i = j
    BY <1>1 DEF Dequeue
  <2> SUFFICES ASSUME NEW k \in heap', status[k] = "QUEUED"
               PROVE  /\ Priority[k] <= Priority[j]
                      /\ Priority[k] = Priority[j] => order[j] < order[k]
    BY DEF ServedFirst
  <2>2. Before(j, k) /\ k \in Jobs
    BY <1>1, <2>1 DEF Dequeue, QueueTypeOK
  <2>3. Priority[j] \in Nat /\ Priority[k] \in Nat
    BY <1>0, <2>2, QueueAssumption
  <2> QED
    BY <2>2, <2>3 DEF Before
<1>2. ~DequeueNothing
  BY DEF DequeueNothing
<1>3. ASSUME NEW p \in BOOLEAN, Shutdown(p)
      PROVE  FALSE
  <2>1. Finish(Unfinished, RuntimeShutdown)
    BY <1>3 DEF Shutdown
  <2>2. j \in Unfinished
    BY <1>0 DEF Unfinished, IsTerminal, TerminalStatus
  <2> QED
    BY <1>0, <2>1, <2>2, QueueResults DEF Finish
<1>4. ASSUME heap \subseteq heap'
      PROVE  FALSE
  BY <1>4
<1>5. ASSUME NEW k \in Jobs, NEW r \in Offered, Complete(k, r)
      PROVE  FALSE
  BY <1>4, <1>5 DEF Complete
<1>6. ASSUME NEW k \in Jobs, Enqueue(k) \/ Cancel(k)
      PROVE  FALSE
  BY <1>4, <1>6 DEF Enqueue, Cancel
<1>7. ASSUME NEW k \in known, MarkRunning(k)
      PROVE  FALSE
  BY <1>4, <1>7 DEF MarkRunning
<1>8. ~Initialize /\ ~UNCHANGED queueVars
  BY <1>4 DEF Initialize, queueVars
<1> QED
  BY <1>1, <1>2, <1>3, <1>5, <1>6, <1>7, <1>8 DEF QueueNext

\* A job handed out was first in priority, then in order of submission, among
\* the jobs waiting, for any priorities and however many entries are stale.
THEOREM QueueServesInOrder == QueueSpec => ServedInOrder
<1>1. QueueInv /\ [QueueNext]_queueVars =>
        [\A j \in heap \ heap' : status[j] = "QUEUED" /\ status'[j] = "QUEUED" =>
           \A k \in heap' : status[k] = "QUEUED" =>
             /\ Priority[k] <= Priority[j]
             /\ Priority[k] = Priority[j] => order[j] < order[k]]_queueVars
  BY ServedStep DEF ServedFirst
<1> QED
  BY <1>1, QueueInvInit, QueueInvNext, PTL DEF QueueSpec, ServedInOrder

------------------------------------------------------------------------------
(* The queue implements JobLifecycle *)

\* The phase of a job, one status at a time.
LEMMA PhaseOf ==
  ASSUME QueueTypeOK, NEW j \in Jobs
  PROVE  /\ Phase(j) = "unknown"  <=> status[j] = "PENDING"
         /\ Phase(j) = "accepted" <=> status[j] = "QUEUED"
         /\ Phase(j) = "begun"    <=> status[j] = "RUNNING"
         /\ Phase(j) = "settled"  <=> IsTerminal(j)
  BY DEF Phase, QueueTypeOK, IsTerminal, Status, InFlightStatus, TerminalStatus

LEMMA LifecycleInit == QueueInit => Lifecycle!Init
  BY DEF QueueInit, Lifecycle!Init, Phase, Lifecycle!NoResult, NoResult,
         Lifecycle!Outcome, Outcome

\* The phase of a job depends on its status only.
LEMMA PhaseUnchanged ==
  ASSUME NEW j \in Jobs, status'[j] = status[j]
  PROVE  Phase(j)' = Phase(j)
  BY DEF Phase

\* Every step of the queue is a step of JobLifecycle or leaves it alone.
LEMMA LifecycleNext ==
  ASSUME QueueInv, [QueueNext]_queueVars
  PROVE  [Lifecycle!Next]_(Lifecycle!jobVars)
<1> DEFINE ph == [j \in Jobs |-> Phase(j)]
           Stutter == ph' = ph /\ cancelled' = cancelled /\ result' = result
<1> USE DEF QueueInv
<1>a. QueueTypeOK'
  BY QueueInvNext
<1>b. ASSUME status' = status, cancelled' = cancelled, result' = result
      PROVE  Stutter
  BY <1>b DEF Phase
<1>c. ASSUME Stutter
      PROVE  [Lifecycle!Next]_(Lifecycle!jobVars)
  BY <1>c DEF Lifecycle!jobVars
<1>d. ASSUME NEW S \in SUBSET Jobs, NEW r \in JobResult, Finish(S, r)
      PROVE  ph' = [j \in Jobs |-> IF j \in S THEN "settled" ELSE ph[j]]
  <2>1. r.status \in TerminalStatus
    BY DEF JobResult
  <2>2. ASSUME NEW j \in S PROVE Phase(j)' = "settled"
    BY <1>d, <2>1 DEF Finish, Phase, TerminalStatus
  <2>3. ASSUME NEW j \in Jobs \ S PROVE Phase(j)' = Phase(j)
    BY <1>d, PhaseUnchanged DEF Finish
  <2> QED
    BY <2>2, <2>3
<1>e. ASSUME NEW j \in Jobs, ~IsTerminal(j), j \in known
      PROVE  Lifecycle!Open(j)
  BY <1>e, PhaseOf DEF Lifecycle!Open, RecordsAgree, QueueTypeOK, Status,
       InFlightStatus, IsTerminal, TerminalStatus, Phase
<1>1. CASE Initialize
  BY <1>1, <1>b, <1>c DEF Initialize
<1>2. ASSUME NEW j \in Jobs, Enqueue(j)
      PROVE  Lifecycle!Accept(j)
  <2>1. Phase(j) = "unknown" /\ ~cancelled[j] /\ result[j] = NoResult
    BY <1>2 DEF Enqueue, RecordsAgree, CancellationWins, Phase, IsTerminal, TerminalStatus
  <2>2. cancelled' = cancelled /\ result' = result
    BY <1>2, <2>1 DEF Enqueue, QueueTypeOK
  <2>3. Phase(j)' = "accepted"
    BY <1>2 DEF Enqueue, Phase, QueueTypeOK
  <2>4. ASSUME NEW k \in Jobs \ {j} PROVE Phase(k)' = Phase(k)
    BY <1>2, PhaseUnchanged DEF Enqueue, QueueTypeOK
  <2>5. ph' = [ph EXCEPT ![j] = "accepted"]
    BY <2>3, <2>4
  <2> QED
    BY <2>1, <2>2, <2>5 DEF Lifecycle!Accept
<1>3. ASSUME NEW j \in Jobs, Dequeue(j)
      PROVE  Stutter
  BY <1>3, <1>b DEF Dequeue
<1>4. CASE DequeueNothing
  BY <1>4, <1>b, <1>c DEF DequeueNothing
<1>5. ASSUME NEW j \in known, MarkRunning(j)
      PROVE  Lifecycle!Begin(j) \/ Stutter
  <2>0. j \in Jobs
    BY DEF QueueTypeOK
  <2>1. CASE MayRun(j)
    <3>1. /\ status' = [status EXCEPT ![j] = "RUNNING"]
          /\ UNCHANGED <<cancelled, result>>
          /\ status[j] = "QUEUED" /\ ~cancelled[j]
      BY <1>5, <2>1 DEF MarkRunning, MayRun
    <3>2. Phase(j) = "accepted" /\ Phase(j)' = "begun"
      BY <2>0, <3>1 DEF Phase, QueueTypeOK
    <3>3. ASSUME NEW k \in Jobs \ {j} PROVE Phase(k)' = Phase(k)
      BY <3>1, PhaseUnchanged DEF QueueTypeOK
    <3>4. ph' = [ph EXCEPT ![j] = "begun"]
      BY <2>0, <3>2, <3>3
    <3> QED
      BY <2>0, <3>1, <3>2, <3>4 DEF Lifecycle!Begin
  <2>2. CASE ~MayRun(j)
    <3>1. status[j] # "QUEUED"
      BY <2>0, <2>2 DEF MayRun, CancellationWins
    <3>2. status' = status /\ result' = result /\ cancelled' = cancelled
      BY <1>5, <2>2, <3>1 DEF MarkRunning, Finish, QueueTypeOK
    <3> QED
      BY <3>2, <1>b
  <2> QED
    BY <2>1, <2>2
<1>6. ASSUME NEW j \in Jobs, NEW r \in Offered, Complete(j, r)
      PROVE  Lifecycle!Settle(j) \/ Stutter
  <2> DEFINE ok == j \in known /\ ~IsTerminal(j) /\ Accepts(j, r)
  <2>1. CASE ok
    <3>1. Finish({j}, Settlement(j, r)) /\ cancelled' = cancelled
      BY <1>6, <2>1 DEF Complete
    <3>2. Settlement(j, r) \in JobResult
          /\ (cancelled[j] => Settlement(j, r).status = "CANCELLED")
      BY SettlementResult
    <3>3. ph' = [ph EXCEPT ![j] = "settled"]
      <4>1. ph' = [k \in Jobs |-> IF k \in {j} THEN "settled" ELSE ph[k]]
        BY <1>d, <3>1, <3>2
      <4> HIDE DEF ph
      <4>2. ph = [k \in Jobs |-> ph[k]]
        BY DEF ph
      <4> QED
        BY <4>1, <4>2
    <3>4. result' = [result EXCEPT ![j] = Settlement(j, r)]
      BY <3>1 DEF Finish, QueueTypeOK
    <3>5. Lifecycle!Open(j)
      BY <1>e, <2>1
    <3>6. Settlement(j, r) \in Lifecycle!JobResult
      BY <3>2 DEF JobResult, Lifecycle!JobResult, TerminalStatus,
           Lifecycle!TerminalStatus, ErrorCode, Lifecycle!ErrorCode
    <3> QED
      BY <3>1, <3>2, <3>3, <3>4, <3>5, <3>6 DEF Lifecycle!Settle
  <2>2. CASE ~ok
    <3>1. status' = status /\ result' = result /\ cancelled' = cancelled
      BY <1>6, <2>2 DEF Complete, Finish, QueueTypeOK
    <3> QED
      BY <3>1, <1>b
  <2> QED
    BY <2>1, <2>2
<1>7. ASSUME NEW j \in Jobs, Cancel(j)
      PROVE  Lifecycle!Withdraw({j}) \/ Lifecycle!Ask(j)
  <2>1. Lifecycle!Open(j)
    BY <1>7, <1>e DEF Cancel
  <2>2. CASE status[j] \in {"PENDING", "QUEUED"}
    <3>1. Finish({j}, JobCancelled) /\ cancelled' = [cancelled EXCEPT ![j] = TRUE]
      BY <1>7, <2>2 DEF Cancel
    <3>2. ph' = [k \in Jobs |-> IF k \in {j} THEN "settled" ELSE ph[k]]
      BY <1>d, <3>1, QueueResults
    <3>3. cancelled' = [k \in Jobs |-> IF k \in {j} THEN TRUE ELSE cancelled[k]]
      BY <3>1 DEF QueueTypeOK
    <3>4. result' = [k \in Jobs |-> IF k \in {j} THEN Lifecycle!JobCancelled ELSE result[k]]
      BY <3>1 DEF Finish, JobCancelled, Lifecycle!JobCancelled, Outcome, Lifecycle!Outcome
    <3> QED
      BY <2>1, <3>2, <3>3, <3>4 DEF Lifecycle!Withdraw
  <2>3. CASE status[j] \notin {"PENDING", "QUEUED"}
    <3>1. Finish({}, JobCancelled) /\ cancelled' = [cancelled EXCEPT ![j] = TRUE]
      BY <1>7, <2>3 DEF Cancel
    <3>2. status' = status /\ result' = result
      BY <3>1 DEF Finish, QueueTypeOK
    <3>3. ph' = ph
      BY <3>2 DEF Phase
    <3>4. Phase(j) = "begun"
      BY <2>1, <2>3, PhaseOf DEF Lifecycle!Open
    <3> QED
      BY <3>1, <3>2, <3>3, <3>4 DEF Lifecycle!Ask
  <2> QED
    BY <2>2, <2>3
<1>8. ASSUME NEW p \in BOOLEAN, Shutdown(p)
      PROVE  Lifecycle!Withdraw(Unfinished) \/ Stutter
  <2>0. Unfinished \in SUBSET Jobs
    BY DEF Unfinished, QueueTypeOK
  <2>1. CASE p /\ Unfinished # {}
    <3>1. /\ Finish(Unfinished, RuntimeShutdown)
          /\ cancelled' = [j \in Jobs |-> cancelled[j] \/ j \in Unfinished]
      BY <1>8, <2>1 DEF Shutdown
    <3>2. \A j \in Unfinished : Lifecycle!Open(j)
      BY <1>e, <2>0 DEF Unfinished
    <3>3. ph' = [j \in Jobs |-> IF j \in Unfinished THEN "settled" ELSE ph[j]]
      BY <1>d, <2>0, <3>1, QueueResults
    <3>4. cancelled' = [j \in Jobs |-> IF j \in Unfinished THEN TRUE ELSE cancelled[j]]
      BY <3>1 DEF QueueTypeOK
    <3>5. result' = [j \in Jobs |-> IF j \in Unfinished THEN Lifecycle!RuntimeShutdown ELSE result[j]]
      BY <3>1 DEF Finish, RuntimeShutdown, Lifecycle!RuntimeShutdown, Outcome, Lifecycle!Outcome
    <3> QED
      BY <2>1, <3>2, <3>3, <3>4, <3>5 DEF Lifecycle!Withdraw
  <2>2. CASE p /\ Unfinished = {}
    <3>1. status' = status /\ result' = result /\ cancelled' = cancelled
      BY <1>8, <2>2 DEF Shutdown, Finish, QueueTypeOK
    <3> QED
      BY <3>1, <1>b
  <2>3. CASE ~p
    BY <1>8, <2>3, <1>b DEF Shutdown
  <2> QED
    BY <2>1, <2>2, <2>3
<1>9. CASE UNCHANGED queueVars
  BY <1>9, <1>b, <1>c DEF queueVars
<1> HIDE DEF Stutter
<1>10. Unfinished \in SUBSET Jobs
  BY DEF Unfinished, QueueTypeOK
<1> QED
  BY <1>c, <1>1, <1>2, <1>3, <1>4, <1>5, <1>6, <1>7, <1>8, <1>9, <1>10
  DEF QueueNext, Lifecycle!Next, QueueTypeOK

\* The queue, under any clients, does to each job only what JobLifecycle
\* allows: accept once, begin unless cancelled, settle once.
THEOREM QueueKeepsLifecycle == QueueSpec => LifecycleSpec
<1>1. QueueInv /\ [QueueNext]_queueVars => [Lifecycle!Next]_(Lifecycle!jobVars)
  BY LifecycleNext
<1> QED
  BY <1>1, LifecycleInit, QueueInvInit, QueueInvNext, PTL
  DEF QueueSpec, LifecycleSpec, Lifecycle!Spec
==============================================================================
