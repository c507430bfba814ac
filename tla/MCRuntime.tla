------------------------------ MODULE MCRuntime ------------------------------
(***************************************************************************)
(* Small instances of the runtime.  Two worker threads allow one stop and  *)
(* restart with both loops in play; one handler name is registered and     *)
(* unregistered at will.                                                   *)
(***************************************************************************)
EXTENDS Runtime, TLC

CONSTANTS j1, j2, t1, t2, n1

TwoJobs   == {j1, j2}

\* j2 is served before j1.
MCPriority == [j \in Jobs |-> IF j = j2 THEN 1 ELSE 0]
EqualPriority == [j \in Jobs |-> 0]
MCHandlerName == [j \in Jobs |-> n1]

Returned(form, flag, claim) ==
  [form |-> form, success |-> flag, status |-> claim,
   error |-> FALSE, coded |-> FALSE, datable |-> TRUE]

\* A dictionary that reports success, and one whose status is not terminal.
GoodValues ==
  {Returned("dict", "true", "absent"), Returned("dict", "true", "RUNNING")}

\* A success whose timestamps cannot be subtracted.
BadValue == [Returned("JobResult", "true", "SUCCEEDED") EXCEPT !.datable = FALSE]

\* A handler that ended in an exception, and one that reports itself cancelled.
Raised    == Returned("raised", "absent", "absent")
GaveUp    == Returned("JobResult", "false", "CANCELLED")
AllValues == GoodValues \cup {BadValue, Raised, GaveUp}

ThreadSymmetry == Permutations(Threads)
==============================================================================
