---------------------------- MODULE JobLifecycle -----------------------------
(***************************************************************************)
(* What the runtime promises about every job it is given, with no queue,   *)
(* worker or handler in sight.  A job is accepted once, may begin, and is  *)
(* settled once.  A client may ask for its cancellation until it is        *)
(* settled; once asked, the job can only be settled as cancelled.          *)
(***************************************************************************)
EXTENDS ExecutionStatus

CONSTANT Jobs

VARIABLES
  phase,    \* [Jobs -> Phase]
  asked,    \* [Jobs -> BOOLEAN], cancellation was requested and accepted
  verdict   \* [Jobs -> JobResult \cup {NoResult}]

jobVars == <<phase, asked, verdict>>

Phase == {"unknown", "accepted", "begun", "settled"}

Open(j) == phase[j] \in {"accepted", "begun"}

Init ==
  /\ phase   = [j \in Jobs |-> "unknown"]
  /\ asked   = [j \in Jobs |-> FALSE]
  /\ verdict = [j \in Jobs |-> NoResult]

Accept(j) ==
  /\ phase[j] = "unknown"
  /\ phase' = [phase EXCEPT ![j] = "accepted"]
  /\ UNCHANGED <<asked, verdict>>

\* A job whose cancellation was asked for never begins.
Begin(j) ==
  /\ phase[j] = "accepted"
  /\ ~asked[j]
  /\ phase' = [phase EXCEPT ![j] = "begun"]
  /\ UNCHANGED <<asked, verdict>>

\* A job that has begun cannot be interrupted: the request is only recorded.
Ask(j) ==
  /\ phase[j] = "begun"
  /\ asked' = [asked EXCEPT ![j] = TRUE]
  /\ UNCHANGED <<phase, verdict>>

Settle(j) ==
  /\ Open(j)
  /\ phase' = [phase EXCEPT ![j] = "settled"]
  /\ UNCHANGED asked
  /\ \E r \in JobResult :
       /\ asked[j] => r.status = "CANCELLED"
       /\ verdict' = [verdict EXCEPT ![j] = r]

\* A cancellation that takes effect at once: of one waiting job, or of every
\* open job when the runtime closes.
Withdraw(S) ==
  /\ S # {}
  /\ \A j \in S : Open(j)
  /\ phase' = [j \in Jobs |-> IF j \in S THEN "settled" ELSE phase[j]]
  /\ asked' = [j \in Jobs |-> IF j \in S THEN TRUE ELSE asked[j]]
  /\ \E r \in {JobCancelled, RuntimeShutdown} :
       verdict' = [j \in Jobs |-> IF j \in S THEN r ELSE verdict[j]]

Next ==
  \/ \E j \in Jobs : Accept(j) \/ Begin(j) \/ Ask(j) \/ Settle(j)
  \/ \E S \in SUBSET Jobs : Withdraw(S)

Spec == Init /\ [][Next]_jobVars
==============================================================================
