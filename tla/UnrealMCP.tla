------------------------------ MODULE UnrealMCP ------------------------------
(***************************************************************************)
(* The Unreal MCP manager and client (backend/mcp/manager.py, client.py)   *)
(* over the HTTP transport (transports/http_transport.py): concurrent      *)
(* calls on one event loop.  A step is what runs between two awaits.  A    *)
(* request, or the closing of an HTTP client, runs in a thread of its own, *)
(* which goes on when its caller times out.  The commands are ones the     *)
(* policy permits; UnrealCommand has the others.                           *)
(***************************************************************************)
EXTENDS UnrealErrors, Sequences

CONSTANTS
  Calls, NoCall,
  Kinds,        \* [Calls -> SUBSET CallKind], what each call may be
  Replies,      \* what requests come to
  AutoConnect   \* manager.auto_connect

CallKind == {"start", "stop", "connect", "disconnect", "health", "read", "write"}

ASSUME McpAssumption ==
  /\ Kinds \in [Calls -> SUBSET CallKind]
  /\ Replies \subseteq Reply
  /\ NoCall \notin Calls
  /\ AutoConnect \in BOOLEAN

VARIABLES
  kind,                \* [Calls -> CallKind], which never changes
  stage,               \* [Calls -> Stage], how far each call has got
  answer,              \* [Calls -> Code], what it is answered with
  thread,              \* [Calls -> {"none", "running", "ended"}], its thread
  reply,               \* [Calls -> Replies], what its thread came to
  httpClient,          \* transport._client, by the call that created it
  open,                \* the HTTP clients that are not closed
  uses,                \* [Calls -> the client its thread works on]
  transportConnected,  \* transport._connected
  clientConnected,     \* client.connection_info.connected
  lock,                \* manager._write_lock: its holder and those who wait
  started              \* manager._started

vars == <<kind, stage, answer, thread, reply, httpClient, open, uses,
          transportConnected, clientConnected, lock, started>>

Stage == {"idle", "locking", "checking", "sending", "waiting", "returning", "done"}

Connects(c) == kind[c] \in {"start", "connect"}
Disconnects(c) == kind[c] \in {"stop", "disconnect"}
Executes(c) == kind[c] \in {"read", "write"}

\* What a thread has that has not ended.
NoReply ==
  [raised |-> "other", status |-> "invalid", body |-> "no_json",
   connected |-> FALSE, success |-> FALSE, error |-> "NONE"]

Init ==
  /\ kind \in {k \in [Calls -> CallKind] : \A c \in Calls : k[c] \in Kinds[c]}
  /\ stage      = [c \in Calls |-> "idle"]
  /\ answer     = [c \in Calls |-> "NONE"]
  /\ thread     = [c \in Calls |-> "none"]
  /\ reply      = [c \in Calls |-> NoReply]
  /\ httpClient = NoCall
  /\ open       = {}
  /\ uses       = [c \in Calls |-> NoCall]
  /\ transportConnected = FALSE
  /\ clientConnected    = FALSE
  /\ lock       = <<>>
  /\ started    = FALSE

------------------------------------------------------------------------------

wireVars == <<thread, reply, uses, httpClient, open>>
stateVars == <<transportConnected, clientConnected, started>>

Goes(c, from, to) == stage[c] = from /\ stage' = [stage EXCEPT ![c] = to]

Answers(c, code) == answer' = [answer EXCEPT ![c] = code]

\* A call is made.
Enter(c) ==
  /\ Goes(c, "idle", CASE kind[c] = "write" -> "locking"
                       [] kind[c] = "read" -> "checking"
                       [] kind[c] = "start" /\ (started \/ ~AutoConnect) -> "done"
                       [] OTHER -> "sending")
  /\ lock' = IF kind[c] = "write" THEN Append(lock, c) ELSE lock
  /\ started' = (started \/ kind[c] = "start")
  /\ UNCHANGED <<answer, wireVars, transportConnected, clientConnected>>

Acquire(c) ==
  /\ Goes(c, "locking", "checking")
  /\ Head(lock) = c
  /\ UNCHANGED <<answer, wireVars, stateVars, lock>>

CheckConnected(c) ==
  /\ Goes(c, "checking", IF transportConnected THEN "sending" ELSE "returning")
  /\ Answers(c, IF transportConnected THEN "NONE" ELSE "mcp_not_connected")
  /\ UNCHANGED <<wireVars, stateVars, lock>>

\* A request uses the client there is, and creates it if there is none.
FaultGetOrCreateClient(c) == c

GetOrCreateClient(c) == IF httpClient = NoCall THEN c ELSE httpClient

Send(c) ==
  /\ ~Disconnects(c)
  /\ Executes(c) => transportConnected
  /\ Goes(c, "sending", "waiting")
  /\ httpClient' = GetOrCreateClient(c)
  /\ open' = open \cup {httpClient'}
  /\ uses' = [uses EXCEPT ![c] = httpClient']
  /\ thread' = [thread EXCEPT ![c] = "running"]
  /\ UNCHANGED <<answer, reply, stateVars, lock>>

\* Disconnected since it was checked.
SendRefused(c) ==
  /\ Executes(c) /\ ~transportConnected
  /\ Goes(c, "sending", "returning")
  /\ Answers(c, "mcp_not_connected")
  /\ UNCHANGED <<wireVars, stateVars, lock>>

\* disconnect, up to the closing of the client: nobody finds it any more.
FaultDetach(c) ==
  /\ Disconnects(c)
  /\ Goes(c, "sending", IF httpClient = NoCall THEN "returning" ELSE "waiting")
  /\ transportConnected' = FALSE
  /\ httpClient' = httpClient
  /\ uses' = [uses EXCEPT ![c] = httpClient]
  /\ thread' = [thread EXCEPT ![c] = IF httpClient = NoCall THEN @ ELSE "running"]
  /\ UNCHANGED <<answer, reply, open, clientConnected, started, lock>>

Detach(c) ==
  /\ Disconnects(c)
  /\ Goes(c, "sending", IF httpClient = NoCall THEN "returning" ELSE "waiting")
  /\ transportConnected' = FALSE
  /\ httpClient' = NoCall
  /\ uses' = [uses EXCEPT ![c] = httpClient]
  /\ thread' = [thread EXCEPT ![c] = IF httpClient = NoCall THEN @ ELSE "running"]
  /\ UNCHANGED <<answer, reply, open, clientConnected, started, lock>>

\* A thread ends, whether or not somebody waits for it.
ThreadEnds(c) ==
  /\ thread[c] = "running"
  /\ thread' = [thread EXCEPT ![c] = "ended"]
  /\ \E r \in Replies :
       /\ reply' = [reply EXCEPT ![c] = r]
       /\ open' = IF Disconnects(c) /\ r.raised = "none" THEN open \ {uses[c]} ELSE open
  /\ UNCHANGED <<stage, answer, uses, httpClient, stateVars, lock>>

CloseError(r) == IF r.raised = "none" THEN "NONE" ELSE "mcp_transport_error"

FaultReplyError(c) ==
  IF Disconnects(c) THEN CloseError(reply[c]) ELSE RequestError(reply[c])

ReplyError(c) ==
  CASE Disconnects(c) -> CloseError(reply[c])
    [] Executes(c) -> CommandError(reply[c])
    [] OTHER -> RequestError(reply[c])

\* The transport has the reply; the client has not yet.
Resume(c) ==
  /\ Goes(c, "waiting", "returning")
  /\ thread[c] = "ended"
  /\ transportConnected' =
       IF (Connects(c) \/ kind[c] = "health") /\ ReplyError(c) = "NONE"
       THEN reply[c].connected ELSE transportConnected
  /\ Answers(c, IF Connects(c) /\ ReplyError(c) = "NONE" /\ ~reply[c].connected
                THEN "mcp_connection_error" ELSE ReplyError(c))
  /\ UNCHANGED <<wireVars, clientConnected, started, lock>>

\* The client gives up waiting, or the transport does.
FaultTimeOut(c) ==
  /\ ~Disconnects(c)
  /\ Goes(c, "waiting", "returning")
  /\ Answers(c, "mcp_timeout")
  /\ UNCHANGED <<wireVars, stateVars, lock>>

TimeOut(c) ==
  /\ Goes(c, "waiting", "returning")
  /\ Answers(c, "mcp_timeout")
  /\ UNCHANGED <<wireVars, stateVars, lock>>

\* The client notes what it has learnt; only disconnect does so after an
\* error.  start, stop and health answer no error.
Return(c) ==
  /\ Goes(c, "returning", "done")
  /\ clientConnected' =
       CASE Disconnects(c) -> FALSE
         [] Connects(c) /\ answer[c] = "NONE" -> TRUE
         [] kind[c] = "health" /\ answer[c] = "NONE" -> reply[c].connected
         [] OTHER -> clientConnected
  /\ started' = (started /\ kind[c] # "stop")
  /\ answer' = IF kind[c] \in {"start", "stop", "health"}
               THEN [answer EXCEPT ![c] = "NONE"] ELSE answer
  /\ lock' = IF kind[c] = "write" THEN Tail(lock) ELSE lock
  /\ UNCHANGED <<wireVars, transportConnected>>

LoopStep(c) ==
  \/ Acquire(c) \/ CheckConnected(c) \/ Send(c) \/ SendRefused(c) \/ Detach(c)
  \/ Resume(c) \/ TimeOut(c) \/ Return(c)

Next ==
  /\ \E c \in Calls : Enter(c) \/ LoopStep(c) \/ ThreadEnds(c)
  /\ UNCHANGED kind

Spec == Init /\ [][Next]_vars

\* The event loop runs what is ready and its timers; of the threads nothing is
\* assumed.
Fairness == \A c \in Calls : WF_vars(LoopStep(c) /\ UNCHANGED kind)

FairSpec == Spec /\ Fairness

------------------------------------------------------------------------------
(* Properties *)

\* Every variable has its type.
TypeOK ==
  /\ kind \in [Calls -> CallKind]
  /\ stage \in [Calls -> Stage]
  /\ answer \in [Calls -> Code]
  /\ thread \in [Calls -> {"none", "running", "ended"}]
  /\ reply \in [Calls -> Replies \cup {NoReply}]
  /\ httpClient \in Calls \cup {NoCall}
  /\ open \subseteq Calls
  /\ uses \in [Calls -> Calls \cup {NoCall}]
  /\ transportConnected \in BOOLEAN
  /\ clientConnected \in BOOLEAN
  /\ started \in BOOLEAN
  /\ lock \in Seq({c \in Calls : kind[c] = "write"})

\* No HTTP client is forgotten: one that is open is the one requests use, or
\* some disconnect has taken it to close it, whatever requests were in flight,
\* started late or timed out.
NoClientForgotten ==
  \A k \in open : k = httpClient \/ \E c \in Calls : Disconnects(c) /\ uses[c] = k

\* No request is started on a client that a disconnect has taken.
ClosingIsNotUsed ==
  [][\A c, d \in Calls :
       stage[c] = "sending" /\ stage'[c] = "waiting" /\ ~Disconnects(c) /\ Disconnects(d) =>
         uses'[c] # uses[d]]_vars

\* A command that is answered without an error was answered so by the bridge.
SuccessIsAnswered ==
  \A c \in Calls : Executes(c) /\ stage[c] = "done" /\ answer[c] = "NONE" =>
    /\ thread[c] = "ended" /\ reply[c].raised = "none"
    /\ reply[c].status = "2xx" /\ reply[c].body = "fits" /\ reply[c].success

\* Every call returns, even if the bridge never answers: a write passes the
\* lock on when it times out.
CallsReturn == \A c \in Calls : stage[c] # "idle" ~> stage[c] = "done"
==============================================================================
