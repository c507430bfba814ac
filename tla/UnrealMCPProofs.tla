--------------------------- MODULE UnrealMCPProofs ---------------------------
(***************************************************************************)
(* Proofs about the Unreal MCP manager, client and HTTP transport for any  *)
(* number of concurrent calls and whatever the bridge replies.             *)
(***************************************************************************)
EXTENDS UnrealMCP, TLAPS

\* A call that has not sent its request, or started to disconnect.
Before(c) == stage[c] \in {"idle", "locking", "checking", "sending"}

\* The stages of a write that has the lock.
Inside == {"checking", "sending", "waiting", "returning"}

Critical(c) == kind[c] = "write" /\ stage[c] \in Inside

------------------------------------------------------------------------------
(* Types and the write lock *)

BasicTypeOK ==
  /\ kind \in [Calls -> CallKind]
  /\ stage \in [Calls -> Stage]
  /\ answer \in [Calls -> Code]
  /\ thread \in [Calls -> {"none", "running", "ended"}]
  /\ reply \in [Calls -> Replies \cup {NoReply}]
  /\ httpClient \in Calls \cup {NoCall}
  /\ open \subseteq Calls
  /\ uses \in [Calls -> Calls \cup {NoCall}]
  /\ transportConnected \in BOOLEAN
  /\ clientConnected \in BOOLEAN
  /\ started \in BOOLEAN

(***************************************************************************)
(* The lock is the queue of the writes that have begun and not returned,   *)
(* each once; the first of them has it.                                    *)
(***************************************************************************)
LockInv ==
  /\ lock \in Seq({c \in Calls : kind[c] = "write"})
  /\ \A i, j \in 1..Len(lock) : lock[i] = lock[j] => i = j
  /\ \A i \in 1..Len(lock) : stage[lock[i]] = "locking" \/ (i = 1 /\ stage[lock[i]] \in Inside)
  /\ \A c \in Calls : kind[c] = "write" /\ stage[c] \notin {"idle", "done"} =>
       \E i \in 1..Len(lock) : lock[i] = c

------------------------------------------------------------------------------
(* HTTP clients, named after the call that created them *)

ClientInv ==
  /\ \A c \in Calls : Before(c) => uses[c] = NoCall /\ c # httpClient
  /\ \A c, d \in Calls : Before(c) => uses[d] # c
  /\ httpClient # NoCall => \A d \in Calls : Disconnects(d) => uses[d] # httpClient
  /\ NoClientForgotten

(***************************************************************************)
(* An execute call that is about to return without an error has a reply    *)
(* that says so.                                                           *)
(***************************************************************************)
AnswerInv ==
  \A c \in Calls :
    Executes(c) /\ stage[c] \in {"returning", "done"} /\ answer[c] = "NONE" =>
      thread[c] = "ended" /\ CommandError(reply[c]) = "NONE"

BridgeInv == BasicTypeOK /\ LockInv /\ ClientInv /\ AnswerInv

LEMMA ErrorsAreCodes ==
  ASSUME NEW r \in Reply \cup {NoReply}
  PROVE  /\ RequestError(r) \in Code /\ CommandError(r) \in Code /\ CloseError(r) \in Code
         /\ CommandError(r) = "NONE" =>
              r.raised = "none" /\ r.status = "2xx" /\ r.body = "fits" /\ r.success
<1>1. /\ r.raised \in {"none", "timeout", "network", "http_error", "runtime", "other"}
      /\ r.status \in {"2xx", "error", "invalid"}
      /\ r.body \in {"fits", "object", "no_object", "no_json"}
      /\ r.error \in Code
  BY DEF Reply, NoReply, Code
<1>2. /\ SendError(r) \in Code
      /\ SendError(r) = "NONE" => r.raised = "none" /\ r.status # "invalid"
  BY <1>1 DEF SendError, Code, ErrorTypes
<1>3. /\ RequestError(r) \in Code
      /\ RequestError(r) = "NONE" =>
           r.raised = "none" /\ r.status = "2xx" /\ r.body = "fits"
  BY <1>1, <1>2 DEF RequestError, Code, ErrorTypes
<1>4. ErrorFromInfo(r.error) \in Code \ {"NONE"}
  BY DEF ErrorFromInfo, Code, ErrorTypes
<1>5. /\ CommandError(r) \in Code
      /\ CommandError(r) = "NONE" => RequestError(r) = "NONE" /\ r.success
  <2>1. CASE RequestError(r) # "NONE"
    BY <1>3, <2>1 DEF CommandError
  <2>2. CASE RequestError(r) = "NONE" /\ r.success
    BY <2>2 DEF CommandError, Code
  <2>3. CASE RequestError(r) = "NONE" /\ ~r.success
    BY <1>4, <2>3 DEF CommandError, Code, ErrorTypes
  <2> QED
    BY <2>1, <2>2, <2>3
<1>6. CloseError(r) \in Code
  BY DEF CloseError, Code, ErrorTypes
<1> QED
  BY <1>3, <1>5, <1>6

LEMMA ReplyConnects ==
  ASSUME BasicTypeOK, NEW c \in Calls
  PROVE  reply[c].connected \in BOOLEAN
<1>1. CASE reply[c] = NoReply
  BY <1>1 DEF NoReply
<1>2. CASE reply[c] \in Replies
  <2>1. reply[c] \in Reply
    BY <1>2, McpAssumption
  <2> QED
    BY <2>1 DEF Reply
<1> QED
  BY <1>1, <1>2 DEF BasicTypeOK

LEMMA ReplyErrorIsCode ==
  ASSUME BasicTypeOK, NEW c \in Calls
  PROVE  ReplyError(c) \in Code
<1>1. reply[c] \in Reply \cup {NoReply}
  BY McpAssumption DEF BasicTypeOK
<1>2. CASE Disconnects(c)
  BY <1>1, <1>2, ErrorsAreCodes DEF ReplyError
<1>3. CASE ~Disconnects(c) /\ Executes(c)
  BY <1>1, <1>3, ErrorsAreCodes DEF ReplyError
<1>4. CASE ~Disconnects(c) /\ ~Executes(c)
  BY <1>1, <1>4, ErrorsAreCodes DEF ReplyError
<1> QED
  BY <1>2, <1>3, <1>4

CallStep(c) == (Enter(c) \/ LoopStep(c) \/ ThreadEnds(c)) /\ UNCHANGED kind

LEMMA BridgeInitial == Init => BridgeInv
<1> SUFFICES ASSUME Init PROVE BridgeInv
  OBVIOUS
<1> USE DEF Init
<1>1. BasicTypeOK
  BY McpAssumption DEF BasicTypeOK, Stage, Code
<1>2. LockInv
  BY DEF LockInv
<1>3. ClientInv
  BY McpAssumption DEF ClientInv, NoClientForgotten
<1>4. AnswerInv
  BY DEF AnswerInv
<1> QED
  BY <1>1, <1>2, <1>3, <1>4 DEF BridgeInv

LEMMA TypesStay ==
  ASSUME BasicTypeOK, NEW c \in Calls, CallStep(c)
  PROVE  BasicTypeOK'
<1> USE DEF BasicTypeOK, CallStep, Goes, Answers, wireVars, stateVars, Stage
<1>1. CASE Enter(c)
  BY <1>1 DEF Enter
<1>2. CASE Acquire(c)
  BY <1>2 DEF Acquire
<1>3. CASE CheckConnected(c)
  BY <1>3 DEF CheckConnected, Code, ErrorTypes
<1>4. CASE Send(c)
  BY <1>4 DEF Send, GetOrCreateClient
<1>5. CASE SendRefused(c)
  BY <1>5 DEF SendRefused, Code, ErrorTypes
<1>6. CASE Detach(c)
  BY <1>6 DEF Detach
<1>7. CASE ThreadEnds(c)
  BY <1>7 DEF ThreadEnds
<1>8. CASE Resume(c)
  <2>1. ReplyError(c) \in Code /\ "mcp_connection_error" \in Code
    BY ReplyErrorIsCode DEF Code, ErrorTypes
  <2>2. reply[c].connected \in BOOLEAN
    BY ReplyConnects
  <2> QED
    BY <1>8, <2>1, <2>2 DEF Resume
<1>9. CASE TimeOut(c)
  BY <1>9 DEF TimeOut, Code, ErrorTypes
<1>10. CASE Return(c)
  <2>1. reply[c].connected \in BOOLEAN
    BY ReplyConnects
  <2> QED
    BY <1>10, <2>1 DEF Return, Code
<1> QED
  BY <1>1, <1>2, <1>3, <1>4, <1>5, <1>6, <1>7, <1>8, <1>9, <1>10 DEF CallStep, LoopStep

LEMMA ClientsStay ==
  ASSUME BasicTypeOK, ClientInv, NEW c \in Calls, CallStep(c)
  PROVE  ClientInv'
<1> USE McpAssumption DEF BasicTypeOK, ClientInv, NoClientForgotten, CallStep, Goes, Answers,
        wireVars, stateVars, Stage, Before, Disconnects
<1>1. CASE Enter(c)
  BY <1>1 DEF Enter
<1>2. CASE Acquire(c)
  BY <1>2 DEF Acquire
<1>3. CASE CheckConnected(c)
  BY <1>3 DEF CheckConnected
<1>4. CASE Send(c)
  BY <1>4 DEF Send, GetOrCreateClient
<1>5. CASE SendRefused(c)
  BY <1>5 DEF SendRefused
<1>6. CASE Detach(c)
  BY <1>6 DEF Detach
<1>7. CASE ThreadEnds(c)
  BY <1>7 DEF ThreadEnds
<1>8. CASE Resume(c)
  BY <1>8 DEF Resume
<1>9. CASE TimeOut(c)
  BY <1>9 DEF TimeOut
<1>10. CASE Return(c)
  BY <1>10 DEF Return
<1> QED
  BY <1>1, <1>2, <1>3, <1>4, <1>5, <1>6, <1>7, <1>8, <1>9, <1>10 DEF CallStep, LoopStep

LEMMA AnswersStay ==
  ASSUME BasicTypeOK, AnswerInv, NEW c \in Calls, CallStep(c)
  PROVE  AnswerInv'
<1> USE DEF BasicTypeOK, AnswerInv, CallStep, Goes, Answers, wireVars, stateVars, Executes
<1>1. CASE Enter(c)
  BY <1>1 DEF Enter
<1>2. CASE Acquire(c)
  BY <1>2 DEF Acquire
<1>3. CASE CheckConnected(c)
  BY <1>3 DEF CheckConnected
<1>4. CASE Send(c)
  BY <1>4 DEF Send
<1>5. CASE SendRefused(c)
  BY <1>5 DEF SendRefused
<1>6. CASE Detach(c)
  BY <1>6 DEF Detach, Disconnects
<1>7. CASE ThreadEnds(c)
  BY <1>7 DEF ThreadEnds
<1>8. CASE Resume(c)
  BY <1>8 DEF Resume, ReplyError, Connects, Disconnects
<1>9. CASE TimeOut(c)
  BY <1>9 DEF TimeOut
<1>10. CASE Return(c)
  BY <1>10 DEF Return
<1> QED
  BY <1>1, <1>2, <1>3, <1>4, <1>5, <1>6, <1>7, <1>8, <1>9, <1>10 DEF CallStep, LoopStep

LEMMA LockStays ==
  ASSUME BasicTypeOK, LockInv, NEW c \in Calls, CallStep(c)
  PROVE  LockInv'
<1> USE DEF BasicTypeOK, LockInv, CallStep, Goes, Answers, wireVars, stateVars, Stage, Inside
<1>1. CASE Enter(c)
  <2>1. CASE kind[c] # "write"
    BY <1>1, <2>1 DEF Enter
  <2>2. CASE kind[c] = "write"
    <3>1. /\ lock' = Append(lock, c) /\ stage' = [stage EXCEPT ![c] = "locking"]
          /\ stage[c] = "idle"
      BY <1>1, <2>2 DEF Enter
    <3>2. /\ Len(lock') = Len(lock) + 1 /\ lock'[Len(lock) + 1] = c
          /\ \A i \in 1..Len(lock) : lock'[i] = lock[i] /\ lock[i] # c
      BY <3>1
    <3>3. (lock \in Seq({d \in Calls : kind[d] = "write"}))'
      BY <2>2, <3>1
    <3>4. (\A i, j \in 1..Len(lock) : lock[i] = lock[j] => i = j)'
      BY <3>2
    <3>5. (\A i \in 1..Len(lock) : stage[lock[i]] = "locking" \/ (i = 1 /\ stage[lock[i]] \in Inside))'
      <4>1. ASSUME NEW i \in 1..Len(lock)
            PROVE  stage'[lock'[i]] = "locking" \/ (i = 1 /\ stage'[lock'[i]] \in Inside)
        <5>1. lock'[i] = lock[i] /\ lock[i] # c /\ lock[i] \in Calls
          BY <3>2
        <5>2. stage'[lock'[i]] = stage[lock[i]]
          BY <3>1, <5>1
        <5> QED
          BY <5>2
      <4>2. stage'[lock'[Len(lock) + 1]] = "locking"
        BY <3>1, <3>2
      <4>3. 1..Len(lock') = 1..Len(lock) \cup {Len(lock) + 1}
        BY <3>2
      <4>4. ASSUME NEW i \in 1..Len(lock')
            PROVE  stage'[lock'[i]] = "locking" \/ (i = 1 /\ stage'[lock'[i]] \in Inside)
        <5>1. CASE i \in 1..Len(lock)
          BY <4>1, <5>1
        <5>2. CASE i = Len(lock) + 1
          BY <4>2, <5>2
        <5> QED
          BY <4>3, <4>4, <5>1, <5>2
      <4> QED
        BY <4>4
    <3>6. (\A d \in Calls : kind[d] = "write" /\ stage[d] \notin {"idle", "done"} =>
             \E i \in 1..Len(lock) : lock[i] = d)'
      BY <3>1, <3>2
    <3> QED
      BY <3>3, <3>4, <3>5, <3>6
  <2> QED
    BY <2>1, <2>2
<1>2. CASE Acquire(c)
  BY <1>2 DEF Acquire
<1>3. CASE CheckConnected(c)
  BY <1>3 DEF CheckConnected
<1>4. CASE Send(c)
  BY <1>4 DEF Send
<1>5. CASE SendRefused(c)
  BY <1>5 DEF SendRefused
<1>6. CASE Detach(c)
  BY <1>6 DEF Detach
<1>7. CASE ThreadEnds(c)
  BY <1>7 DEF ThreadEnds
<1>8. CASE Resume(c)
  BY <1>8 DEF Resume
<1>9. CASE TimeOut(c)
  BY <1>9 DEF TimeOut
<1>10. CASE Return(c)
  <2>1. CASE kind[c] # "write"
    BY <1>10, <2>1 DEF Return
  <2>2. CASE kind[c] = "write"
    <3>1. /\ lock' = Tail(lock) /\ stage' = [stage EXCEPT ![c] = "done"]
          /\ stage[c] = "returning"
      BY <1>10, <2>2 DEF Return
    <3>2. lock # <<>> /\ lock[1] = c
      BY <2>2, <3>1
    <3>3. /\ Len(lock') = Len(lock) - 1
          /\ \A i \in 1..Len(lock') : lock'[i] = lock[i + 1] /\ lock[i + 1] # c
      BY <3>1, <3>2
    <3>4. (lock \in Seq({d \in Calls : kind[d] = "write"}))'
      BY <3>1, <3>2
    <3>5. (\A i, j \in 1..Len(lock) : lock[i] = lock[j] => i = j)'
      BY <3>3
    <3>6. ASSUME NEW i \in 1..Len(lock') PROVE stage'[lock'[i]] = "locking"
      BY <3>1, <3>3, <3>6
    <3>7. ASSUME NEW d \in Calls, kind'[d] = "write", stage'[d] \notin {"idle", "done"}
          PROVE  \E i \in 1..Len(lock') : lock'[i] = d
      <4>1. PICK i \in 1..Len(lock) : lock[i] = d
        BY <3>1, <3>7
      <4>2. i # 1 /\ i - 1 \in 1..Len(lock')
        BY <3>1, <3>2, <3>3, <3>7, <4>1
      <4>3. lock'[i - 1] = lock[(i - 1) + 1]
        BY <3>3, <4>2
      <4> QED
        BY <4>1, <4>2, <4>3
    <3>8. (\A d \in Calls : kind[d] = "write" /\ stage[d] \notin {"idle", "done"} =>
             \E i \in 1..Len(lock) : lock[i] = d)'
      BY <3>7
    <3>9. (\A i \in 1..Len(lock) : stage[lock[i]] = "locking" \/ (i = 1 /\ stage[lock[i]] \in Inside))'
      BY <3>6
    <3> QED
      BY <3>4, <3>5, <3>8, <3>9
  <2> QED
    BY <2>1, <2>2
<1> QED
  BY <1>1, <1>2, <1>3, <1>4, <1>5, <1>6, <1>7, <1>8, <1>9, <1>10 DEF CallStep, LoopStep

LEMMA BridgeStep == BridgeInv /\ [Next]_vars => BridgeInv'
<1> SUFFICES ASSUME BridgeInv, [Next]_vars PROVE BridgeInv'
  OBVIOUS
<1> USE DEF BridgeInv
<1>1. ASSUME NEW c \in Calls, CallStep(c) PROVE BridgeInv'
  BY <1>1, TypesStay, ClientsStay, AnswersStay, LockStays
<1>2. CASE UNCHANGED vars
  <2> USE <1>2 DEF vars
  <2>1. BasicTypeOK'
    BY DEF BasicTypeOK
  <2>2. LockInv'
    BY DEF LockInv, Inside
  <2>3. ClientInv'
    BY DEF ClientInv, NoClientForgotten, Before, Disconnects
  <2>4. AnswerInv'
    BY DEF AnswerInv, Executes
  <2> QED
    BY <2>1, <2>2, <2>3, <2>4
<1> QED
  BY <1>1, <1>2 DEF Next, CallStep

LEMMA BridgeAlwaysInv == Spec => []BridgeInv
BY BridgeInitial, BridgeStep, PTL DEF Spec

------------------------------------------------------------------------------
(* Theorems *)

\* Every variable has its type; only writes are in the queue of the write lock
\* (manager._write_lock).
THEOREM BridgeTyped == Spec => []TypeOK
<1>1. BridgeInv => TypeOK
  BY DEF BridgeInv, BasicTypeOK, LockInv, TypeOK
<1> QED
  BY <1>1, BridgeAlwaysInv, PTL

\* manager.execute lets one write at a time past its lock (asyncio.Lock), until
\* it returns or times out.
THEOREM OneWriteAtATime ==
  Spec => [](\A c, d \in Calls : Critical(c) /\ Critical(d) => c = d)
<1>1. BridgeInv => \A c, d \in Calls : Critical(c) /\ Critical(d) => c = d
  <2> SUFFICES ASSUME BridgeInv, NEW c \in Calls, NEW d \in Calls, Critical(c), Critical(d)
               PROVE  c = d
    OBVIOUS
  <2> USE DEF BridgeInv, BasicTypeOK, LockInv, Critical, Inside
  <2>1. PICK i \in 1..Len(lock) : lock[i] = c
    OBVIOUS
  <2>2. PICK j \in 1..Len(lock) : lock[j] = d
    OBVIOUS
  <2>3. i = 1 /\ j = 1
    BY <2>1, <2>2
  <2> QED
    BY <2>1, <2>2, <2>3
<1> QED
  BY <1>1, BridgeAlwaysInv, PTL

\* No HTTP client is forgotten (HttpUnrealMCPTransport._get_or_create_client and
\* disconnect): one that is open is in use, or a disconnect has it to close it.
THEOREM ClientsAreKept == Spec => []NoClientForgotten
<1>1. BridgeInv => NoClientForgotten
  BY DEF BridgeInv, ClientInv
<1> QED
  BY <1>1, BridgeAlwaysInv, PTL

\* A command answered without an error was answered so by the bridge
\* (UnrealMCPManager.execute down to HttpUnrealMCPTransport.execute).
THEOREM SuccessesAreAnswers == Spec => []SuccessIsAnswered
<1>1. BridgeInv => SuccessIsAnswered
  <2> SUFFICES ASSUME BridgeInv, NEW c \in Calls, Executes(c), stage[c] = "done",
                      answer[c] = "NONE"
               PROVE  /\ thread[c] = "ended" /\ reply[c].raised = "none"
                      /\ reply[c].status = "2xx" /\ reply[c].body = "fits" /\ reply[c].success
    BY DEF SuccessIsAnswered
  <2>1. thread[c] = "ended" /\ CommandError(reply[c]) = "NONE"
    BY DEF BridgeInv, AnswerInv
  <2>2. reply[c] \in Reply \cup {NoReply}
    BY McpAssumption DEF BridgeInv, BasicTypeOK
  <2> QED
    BY <2>1, <2>2, ErrorsAreCodes
<1> QED
  BY <1>1, BridgeAlwaysInv, PTL

\* A request is started on the transport's client, which a disconnect that has
\* taken one has let go of.
LEMMA TakenIsLeft ==
  ASSUME BridgeInv, NEW b \in Calls, CallStep(b), NEW c \in Calls, NEW d \in Calls,
         stage[c] = "sending", stage'[c] = "waiting", ~Disconnects(c), Disconnects(d)
  PROVE  uses'[c] # uses[d]
<1> USE DEF BridgeInv, BasicTypeOK, CallStep, Goes, Stage
<1>1. Send(b) /\ b = c
  <2>1. CASE Enter(b)
    BY <2>1 DEF Enter
  <2>2. CASE LoopStep(b)
    BY <2>2 DEF LoopStep, Acquire, CheckConnected, SendRefused, Detach, Resume, TimeOut, Return, Send
  <2>3. CASE ThreadEnds(b)
    BY <2>3 DEF ThreadEnds
  <2> QED
    BY <2>1, <2>2, <2>3
<1>2. uses'[c] = GetOrCreateClient(c)
  BY <1>1 DEF Send
<1>3. CASE httpClient = NoCall
  BY <1>2, <1>3 DEF GetOrCreateClient, ClientInv, Before
<1>4. CASE httpClient # NoCall
  BY <1>2, <1>4 DEF GetOrCreateClient, ClientInv
<1> QED
  BY <1>3, <1>4

\* No request is started on a client that disconnect has taken off the
\* transport to close it.
THEOREM TakenClientsAreLeft == Spec => ClosingIsNotUsed
<1>1. BridgeInv /\ [Next]_vars =>
        [\A c, d \in Calls :
           stage[c] = "sending" /\ stage'[c] = "waiting" /\ ~Disconnects(c) /\ Disconnects(d) =>
             uses'[c] # uses[d]]_vars
  BY TakenIsLeft DEF Next, CallStep
<1> QED
  BY <1>1, BridgeAlwaysInv, PTL DEF Spec, ClosingIsNotUsed
==============================================================================
