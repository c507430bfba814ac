----------------------------- MODULE Application -----------------------------
(***************************************************************************)
(* The lifespan of the application: backend/app/main.py, the composition   *)
(* root backend/core/di.py and the health endpoint.  Runtime and the       *)
(* Unreal MCP manager appear as a lifespan sees them; their own modules    *)
(* have the detail.  The same application may live several times: it       *)
(* keeps its container.                                                    *)
(***************************************************************************)
VARIABLES
  lifespan,   \* where application_lifespan is
  container,  \* whether application.state has a container
  started,    \* Runtime._started
  stopped,    \* Runtime._stopped
  worker,     \* its thread: "none", "running", or "hanging" in a handler
  managing,   \* UnrealMCPManager._started
  connected,  \* whether its transport is connected
  cut         \* history: the shutdown was cancelled half way

runtime == <<started, stopped, worker>>
manager == <<managing, connected>>
appVars == <<lifespan, container, runtime, manager, cut>>

AppInit ==
  /\ lifespan = "down" /\ container = FALSE
  /\ started = FALSE /\ stopped = FALSE /\ worker = "none"
  /\ managing = FALSE /\ connected = FALSE
  /\ cut = FALSE

Moves(from, to) == lifespan = from /\ lifespan' = to

------------------------------------------------------------------------------
(* Startup *)

\* create_app_container: builds everything and starts nothing, or raises.
Build ==
  /\ ~container
  /\ Moves("down", "runtime")
  /\ container' = TRUE
  /\ cut' = FALSE
  /\ UNCHANGED <<runtime, manager>>

ReuseContainer ==
  /\ container
  /\ Moves("down", "runtime")
  /\ cut' = FALSE
  /\ UNCHANGED <<container, runtime, manager>>

\* A worker still in its last handler cannot be started again.
FaultStartRuntime ==
  /\ started \/ worker = "none"
  /\ Moves("runtime", "manager")
  /\ started' = TRUE
  /\ worker' = IF started THEN worker ELSE "running"
  /\ UNCHANGED <<container, stopped, manager, cut>>

StartRuntime ==
  /\ started \/ worker = "none"
  /\ Moves("runtime", "manager")
  /\ started' = TRUE
  /\ IF started THEN UNCHANGED <<stopped, worker>>
                ELSE stopped' = FALSE /\ worker' = "running"
  /\ UNCHANGED <<container, manager, cut>>

\* Before the worker runs, or afterwards, when a subscriber of RuntimeStarted
\* raises: the lifespan stops what there is.
StartRuntimeFails ==
  /\ ~started
  /\ Moves("runtime", "stopping manager")
  /\ \/ UNCHANGED runtime
     \/ worker = "none" /\ started' = TRUE /\ stopped' = FALSE /\ worker' = "running"
  /\ UNCHANGED <<container, manager, cut>>

\* Without auto-connect, or whatever becomes of it.
StartManager ==
  /\ Moves("manager", "serving")
  /\ managing' = TRUE
  /\ connected' \in IF managing THEN {connected} ELSE {connected, TRUE}
  /\ UNCHANGED <<container, runtime, cut>>

\* Cancelled during the auto-connect.
StartManagerCancelled ==
  /\ Moves("manager", "stopping manager")
  /\ managing' = TRUE
  /\ UNCHANGED <<container, runtime, connected, cut>>

------------------------------------------------------------------------------
(* Serving *)

\* A client connects or disconnects the bridge.
Connect ==
  /\ lifespan = "serving" /\ connected' \in BOOLEAN
  /\ UNCHANGED <<lifespan, container, runtime, managing, cut>>

\* A job's handler hangs, or comes back: the worker that was told to stop ends.
Hang ==
  /\ started /\ worker = "running" /\ worker' = "hanging"
  /\ UNCHANGED <<lifespan, container, started, stopped, manager, cut>>

ComeBack ==
  /\ worker = "hanging" /\ worker' = IF started THEN "running" ELSE "none"
  /\ UNCHANGED <<lifespan, container, started, stopped, manager, cut>>

\* What the health check looks at, once the bridge has answered it.
Healthy == container /\ started

ShutDown ==
  /\ Moves("serving", "stopping manager")
  /\ UNCHANGED <<container, runtime, manager, cut>>

------------------------------------------------------------------------------
(* Shutdown *)

\* disconnect() forgets the connection even when closing the client fails.
StopManager ==
  /\ Moves("stopping manager", "stopping runtime")
  /\ managing' = FALSE /\ connected' = FALSE
  /\ UNCHANGED <<container, runtime, cut>>

\* No MCPError: it leaves the "finally" before the Runtime is stopped.
StopManagerCancelled ==
  /\ Moves("stopping manager", "down")
  /\ managing' = FALSE /\ connected' \in {connected, FALSE}
  /\ cut' = TRUE
  /\ UNCHANGED <<container, runtime>>

\* Runtime.stop waits for a hanging handler only so long.
FaultStopRuntime ==
  /\ Moves("stopping runtime", "down")
  /\ started' = FALSE /\ stopped' = TRUE
  /\ UNCHANGED <<container, worker, manager, cut>>

FaultWaitingStopRuntime ==
  /\ worker # "hanging"
  /\ Moves("stopping runtime", "down")
  /\ started' = FALSE /\ stopped' = TRUE /\ worker' = "none"
  /\ UNCHANGED <<container, manager, cut>>

StopRuntime ==
  /\ Moves("stopping runtime", "down")
  /\ IF stopped THEN UNCHANGED runtime
     ELSE /\ started' = FALSE
          /\ worker' = IF worker = "hanging" THEN "hanging" ELSE "none"
          /\ stopped' \in BOOLEAN   \* FALSE: a plugin's unload raised
  /\ UNCHANGED <<container, manager, cut>>

AppNext ==
  \/ Build \/ ReuseContainer \/ StartRuntime \/ StartRuntimeFails
  \/ StartManager \/ StartManagerCancelled
  \/ Connect \/ Hang \/ ComeBack \/ ShutDown
  \/ StopManager \/ StopManagerCancelled \/ StopRuntime

\* A lifespan that is starting or stopping goes on: the calls to Unreal have a
\* timeout and those to the worker are bounded joins.
LifespanGoesOn ==
  \/ StartRuntime \/ StartRuntimeFails \/ StartManager \/ StartManagerCancelled
  \/ StopManager \/ StopManagerCancelled \/ StopRuntime

AppSpec == AppInit /\ [][AppNext]_appVars /\ WF_appVars(LifespanGoesOn)

------------------------------------------------------------------------------
(* Properties *)

\* Every variable has its type.
AppTypeOK ==
  /\ lifespan \in {"down", "runtime", "manager", "serving", "stopping manager", "stopping runtime"}
  /\ container \in BOOLEAN /\ started \in BOOLEAN /\ stopped \in BOOLEAN
  /\ managing \in BOOLEAN /\ connected \in BOOLEAN /\ cut \in BOOLEAN
  /\ worker \in {"none", "running", "hanging"}

\* The application serves with a container, a Runtime that accepts jobs and a
\* worker of its own, and so is healthy, with or without Unreal, also after
\* failed startups, shutdowns that raised and handlers that outlived them
\* (main.py:58, health.py:12).
ServingIsHealthy == lifespan = "serving" => Healthy /\ ~stopped /\ worker # "none"

\* When a lifespan is over nothing of it goes on: no job is accepted, the
\* bridge is disconnected, and the worker ends with the handler it is in.
\* This holds however far the startup got and whatever raised, unless the
\* shutdown itself was cancelled (main.py:64-69).
DownIsStopped ==
  lifespan = "down" /\ ~cut => ~started /\ ~connected /\ ~managing /\ worker # "running"

\* Every lifespan that begins to stop is over some day.
ShutdownEnds == lifespan = "stopping manager" ~> lifespan = "down"
==============================================================================
