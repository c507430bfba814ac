---------------------------- MODULE AgentLoading -----------------------------
(***************************************************************************)
(* The built-in agents: AgentFactory, AgentLoader, AgentRegistry and       *)
(* default_agents of backend/agent_system.  What has to fit together is    *)
(* spread over three tables in three files.                                *)
(***************************************************************************)
EXTENDS Naturals, Sequences, Functions

\* An agent is named after its class.
Capabilities ==
  [DiagnosticAgent     |-> {"diagnostic.execute", "system.echo"},
   WorldAgent          |-> {"WorldGeneration"},
   GameplayAgent       |-> {"Gameplay"},
   VehicleAgent        |-> {"Vehicles"},
   UIAgent             |-> {"UserInterface"},
   AnimationAgent      |-> {"Animation"},
   AudioAgent          |-> {"Audio"},
   NetworkingAgent     |-> {"Networking"},
   TestingAgent        |-> {"Testing"},
   DocumentationAgent  |-> {"Documentation"},
   GitAgent            |-> {"Git"},
   UnrealAgent         |-> {"Unreal"},
   ProjectManagerAgent |-> {"ProjectManagement"}]

Names == DOMAIN Capabilities

\* AgentFactory._agent_types
AgentTypes ==
  [diagnostic |-> "DiagnosticAgent", echo |-> "DiagnosticAgent", world |-> "WorldAgent",
   gameplay |-> "GameplayAgent", vehicle |-> "VehicleAgent", ui |-> "UIAgent",
   animation |-> "AnimationAgent", audio |-> "AudioAgent", networking |-> "NetworkingAgent",
   testing |-> "TestingAgent", documentation |-> "DocumentationAgent", git |-> "GitAgent",
   unreal |-> "UnrealAgent", project_manager |-> "ProjectManagerAgent"]

DefaultTypes ==
  <<"diagnostic", "world", "gameplay", "vehicle", "ui", "animation", "audio",
    "networking", "testing", "documentation", "git", "unreal", "project_manager">>

\* AgentLoader._agent_name_for_type
NameForType ==
  [diagnostic |-> "DiagnosticAgent", world |-> "WorldAgent",
   gameplay |-> "GameplayAgent", vehicle |-> "VehicleAgent", ui |-> "UIAgent",
   animation |-> "AnimationAgent", audio |-> "AudioAgent", networking |-> "NetworkingAgent",
   testing |-> "TestingAgent", documentation |-> "DocumentationAgent", git |-> "GitAgent",
   unreal |-> "UnrealAgent", project_manager |-> "ProjectManagerAgent"]

\* A registry says whose agent has a name.
Registry == [Names -> {"none", "built in", "foreign"}]

Registered(reg, name) == name \in Names /\ reg[name] # "none"

\* create_agent builds the agent and registers it: a name is never replaced.
Create(reg, type) ==
  IF Registered(reg, AgentTypes[type]) THEN reg
  ELSE [reg EXCEPT ![AgentTypes[type]] = "built in"]

CreateRaises(reg, type) == Registered(reg, AgentTypes[type])

\* One turn of load_all's loop, and the loop.
FaultLoadOne(state, type) ==
  IF state.raised \/ Registered(state.registry, NameForType[type]) THEN state
  ELSE [registry |-> Create(state.registry, type),
        raised |-> CreateRaises(state.registry, type),
        loaded |-> Append(state.loaded, AgentTypes[type])]

LoadOne(state, type) ==
  IF state.raised THEN state
  ELSE IF Registered(state.registry, NameForType[type])
  THEN [state EXCEPT !.loaded = Append(@, NameForType[type])]
  ELSE [registry |-> Create(state.registry, type),
        raised |-> CreateRaises(state.registry, type),
        loaded |-> Append(state.loaded, AgentTypes[type])]

Load(reg) ==
  LET after[n \in 0 .. Len(DefaultTypes)] ==
        IF n = 0 THEN [registry |-> reg, loaded |-> << >>, raised |-> FALSE]
        ELSE LoadOne(after[n - 1], DefaultTypes[n])
  IN  after[Len(DefaultTypes)]
==============================================================================
