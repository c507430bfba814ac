------------------------------- MODULE Tables -------------------------------
(***************************************************************************)
(* The parts of the program that are functions of their input, each over   *)
(* every input: the commands of the Unreal MCP layer, the sanitizers of    *)
(* public and stored values, and the loading of the built-in agents.  An   *)
(* input is asked about in one step.                                       *)
(***************************************************************************)
EXTENDS UnrealCommand, PublicValue, AgentLoading

CONSTANTS
  Sent,    \* the arguments that are sent with commands
  Foreign, \* the sets of names that agents not built in may have
  Given    \* the values that are made public and stored

TablesAssumption ==
  /\ \A a \in Sent : DOMAIN a \subseteq Keys /\ a \in [DOMAIN a -> Kinds]
  /\ Given \subseteq Value

ASSUME TablesAssumption

VARIABLES
  topic,   \* what is asked
  input    \* and of which input

vars == <<topic, input>>

Init == topic = "none" /\ input = "none"

Asks(t) == topic = "none" /\ topic' = t

\* GET /unreal-mcp/commands, with and without write permission.
AskCatalog ==
  /\ Asks("catalog")
  /\ input' \in [write : BOOLEAN, name : Catalog]

\* POST /unreal-mcp/execute
AskCommand ==
  /\ Asks("command")
  /\ input' \in [write : BOOLEAN, connected : BOOLEAN,
                 name : Catalog \cup {"unknown"}, arguments : Sent]

AskValue ==
  /\ Asks("value")
  /\ input' \in Given

\* load_all, whatever was created and removed before it and whichever names
\* belong to agents that are not built in.
AskLoading ==
  /\ Asks("loading")
  /\ \E created \in SUBSET Names, foreign \in Foreign :
       input' = [n \in Names |-> IF n \in foreign THEN "foreign"
                                 ELSE IF n \in created THEN "built in" ELSE "none"]

Next == AskCatalog \/ AskCommand \/ AskValue \/ AskLoading

Spec == Init /\ [][Next]_vars

------------------------------------------------------------------------------
(* Properties *)

\* GET /unreal-mcp/commands says of a command that it is enabled exactly if
\* some arguments make it succeed on a connected editor: the policy's
\* is_enabled, its validate, the catalogue and the transport agree.
EnabledIsUsable ==
  topic = "catalog" =>
    (IsEnabled(input.write, input.name) <=>
       \E arguments \in Arguments(2) :
         ExecuteError(input.write, TRUE, input.name, arguments) = "NONE")

Answered == ExecuteError(input.write, input.connected, input.name, input.arguments)

\* docs/UNREAL_MCP.md, "Domain errors map to safe HTTP responses": a request is
\* refused before it reaches the transport, which implements all that was let
\* through, and with a 4xx status; the one internal error is the answer to a list
\* or an object in place of an action's name (commands.py:219).
RefusedBeforehand ==
  topic = "command" =>
    /\ IF PolicyError(input.write, input.name, input.arguments) # "NONE"
       THEN HttpStatus(Answered) \in 400..404 \cup {500}
       ELSE Answered \in {"NONE", "mcp_not_connected", "mcp_unreal_error"}
    /\ HttpStatus(Answered) = 500 <=> IsUnhashable(input.name, input.arguments)

\* The texts of a value, each with the keys on the way to it.
TextsOf(v, inner) ==
  CASE v.kind = "text" -> {[keys |-> {}, text |-> v.text]}
    [] v.kind = "map" ->
         UNION {{[keys |-> l.keys \cup {k}, text |-> l.text] : l \in inner[v.items[k]]} :
                  k \in {k \in Key : v.items[k] # Absent}}
    [] v.kind = "list" -> UNION {inner[v.items[i]] : i \in DOMAIN v.items}
    [] OTHER -> {}

TextsAt[n \in 0 .. Depth] == [v \in Nested[n] |-> TextsOf(v, TextsAt[n - 1])]

Texts(v) == TextsAt[Depth][v]

\* A text may be shown unless it matches a pattern of the models or there is a
\* sensitive or internal key anywhere above it.
Harmless(l) ==
  /\ l.text \in {"plain", "auth", "redacted"}
  /\ l.text # "redacted" => \A k \in l.keys : ~is_sensitive_key(k) /\ ~IsInternalKey(k)

\* Whatever a value looks like, what is made public of it has harmless texts
\* only and all that were there, and a second pass, which the transport, the
\* client and the models each make, changes nothing (models.py:59); and every
\* text field of every public model is made public, except the command's own
\* id (models.py:117-288).
ShownIsHarmless ==
  topic = "value" =>
    LET shown == Public(input) IN
    /\ Public(shown) = shown
    /\ \A l \in Texts(shown) : Harmless(l)
    /\ {l \in Texts(input) : l.text = "plain" /\ Harmless(l)} \subseteq Texts(shown)
    /\ \A m \in Model : LET built == Build(m, input) IN
         \A f \in DOMAIN built \ {"command_id"} : \A l \in Texts(built[f]) : Harmless(l)

\* Nothing under a secret's key, at any depth, and no text as it was given that
\* matches the pattern is stored in memory.  What is stored of a secret all the
\* same was given without a name, or in more words than the pattern covers, under
\* keys none of which says so (development_request_service.py:21, :135).
StoredIsRedacted ==
  topic = "value" =>
    \A l \in Texts(Stored(input)) :
      /\ l.text \notin {"secret", "auth", "basic"}
      /\ (\E k \in l.keys : IsSecretKey(k)) => l.text = "redacted"
      /\ l.text \in {"rest", "raw"} =>
           \E t \in {"basic", "rest", "raw"} : [keys |-> l.keys, text |-> t] \in Texts(input)

\* A load_all, at whatever moment it comes, does not raise, returns every
\* built-in agent once and leaves what is registered alone, and the next one
\* changes nothing: the names it looks up in a table of its own are those the
\* factory registers (agent_loader.py:23-31).
LoadingIsComplete ==
  topic = "loading" =>
    LET result == Load(input)
    IN  /\ ~result.raised
        /\ IsInjective(result.loaded) /\ Range(result.loaded) = Names
        /\ \A n \in Names :
             result.registry[n] = (IF input[n] = "none" THEN "built in" ELSE input[n])
        /\ Load(result.registry) = result
==============================================================================
