---------------------------- MODULE UnrealCommand ----------------------------
(***************************************************************************)
(* One command on its way through POST /unreal-mcp/execute with the        *)
(* mock transport: the catalogue and its argument checks                   *)
(* (backend/mcp/commands.py), the policy (security.py), the client and the *)
(* offline fixtures (mock_transport.py).  Three tables say which commands  *)
(* exist, which are enabled and which are implemented.                     *)
(***************************************************************************)
EXTENDS UnrealErrors, FiniteSets

ReadCommands ==
  {"ping", "get_connection_info", "get_project_info", "get_editor_state", "list_maps",
   "get_current_map", "list_assets", "get_asset", "list_plugins", "run_python_readonly"}

WriteCommands ==
  {"open_map", "save_current_level", "save_asset", "run_python", "execute_editor_command"}

Dangerous == {"run_python", "execute_editor_command"}

Catalog == ReadCommands \cup WriteCommands

Keys == {"path", "class_name", "limit", "object_path", "map_path", "action",
         "confirm_write", "other"}

AllowedArguments(name) ==
  CASE name = "list_assets" -> {"path", "class_name", "limit"}
    [] name = "get_asset" -> {"object_path"}
    [] name = "run_python_readonly" -> {"action"}
    [] name = "open_map" -> {"map_path", "object_path", "confirm_write"}
    [] name = "save_asset" -> {"object_path", "confirm_write"}
    [] name \in WriteCommands \ {"open_map", "save_asset"} -> {"confirm_write"}
    [] OTHER -> {}

(***************************************************************************)
(* The kinds of values.  Below /Game: the path of a fixture asset, the     *)
(* same with blanks around it, that of a fixture map, any other, one that  *)
(* contains a term the policy refuses; /Game itself; a short name, of a    *)
(* fixture map or not; the name of a registered action; a number above     *)
(* zero; true; a list or an object without such terms; anything else.      *)
(***************************************************************************)
References == {"asset", "padded", "map", "content", "term"}
ShortNames == {"mapname", "name", "action"}
Kinds == References \cup ShortNames \cup {"root", "count", "true", "nested", "unfit"}

\* Arguments for some of the keys, at most n of them.
Arguments(n) == UNION {[K -> Kinds] : K \in {S \in SUBSET Keys : Cardinality(S) <= n}}

------------------------------------------------------------------------------
(* The tables *)

ArgumentsFit(name, arguments) ==
  LET given == DOMAIN arguments
      target == given \cap {"map_path", "object_path"}
  IN
  CASE name \in {"get_asset", "save_asset"} ->
         "object_path" \in given /\ arguments["object_path"] \in References
    [] name = "list_assets" ->
         /\ "path" \in given => arguments["path"] \in References \cup {"root"}
         /\ "class_name" \in given => arguments["class_name"] \in ShortNames
         /\ "limit" \in given => arguments["limit"] = "count"
    [] name = "run_python_readonly" ->
         given = {"action"} /\ arguments["action"] = "action"
    [] name = "open_map" ->
         /\ Cardinality(target) = 1
         /\ \A key \in target : arguments[key] \in References \cup ShortNames
    [] OTHER -> TRUE

\* Only hashable values can be looked up in the set of registered actions.
IsUnhashable(name, arguments) ==
  /\ name = "run_python_readonly"
  /\ DOMAIN arguments = {"action"} /\ arguments["action"] = "nested"

\* A TypeError is no MCPError: no handler before the last of the route's catches it.
CatalogError(name, arguments) ==
  IF name \notin Catalog THEN "mcp_command_not_found"
  ELSE IF IsUnhashable(name, arguments) THEN "TypeError"
  ELSE IF /\ DOMAIN arguments \subseteq AllowedArguments(name)
          /\ ArgumentsFit(name, arguments)
  THEN "NONE" ELSE "mcp_invalid_request"

\* MCPSecurityPolicy(allow_write).validate
PolicyError(allowWrite, name, arguments) ==
  IF CatalogError(name, arguments) # "NONE" THEN CatalogError(name, arguments)
  ELSE IF \E key \in DOMAIN arguments : arguments[key] = "term" THEN "mcp_permission_error"
  ELSE IF name \in ReadCommands THEN "NONE"
  ELSE IF ~allowWrite THEN "mcp_permission_error"
  ELSE IF name \in Dangerous THEN "mcp_command_rejected"
  ELSE IF "confirm_write" \in DOMAIN arguments /\ arguments["confirm_write"] = "true"
  THEN "NONE" ELSE "mcp_permission_error"

FaultIsEnabled(allowWrite, name) == name \in ReadCommands \/ allowWrite

\* What the list of commands says.
IsEnabled(allowWrite, name) == name \in ReadCommands \/ (allowWrite /\ name \notin Dangerous)

\* The fixtures; only save_asset and open_map strip a path.
MockError(name, arguments) ==
  IF CatalogError(name, arguments) # "NONE" THEN CatalogError(name, arguments)
  ELSE CASE name = "get_asset" ->
         IF arguments["object_path"] = "asset" THEN "NONE" ELSE "mcp_unreal_error"
    [] name = "save_asset" ->
         IF arguments["object_path"] \in {"asset", "padded"} THEN "NONE" ELSE "mcp_unreal_error"
    [] name = "open_map" ->
         IF \E key \in {"map_path", "object_path"} \cap DOMAIN arguments :
              arguments[key] \in {"map", "mapname"}
         THEN "NONE" ELSE "mcp_unreal_error"
    [] name \in (ReadCommands \ {"get_asset"}) \cup {"save_current_level"} -> "NONE"
    [] OTHER -> "mcp_command_rejected"

------------------------------------------------------------------------------

\* The whole way of a request; an error of the transport reaches the client as
\* information on an error.
ExecuteError(allowWrite, connected, name, arguments) ==
  IF PolicyError(allowWrite, name, arguments) # "NONE"
  THEN PolicyError(allowWrite, name, arguments)
  ELSE IF ~connected THEN "mcp_not_connected"
  ELSE IF MockError(name, arguments) = "NONE" THEN "NONE"
  ELSE ErrorFromInfo(MockError(name, arguments))
==============================================================================
