----------------------------- MODULE UnrealErrors -----------------------------
(***************************************************************************)
(* The errors of the Unreal MCP layer: backend/mcp/errors.py, what the     *)
(* HTTP transport and the client make of a request that goes wrong, and    *)
(* the HTTP status api/routes/unreal_mcp.py answers with.                  *)
(***************************************************************************)
EXTENDS Naturals

\* "NONE" is the absence of an error, "foreign" a code this code does not know.
ErrorTypes ==
  {"mcp_connection_error", "mcp_not_connected", "mcp_timeout", "mcp_transport_error",
   "mcp_protocol_error", "mcp_command_not_found", "mcp_command_rejected",
   "mcp_permission_error", "mcp_invalid_request", "mcp_unreal_error", "mcp_unavailable"}

Code == ErrorTypes \cup {"NONE", "mcp_error", "foreign"}

\* A code read from a transport's answer.
FaultErrorFromInfo(code) ==
  IF code \in ErrorTypes \ {"mcp_unreal_error"} THEN code ELSE "mcp_error"

ErrorFromInfo(code) == IF code \in ErrorTypes THEN code ELSE "mcp_error"

HttpStatus(code) ==
  CASE code = "NONE" -> 200
    [] code = "mcp_invalid_request" -> 400
    [] code = "mcp_command_not_found" -> 404
    [] code \in {"mcp_command_rejected", "mcp_permission_error"} -> 403
    [] code \in {"mcp_connection_error", "mcp_not_connected", "mcp_unavailable"} -> 503
    [] code = "mcp_timeout" -> 504
    [] code \in {"mcp_protocol_error", "mcp_transport_error", "mcp_unreal_error"} -> 502
    [] OTHER -> 500

(***************************************************************************)
(* What a request to the bridge comes to.                                  *)
(*   raised     the exception that ends it, if any: a timeout, a network   *)
(*              failure, an HTTP error, one of the handled kinds, another  *)
(*   status     of the response; "invalid" is none that can be read        *)
(*   body       fits the model of the endpoint, is another JSON object,    *)
(*              no object, or no JSON                                      *)
(*   connected  of a /connection or /health body                           *)
(*   success, error  of a /commands body; "NONE" is no error object        *)
(***************************************************************************)
Reply ==
  [raised    : {"none", "timeout", "network", "http_error", "runtime", "other"},
   status    : {"2xx", "error", "invalid"},
   body      : {"fits", "object", "no_object", "no_json"},
   connected : BOOLEAN,
   success   : BOOLEAN,
   error     : Code]

\* _send_request, and for the exceptions it does not name the client's
\* _run_with_timeout.
SendError(reply) ==
  CASE reply.raised = "timeout" -> "mcp_timeout"
    [] reply.raised = "network" -> "mcp_connection_error"
    [] reply.raised \in {"http_error", "runtime", "other"} -> "mcp_transport_error"
    [] OTHER -> IF reply.status = "invalid" THEN "mcp_protocol_error" ELSE "NONE"

\* The whole of a request, up to the model it is parsed into.
RequestError(reply) ==
  IF SendError(reply) # "NONE" THEN SendError(reply)
  ELSE IF reply.status = "error" THEN "mcp_transport_error"
  ELSE IF reply.body = "fits" THEN "NONE" ELSE "mcp_protocol_error"

CommandError(reply) ==
  IF RequestError(reply) # "NONE" THEN RequestError(reply)
  ELSE IF reply.success THEN "NONE"
  ELSE IF reply.error = "NONE" THEN "mcp_unreal_error"
  ELSE ErrorFromInfo(reply.error)
==============================================================================
