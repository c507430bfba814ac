----------------------------- MODULE PublicValue -----------------------------
(***************************************************************************)
(* What the program shows and stores of values it was given: the public    *)
(* models of backend/mcp/models.py and the summaries that                  *)
(* backend/services/development_request_service.py puts into memory.       *)
(* A value is JSON: a map, a list, a text, something else.                 *)
(***************************************************************************)
EXTENDS Naturals, Sequences

CONSTANT Depth   \* how deep the values at hand are nested at most

DepthAssumption == Depth \in Nat

ASSUME DepthAssumption

\* Keys by the lists they are on: "cookie" is sensitive for the models only,
\* "debug_token" internal and sensitive.
Key == {"plain", "api_key", "cookie", "debug", "debug_token"}

is_sensitive_key(k) == k \in {"api_key", "cookie", "debug_token"}
IsInternalKey(k) == k \in {"debug", "debug_token"}
IsSecretKey(k) == k \in {"api_key", "debug_token"}

(***************************************************************************)
(* Texts by the patterns they match, those of the models and the one of    *)
(* the summaries.                                                          *)
(*   secret   gives a secret by name, in one word or as a bearer's         *)
(*   auth     the same by a name the models do not know, "auth: x"         *)
(*   basic    in two words, as in "Authorization: Basic x": the summaries' *)
(*            pattern ends after the first                                 *)
(*   rest     what they leave of that, the name, a mark and the secret     *)
(*   raw      gives one without a name, in a form only the models know     *)
(*   mention  names a secret without giving it                             *)
(*   trace    comes from a traceback                                       *)
(***************************************************************************)
Text == {"plain", "secret", "auth", "basic", "rest", "raw", "mention", "trace", "redacted"}

OfText(t) == [kind |-> "text", text |-> t]
Map(f) == [kind |-> "map", items |-> f]
List(s) == [kind |-> "list", items |-> s]

Redacted == OfText("redacted")

\* What a map has under a key that is not in it.
Absent == [kind |-> "absent"]

Leaf == {OfText(t) : t \in Text} \cup {[kind |-> "bytes"], [kind |-> "number"]}

Maps(values) == [kind : {"map"}, items : [Key -> values \cup {Absent}]]
Lists(values) == [kind : {"list"}, items : Seq(values)]

\* The values nested at most n deep.
Nested[n \in 0 .. Depth] ==
  IF n = 0 THEN Leaf ELSE Leaf \cup Maps(Nested[n - 1]) \cup Lists(Nested[n - 1])

Value == Nested[Depth]

------------------------------------------------------------------------------
(* The two sanitizers *)

sanitize_public_text(t) == IF t \in {"plain", "auth", "redacted"} THEN t ELSE "redacted"

IsHiddenKey(k) == IsInternalKey(k) /\ ~is_sensitive_key(k)

\* sanitize_public_value; "inner" is what it makes of the values inside.
PublicOf(v, inner) ==
  CASE v.kind = "map" ->
         Map([k \in Key |-> IF v.items[k] = Absent \/ IsHiddenKey(k) THEN Absent
                           ELSE IF is_sensitive_key(k) THEN Redacted ELSE inner[v.items[k]]])
    [] v.kind = "list" -> List([i \in DOMAIN v.items |-> inner[v.items[i]]])
    [] v.kind = "text" -> OfText(sanitize_public_text(v.text))
    [] v.kind = "bytes" -> Redacted
    [] OTHER -> v

PublicAt[n \in 0 .. Depth] == [v \in Nested[n] |-> PublicOf(v, PublicAt[n - 1])]

Public(v) == PublicAt[Depth][v]

\* The name stays, and what the pattern matches after it becomes a mark.
Substituted(t) ==
  CASE t = "secret" -> "mention"
    [] t = "auth" -> "redacted"
    [] t = "basic" -> "rest"
    [] OTHER -> t

\* DevelopmentRequestService._redact_structure: keys are kept.  Bytes become
\* text when they are written.
StoredOf(v, inner) ==
  CASE v.kind = "map" ->
         Map([k \in Key |-> IF v.items[k] = Absent THEN Absent
                           ELSE IF IsSecretKey(k) THEN Redacted ELSE inner[v.items[k]]])
    [] v.kind = "list" -> List([i \in DOMAIN v.items |-> inner[v.items[i]]])
    [] v.kind = "text" -> OfText(Substituted(v.text))
    [] v.kind = "bytes" -> OfText("plain")
    [] OTHER -> v

StoredAt[n \in 0 .. Depth] == [v \in Nested[n] |-> StoredOf(v, StoredAt[n - 1])]

FaultStored(v) ==
  IF v.kind = "map"
  THEN Map([k \in Key |-> IF v.items[k] # Absent /\ IsSecretKey(k) THEN Redacted ELSE v.items[k]])
  ELSE v

Stored(v) == StoredAt[Depth][v]

------------------------------------------------------------------------------
(* The public models: the fields that can hold a text, and the validators *)

Sanitized ==
  [MCPErrorInfo         |-> {"code", "message", "details"},
   MCPCommandResult     |-> {"data", "metadata"},
   UnrealConnectionInfo |-> {"transport", "engine_version", "project_name", "project_path",
                             "capabilities"},
   UnrealProjectInfo    |-> {"project_name", "project_path", "engine_version", "project_file",
                             "content_path", "plugins", "maps", "metadata"},
   UnrealAssetInfo      |-> {"object_path", "package_name", "asset_name", "asset_class",
                             "package_path", "tags", "metadata"},
   UnrealMapInfo        |-> {"name", "object_path", "package_path", "metadata"},
   MCPHealthStatus      |-> {"message", "details"}]

Model == DOMAIN Sanitized

\* command_id is the id of the client's own command, which the client checks.
TextFields(m) == Sanitized[m] \cup (IF m = "MCPCommandResult" THEN {"command_id"} ELSE {})

\* The values a field's type admits: data takes any, the others a mapping, a
\* list of texts or a text.
Admits(f, v) ==
  CASE f = "data" -> TRUE
    [] f \in {"details", "metadata", "tags"} -> v.kind = "map"
    [] f \in {"capabilities", "plugins", "maps"} ->
         v.kind = "list" /\ \A i \in DOMAIN v.items : v.items[i].kind = "text"
    [] OTHER -> v.kind = "text"

FaultBuild(m, v) ==
  [f \in {f \in TextFields(m) : Admits(f, v)} |->
     IF f \in Sanitized[m] /\ v.kind = "text" THEN Public(v) ELSE v]

\* A model that holds the value in every field that may hold it.
Build(m, v) ==
  [f \in {f \in TextFields(m) : Admits(f, v)} |-> IF f \in Sanitized[m] THEN Public(v) ELSE v]
==============================================================================
