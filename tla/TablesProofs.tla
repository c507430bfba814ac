----------------------------- MODULE TablesProofs -----------------------------
(***************************************************************************)
(* Proofs about the functions of the program for every input: commands     *)
(* with any arguments, values of any depth, registries of any agents.      *)
(***************************************************************************)
EXTENDS Tables, FiniteSetTheorems, WellFoundedInduction, TLAPS

(***************************************************************************)
(* The recursive definitions go through the numbers from 0 to a bound.  A  *)
(* function that does so exists, because every shorter one goes further.    *)
(***************************************************************************)
LEMMA Induction ==
  ASSUME NEW N \in Nat, NEW S, 0 \in S, \A n \in 0 .. N : n + 1 \in 0 .. N /\ n \in S => n + 1 \in S
  PROVE  0 .. N \subseteq S
<1> DEFINE Bad == {n \in 0 .. N : n \notin S}
<1>1. SUFFICES ASSUME Bad # {} PROVE FALSE
  OBVIOUS
<1>2. Bad \subseteq Nat
  OBVIOUS
<1>3. PICK k \in Bad : \A j \in Bad : ~(<<j, k>> \in OpToRel(<, Nat))
  BY <1>1, <1>2, NatLessThanWellFounded, WFMin
<1>4. \A j \in Bad : ~(j < k)
  BY <1>2, <1>3 DEF OpToRel
<1>5. k \in 0 .. N /\ k # 0 /\ k \notin S
  BY <1>3
<1>6. k - 1 \in 0 .. N /\ k - 1 + 1 = k /\ k - 1 < k
  BY <1>5
<1>7. k - 1 \in S
  BY <1>4, <1>6
<1> QED
  BY <1>5, <1>6, <1>7

LEMMA SeqIsFunction == ASSUME NEW S, NEW s \in Seq(S) PROVE s = [i \in 1 .. Len(s) |-> s[i]]
OBVIOUS

------------------------------------------------------------------------------
(* Commands *)

Refusals ==
  {"mcp_command_not_found", "mcp_invalid_request", "mcp_permission_error", "mcp_command_rejected"}

LEMMA CatalogErrors ==
  ASSUME NEW name, NEW arguments
  PROVE  /\ CatalogError(name, arguments) \in
              {"NONE", "TypeError", "mcp_command_not_found", "mcp_invalid_request"}
         /\ CatalogError(name, arguments) = "TypeError" <=> IsUnhashable(name, arguments)
BY DEF CatalogError, IsUnhashable, Catalog, ReadCommands

LEMMA PolicyErrors ==
  ASSUME NEW write, NEW name, NEW arguments
  PROVE  /\ PolicyError(write, name, arguments) \in {"NONE", "TypeError"} \cup Refusals
         /\ PolicyError(write, name, arguments) = "TypeError" <=> IsUnhashable(name, arguments)
BY CatalogErrors DEF PolicyError, Refusals

\* What the policy lets through is in the catalogue and implemented.
LEMMA LetThrough ==
  ASSUME NEW write, NEW name, NEW arguments, PolicyError(write, name, arguments) = "NONE"
  PROVE  /\ CatalogError(name, arguments) = "NONE"
         /\ name \in ReadCommands \cup {"open_map", "save_current_level", "save_asset"}
         /\ name \in ReadCommands \/ write
<1>1. CatalogError(name, arguments) = "NONE"
  BY DEF PolicyError
<1>2. name \in Catalog
  BY <1>1 DEF CatalogError
<1>3. name \in ReadCommands \/ (write /\ name \notin Dangerous)
  BY <1>1 DEF PolicyError
<1> QED
  BY <1>1, <1>2, <1>3 DEF Catalog, WriteCommands, Dangerous

LEMMA MockErrors ==
  ASSUME NEW name, NEW arguments, CatalogError(name, arguments) = "NONE",
         name \in ReadCommands \cup {"open_map", "save_current_level", "save_asset"}
  PROVE  MockError(name, arguments) \in {"NONE", "mcp_unreal_error"}
<1>1. CASE name = "get_asset"
  BY <1>1 DEF MockError
<1>2. CASE name = "save_asset"
  BY <1>2 DEF MockError
<1>3. CASE name = "open_map"
  BY <1>3 DEF MockError
<1>4. CASE name \in (ReadCommands \ {"get_asset"}) \cup {"save_current_level"}
  BY <1>4 DEF MockError, ReadCommands
<1> QED
  BY <1>1, <1>2, <1>3, <1>4

\* For every command with any arguments: what is refused is refused before the
\* transport and with a 4xx status, but for an action that cannot be hashed, and
\* what is let through is implemented (api/routes/unreal_mcp.py:38, :119).
THEOREM RefusalsComeFirst == Spec => []RefusedBeforehand
<1>1. ASSUME NEW write, NEW connected, NEW name, NEW arguments
      PROVE  LET answer == ExecuteError(write, connected, name, arguments) IN
             /\ IF PolicyError(write, name, arguments) # "NONE"
                THEN HttpStatus(answer) \in 400..404 \cup {500}
                ELSE answer \in {"NONE", "mcp_not_connected", "mcp_unreal_error"}
             /\ HttpStatus(answer) = 500 <=> IsUnhashable(name, arguments)
  <2>1. CASE PolicyError(write, name, arguments) # "NONE"
    <3>1. /\ ExecuteError(write, connected, name, arguments) \in {"TypeError"} \cup Refusals
          /\ ExecuteError(write, connected, name, arguments) = "TypeError"
               <=> IsUnhashable(name, arguments)
      BY <2>1, PolicyErrors DEF ExecuteError
    <3>2. HttpStatus("TypeError") = 500 /\ \A e \in Refusals : HttpStatus(e) \in 400..404
      BY DEF Refusals, HttpStatus
    <3> QED
      BY <2>1, <3>1, <3>2
  <2>2. CASE PolicyError(write, name, arguments) = "NONE"
    <3>1. MockError(name, arguments) \in {"NONE", "mcp_unreal_error"}
      BY <2>2, LetThrough, MockErrors
    <3>2. ExecuteError(write, connected, name, arguments)
            \in {"NONE", "mcp_not_connected", "mcp_unreal_error"}
      BY <2>2, <3>1 DEF ExecuteError, ErrorFromInfo, ErrorTypes
    <3>3. ~IsUnhashable(name, arguments)
      BY <2>2, PolicyErrors
    <3> QED
      BY <2>2, <3>2, <3>3 DEF HttpStatus
  <2> QED
    BY <2>1, <2>2
<1>2. RefusedBeforehand
  BY <1>1 DEF RefusedBeforehand, Answered
<1> QED
  BY <1>2, PTL

\* Arguments with which an enabled command succeeds.
Suitable(name) ==
  CASE name = "get_asset" -> [k \in {"object_path"} |-> "asset"]
    [] name = "run_python_readonly" -> [k \in {"action"} |-> "action"]
    [] name = "open_map" ->
         [k \in {"map_path", "confirm_write"} |-> IF k = "map_path" THEN "map" ELSE "true"]
    [] name = "save_asset" ->
         [k \in {"object_path", "confirm_write"} |-> IF k = "object_path" THEN "asset" ELSE "true"]
    [] name = "save_current_level" -> [k \in {"confirm_write"} |-> "true"]
    [] OTHER -> [k \in {} |-> "true"]

LEMMA SuitableIsShort == ASSUME NEW name PROVE Suitable(name) \in Arguments(2)
<1>1. \A a, b \in Keys : {a, b} \in {S \in SUBSET Keys : Cardinality(S) <= 2}
  <2> SUFFICES ASSUME NEW a \in Keys, NEW b \in Keys PROVE Cardinality({a, b}) <= 2
    OBVIOUS
  <2>1. IsFiniteSet({a}) /\ Cardinality({a}) = 1
    BY FS_Singleton
  <2>2. Cardinality({a} \cup {b}) \in {1, 2}
    BY <2>1, FS_AddElement
  <2>3. {a, b} = {a} \cup {b}
    OBVIOUS
  <2> QED
    BY <2>2, <2>3
<1>2. {} \in {S \in SUBSET Keys : Cardinality(S) <= 2}
  BY FS_EmptySet
<1>3. \E K : /\ K \in {{"object_path"}, {"action"}, {"map_path", "confirm_write"},
                        {"object_path", "confirm_write"}, {"confirm_write"}, {}}
             /\ Suitable(name) \in [K -> Kinds]
  BY DEF Suitable, Kinds, References, ShortNames
<1>4. \A K \in {{"object_path"}, {"action"}, {"map_path", "confirm_write"},
                {"object_path", "confirm_write"}, {"confirm_write"}} :
        \E a, b \in Keys : K = {a, b}
  BY DEF Keys
<1> QED
  BY <1>1, <1>2, <1>3, <1>4 DEF Arguments

LEMMA SuitableSucceeds ==
  ASSUME NEW write, NEW name \in Catalog, IsEnabled(write, name)
  PROVE  ExecuteError(write, TRUE, name, Suitable(name)) = "NONE"
<1> DEFINE a == Suitable(name)
<1>0. /\ name \in ReadCommands \/ (write /\ name \notin Dangerous)
      /\ name \in ReadCommands \cup {"open_map", "save_asset", "save_current_level"}
  BY DEF IsEnabled, Catalog, WriteCommands, Dangerous
<1>1. CASE name = "get_asset"
  <2>1. a = [k \in {"object_path"} |-> "asset"]
    BY <1>1 DEF Suitable
  <2> HIDE DEF a
  <2>2. ArgumentsFit(name, a) /\ DOMAIN a \subseteq AllowedArguments(name)
    <3>1. DOMAIN a = {"object_path"} /\ AllowedArguments(name) = {"object_path"}
      BY <1>1, <2>1 DEF AllowedArguments, WriteCommands
    <3>2. ArgumentsFit(name, a)
      BY <1>1, <2>1 DEF ArgumentsFit, References
    <3> QED
      BY <3>1, <3>2
  <2>3. CatalogError(name, a) = "NONE"
    BY <2>1, <2>2 DEF CatalogError, IsUnhashable
  <2>4. PolicyError(write, name, a) = "NONE"
    BY <1>1, <2>1, <2>3 DEF PolicyError, ReadCommands
  <2>5. MockError(name, a) = "NONE"
    BY <1>1, <2>1, <2>3 DEF MockError
  <2> QED
    BY <2>4, <2>5 DEF ExecuteError, a
<1>2. CASE name = "run_python_readonly"
  <2>1. a = [k \in {"action"} |-> "action"]
    BY <1>2 DEF Suitable
  <2> HIDE DEF a
  <2>2. ArgumentsFit(name, a) /\ DOMAIN a \subseteq AllowedArguments(name)
    <3>1. DOMAIN a = {"action"} /\ AllowedArguments(name) = {"action"}
      BY <1>2, <2>1 DEF AllowedArguments, WriteCommands
    <3>2. ArgumentsFit(name, a)
      BY <1>2, <2>1 DEF ArgumentsFit
    <3> QED
      BY <3>1, <3>2
  <2>3. CatalogError(name, a) = "NONE"
    BY <2>1, <2>2 DEF CatalogError, IsUnhashable
  <2>4. PolicyError(write, name, a) = "NONE"
    BY <1>2, <2>1, <2>3 DEF PolicyError, ReadCommands
  <2>5. MockError(name, a) = "NONE"
    BY <1>2, <2>3 DEF MockError, ReadCommands
  <2> QED
    BY <2>4, <2>5 DEF ExecuteError, a
<1>3. CASE name = "open_map"
  <2>1. a = [k \in {"map_path", "confirm_write"} |-> IF k = "map_path" THEN "map" ELSE "true"]
    BY <1>3 DEF Suitable
  <2> HIDE DEF a
  <2>2. DOMAIN a \cap {"map_path", "object_path"} = {"map_path"} /\ a["map_path"] = "map"
    BY <2>1
  <2>3. ArgumentsFit(name, a) /\ DOMAIN a \subseteq AllowedArguments(name)
    <3>1. DOMAIN a \subseteq AllowedArguments(name)
      BY <1>3, <2>1 DEF AllowedArguments
    <3>2. Cardinality({"map_path"}) = 1
      BY FS_Singleton
    <3>3. ArgumentsFit(name, a)
      BY <1>3, <2>2, <3>2 DEF ArgumentsFit, References
    <3> QED
      BY <3>1, <3>3
  <2>4. CatalogError(name, a) = "NONE"
    BY <2>1, <2>3 DEF CatalogError, IsUnhashable
  <2>5. PolicyError(write, name, a) = "NONE"
    BY <1>0, <1>3, <2>1, <2>4 DEF PolicyError
  <2>6. MockError(name, a) = "NONE"
    BY <1>3, <2>2, <2>4 DEF MockError
  <2> QED
    BY <2>5, <2>6 DEF ExecuteError, a
<1>4. CASE name = "save_asset"
  <2>1. a = [k \in {"object_path", "confirm_write"} |-> IF k = "object_path" THEN "asset" ELSE "true"]
    BY <1>4 DEF Suitable
  <2> HIDE DEF a
  <2>2. ArgumentsFit(name, a) /\ DOMAIN a \subseteq AllowedArguments(name)
    BY <1>4, <2>1 DEF AllowedArguments, ArgumentsFit, References
  <2>3. CatalogError(name, a) = "NONE"
    BY <2>1, <2>2 DEF CatalogError, IsUnhashable
  <2>4. PolicyError(write, name, a) = "NONE"
    BY <1>0, <1>4, <2>1, <2>3 DEF PolicyError
  <2>5. MockError(name, a) = "NONE"
    BY <1>4, <2>1, <2>3 DEF MockError
  <2> QED
    BY <2>4, <2>5 DEF ExecuteError, a
<1>5. CASE name = "save_current_level"
  <2>1. a = [k \in {"confirm_write"} |-> "true"]
    BY <1>5 DEF Suitable
  <2> HIDE DEF a
  <2>2. ArgumentsFit(name, a) /\ DOMAIN a \subseteq AllowedArguments(name)
    BY <1>5, <2>1 DEF AllowedArguments, ArgumentsFit, WriteCommands
  <2>3. CatalogError(name, a) = "NONE"
    BY <2>1, <2>2 DEF CatalogError, IsUnhashable
  <2>4. PolicyError(write, name, a) = "NONE"
    BY <1>0, <1>5, <2>1, <2>3 DEF PolicyError
  <2>5. MockError(name, a) = "NONE"
    BY <1>5, <2>3 DEF MockError
  <2> QED
    BY <2>4, <2>5 DEF ExecuteError, a
<1>6. CASE name \in ReadCommands \ {"get_asset", "run_python_readonly"}
  <2>1. DOMAIN a = {}
    BY <1>6 DEF Suitable, ReadCommands
  <2> HIDE DEF a
  <2>2. ArgumentsFit(name, a)
    BY <1>6, <2>1 DEF ArgumentsFit, ReadCommands
  <2>3. CatalogError(name, a) = "NONE"
    BY <2>1, <2>2 DEF CatalogError, IsUnhashable
  <2>4. PolicyError(write, name, a) = "NONE"
    BY <1>6, <2>1, <2>3 DEF PolicyError
  <2>5. MockError(name, a) = "NONE"
    BY <1>6, <2>3 DEF MockError, ReadCommands
  <2> QED
    BY <2>4, <2>5 DEF ExecuteError, a
<1> QED
  BY <1>0, <1>1, <1>2, <1>3, <1>4, <1>5, <1>6

\* The list of commands tells the truth: enabled is what can succeed
\* (security.py:66).
THEOREM ListedAreUsable == Spec => []EnabledIsUsable
<1>1. ASSUME NEW write, NEW name \in Catalog
      PROVE  IsEnabled(write, name) <=>
               \E arguments \in Arguments(2) : ExecuteError(write, TRUE, name, arguments) = "NONE"
  <2>1. ASSUME IsEnabled(write, name)
        PROVE  \E arguments \in Arguments(2) : ExecuteError(write, TRUE, name, arguments) = "NONE"
    BY <2>1, SuitableIsShort, SuitableSucceeds
  <2>2. ASSUME NEW arguments, ExecuteError(write, TRUE, name, arguments) = "NONE"
        PROVE  IsEnabled(write, name)
    <3>1. PolicyError(write, name, arguments) = "NONE"
      BY <2>2 DEF ExecuteError
    <3> QED
      BY <3>1, LetThrough DEF IsEnabled, Dangerous
  <2> QED
    BY <2>1, <2>2
<1> DEFINE Asked == topic = "catalog" => input.name \in Catalog
<1>2. Init => Asked
  BY DEF Init
<1>3. Asked /\ [Next]_vars => Asked'
  BY DEF Next, Asks, AskCatalog, AskCommand, AskValue, AskLoading, vars
<1>4. Asked => EnabledIsUsable
  BY <1>1 DEF EnabledIsUsable
<1> QED
  BY <1>2, <1>3, <1>4, PTL DEF Spec

------------------------------------------------------------------------------
(* The loading of the agents *)

Types == 1 .. Len(DefaultTypes)
NameOf(i) == AgentTypes[DefaultTypes[i]]

\* The three tables agree: the types of the list have the agents' names in both
\* of the others, all of them and each once.
LEMMA TablesAgree ==
  /\ Len(DefaultTypes) = 13
  /\ \A i \in Types : NameOf(i) \in Names /\ NameForType[DefaultTypes[i]] = NameOf(i)
  /\ \A n \in Names : \E i \in Types : NameOf(i) = n
  /\ \A i, j \in Types : NameOf(i) = NameOf(j) => i = j
<1>1. Len(DefaultTypes) = 13
  BY DEF DefaultTypes
<1>2. \A i \in Types : i \in {1, 2, 3, 4, 5, 6, 7, 8, 9, 10, 11, 12, 13}
  BY <1>1 DEF Types
<1>3. /\ NameOf(1) = "DiagnosticAgent" /\ NameOf(2) = "WorldAgent" /\ NameOf(3) = "GameplayAgent"
      /\ NameOf(4) = "VehicleAgent" /\ NameOf(5) = "UIAgent" /\ NameOf(6) = "AnimationAgent"
      /\ NameOf(7) = "AudioAgent" /\ NameOf(8) = "NetworkingAgent" /\ NameOf(9) = "TestingAgent"
      /\ NameOf(10) = "DocumentationAgent" /\ NameOf(11) = "GitAgent" /\ NameOf(12) = "UnrealAgent"
      /\ NameOf(13) = "ProjectManagerAgent"
  BY DEF NameOf, DefaultTypes, AgentTypes
<1>4. \A i \in Types : NameForType[DefaultTypes[i]] = NameOf(i)
  BY <1>2, <1>3 DEF DefaultTypes, NameForType
<1>5. Names = {"DiagnosticAgent", "WorldAgent", "GameplayAgent", "VehicleAgent", "UIAgent",
               "AnimationAgent", "AudioAgent", "NetworkingAgent", "TestingAgent",
               "DocumentationAgent", "GitAgent", "UnrealAgent", "ProjectManagerAgent"}
  BY DEF Names, Capabilities
<1>6. \A i \in Types : NameOf(i) \in Names
  BY <1>2, <1>3, <1>5
<1>7. \A n \in Names : \E i \in Types : NameOf(i) = n
  BY <1>1, <1>3, <1>5 DEF Types
<1>8. \A i, j \in Types : NameOf(i) = NameOf(j) => i = j
  BY <1>2, <1>3
<1> QED
  BY <1>1, <1>4, <1>6, <1>7, <1>8

\* What the loop has made of a registry when it has gone through n types.
After(reg, n) ==
  [registry |-> [m \in Names |-> IF reg[m] = "none" /\ \E i \in 1 .. n : NameOf(i) = m
                                 THEN "built in" ELSE reg[m]],
   loaded   |-> [i \in 1 .. n |-> NameOf(i)],
   raised   |-> FALSE]

LEMMA OneTurn ==
  ASSUME NEW reg \in Registry, NEW n \in Nat, n + 1 \in Types
  PROVE  LoadOne(After(reg, n), DefaultTypes[n + 1]) = After(reg, n + 1)
<1> DEFINE type == DefaultTypes[n + 1]
           name == NameOf(n + 1)
           r == After(reg, n).registry
           l == After(reg, n).loaded
<1>1. name \in Names /\ NameForType[type] = name /\ AgentTypes[type] = name
  BY TablesAgree DEF NameOf
<1>2. l \in Seq(Names) /\ Append(l, name) = After(reg, n + 1).loaded
  <2>1. \A i \in 1 .. n : NameOf(i) \in Names
    BY TablesAgree DEF Types
  <2>2. l = [i \in 1 .. n |-> NameOf(i)] /\ After(reg, n + 1).loaded = [i \in 1 .. n + 1 |-> NameOf(i)]
    BY DEF After
  <2> HIDE DEF l, name
  <2>3. l \in Seq(Names) /\ Len(l) = n
    BY <2>1, <2>2
  <2>4. /\ Append(l, name) \in Seq(Names) /\ Len(Append(l, name)) = n + 1
        /\ \A i \in 1 .. n : Append(l, name)[i] = l[i]
        /\ Append(l, name)[n + 1] = name
    BY <1>1, <2>3
  <2>5. \A i \in 1 .. n + 1 : Append(l, name)[i] = NameOf(i)
    <3>1. \A i \in 1 .. n : l[i] = NameOf(i)
      BY <2>2
    <3> QED
      BY <2>4, <3>1 DEF name
  <2>6. Append(l, name) = [i \in 1 .. n + 1 |-> Append(l, name)[i]]
    BY <2>4, SeqIsFunction
  <2> QED
    BY <2>2, <2>3, <2>5, <2>6
<1>3. \A m \in Names : (\E i \in 1 .. n + 1 : NameOf(i) = m) <=> m = name \/ \E i \in 1 .. n : NameOf(i) = m
  OBVIOUS
<1>4. ~ \E i \in 1 .. n : NameOf(i) = name
  BY TablesAgree DEF Types
<1>5. r[name] = reg[name]
  BY <1>1, <1>4 DEF After
<1> DEFINE state == After(reg, n)
<1>6. /\ state = [registry |-> r, loaded |-> l, raised |-> FALSE]
      /\ state.registry = r /\ state.loaded = l /\ state.raised = FALSE
  BY DEF After
<1>9. After(reg, n + 1) = [registry |-> After(reg, n + 1).registry,
                           loaded |-> After(reg, n + 1).loaded, raised |-> FALSE]
  BY DEF After
<1> HIDE DEF r, l, type, name, state
<1>7. CASE reg[name] = "none"
  <2>1. ~Registered(r, name)
    BY <1>5, <1>7 DEF Registered
  <2>2. LoadOne(state, type) =
          [registry |-> [r EXCEPT ![name] = "built in"], raised |-> FALSE, loaded |-> Append(l, name)]
    <3>1. Create(r, type) = [r EXCEPT ![name] = "built in"]
      BY <1>1, <2>1 DEF Create
    <3>2. CreateRaises(r, type) = FALSE
      BY <1>1, <2>1 DEF CreateRaises, Registered
    <3> QED
      BY <1>1, <1>6, <2>1, <3>1, <3>2 DEF LoadOne
  <2>3. [r EXCEPT ![name] = "built in"] = After(reg, n + 1).registry
    BY <1>1, <1>3, <1>7 DEF After, r
  <2> QED
    BY <1>2, <1>9, <2>2, <2>3 DEF state, type
<1>8. CASE reg[name] # "none"
  <2>1. Registered(r, name)
    BY <1>1, <1>5, <1>8 DEF Registered
  <2>2. LoadOne(state, type) = [registry |-> r, raised |-> FALSE, loaded |-> Append(l, name)]
    BY <1>1, <1>6, <2>1 DEF LoadOne
  <2>3. r = After(reg, n + 1).registry
    BY <1>3, <1>8 DEF After, r
  <2> QED
    BY <1>2, <1>9, <2>2, <2>3 DEF state, type
<1> QED
  BY <1>7, <1>8

LEMMA LoadAll == ASSUME NEW reg \in Registry PROVE Load(reg) = After(reg, 13)
<1> DEFINE L == Len(DefaultTypes)
           Kept(f, n) == f = [i \in 0 .. n |->
                               IF i = 0 THEN [registry |-> reg, loaded |-> << >>, raised |-> FALSE]
                               ELSE LoadOne(f[i - 1], DefaultTypes[i])]
           after == CHOOSE f : Kept(f, L)
<1>1. L = 13
  BY TablesAgree
<1>2. Load(reg) = after[L]
  BY DEF Load
<1>3. [registry |-> reg, loaded |-> << >>, raised |-> FALSE] = After(reg, 0)
  <2>0. reg = [m \in Names |-> reg[m]]
    BY DEF Registry
  <2>1. 1 .. 0 = {}
    OBVIOUS
  <2>2. << >> = [i \in 1 .. 0 |-> NameOf(i)]
    BY <2>1
  <2> QED
    BY <2>0, <2>1, <2>2 DEF After
<1>4. Kept([n \in 0 .. L |-> After(reg, n)], L)
  <2> SUFFICES ASSUME NEW i \in 0 .. L
               PROVE  After(reg, i) = IF i = 0 THEN After(reg, 0)
                                      ELSE LoadOne([n \in 0 .. L |-> After(reg, n)][i - 1], DefaultTypes[i])
    BY <1>3
  <2>1. CASE i = 0
    BY <2>1
  <2>2. CASE i # 0
    <3>1. i - 1 \in 0 .. L /\ i - 1 \in Nat /\ (i - 1) + 1 = i /\ i \in Types
      BY <1>1, <2>2 DEF Types
    <3> QED
      BY <2>2, <3>1, OneTurn
  <2> QED
    BY <2>1, <2>2
<1>5. Kept(after, L)
  <2> HIDE DEF Kept
  <2> QED
    BY <1>4
<1>6. \A n \in 0 .. L : after[n] = After(reg, n)
  <2> DEFINE Good == {n \in 0 .. L : after[n] = After(reg, n)}
  <2>0. \A i \in 0 .. L : after[i] = IF i = 0 THEN After(reg, 0)
                                     ELSE LoadOne(after[i - 1], DefaultTypes[i])
    <3> HIDE DEF after
    <3> QED
      BY <1>3, <1>5
  <2> HIDE DEF after, Kept
  <2>1. 0 \in Good
    BY <1>1, <2>0
  <2>2. ASSUME NEW n \in 0 .. L, n + 1 \in 0 .. L, n \in Good PROVE n + 1 \in Good
    <3>1. n \in Nat /\ n + 1 \in Types /\ n + 1 # 0 /\ n + 1 - 1 = n
      BY <1>1, <2>2 DEF Types
    <3>2. after[n + 1] = LoadOne(after[n], DefaultTypes[n + 1])
      BY <2>0, <2>2, <3>1
    <3> QED
      BY <2>2, <3>1, <3>2, OneTurn
  <2> HIDE DEF Good
  <2>3. 0 .. L \subseteq Good
    BY <1>1, <2>1, <2>2, Induction
  <2> QED
    BY <2>3 DEF Good
<1> QED
  <2> HIDE DEF after
  <2> QED
    BY <1>1, <1>2, <1>6

\* load_all at any moment: every built-in agent is there afterwards, once in the
\* answer, and the next one changes nothing (agent_loader.py:23).
THEOREM LoadingCompletes == Spec => []LoadingIsComplete
<1>1. ASSUME NEW reg \in Registry
      PROVE  LET result == Load(reg)
             IN  /\ ~result.raised
                 /\ IsInjective(result.loaded) /\ Range(result.loaded) = Names
                 /\ \A n \in Names :
                      result.registry[n] = (IF reg[n] = "none" THEN "built in" ELSE reg[n])
                 /\ Load(result.registry) = result
  <2> DEFINE full == [m \in Names |-> IF reg[m] = "none" THEN "built in" ELSE reg[m]]
             list == [i \in Types |-> NameOf(i)]
  <2>1. \A other \in Registry :
          Load(other) = [registry |-> [m \in Names |-> IF other[m] = "none" THEN "built in" ELSE other[m]],
                         loaded |-> list, raised |-> FALSE]
    <3> SUFFICES ASSUME NEW other \in Registry
                 PROVE  Load(other) = [registry |-> [m \in Names |-> IF other[m] = "none" THEN "built in"
                                                                   ELSE other[m]],
                                       loaded |-> list, raised |-> FALSE]
      OBVIOUS
    <3>1. Types = 1 .. 13 /\ \A m \in Names : \E i \in 1 .. 13 : NameOf(i) = m
      BY TablesAgree DEF Types
    <3>2. [m \in Names |-> IF other[m] = "none" /\ \E i \in 1 .. 13 : NameOf(i) = m
                           THEN "built in" ELSE other[m]]
          = [m \in Names |-> IF other[m] = "none" THEN "built in" ELSE other[m]]
      BY <3>1
    <3>3. list = [i \in 1 .. 13 |-> NameOf(i)]
      BY <3>1
    <3> QED
      BY <3>2, <3>3, LoadAll DEF After
  <2>2. full \in Registry /\ \A m \in Names : full[m] # "none"
    BY DEF Registry
  <2>3. full = [m \in Names |-> IF full[m] = "none" THEN "built in" ELSE full[m]]
    BY <2>2
  <2>4. IsInjective(list) /\ Range(list) = Names
    BY TablesAgree DEF IsInjective, Range
  <2> HIDE DEF full, list
  <2>5. Load(reg) = [registry |-> full, loaded |-> list, raised |-> FALSE]
    BY <2>1 DEF full
  <2>6. Load(full) = [registry |-> full, loaded |-> list, raised |-> FALSE]
    BY <2>1, <2>2, <2>3
  <2>7. \A n \in Names : full[n] = (IF reg[n] = "none" THEN "built in" ELSE reg[n])
    BY DEF full
  <2> DEFINE result == [registry |-> full, loaded |-> list, raised |-> FALSE]
  <2>8. result.registry = full /\ result.loaded = list /\ result.raised = FALSE
    OBVIOUS
  <2> HIDE DEF result
  <2>9. Load(reg) = result /\ Load(result.registry) = result
    BY <2>5, <2>6, <2>8 DEF result
  <2> QED
    BY <2>4, <2>7, <2>8, <2>9
<1> DEFINE Asked == topic = "loading" => input \in Registry
<1>2. Init => Asked
  BY DEF Init
<1>3. Asked /\ [Next]_vars => Asked'
  BY DEF Next, Asks, AskCatalog, AskCommand, AskValue, AskLoading, vars, Registry
<1>4. Asked => LoadingIsComplete
  BY <1>1 DEF LoadingIsComplete
<1> QED
  BY <1>2, <1>3, <1>4, PTL DEF Spec

------------------------------------------------------------------------------
(* Values *)

LEMMA DepthIsNat == Depth \in Nat
BY DepthAssumption DEF DepthAssumption

LEMMA NestedUnfolds ==
  \A n \in 0 .. Depth : Nested[n] = IF n = 0 THEN Leaf
                                    ELSE Leaf \cup Maps(Nested[n - 1]) \cup Lists(Nested[n - 1])
<1> DEFINE Body(f, i) == IF i = 0 THEN Leaf ELSE Leaf \cup Maps(f[i - 1]) \cup Lists(f[i - 1])
           Kept(f, n) == f = [i \in 0 .. n |-> Body(f, i)]
           Some == {n \in 0 .. Depth : \E f : Kept(f, n)}
<1>0. Depth \in Nat
  BY DepthIsNat
<1>1. \A f, g : \A i \in 0 .. Depth : (i # 0 => f[i - 1] = g[i - 1]) => Body(f, i) = Body(g, i)
  OBVIOUS
<1>2. Nested = CHOOSE f : Kept(f, Depth)
  BY DEF Nested
<1> HIDE DEF Body
<1>3. 0 \in Some
  <2> DEFINE f == [i \in 0 .. 0 |-> Body(<< >>, 0)]
  <2>1. Body(f, 0) = Body(<< >>, 0)
    BY <1>0, <1>1
  <2>2. Kept(f, 0)
    BY <2>1
  <2> QED
    BY <1>0, <2>2
<1>4. ASSUME NEW n \in 0 .. Depth, n + 1 \in 0 .. Depth, n \in Some PROVE n + 1 \in Some
  <2>1. PICK f : Kept(f, n)
    BY <1>4
  <2> DEFINE v == Body(f, n + 1)
  <2> HIDE DEF v
  <2> DEFINE g == [i \in 0 .. n + 1 |-> IF i = n + 1 THEN v ELSE f[i]]
  <2>2. /\ g = [i \in 0 .. n + 1 |-> g[i]]
        /\ \A i \in 0 .. n : g[i] = f[i]
        /\ g[n + 1] = v
    <3>1. n \in Nat /\ \A i \in 0 .. n : i \in 0 .. n + 1 /\ i # n + 1
      BY <1>0
    <3> QED
      BY <3>1
  <2> HIDE DEF g
  <2>3. ASSUME NEW i \in 0 .. n + 1 PROVE g[i] = Body(g, i)
    <3>1. i # 0 => i - 1 \in 0 .. n
      BY <1>0
    <3>2. i \in 0 .. Depth
      BY <1>0, <1>4
    <3>3. i # 0 => f[i - 1] = g[i - 1]
      BY <2>2, <3>1
    <3>4. Body(f, i) = Body(g, i)
      BY <1>1, <3>2, <3>3
    <3>5. CASE i \in 0 .. n
      BY <2>1, <2>2, <3>4, <3>5
    <3>6. CASE i = n + 1
      BY <2>2, <3>4, <3>6 DEF v
    <3> QED
      BY <1>0, <3>5, <3>6
  <2>4. Kept(g, n + 1)
    BY <2>2, <2>3
  <2> QED
    BY <1>4, <2>4
<1>5. \E f : Kept(f, Depth)
  <2> HIDE DEF Kept
  <2>1. 0 .. Depth \subseteq Some
    <3> HIDE DEF Some
    <3> QED
      BY <1>0, <1>3, <1>4, Induction
  <2> QED
    BY <1>0, <2>1
<1>6. Kept(Nested, Depth)
  <2> HIDE DEF Kept
  <2> QED
    BY <1>2, <1>5
<1> QED
  BY <1>6 DEF Body

LEMMA LeavesAreFlat ==
  /\ Nested[0] = Leaf
  /\ \A v \in Leaf : v.kind \in {"text", "bytes", "number"} /\ v # Absent
  /\ \A v \in Leaf : v.kind = "text" => v.text \in Text /\ v = OfText(v.text)
<1>1. Nested[0] = Leaf
  <2>1. 0 \in 0 .. Depth
    BY DepthIsNat
  <2> QED
    BY <2>1, NestedUnfolds
<1>2. \A v \in Leaf : \/ \E t \in Text : v = [kind |-> "text", text |-> t]
                      \/ v = [kind |-> "bytes"] \/ v = [kind |-> "number"]
  BY DEF Leaf, OfText
<1> QED
  BY <1>1, <1>2 DEF OfText, Absent

LEMMA PublicUnfolds ==
  \A n \in 0 .. Depth : \A v \in Nested[n] : PublicAt[n][v] = PublicOf(v, PublicAt[n - 1])
<1> DEFINE Body(f, i) == [v \in Nested[i] |-> PublicOf(v, f[i - 1])]
           Kept(f, n) == f = [i \in 0 .. n |-> Body(f, i)]
           Some == {n \in 0 .. Depth : \E f : Kept(f, n)}
<1>0. Depth \in Nat
  BY DepthIsNat
<1>1. \A f, g : \A i \in 0 .. Depth : (i # 0 => f[i - 1] = g[i - 1]) => Body(f, i) = Body(g, i)
  <2> TAKE f, g
  <2> TAKE i \in 0 .. Depth
  <2> HAVE i # 0 => f[i - 1] = g[i - 1]
  <2>1. CASE i = 0
    BY <2>1, LeavesAreFlat DEF PublicOf
  <2>2. CASE i # 0
    BY <2>2
  <2> QED
    BY <2>1, <2>2
<1>2. PublicAt = CHOOSE f : Kept(f, Depth)
  BY DEF PublicAt
<1> HIDE DEF Body
<1>3. 0 \in Some
  <2> DEFINE f == [i \in 0 .. 0 |-> Body(<< >>, 0)]
  <2>1. Body(f, 0) = Body(<< >>, 0)
    BY <1>0, <1>1
  <2>2. Kept(f, 0)
    BY <2>1
  <2> QED
    BY <1>0, <2>2
<1>4. ASSUME NEW n \in 0 .. Depth, n + 1 \in 0 .. Depth, n \in Some PROVE n + 1 \in Some
  <2>1. PICK f : Kept(f, n)
    BY <1>4
  <2> DEFINE v == Body(f, n + 1)
  <2> HIDE DEF v
  <2> DEFINE g == [i \in 0 .. n + 1 |-> IF i = n + 1 THEN v ELSE f[i]]
  <2>2. /\ g = [i \in 0 .. n + 1 |-> g[i]]
        /\ \A i \in 0 .. n : g[i] = f[i]
        /\ g[n + 1] = v
    <3>1. n \in Nat /\ \A i \in 0 .. n : i \in 0 .. n + 1 /\ i # n + 1
      BY <1>0
    <3> QED
      BY <3>1
  <2> HIDE DEF g
  <2>3. ASSUME NEW i \in 0 .. n + 1 PROVE g[i] = Body(g, i)
    <3>1. i # 0 => i - 1 \in 0 .. n
      BY <1>0
    <3>2. i \in 0 .. Depth
      BY <1>0, <1>4
    <3>3. i # 0 => f[i - 1] = g[i - 1]
      BY <2>2, <3>1
    <3>4. Body(f, i) = Body(g, i)
      BY <1>1, <3>2, <3>3
    <3>5. CASE i \in 0 .. n
      BY <2>1, <2>2, <3>4, <3>5
    <3>6. CASE i = n + 1
      BY <2>2, <3>4, <3>6 DEF v
    <3> QED
      BY <1>0, <3>5, <3>6
  <2>4. Kept(g, n + 1)
    BY <2>2, <2>3
  <2> QED
    BY <1>4, <2>4
<1>5. \E f : Kept(f, Depth)
  <2> HIDE DEF Kept
  <2>1. 0 .. Depth \subseteq Some
    <3> HIDE DEF Some
    <3> QED
      BY <1>0, <1>3, <1>4, Induction
  <2> QED
    BY <1>0, <2>1
<1>6. Kept(PublicAt, Depth)
  <2> HIDE DEF Kept
  <2> QED
    BY <1>2, <1>5
<1>7. \A n \in 0 .. Depth : PublicAt[n] = Body(PublicAt, n)
  <2> DEFINE F == PublicAt
  <2>1. F = [n \in 0 .. Depth |-> Body(F, n)]
    BY <1>6
  <2> HIDE DEF F
  <2>2. \A n \in 0 .. Depth : F[n] = Body(F, n)
    BY <2>1
  <2> QED
    BY <2>2 DEF F
<1> QED
  BY <1>7 DEF Body

LEMMA StoredUnfolds ==
  \A n \in 0 .. Depth : \A v \in Nested[n] : StoredAt[n][v] = StoredOf(v, StoredAt[n - 1])
<1> DEFINE Body(f, i) == [v \in Nested[i] |-> StoredOf(v, f[i - 1])]
           Kept(f, n) == f = [i \in 0 .. n |-> Body(f, i)]
           Some == {n \in 0 .. Depth : \E f : Kept(f, n)}
<1>0. Depth \in Nat
  BY DepthIsNat
<1>1. \A f, g : \A i \in 0 .. Depth : (i # 0 => f[i - 1] = g[i - 1]) => Body(f, i) = Body(g, i)
  <2> TAKE f, g
  <2> TAKE i \in 0 .. Depth
  <2> HAVE i # 0 => f[i - 1] = g[i - 1]
  <2>1. CASE i = 0
    BY <2>1, LeavesAreFlat DEF StoredOf
  <2>2. CASE i # 0
    BY <2>2
  <2> QED
    BY <2>1, <2>2
<1>2. StoredAt = CHOOSE f : Kept(f, Depth)
  BY DEF StoredAt
<1> HIDE DEF Body
<1>3. 0 \in Some
  <2> DEFINE f == [i \in 0 .. 0 |-> Body(<< >>, 0)]
  <2>1. Body(f, 0) = Body(<< >>, 0)
    BY <1>0, <1>1
  <2>2. Kept(f, 0)
    BY <2>1
  <2> QED
    BY <1>0, <2>2
<1>4. ASSUME NEW n \in 0 .. Depth, n + 1 \in 0 .. Depth, n \in Some PROVE n + 1 \in Some
  <2>1. PICK f : Kept(f, n)
    BY <1>4
  <2> DEFINE v == Body(f, n + 1)
  <2> HIDE DEF v
  <2> DEFINE g == [i \in 0 .. n + 1 |-> IF i = n + 1 THEN v ELSE f[i]]
  <2>2. /\ g = [i \in 0 .. n + 1 |-> g[i]]
        /\ \A i \in 0 .. n : g[i] = f[i]
        /\ g[n + 1] = v
    <3>1. n \in Nat /\ \A i \in 0 .. n : i \in 0 .. n + 1 /\ i # n + 1
      BY <1>0
    <3> QED
      BY <3>1
  <2> HIDE DEF g
  <2>3. ASSUME NEW i \in 0 .. n + 1 PROVE g[i] = Body(g, i)
    <3>1. i # 0 => i - 1 \in 0 .. n
      BY <1>0
    <3>2. i \in 0 .. Depth
      BY <1>0, <1>4
    <3>3. i # 0 => f[i - 1] = g[i - 1]
      BY <2>2, <3>1
    <3>4. Body(f, i) = Body(g, i)
      BY <1>1, <3>2, <3>3
    <3>5. CASE i \in 0 .. n
      BY <2>1, <2>2, <3>4, <3>5
    <3>6. CASE i = n + 1
      BY <2>2, <3>4, <3>6 DEF v
    <3> QED
      BY <1>0, <3>5, <3>6
  <2>4. Kept(g, n + 1)
    BY <2>2, <2>3
  <2> QED
    BY <1>4, <2>4
<1>5. \E f : Kept(f, Depth)
  <2> HIDE DEF Kept
  <2>1. 0 .. Depth \subseteq Some
    <3> HIDE DEF Some
    <3> QED
      BY <1>0, <1>3, <1>4, Induction
  <2> QED
    BY <1>0, <2>1
<1>6. Kept(StoredAt, Depth)
  <2> HIDE DEF Kept
  <2> QED
    BY <1>2, <1>5
<1>7. \A n \in 0 .. Depth : StoredAt[n] = Body(StoredAt, n)
  <2> DEFINE F == StoredAt
  <2>1. F = [n \in 0 .. Depth |-> Body(F, n)]
    BY <1>6
  <2> HIDE DEF F
  <2>2. \A n \in 0 .. Depth : F[n] = Body(F, n)
    BY <2>1
  <2> QED
    BY <2>2 DEF F
<1> QED
  BY <1>7 DEF Body

LEMMA TextsUnfolds ==
  \A n \in 0 .. Depth : \A v \in Nested[n] : TextsAt[n][v] = TextsOf(v, TextsAt[n - 1])
<1> DEFINE Body(f, i) == [v \in Nested[i] |-> TextsOf(v, f[i - 1])]
           Kept(f, n) == f = [i \in 0 .. n |-> Body(f, i)]
           Some == {n \in 0 .. Depth : \E f : Kept(f, n)}
<1>0. Depth \in Nat
  BY DepthIsNat
<1>1. \A f, g : \A i \in 0 .. Depth : (i # 0 => f[i - 1] = g[i - 1]) => Body(f, i) = Body(g, i)
  <2> TAKE f, g
  <2> TAKE i \in 0 .. Depth
  <2> HAVE i # 0 => f[i - 1] = g[i - 1]
  <2>1. CASE i = 0
    BY <2>1, LeavesAreFlat DEF TextsOf
  <2>2. CASE i # 0
    BY <2>2
  <2> QED
    BY <2>1, <2>2
<1>2. TextsAt = CHOOSE f : Kept(f, Depth)
  BY DEF TextsAt
<1> HIDE DEF Body
<1>3. 0 \in Some
  <2> DEFINE f == [i \in 0 .. 0 |-> Body(<< >>, 0)]
  <2>1. Body(f, 0) = Body(<< >>, 0)
    BY <1>0, <1>1
  <2>2. Kept(f, 0)
    BY <2>1
  <2> QED
    BY <1>0, <2>2
<1>4. ASSUME NEW n \in 0 .. Depth, n + 1 \in 0 .. Depth, n \in Some PROVE n + 1 \in Some
  <2>1. PICK f : Kept(f, n)
    BY <1>4
  <2> DEFINE v == Body(f, n + 1)
  <2> HIDE DEF v
  <2> DEFINE g == [i \in 0 .. n + 1 |-> IF i = n + 1 THEN v ELSE f[i]]
  <2>2. /\ g = [i \in 0 .. n + 1 |-> g[i]]
        /\ \A i \in 0 .. n : g[i] = f[i]
        /\ g[n + 1] = v
    <3>1. n \in Nat /\ \A i \in 0 .. n : i \in 0 .. n + 1 /\ i # n + 1
      BY <1>0
    <3> QED
      BY <3>1
  <2> HIDE DEF g
  <2>3. ASSUME NEW i \in 0 .. n + 1 PROVE g[i] = Body(g, i)
    <3>1. i # 0 => i - 1 \in 0 .. n
      BY <1>0
    <3>2. i \in 0 .. Depth
      BY <1>0, <1>4
    <3>3. i # 0 => f[i - 1] = g[i - 1]
      BY <2>2, <3>1
    <3>4. Body(f, i) = Body(g, i)
      BY <1>1, <3>2, <3>3
    <3>5. CASE i \in 0 .. n
      BY <2>1, <2>2, <3>4, <3>5
    <3>6. CASE i = n + 1
      BY <2>2, <3>4, <3>6 DEF v
    <3> QED
      BY <1>0, <3>5, <3>6
  <2>4. Kept(g, n + 1)
    BY <2>2, <2>3
  <2> QED
    BY <1>4, <2>4
<1>5. \E f : Kept(f, Depth)
  <2> HIDE DEF Kept
  <2>1. 0 .. Depth \subseteq Some
    <3> HIDE DEF Some
    <3> QED
      BY <1>0, <1>3, <1>4, Induction
  <2> QED
    BY <1>0, <2>1
<1>6. Kept(TextsAt, Depth)
  <2> HIDE DEF Kept
  <2> QED
    BY <1>2, <1>5
<1>7. \A n \in 0 .. Depth : TextsAt[n] = Body(TextsAt, n)
  <2> DEFINE F == TextsAt
  <2>1. F = [n \in 0 .. Depth |-> Body(F, n)]
    BY <1>6
  <2> HIDE DEF F
  <2>2. \A n \in 0 .. Depth : F[n] = Body(F, n)
    BY <2>1
  <2> QED
    BY <2>2 DEF F
<1> QED
  BY <1>7 DEF Body

\* What a value is made of, and what values are made of.
LEMMA Shapes ==
  ASSUME NEW n \in 0 .. Depth, NEW v \in Nested[n]
  PROVE  /\ v.kind \in {"map", "list", "text", "bytes", "number"} /\ v # Absent
         /\ v.kind = "map" => /\ n # 0 /\ n - 1 \in 0 .. Depth
                              /\ v.items \in [Key -> Nested[n - 1] \cup {Absent}]
         /\ v.kind = "list" => n # 0 /\ n - 1 \in 0 .. Depth /\ v.items \in Seq(Nested[n - 1])
         /\ v.kind = "text" => v.text \in Text /\ v = OfText(v.text)
<1>1. CASE v \in Leaf
  BY <1>1, LeavesAreFlat
<1>2. CASE v \notin Leaf
  <2>1. n # 0 /\ n - 1 \in 0 .. Depth
    BY <1>2, DepthIsNat, LeavesAreFlat
  <2>2. v \in Maps(Nested[n - 1]) \/ v \in Lists(Nested[n - 1])
    BY <1>2, <2>1, NestedUnfolds
  <2>3. v # Absent
    BY <2>2 DEF Maps, Lists, Absent
  <2> QED
    BY <2>1, <2>2, <2>3 DEF Maps, Lists
<1> QED
  BY <1>1, <1>2

LEMMA ShapesOfItems ==
  ASSUME NEW n \in 0 .. Depth, NEW v \in Nested[n]
  PROVE  /\ v.kind = "map" => /\ n # 0 /\ v.items \in [Key -> Nested[n - 1] \cup {Absent}]
                              /\ v = Map(v.items)
         /\ v.kind = "list" => n # 0 /\ v.items \in Seq(Nested[n - 1]) /\ v = List(v.items)
<1> USE DepthIsNat
<1>1. v.kind \in {"map", "list"} => n # 0 /\ v \notin Leaf
  BY LeavesAreFlat
<1>2. v.kind \in {"map", "list"} => v \in Maps(Nested[n - 1]) \cup Lists(Nested[n - 1])
  BY <1>1, NestedUnfolds
<1> QED
  BY <1>1, <1>2 DEF Maps, Lists, Map, List

LEMMA Building ==
  ASSUME NEW n \in 0 .. Depth
  PROVE  /\ Leaf \subseteq Nested[n]
         /\ n # 0 => /\ \A f \in [Key -> Nested[n - 1] \cup {Absent}] : Map(f) \in Nested[n]
                     /\ \A s \in Seq(Nested[n - 1]) : List(s) \in Nested[n]
<1>1. Leaf \subseteq Nested[n]
  BY LeavesAreFlat, NestedUnfolds
<1>2. CASE n # 0
  <2>1. \A f \in [Key -> Nested[n - 1] \cup {Absent}] : Map(f) \in Maps(Nested[n - 1])
    BY DEF Map, Maps
  <2>2. \A s \in Seq(Nested[n - 1]) : List(s) \in Lists(Nested[n - 1])
    BY DEF List, Lists
  <2> QED
    BY <1>1, <1>2, <2>1, <2>2, NestedUnfolds
<1> QED
  BY <1>1, <1>2

LEMMA RedactedIsLeaf == Redacted \in Leaf /\ Redacted.kind = "text" /\ Redacted.text = "redacted"
BY DEF Redacted, OfText, Leaf, Text

\* The texts of a map, of a list and of a text.
LEMMA TextsOfMap ==
  ASSUME NEW n \in 0 .. Depth, n # 0, NEW f \in [Key -> Nested[n - 1] \cup {Absent}], NEW l
  PROVE  l \in TextsAt[n][Map(f)] <=>
           \E k \in Key : /\ f[k] # Absent
                          /\ \E own \in TextsAt[n - 1][f[k]] :
                               l = [keys |-> own.keys \cup {k}, text |-> own.text]
<1>1. Map(f) \in Nested[n]
  BY Building
<1>2. Map(f).kind = "map" /\ Map(f).items = f
  BY DEF Map
<1>3. TextsAt[n][Map(f)] = TextsOf(Map(f), TextsAt[n - 1])
  BY <1>1, TextsUnfolds
<1> QED
  BY <1>2, <1>3 DEF TextsOf

LEMMA TextsOfList ==
  ASSUME NEW n \in 0 .. Depth, n # 0, NEW s \in Seq(Nested[n - 1]), NEW l
  PROVE  l \in TextsAt[n][List(s)] <=> \E i \in DOMAIN s : l \in TextsAt[n - 1][s[i]]
<1>1. List(s) \in Nested[n]
  BY Building
<1>2. List(s).kind = "list" /\ List(s).items = s
  BY DEF List
<1>3. TextsAt[n][List(s)] = TextsOf(List(s), TextsAt[n - 1])
  BY <1>1, TextsUnfolds
<1> QED
  BY <1>2, <1>3 DEF TextsOf

LEMMA TextsOfText ==
  ASSUME NEW n \in 0 .. Depth, NEW t \in Text
  PROVE  TextsAt[n][OfText(t)] = {[keys |-> {}, text |-> t]}
<1>1. OfText(t) \in Nested[n]
  BY Building DEF Leaf
<1>2. OfText(t).kind = "text" /\ OfText(t).text = t
  BY DEF OfText
<1> QED
  BY <1>1, <1>2, TextsUnfolds DEF TextsOf

LEMMA NoTexts ==
  ASSUME NEW n \in 0 .. Depth, NEW v \in Nested[n], v.kind \in {"bytes", "number"}
  PROVE  TextsAt[n][v] = {}
BY TextsUnfolds DEF TextsOf

\* What both sanitizers owe: a harmless value of the same depth that they would
\* not change again.
ShowsWell(n) ==
  \A v \in Nested[n] :
    LET shown == PublicAt[n][v] IN
    /\ shown \in Nested[n] /\ PublicAt[n][shown] = shown
    /\ \A l \in TextsAt[n][shown] : Harmless(l)
    /\ \A l \in TextsAt[n][v] : l.text = "plain" /\ Harmless(l) => l \in TextsAt[n][shown]

LEMMA MapIsShown ==
  ASSUME NEW n \in 0 .. Depth, n # 0, n - 1 \in 0 .. Depth, ShowsWell(n - 1),
         NEW f \in [Key -> Nested[n - 1] \cup {Absent}]
  PROVE  LET shown == PublicAt[n][Map(f)] IN
         /\ shown \in Nested[n] /\ PublicAt[n][shown] = shown
         /\ \A l \in TextsAt[n][shown] : Harmless(l)
         /\ \A l \in TextsAt[n][Map(f)] : l.text = "plain" /\ Harmless(l) => l \in TextsAt[n][shown]
<1> DEFINE Shown(g) == [k \in Key |-> IF g[k] = Absent \/ IsHiddenKey(k) THEN Absent
                                      ELSE IF is_sensitive_key(k) THEN Redacted
                                      ELSE PublicAt[n - 1][g[k]]]
           h == Shown(f)
<1>1. \A g \in [Key -> Nested[n - 1] \cup {Absent}] :
        PublicAt[n][Map(g)] = Map(Shown(g)) /\ Map(g) \in Nested[n]
  <2> TAKE g \in [Key -> Nested[n - 1] \cup {Absent}]
  <2>1. Map(g) \in Nested[n] /\ Map(g).kind = "map" /\ Map(g).items = g
    BY Building DEF Map
  <2>2. PublicAt[n][Map(g)] = PublicOf(Map(g), PublicAt[n - 1])
    BY <2>1, PublicUnfolds
  <2>3. PublicOf(Map(g), PublicAt[n - 1]) =
          Map([k \in Key |-> IF Map(g).items[k] = Absent \/ IsHiddenKey(k) THEN Absent
                            ELSE IF is_sensitive_key(k) THEN Redacted
                            ELSE PublicAt[n - 1][Map(g).items[k]]])
    BY <2>1 DEF PublicOf
  <2> QED
    BY <2>1, <2>2, <2>3
<1>2. Redacted \in Nested[n - 1] /\ Redacted # Absent
  BY Building, RedactedIsLeaf, LeavesAreFlat
<1>3. \A k \in Key : f[k] # Absent => PublicAt[n - 1][f[k]] \in Nested[n - 1]
  BY DEF ShowsWell
<1>4. \A k \in Key :
        /\ f[k] = Absent \/ IsHiddenKey(k) => h[k] = Absent
        /\ f[k] # Absent /\ ~IsHiddenKey(k) /\ is_sensitive_key(k) => h[k] = Redacted
        /\ f[k] # Absent /\ ~IsHiddenKey(k) /\ ~is_sensitive_key(k) => h[k] = PublicAt[n - 1][f[k]]
  OBVIOUS
<1>5. h \in [Key -> Nested[n - 1] \cup {Absent}]
  BY <1>2, <1>3
<1>6. Shown(h) = h
  <2> SUFFICES ASSUME NEW k \in Key PROVE Shown(h)[k] = h[k]
    BY <1>5
  <2>1. /\ h[k] = Absent \/ IsHiddenKey(k) => Shown(h)[k] = Absent
        /\ h[k] # Absent /\ ~IsHiddenKey(k) /\ is_sensitive_key(k) => Shown(h)[k] = Redacted
        /\ h[k] # Absent /\ ~IsHiddenKey(k) /\ ~is_sensitive_key(k) =>
             Shown(h)[k] = PublicAt[n - 1][h[k]]
    OBVIOUS
  <2> HIDE DEF h, Shown
  <2>2. f[k] # Absent => PublicAt[n - 1][PublicAt[n - 1][f[k]]] = PublicAt[n - 1][f[k]]
    BY DEF ShowsWell
  <2>3. f[k] # Absent => PublicAt[n - 1][f[k]] # Absent
    BY <1>3, Shapes
  <2> QED
    BY <1>2, <1>4, <2>1, <2>2, <2>3
<1> HIDE DEF h, Shown
<1>7. PublicAt[n][Map(f)] = Map(h) /\ Map(h) \in Nested[n] /\ PublicAt[n][Map(h)] = Map(h)
  BY <1>1, <1>5, <1>6 DEF h
<1>8. ASSUME NEW l \in TextsAt[n][Map(h)] PROVE Harmless(l)
  <2>1. PICK k \in Key : /\ h[k] # Absent
                         /\ \E own \in TextsAt[n - 1][h[k]] :
                              l = [keys |-> own.keys \cup {k}, text |-> own.text]
    BY <1>5, <1>8, TextsOfMap
  <2>2. PICK own \in TextsAt[n - 1][h[k]] : l = [keys |-> own.keys \cup {k}, text |-> own.text]
    BY <2>1
  <2>3. l.keys = own.keys \cup {k} /\ l.text = own.text
    BY <2>2
  <2>4. CASE is_sensitive_key(k)
    <3>1. h[k] = Redacted
      BY <1>4, <2>1, <2>4
    <3>2. own.text = "redacted"
      BY <2>2, <3>1, TextsOfText DEF Redacted, Text
    <3> QED
      BY <2>3, <3>2 DEF Harmless
  <2>5. CASE ~is_sensitive_key(k)
    <3>1. h[k] = PublicAt[n - 1][f[k]] /\ f[k] \in Nested[n - 1] /\ ~IsInternalKey(k)
      BY <1>4, <2>1, <2>5 DEF IsHiddenKey
    <3>2. Harmless(own)
      BY <2>2, <3>1 DEF ShowsWell
    <3> QED
      BY <2>3, <2>5, <3>1, <3>2 DEF Harmless
  <2> QED
    BY <2>4, <2>5
<1>9. ASSUME NEW l \in TextsAt[n][Map(f)], l.text = "plain", Harmless(l)
      PROVE  l \in TextsAt[n][Map(h)]
  <2>1. PICK k \in Key : /\ f[k] # Absent
                         /\ \E own \in TextsAt[n - 1][f[k]] :
                              l = [keys |-> own.keys \cup {k}, text |-> own.text]
    BY <1>9, TextsOfMap
  <2>2. PICK own \in TextsAt[n - 1][f[k]] : l = [keys |-> own.keys \cup {k}, text |-> own.text]
    BY <2>1
  <2>3. l.keys = own.keys \cup {k} /\ l.text = own.text
    BY <2>2
  <2>4. ~is_sensitive_key(k) /\ ~IsInternalKey(k) /\ Harmless(own) /\ own.text = "plain"
    BY <1>9, <2>3 DEF Harmless
  <2>5. h[k] = PublicAt[n - 1][f[k]] /\ h[k] # Absent
    BY <1>3, <1>4, <2>1, <2>4, Shapes DEF IsHiddenKey
  <2>6. own \in TextsAt[n - 1][h[k]]
    BY <2>1, <2>2, <2>4, <2>5 DEF ShowsWell
  <2> QED
    BY <1>5, <2>2, <2>5, <2>6, TextsOfMap
<1> QED
  BY <1>7, <1>8, <1>9

LEMMA ListIsShown ==
  ASSUME NEW n \in 0 .. Depth, n # 0, n - 1 \in 0 .. Depth, ShowsWell(n - 1),
         NEW s \in Seq(Nested[n - 1])
  PROVE  LET shown == PublicAt[n][List(s)] IN
         /\ shown \in Nested[n] /\ PublicAt[n][shown] = shown
         /\ \A l \in TextsAt[n][shown] : Harmless(l)
         /\ \A l \in TextsAt[n][List(s)] : l.text = "plain" /\ Harmless(l) => l \in TextsAt[n][shown]
<1> DEFINE Shown(r) == [i \in DOMAIN r |-> PublicAt[n - 1][r[i]]]
           h == Shown(s)
<1>1. \A r \in Seq(Nested[n - 1]) : PublicAt[n][List(r)] = List(Shown(r)) /\ List(r) \in Nested[n]
  <2> TAKE r \in Seq(Nested[n - 1])
  <2>1. List(r) \in Nested[n] /\ List(r).kind = "list" /\ List(r).items = r
    BY Building DEF List
  <2>2. PublicAt[n][List(r)] = PublicOf(List(r), PublicAt[n - 1])
    BY <2>1, PublicUnfolds
  <2>3. PublicOf(List(r), PublicAt[n - 1]) =
          List([i \in DOMAIN List(r).items |-> PublicAt[n - 1][List(r).items[i]]])
    BY <2>1 DEF PublicOf
  <2> QED
    BY <2>1, <2>2, <2>3
<1>2. DOMAIN s = 1 .. Len(s) /\ \A i \in 1 .. Len(s) : s[i] \in Nested[n - 1]
  OBVIOUS
<1>3. h = [i \in 1 .. Len(s) |-> PublicAt[n - 1][s[i]]]
  BY <1>2
<1>4. \A i \in 1 .. Len(s) : h[i] = PublicAt[n - 1][s[i]] /\ h[i] \in Nested[n - 1]
                             /\ PublicAt[n - 1][h[i]] = h[i]
  BY <1>2, <1>3 DEF ShowsWell
<1>5. h \in Seq(Nested[n - 1]) /\ DOMAIN h = 1 .. Len(s)
  <2> HIDE DEF h
  <2>1. h \in [1 .. Len(s) -> Nested[n - 1]] /\ Len(s) \in Nat
    BY <1>3, <1>4
  <2> QED
    BY <2>1
<1>6. Shown(h) = h
  <2> HIDE DEF h
  <2>1. Shown(h) = [i \in 1 .. Len(s) |-> PublicAt[n - 1][h[i]]]
    BY <1>5
  <2>2. h = [i \in 1 .. Len(s) |-> h[i]]
    BY <1>3, <1>4
  <2> QED
    BY <1>4, <2>1, <2>2
<1>7. PublicAt[n][List(s)] = List(h)
  BY <1>1
<1> HIDE DEF h, Shown
<1>8. List(h) \in Nested[n] /\ PublicAt[n][List(h)] = List(h)
  BY <1>1, <1>5, <1>6
<1>9. ASSUME NEW l \in TextsAt[n][List(h)] PROVE Harmless(l)
  <2>1. PICK i \in 1 .. Len(s) : l \in TextsAt[n - 1][h[i]]
    BY <1>5, <1>9, TextsOfList
  <2> QED
    BY <1>2, <1>4, <2>1 DEF ShowsWell
<1>10. ASSUME NEW l \in TextsAt[n][List(s)], l.text = "plain", Harmless(l)
       PROVE  l \in TextsAt[n][List(h)]
  <2>1. PICK i \in 1 .. Len(s) : l \in TextsAt[n - 1][s[i]]
    BY <1>2, <1>10, TextsOfList
  <2>2. l \in TextsAt[n - 1][h[i]]
    BY <1>2, <1>4, <1>10, <2>1 DEF ShowsWell
  <2> QED
    BY <1>5, <2>2, TextsOfList
<1> QED
  BY <1>7, <1>8, <1>9, <1>10

LEMMA LeafIsShown ==
  ASSUME NEW n \in 0 .. Depth, NEW v \in Nested[n], v.kind \in {"text", "bytes", "number"}
  PROVE  LET shown == PublicAt[n][v] IN
         /\ shown \in Nested[n] /\ PublicAt[n][shown] = shown
         /\ \A l \in TextsAt[n][shown] : Harmless(l)
         /\ \A l \in TextsAt[n][v] : l.text = "plain" /\ Harmless(l) => l \in TextsAt[n][shown]
<1>1. \A t \in Text : OfText(t) \in Nested[n] /\ OfText(t).kind = "text" /\ OfText(t).text = t
  BY Building DEF Leaf, OfText
<1>2. \A t \in Text : PublicAt[n][OfText(t)] = OfText(sanitize_public_text(t))
  <2> TAKE t \in Text
  <2>1. PublicAt[n][OfText(t)] = PublicOf(OfText(t), PublicAt[n - 1])
    BY <1>1, PublicUnfolds
  <2>2. PublicOf(OfText(t), PublicAt[n - 1]) = OfText(sanitize_public_text(OfText(t).text))
    BY <1>1 DEF PublicOf
  <2> QED
    BY <1>1, <2>1, <2>2
<1>3. PublicAt[n][Redacted] = Redacted /\ Redacted \in Nested[n]
  BY <1>1, <1>2 DEF Redacted, sanitize_public_text, Text
<1>4. TextsAt[n][Redacted] = {[keys |-> {}, text |-> "redacted"]}
  BY TextsOfText DEF Redacted, Text
<1>5. \A t \in {"plain", "auth", "redacted"} : Harmless([keys |-> {}, text |-> t])
  BY DEF Harmless
<1>6. CASE v.kind = "text"
  <2>1. v.text \in Text /\ v = OfText(v.text)
    BY <1>6, Shapes
  <2>2. CASE v.text \notin {"plain", "auth"}
    <3>1. PublicAt[n][v] = Redacted
      BY <1>2, <2>1, <2>2 DEF sanitize_public_text, Redacted
    <3>2. \A l \in TextsAt[n][v] : l.text # "plain"
      BY <2>1, <2>2, TextsOfText
    <3> QED
      BY <1>3, <1>4, <1>5, <3>1, <3>2
  <2>3. CASE v.text \in {"plain", "auth"}
    <3>1. PublicAt[n][v] = v
      BY <1>2, <2>1, <2>3 DEF sanitize_public_text
    <3>2. TextsAt[n][v] = {[keys |-> {}, text |-> v.text]}
      BY <2>1, <2>3, TextsOfText
    <3> QED
      BY <1>5, <2>3, <3>1, <3>2
  <2> QED
    BY <2>1, <2>2, <2>3 DEF Text
<1>7. CASE v.kind = "bytes"
  <2>1. PublicAt[n][v] = Redacted
    BY <1>7, PublicUnfolds DEF PublicOf
  <2> QED
    BY <1>3, <1>4, <1>5, <1>7, <2>1, NoTexts
<1>8. CASE v.kind = "number"
  <2>1. PublicAt[n][v] = v
    BY <1>8, PublicUnfolds DEF PublicOf
  <2> QED
    BY <1>8, <2>1, NoTexts
<1> QED
  BY <1>6, <1>7, <1>8

LEMMA AllIsShownWell == \A n \in 0 .. Depth : ShowsWell(n)
<1> DEFINE Good == {n \in 0 .. Depth : ShowsWell(n)}
<1>1. ASSUME NEW n \in 0 .. Depth, n # 0 => n - 1 \in 0 .. Depth /\ ShowsWell(n - 1)
      PROVE  ShowsWell(n)
  <2> SUFFICES ASSUME NEW v \in Nested[n]
               PROVE  LET shown == PublicAt[n][v] IN
                      /\ shown \in Nested[n] /\ PublicAt[n][shown] = shown
                      /\ \A l \in TextsAt[n][shown] : Harmless(l)
                      /\ \A l \in TextsAt[n][v] :
                           l.text = "plain" /\ Harmless(l) => l \in TextsAt[n][shown]
    BY DEF ShowsWell
  <2>1. CASE v.kind = "map"
    <3>1. n # 0 /\ v.items \in [Key -> Nested[n - 1] \cup {Absent}] /\ v = Map(v.items)
      BY <2>1, ShapesOfItems
    <3> QED
      BY <1>1, <3>1, MapIsShown
  <2>2. CASE v.kind = "list"
    <3>1. n # 0 /\ v.items \in Seq(Nested[n - 1]) /\ v = List(v.items)
      BY <2>2, ShapesOfItems
    <3> QED
      BY <1>1, <3>1, ListIsShown
  <2>3. CASE v.kind \in {"text", "bytes", "number"}
    BY <2>3, LeafIsShown
  <2> QED
    BY <2>1, <2>2, <2>3, Shapes
<1>2. 0 \in Good
  BY <1>1, DepthIsNat
<1>3. ASSUME NEW n \in 0 .. Depth, n + 1 \in 0 .. Depth, n \in Good PROVE n + 1 \in Good
  <2>1. n + 1 - 1 = n
    BY DepthIsNat
  <2> QED
    BY <1>1, <1>3, <2>1
<1> HIDE DEF Good
<1>4. 0 .. Depth \subseteq Good
  BY <1>2, <1>3, DepthIsNat, Induction
<1> QED
  BY <1>4 DEF Good

\* The models are asked about any value, at any depth (models.py:59, 117-288).
THEOREM ShownAreHarmless == Spec => []ShownIsHarmless
<1>1. ASSUME NEW v \in Value
      PROVE  /\ Public(Public(v)) = Public(v)
             /\ \A l \in Texts(Public(v)) : Harmless(l)
             /\ \A l \in Texts(v) : l.text = "plain" /\ Harmless(l) => l \in Texts(Public(v))
  <2>1. Depth \in 0 .. Depth
    BY DepthIsNat
  <2>2. ShowsWell(Depth)
    BY <2>1, AllIsShownWell
  <2> QED
    BY <2>2 DEF ShowsWell, Public, Texts, Value
<1>2. ASSUME NEW v \in Value, NEW m \in Model, NEW f \in DOMAIN Build(m, v) \ {"command_id"}
      PROVE  Build(m, v)[f] = Public(v)
  <2>1. f \in TextFields(m) /\ Admits(f, v)
    BY DEF Build
  <2>2. f \in Sanitized[m]
    BY <2>1 DEF TextFields
  <2> QED
    BY <2>1, <2>2 DEF Build
<1> DEFINE Asked == topic = "value" => input \in Value
<1>3. Init => Asked
  BY DEF Init
<1>4. Asked /\ [Next]_vars => Asked'
  BY TablesAssumption
     DEF Next, Asks, AskCatalog, AskCommand, AskValue, AskLoading, vars, TablesAssumption
<1>5. Asked => ShownIsHarmless
  BY <1>1, <1>2 DEF ShownIsHarmless
<1> QED
  BY <1>3, <1>4, <1>5, PTL DEF Spec

\* What is stored of a value with the given texts is a value of the same depth,
\* without the secrets the pattern knows.
Storable(l, given) ==
  /\ l.text \notin {"secret", "auth", "basic"}
  /\ (\E k \in l.keys : IsSecretKey(k)) => l.text = "redacted"
  /\ l.text \in {"rest", "raw"} =>
       \E t \in {"basic", "rest", "raw"} : [keys |-> l.keys, text |-> t] \in given

StoresWell(n) ==
  \A v \in Nested[n] : /\ StoredAt[n][v] \in Nested[n]
                       /\ \A l \in TextsAt[n][StoredAt[n][v]] : Storable(l, TextsAt[n][v])

LEMMA MapIsStored ==
  ASSUME NEW n \in 0 .. Depth, n # 0, n - 1 \in 0 .. Depth, StoresWell(n - 1),
         NEW f \in [Key -> Nested[n - 1] \cup {Absent}]
  PROVE  /\ StoredAt[n][Map(f)] \in Nested[n]
         /\ \A l \in TextsAt[n][StoredAt[n][Map(f)]] : Storable(l, TextsAt[n][Map(f)])
<1> DEFINE h == [k \in Key |-> IF f[k] = Absent THEN Absent
                              ELSE IF IsSecretKey(k) THEN Redacted ELSE StoredAt[n - 1][f[k]]]
<1>1. Map(f) \in Nested[n] /\ Map(f).kind = "map" /\ Map(f).items = f
  BY Building DEF Map
<1>2. StoredAt[n][Map(f)] = StoredOf(Map(f), StoredAt[n - 1])
  BY <1>1, StoredUnfolds
<1>3. StoredOf(Map(f), StoredAt[n - 1]) =
        Map([k \in Key |-> IF Map(f).items[k] = Absent THEN Absent
                          ELSE IF IsSecretKey(k) THEN Redacted
                          ELSE StoredAt[n - 1][Map(f).items[k]]])
  BY <1>1 DEF StoredOf
<1>4. StoredAt[n][Map(f)] = Map(h)
  BY <1>1, <1>2, <1>3
<1>5. Redacted \in Nested[n - 1]
  BY Building, RedactedIsLeaf
<1>6. h \in [Key -> Nested[n - 1] \cup {Absent}]
  BY <1>5 DEF StoresWell
<1>7. \A k \in Key : h[k] # Absent =>
        /\ f[k] # Absent /\ f[k] \in Nested[n - 1]
        /\ h[k] = IF IsSecretKey(k) THEN Redacted ELSE StoredAt[n - 1][f[k]]
  OBVIOUS
<1> HIDE DEF h
<1>8. ASSUME NEW l \in TextsAt[n][Map(h)] PROVE Storable(l, TextsAt[n][Map(f)])
  <2>1. PICK k \in Key : /\ h[k] # Absent
                         /\ \E own \in TextsAt[n - 1][h[k]] :
                              l = [keys |-> own.keys \cup {k}, text |-> own.text]
    BY <1>6, <1>8, TextsOfMap
  <2>2. PICK own \in TextsAt[n - 1][h[k]] : l = [keys |-> own.keys \cup {k}, text |-> own.text]
    BY <2>1
  <2>3. l.keys = own.keys \cup {k} /\ l.text = own.text
    BY <2>2
  <2>4. CASE IsSecretKey(k)
    <3>1. h[k] = Redacted
      BY <1>7, <2>1, <2>4
    <3>2. own.text = "redacted"
      BY <2>2, <3>1, TextsOfText DEF Redacted, Text
    <3> QED
      BY <2>3, <3>2 DEF Storable
  <2>5. CASE ~IsSecretKey(k)
    <3>1. f[k] # Absent /\ Storable(own, TextsAt[n - 1][f[k]])
      BY <1>7, <2>1, <2>2, <2>5 DEF StoresWell
    <3>2. ASSUME NEW t, [keys |-> own.keys, text |-> t] \in TextsAt[n - 1][f[k]]
          PROVE  [keys |-> l.keys, text |-> t] \in TextsAt[n][Map(f)]
      <4>1. \E g \in TextsAt[n - 1][f[k]] :
              [keys |-> l.keys, text |-> t] = [keys |-> g.keys \cup {k}, text |-> g.text]
        BY <2>3, <3>2
      <4> QED
        BY <3>1, <4>1, TextsOfMap
    <3> QED
      BY <2>3, <2>5, <3>1, <3>2 DEF Storable
  <2> QED
    BY <2>4, <2>5
<1> QED
  BY <1>4, <1>6, <1>8, Building

LEMMA ListIsStored ==
  ASSUME NEW n \in 0 .. Depth, n # 0, n - 1 \in 0 .. Depth, StoresWell(n - 1),
         NEW s \in Seq(Nested[n - 1])
  PROVE  /\ StoredAt[n][List(s)] \in Nested[n]
         /\ \A l \in TextsAt[n][StoredAt[n][List(s)]] : Storable(l, TextsAt[n][List(s)])
<1> DEFINE h == [i \in 1 .. Len(s) |-> StoredAt[n - 1][s[i]]]
<1>1. List(s) \in Nested[n] /\ List(s).kind = "list" /\ List(s).items = s
  BY Building DEF List
<1>2. DOMAIN s = 1 .. Len(s) /\ Len(s) \in Nat /\ \A i \in 1 .. Len(s) : s[i] \in Nested[n - 1]
  OBVIOUS
<1>3. StoredAt[n][List(s)] = StoredOf(List(s), StoredAt[n - 1])
  BY <1>1, StoredUnfolds
<1>4. StoredOf(List(s), StoredAt[n - 1]) =
        List([i \in DOMAIN List(s).items |-> StoredAt[n - 1][List(s).items[i]]])
  BY <1>1 DEF StoredOf
<1>5. StoredAt[n][List(s)] = List(h)
  BY <1>1, <1>2, <1>3, <1>4
<1>6. \A i \in 1 .. Len(s) : /\ h[i] = StoredAt[n - 1][s[i]] /\ h[i] \in Nested[n - 1]
                             /\ \A l \in TextsAt[n - 1][h[i]] : Storable(l, TextsAt[n - 1][s[i]])
  BY <1>2 DEF StoresWell
<1>7. h \in [1 .. Len(s) -> Nested[n - 1]]
  BY <1>6
<1> HIDE DEF h
<1>8. h \in Seq(Nested[n - 1]) /\ DOMAIN h = 1 .. Len(s)
  BY <1>2, <1>7
<1>9. ASSUME NEW l \in TextsAt[n][List(h)] PROVE Storable(l, TextsAt[n][List(s)])
  <2>1. PICK i \in 1 .. Len(s) : l \in TextsAt[n - 1][h[i]]
    BY <1>8, <1>9, TextsOfList
  <2>2. Storable(l, TextsAt[n - 1][s[i]])
    BY <1>6, <2>1
  <2>3. TextsAt[n - 1][s[i]] \subseteq TextsAt[n][List(s)]
    BY <1>2, TextsOfList
  <2> QED
    BY <2>2, <2>3 DEF Storable
<1> QED
  BY <1>5, <1>8, <1>9, Building

LEMMA LeafIsStored ==
  ASSUME NEW n \in 0 .. Depth, NEW v \in Nested[n], v.kind \in {"text", "bytes", "number"}
  PROVE  /\ StoredAt[n][v] \in Nested[n]
         /\ \A l \in TextsAt[n][StoredAt[n][v]] : Storable(l, TextsAt[n][v])
<1>1. StoredAt[n][v] = StoredOf(v, StoredAt[n - 1])
  BY StoredUnfolds
<1>2. \A t \in Text : /\ OfText(t) \in Nested[n]
                      /\ TextsAt[n][OfText(t)] = {[keys |-> {}, text |-> t]}
  BY Building, TextsOfText DEF Leaf
<1>3. CASE v.kind = "text"
  <2>1. v.text \in Text /\ v = OfText(v.text)
    BY <1>3, Shapes
  <2>2. StoredAt[n][v] = OfText(Substituted(v.text))
    BY <1>1, <1>3, <2>1 DEF StoredOf
  <2>3. /\ Substituted(v.text) \in Text \ {"secret", "auth", "basic"}
        /\ Substituted(v.text) \in {"rest", "raw"} => v.text \in {"basic", "rest", "raw"}
    BY <2>1 DEF Substituted, Text
  <2> QED
    BY <1>2, <2>1, <2>2, <2>3 DEF Storable
<1>4. CASE v.kind = "bytes"
  <2>1. StoredAt[n][v] = OfText("plain")
    BY <1>1, <1>4 DEF StoredOf
  <2> QED
    BY <1>2, <2>1 DEF Text, Storable
<1>5. CASE v.kind = "number"
  <2>1. StoredAt[n][v] = v
    BY <1>1, <1>5 DEF StoredOf
  <2> QED
    BY <1>5, <2>1, NoTexts
<1> QED
  BY <1>3, <1>4, <1>5

LEMMA AllIsStoredWell == \A n \in 0 .. Depth : StoresWell(n)
<1> DEFINE Good == {n \in 0 .. Depth : StoresWell(n)}
<1>1. ASSUME NEW n \in 0 .. Depth, n # 0 => n - 1 \in 0 .. Depth /\ StoresWell(n - 1)
      PROVE  StoresWell(n)
  <2> SUFFICES ASSUME NEW v \in Nested[n]
               PROVE  /\ StoredAt[n][v] \in Nested[n]
                      /\ \A l \in TextsAt[n][StoredAt[n][v]] : Storable(l, TextsAt[n][v])
    BY DEF StoresWell
  <2>1. CASE v.kind = "map"
    <3>1. n # 0 /\ v.items \in [Key -> Nested[n - 1] \cup {Absent}] /\ v = Map(v.items)
      BY <2>1, ShapesOfItems
    <3> QED
      BY <1>1, <3>1, MapIsStored
  <2>2. CASE v.kind = "list"
    <3>1. n # 0 /\ v.items \in Seq(Nested[n - 1]) /\ v = List(v.items)
      BY <2>2, ShapesOfItems
    <3> QED
      BY <1>1, <3>1, ListIsStored
  <2>3. CASE v.kind \in {"text", "bytes", "number"}
    BY <2>3, LeafIsStored
  <2> QED
    BY <2>1, <2>2, <2>3, Shapes
<1>2. 0 \in Good
  BY <1>1, DepthIsNat
<1>3. ASSUME NEW n \in 0 .. Depth, n + 1 \in 0 .. Depth, n \in Good PROVE n + 1 \in Good
  <2>1. n + 1 - 1 = n
    BY DepthIsNat
  <2> QED
    BY <1>1, <1>3, <2>1
<1> HIDE DEF Good
<1>4. 0 .. Depth \subseteq Good
  BY <1>2, <1>3, DepthIsNat, Induction
<1> QED
  BY <1>4 DEF Good

\* A summary of any value, at any depth: what the pattern and the keys miss is
\* all that remains (development_request_service.py:21, :135).
THEOREM StoredAreRedacted == Spec => []StoredIsRedacted
<1>1. ASSUME NEW v \in Value, NEW l \in Texts(Stored(v)) PROVE Storable(l, Texts(v))
  <2>1. Depth \in 0 .. Depth
    BY DepthIsNat
  <2>2. StoresWell(Depth)
    BY <2>1, AllIsStoredWell
  <2> QED
    BY <1>1, <2>2 DEF StoresWell, Stored, Texts, Value
<1> DEFINE Asked == topic = "value" => input \in Value
<1>2. Init => Asked
  BY DEF Init
<1>3. Asked /\ [Next]_vars => Asked'
  BY TablesAssumption
     DEF Next, Asks, AskCatalog, AskCommand, AskValue, AskLoading, vars, TablesAssumption
<1>4. Asked => StoredIsRedacted
  BY <1>1 DEF StoredIsRedacted, Storable
<1> QED
  BY <1>2, <1>3, <1>4, PTL DEF Spec
==============================================================================
