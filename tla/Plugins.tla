------------------------------- MODULE Plugins -------------------------------
(***************************************************************************)
(* Plugins and the events about them: backend/runtime/plugin_loader.py and *)
(* event_bus.py, with the part of Runtime.stop that unloads the plugins.   *)
(* Neither has a lock and nothing in the program calls them from two       *)
(* threads: one call at a time, which the plugins and the subscribers it   *)
(* runs may end with an exception or change the subscriptions of.          *)
(***************************************************************************)
EXTENDS Naturals, Sequences, Functions

CONSTANTS
  Plugin,        \* plugin objects
  Name,          \* [Plugin -> names]
  Handler,       \* subscribers of PluginLoaded
  MaxHandlers,   \* bound on the subscriptions
  None

PluginAssumption ==
  /\ MaxHandlers \in Nat
  /\ None \notin Plugin

ASSUME PluginAssumption

Names == {Name[p] : p \in Plugin}

VARIABLES
  plugins,    \* [Names -> Plugin or None], PluginLoader._plugins
  metadata,   \* SUBSET Names, PluginLoader._metadata
  attached,   \* whether a Runtime is attached
  handlers,   \* the bus's list of PluginLoaded subscribers
  at,         \* what the call is doing
  plugin,     \* the plugin it is doing it to
  rest,       \* the names unload_all has still to unload
  event,      \* the publication: the list it goes through and how far it is
  active,     \* SUBSET Plugin: load() has returned, unload() has not
  lost,       \* SUBSET Plugin, history: those the loader has given up
  phase       \* of Runtime: "up", in "stopping", "stopped"

call == <<at, plugin, rest>>
loader == <<plugins, metadata, attached>>
vars == <<loader, handlers, call, event, active, lost, phase>>

\* "live": the publication goes through the bus's own list, "list" is stale.
\* "audience" and "told" are history: the list at the start, the calls since.
Quiet == [live |-> FALSE, list |-> << >>, next |-> 1, audience |-> << >>, told |-> << >>]

Audience(e) == IF e.live THEN handlers ELSE e.list

Init ==
  /\ plugins = [n \in Names |-> None] /\ metadata = {} /\ attached = FALSE
  /\ handlers = << >> /\ event = Quiet
  /\ at = "idle" /\ plugin = None /\ rest = {}
  /\ active = {} /\ lost = {} /\ phase = "up"

Goes(from, to, p, names) == at = from /\ at' = to /\ plugin' = p /\ rest' = names

Returns(from) == Goes(from, "idle", None, {})
Raises(from) == Goes(from, "idle", None, {})

------------------------------------------------------------------------------
(* EventBus *)

CanSubscribe(h) == Len(handlers) < MaxHandlers

Subscribe(h) ==
  /\ at = "idle" /\ CanSubscribe(h)
  /\ handlers' = Append(handlers, h)
  /\ UNCHANGED <<loader, call, event, active, lost, phase>>

\* The comprehension, item by item.
Without(h) ==
  LET kept[n \in 0 .. Len(handlers)] ==
        IF n = 0 THEN << >>
        ELSE IF handlers[n] = h THEN kept[n - 1] ELSE Append(kept[n - 1], handlers[n])
  IN  kept[Len(handlers)]

Unsubscribe(h) ==
  /\ at = "idle" /\ h \in Range(handlers)
  /\ handlers' = Without(h)
  /\ UNCHANGED <<loader, call, event, active, lost, phase>>

\* The subscriber whose turn it is has been called.
Told == [event EXCEPT !.next = @ + 1, !.told = Append(@, Audience(event)[event.next])]

Tells == at = "publishing" /\ event.next <= Len(Audience(event))

HandlerReturns ==
  /\ Tells
  /\ event' = Told
  /\ UNCHANGED <<loader, handlers, call, active, lost, phase>>

\* It subscribes somebody: to the list the publication goes through, unless
\* that has been replaced.
HandlerSubscribes(h) ==
  /\ Tells /\ CanSubscribe(h)
  /\ handlers' = Append(handlers, h)
  /\ event' = Told
  /\ UNCHANGED <<loader, call, active, lost, phase>>

\* It unsubscribes somebody, perhaps itself: the bus gets a new list, the
\* publication keeps the old one.
FaultHandlerUnsubscribes(h) ==
  /\ Tells /\ h \in Range(handlers)
  /\ handlers' = Without(h)
  /\ event' = Told
  /\ UNCHANGED <<loader, call, active, lost, phase>>

HandlerUnsubscribes(h) ==
  /\ Tells /\ h \in Range(handlers)
  /\ handlers' = Without(h)
  /\ event' = [Told EXCEPT !.live = FALSE, !.list = Audience(event)]
  /\ UNCHANGED <<loader, call, active, lost, phase>>

\* It raises: the publication and the load_plugin it is part of end there.
HandlerRaises ==
  /\ Tells
  /\ Raises("publishing")
  /\ event' = Quiet
  /\ UNCHANGED <<loader, handlers, active, lost, phase>>

Published ==
  /\ event.next > Len(Audience(event))
  /\ Returns("publishing")
  /\ event' = Quiet
  /\ UNCHANGED <<loader, handlers, active, lost, phase>>

Publish ==
  \/ HandlerReturns \/ HandlerRaises \/ Published
  \/ \E h \in Handler : HandlerSubscribes(h) \/ HandlerUnsubscribes(h)

------------------------------------------------------------------------------
(* PluginLoader *)

AttachRuntime ==
  /\ at = "idle" /\ attached' = TRUE
  /\ UNCHANGED <<plugins, metadata, handlers, call, event, active, lost, phase>>

\* A load() that raises leaves everything as it was.
Load(p) ==
  /\ Goes("idle", "registering", p, {})
  /\ active' = active \cup {p}
  /\ UNCHANGED <<loader, handlers, event, lost, phase>>

\* Another plugin of the same name is replaced without being unloaded.
FaultRegister ==
  /\ IF attached THEN Goes("registering", "publishing", None, {})
                 ELSE Returns("registering")
  /\ event' = IF attached THEN [Quiet EXCEPT !.live = TRUE, !.audience = handlers] ELSE Quiet
  /\ plugins' = IF handlers = << >> THEN [plugins EXCEPT ![Name[plugin]] = plugin] ELSE plugins
  /\ metadata' = metadata \cup {Name[plugin]}
  /\ lost' = (lost \cup {plugins[Name[plugin]]}) \ {plugin, None}
  /\ UNCHANGED <<attached, handlers, active, phase>>

Register ==
  /\ IF attached THEN Goes("registering", "publishing", None, {})
                 ELSE Returns("registering")
  /\ event' = IF attached THEN [Quiet EXCEPT !.live = TRUE, !.audience = handlers] ELSE Quiet
  /\ plugins' = [plugins EXCEPT ![Name[plugin]] = plugin]
  /\ metadata' = metadata \cup {Name[plugin]}
  /\ lost' = (lost \cup {plugins[Name[plugin]]}) \ {plugin, None}
  /\ UNCHANGED <<attached, handlers, active, phase>>

\* Popped before it is unloaded; "names" are to be unloaded after it.
Pop(from, n, names) ==
  /\ plugins[n] # None
  /\ Goes(from, "unloading", plugins[n], names)
  /\ plugins' = [plugins EXCEPT ![n] = None]
  /\ UNCHANGED <<metadata, attached, handlers, event, active, lost, phase>>

AfterUnload == IF phase = "stopping" THEN "stopping" ELSE "idle"

Unloaded ==
  /\ Goes("unloading", AfterUnload, None, rest)
  /\ active' = active \ {plugin}
  /\ metadata' = metadata \ {Name[plugin]}
  /\ UNCHANGED <<plugins, attached, handlers, event, lost, phase>>

\* The plugin is popped, its metadata stays, and the names after it as well; a
\* stop() that was under way ends here and may be called again.
UnloadFails ==
  /\ Raises("unloading")
  /\ phase' = IF phase = "stopping" THEN "up" ELSE phase
  /\ lost' = lost \cup {plugin}
  /\ UNCHANGED <<loader, handlers, event, active>>

ReloadUnloads(n) ==
  /\ plugins[n] # None
  /\ Goes("idle", "reloading", plugins[n], {})
  /\ active' = active \ {plugins[n]}
  /\ UNCHANGED <<loader, handlers, event, lost, phase>>

\* load() returns, or raises: the instance stays with the loader.
ReloadLoads ==
  /\ Returns("reloading")
  /\ active' \in {active, active \cup {plugin}}
  /\ UNCHANGED <<loader, handlers, event, lost, phase>>

------------------------------------------------------------------------------
(* Runtime.stop and start, as far as plugins go *)

Stop ==
  /\ phase = "up"
  /\ Goes("idle", "stopping", None, {n \in Names : plugins[n] # None})
  /\ phase' = "stopping"
  /\ UNCHANGED <<loader, handlers, event, active, lost>>

StopEnds ==
  /\ rest = {}
  /\ Returns("stopping")
  /\ phase' = "stopped"
  /\ UNCHANGED <<loader, handlers, event, active, lost>>

StartAgain ==
  /\ at = "idle" /\ phase = "stopped"
  /\ phase' = "up" /\ attached' = TRUE
  /\ UNCHANGED <<plugins, metadata, handlers, call, event, active, lost>>

Next ==
  \/ AttachRuntime \/ Register \/ Unloaded \/ UnloadFails \/ ReloadLoads
  \/ Stop \/ StopEnds \/ StartAgain \/ Publish
  \/ \E p \in Plugin : Load(p)
  \/ \E n \in Names : Pop("idle", n, {}) \/ ReloadUnloads(n)
  \/ \E n \in rest : Pop("stopping", n, rest \ {n})
  \/ \E h \in Handler : Subscribe(h) \/ Unsubscribe(h)

Spec == Init /\ [][Next]_vars

------------------------------------------------------------------------------
(* Properties *)

\* Every variable has its type.
PluginTypeOK ==
  /\ plugins \in [Names -> Plugin \cup {None}]
  /\ metadata \subseteq Names /\ rest \subseteq Names
  /\ at \in {"idle", "registering", "publishing", "unloading", "reloading", "stopping"}
  /\ plugin \in Plugin \cup {None}
  /\ active \subseteq Plugin /\ lost \subseteq Plugin
  /\ phase \in {"up", "stopping", "stopped"}
  /\ handlers \in Seq(Handler)

Loaded == {n \in Names : plugins[n] # None}

\* What list_plugins shows is what can be unloaded and reloaded, also after
\* failed loads and reloads and subscribers that raised; only a plugin whose
\* unload() raised is still shown (plugin_loader.py:61, :70, :77).
ListedIsLoaded ==
  at = "idle" => Loaded \subseteq metadata /\ metadata \ Loaded \subseteq {Name[p] : p \in lost}

StopReturns == phase = "stopping" /\ phase' = "stopped"

\* A stop() that returns, the first or a repeated one, has unloaded every
\* plugin the loader has not given up: those included whose PluginLoaded event
\* was cut short and those whose reload failed (runtime.py:117).
StopUnloads == [][StopReturns => active' \subseteq lost]_vars

\* A publication reaches every subscriber it began with, in order and once,
\* whoever is subscribed and unsubscribed on the way (event_bus.py:72).
AllAreTold ==
  at = "publishing" =>
    LET n == IF Len(event.told) < Len(event.audience) THEN Len(event.told) ELSE Len(event.audience)
    IN /\ SubSeq(event.told, 1, n) = SubSeq(event.audience, 1, n)
       /\ event.next > Len(Audience(event)) => n = Len(event.audience)
==============================================================================
