---------------------------- MODULE PluginsProofs ----------------------------
(***************************************************************************)
(* Proofs about the event bus and the plugin loader for any plugins, names *)
(* and subscribers: a publication reaches the list it began with, and a    *)
(* stop that returns has unloaded what the loader still answers for.       *)
(***************************************************************************)
EXTENDS Plugins, WellFoundedInduction, TLAPS

(***************************************************************************)
(* What is left of a list without a subscriber is a list.  The definition  *)
(* is recursive; induction over the items is by the least one that fails.  *)
(***************************************************************************)
LEMMA Induction ==
  ASSUME NEW N \in Nat, NEW S, 0 \in S, \A n \in 0 .. N : n + 1 \in 0 .. N /\ n \in S => n + 1 \in S
  PROVE  0 .. N \subseteq S
<1> DEFINE Bad == {n \in 0 .. N : n \notin S}
<1>1. SUFFICES ASSUME Bad # {} PROVE FALSE
  OBVIOUS
<1>2. Bad \subseteq Nat
  OBVIOUS
<1>3. PICK k \in Bad : \A j \in Bad : ~(<<j, k>> \in OpToRel(<, Nat))
  BY <1>1, <1>2, NatLessThanWellFounded, WFMin
<1>4. \A j \in Bad : ~(j < k)
  BY <1>2, <1>3 DEF OpToRel
<1>5. k \in 0 .. N /\ k # 0 /\ k \notin S
  BY <1>3
<1>6. k - 1 \in 0 .. N /\ k - 1 + 1 = k /\ k - 1 < k
  BY <1>5
<1>7. k - 1 \in S
  BY <1>4, <1>6
<1> QED
  BY <1>5, <1>6, <1>7

LEMMA WithoutIsList ==
  ASSUME handlers \in Seq(Handler), NEW h
  PROVE  Without(h) \in Seq(Handler)
<1> DEFINE L == Len(handlers)
           Kept(f, n) == f = [i \in 0 .. n |->
                       IF i = 0 THEN << >>
                       ELSE IF handlers[i] = h THEN f[i - 1] ELSE Append(f[i - 1], handlers[i])]
           Some == {n \in 0 .. L : \E f : Kept(f, n)}
           kept == CHOOSE f : Kept(f, L)
<1>1. L \in Nat
  OBVIOUS
<1>2. 0 .. L \subseteq Some
  <2>1. Kept([i \in 0 .. 0 |-> << >>], 0)
    OBVIOUS
  <2>2. ASSUME NEW n \in 0 .. L, n + 1 \in 0 .. L, n \in Some PROVE n + 1 \in Some
    <3>1. PICK f : Kept(f, n)
      BY <2>2
    <3> DEFINE v == IF handlers[n + 1] = h THEN f[n] ELSE Append(f[n], handlers[n + 1])
               g == [i \in 0 .. n + 1 |-> IF i = n + 1 THEN v ELSE f[i]]
    <3>2. \A i \in 0 .. n : g[i] = f[i] 
      BY <1>1
    <3>3. Kept(g, n + 1)
      <4>1. ASSUME NEW i \in 0 .. n + 1 
            PROVE g[i] = IF i = 0 THEN << >>
                       ELSE IF handlers[i] = h THEN g[i - 1] ELSE Append(g[i - 1], handlers[i])
         <5>1. CASE i = n + 1
           <6>1. i - 1 = n /\ g[n] = f[n] /\ i # 0
             BY <1>1, <5>1, <3>2
           <6> QED
             BY <5>1, <6>1
         <5>2. CASE i = 0
           BY <3>1, <5>2, <3>2, <1>1
         <5>3. CASE i \in 1 .. n
           <6>1. i - 1 \in 0 .. n /\ i \in 0 .. n /\ i # 0
             BY <1>1, <5>3
           <6>2. f[i] = IF handlers[i] = h THEN f[i - 1] ELSE Append(f[i - 1], handlers[i])
             BY <6>1, <3>1
           <6> QED
             BY <6>1, <6>2, <3>2
         <5> QED
           BY <5>1, <5>2, <5>3, <1>1
      <4> QED
        BY <4>1
    <3> QED
      BY <2>2, <3>3
  <2> HIDE DEF Kept
  <2> QED
    BY <1>1, <2>1, <2>2, Induction
<1>3. Kept(kept, L)
  <2> HIDE DEF Kept
  <2> QED
    BY <1>1, <1>2
<1>4. \A i \in 0 .. L : kept[i] \in Seq(Handler)
  <2> DEFINE Good == {i \in 0 .. L : kept[i] \in Seq(Handler)}
  <2> HIDE DEF kept
  <2>0. \A i \in 0 .. L : kept[i] = IF i = 0 THEN << >>
          ELSE IF handlers[i] = h THEN kept[i - 1] ELSE Append(kept[i - 1], handlers[i])
    BY <1>3
  <2> HIDE DEF Kept
  <2>1. 0 \in Good
    <3>1. kept[0] = << >> /\ 0 \in 0 .. L
      BY <1>1, <2>0
    <3>2. kept[0] \in Seq(Handler)
      BY <3>1
    <3> QED
      BY <3>1, <3>2
  <2>2. ASSUME NEW n \in 0 .. L, n + 1 \in 0 .. L, n \in Good PROVE n + 1 \in Good
    <3>1. handlers[n + 1] \in Handler /\ n + 1 - 1 = n /\ n + 1 # 0
      BY <1>1, <2>2
    <3>2. kept[n + 1] = IF handlers[n + 1] = h THEN kept[n] ELSE Append(kept[n], handlers[n + 1])
      BY <2>0, <2>2, <3>1
    <3>3. kept[n] \in Seq(Handler)
      BY <2>2
    <3>4. kept[n + 1] \in Seq(Handler)
      BY <3>1, <3>2, <3>3
    <3> QED
      BY <2>2, <3>4
  <2> HIDE DEF Good
  <2>3. 0 .. L \subseteq Good
    BY <1>1, <2>1, <2>2, Induction
  <2> QED
    BY <2>3 DEF Good
<1>5. Without(h) = kept[L]
  BY DEF Without, kept, Kept
<1> HIDE DEF kept
<1> QED
  BY <1>1, <1>4, <1>5

------------------------------------------------------------------------------
(* Publications *)

Publication ==
  [live : BOOLEAN, list : Seq(Handler), next : Nat \ {0},
   audience : Seq(Handler), told : Seq(Handler)]

Follows(s, t) == Len(t) <= Len(s) /\ \A i \in 1 .. Len(t) : s[i] = t[i]

\* The list a publication goes through begins with the one it began with, and
\* those told so far are the first of it.
EventInv ==
  /\ handlers \in Seq(Handler)
  /\ at = "publishing" =>
       /\ event \in Publication
       /\ event.next <= Len(Audience(event)) + 1
       /\ Len(event.told) = event.next - 1
       /\ Follows(Audience(event), event.audience)
       /\ Follows(Audience(event), event.told)

\* A subscriber is told, and the list may have grown behind it.
LEMMA TellingFollows ==
  ASSUME EventInv, Tells, event' \in Publication,
         event'.next = event.next + 1, event'.audience = event.audience,
         event'.told = Append(event.told, Audience(event)[event.next]),
         NEW later \in Seq(Handler), Follows(later, Audience(event)), Audience(event)' = later
  PROVE  /\ event'.next <= Len(later) + 1
         /\ Len(event'.told) = event'.next - 1
         /\ Follows(later, event'.audience)
         /\ Follows(later, event'.told)
<1> DEFINE now == Audience(event)
<1>1. /\ now \in Seq(Handler) /\ event.told \in Seq(Handler) /\ event.audience \in Seq(Handler)
      /\ event.next \in Nat \ {0} /\ Len(event.told) = event.next - 1
      /\ Follows(now, event.audience) /\ Follows(now, event.told)
      /\ event.next <= Len(now)
  BY DEF EventInv, Publication, Tells, Audience
<1> HIDE DEF now
<1>2. Len(now) <= Len(later) /\ \A i \in 1 .. Len(now) : later[i] = now[i]
  BY DEF Follows, now
<1>3. now[event.next] \in Handler
  BY <1>1
<1>4. /\ Len(event'.told) = event.next
      /\ \A i \in 1 .. event.next - 1 : event'.told[i] = event.told[i]
      /\ event'.told[event.next] = now[event.next]
  BY <1>1, <1>3 DEF now
<1>5. Follows(later, event'.told)
  <2>0. Len(event'.told) <= Len(later)
    <3>1. Len(now) \in Nat /\ Len(later) \in Nat
      BY <1>1
    <3> QED
      BY <1>1, <1>2, <1>4, <3>1
  <2> SUFFICES ASSUME NEW i \in 1 .. event.next PROVE later[i] = event'.told[i]
    BY <1>4, <2>0 DEF Follows
  <2>1. CASE i = event.next
    BY <1>1, <1>2, <1>4, <2>1
  <2>2. CASE i \in 1 .. event.next - 1
    BY <1>1, <1>2, <1>4, <2>2 DEF Follows
  <2> QED
    BY <1>1, <2>1, <2>2
<1>6. Follows(later, event'.audience)
  BY <1>1, <1>2 DEF Follows
<1> QED
  BY <1>1, <1>2, <1>4, <1>5, <1>6

LEMMA EventInitial == Init => EventInv
BY DEF Init, EventInv

LEMMA EventStep == EventInv /\ [Next]_vars => EventInv'
<1> SUFFICES ASSUME EventInv, [Next]_vars PROVE EventInv'
  OBVIOUS
<1>1. ASSUME Tells
      PROVE  /\ at = "publishing" /\ event \in Publication /\ Audience(event) \in Seq(Handler)
             /\ Audience(event)[event.next] \in Handler
             /\ Told \in Publication /\ Told.live = event.live /\ Told.list = event.list
             /\ Told.next = event.next + 1 /\ Told.audience = event.audience
             /\ Told.told = Append(event.told, Audience(event)[event.next])
             /\ Follows(Audience(event), Audience(event))
  <2>1. /\ at = "publishing" /\ event \in Publication /\ Audience(event) \in Seq(Handler)
        /\ event.next \in 1 .. Len(Audience(event))
    BY <1>1 DEF Tells, EventInv, Publication, Audience
  <2>2. Audience(event)[event.next] \in Handler
    BY <2>1
  <2>3. Append(event.told, Audience(event)[event.next]) \in Seq(Handler)
    <3>1. event.told \in Seq(Handler)
      BY <2>1 DEF Publication
    <3> QED
      BY <2>2, <3>1
  <2>4. event.next + 1 \in Nat \ {0}
    BY <2>1
  <2>5. /\ Told \in Publication /\ Told.live = event.live /\ Told.list = event.list
        /\ Told.next = event.next + 1 /\ Told.audience = event.audience
        /\ Told.told = Append(event.told, Audience(event)[event.next])
    <3> DEFINE value == Append(event.told, Audience(event)[event.next])
    <3>1. value \in Seq(Handler)
      BY <2>3
    <3>2. Told = [event EXCEPT !.next = event.next + 1, !.told = value]
      BY DEF Told
    <3> HIDE DEF value
    <3>3. /\ Told \in Publication /\ Told.live = event.live /\ Told.list = event.list
          /\ Told.next = event.next + 1 /\ Told.audience = event.audience
          /\ Told.told = value
      BY <2>1, <2>4, <3>1, <3>2 DEF Publication
    <3> QED
      BY <3>3 DEF value
  <2>6. Follows(Audience(event), Audience(event))
    BY <2>1 DEF Follows
  <2> QED
    BY <2>1, <2>2, <2>5, <2>6
<1>2. CASE HandlerReturns
  <2>1. Tells /\ event' = Told /\ UNCHANGED <<handlers, at>>
    BY <1>2 DEF HandlerReturns, call
  <2>2. Audience(event)' = Audience(event)
    BY <1>1, <2>1 DEF Audience
  <2> QED
    BY <1>1, <2>1, <2>2, TellingFollows DEF EventInv, Publication
<1>3. ASSUME NEW h \in Handler, HandlerSubscribes(h) PROVE EventInv'
  <2>1. Tells /\ event' = Told /\ handlers' = Append(handlers, h) /\ at' = at
    BY <1>3 DEF HandlerSubscribes, call
  <2>2. handlers' \in Seq(Handler) /\ Follows(handlers', handlers)
    BY <2>1 DEF EventInv, Follows
  <2>3. Audience(event)' \in Seq(Handler) /\ Follows(Audience(event)', Audience(event))
    BY <1>1, <2>1, <2>2 DEF Audience
  <2> QED
    BY <1>1, <2>1, <2>2, <2>3, TellingFollows DEF EventInv, Publication
<1>4. ASSUME NEW h \in Handler, HandlerUnsubscribes(h) PROVE EventInv'
  <2>1. /\ Tells /\ event' = [Told EXCEPT !.live = FALSE, !.list = Audience(event)]
        /\ handlers' = Without(h) /\ at' = at
    BY <1>4 DEF HandlerUnsubscribes, call
  <2>2. handlers' \in Seq(Handler)
    BY <2>1, WithoutIsList DEF EventInv
  <2>3. /\ event' \in Publication /\ event'.next = event.next + 1
        /\ event'.audience = event.audience
        /\ event'.told = Append(event.told, Audience(event)[event.next])
        /\ ~event'.live /\ event'.list = Audience(event)
    BY <1>1, <2>1 DEF Publication
  <2>4. Audience(event)' = Audience(event)
    BY <2>3 DEF Audience
  <2> QED
    BY <1>1, <2>1, <2>2, <2>3, <2>4, TellingFollows DEF EventInv, Publication
<1>5. CASE HandlerRaises \/ Published
  BY <1>5 DEF HandlerRaises, Published, Raises, Returns, Goes, EventInv
<1>6. ASSUME NEW h \in Handler, Subscribe(h) \/ Unsubscribe(h) PROVE EventInv'
  <2>1. handlers' \in Seq(Handler)
    BY <1>6, WithoutIsList DEF Subscribe, Unsubscribe, EventInv
  <2> QED
    BY <1>6, <2>1 DEF Subscribe, Unsubscribe, call, EventInv
<1>7. CASE Register
  <2>1. handlers' = handlers /\ handlers \in Seq(Handler)
    BY <1>7 DEF Register, EventInv
  <2>2. CASE attached
    <3>1. event' = [Quiet EXCEPT !.live = TRUE, !.audience = handlers]
      BY <1>7, <2>2 DEF Register
    <3>2. /\ event' \in Publication /\ event'.live /\ event'.audience = handlers
          /\ event'.told = << >> /\ event'.next = 1
      <4>1. << >> \in Seq(Handler) /\ 1 \in Nat \ {0} /\ TRUE \in BOOLEAN
        OBVIOUS
      <4>2. event' = [live |-> TRUE, list |-> << >>, next |-> 1, audience |-> handlers,
                      told |-> << >>]
        BY <3>1 DEF Quiet
      <4> QED
        BY <2>1, <4>1, <4>2 DEF Publication
    <3>3. Audience(event)' = handlers
      BY <2>1, <3>2 DEF Audience
    <3> QED
      BY <2>1, <3>2, <3>3 DEF EventInv, Publication, Follows
  <2>3. CASE ~attached
    BY <1>7, <2>1, <2>3 DEF Register, Returns, Goes, EventInv
  <2> QED
    BY <2>2, <2>3
<1>8. ASSUME handlers' = handlers, at' # "publishing" PROVE EventInv'
  BY <1>8 DEF EventInv
<1>9. CASE AttachRuntime \/ Unloaded \/ UnloadFails \/ ReloadLoads \/ Stop \/ StopEnds \/ StartAgain
  <2>1. CASE AttachRuntime \/ StartAgain
    BY <2>1 DEF AttachRuntime, StartAgain, call, EventInv, Audience
  <2>2. CASE Unloaded \/ UnloadFails \/ ReloadLoads \/ Stop \/ StopEnds
    BY <1>8, <2>2 DEF Unloaded, UnloadFails, ReloadLoads, Stop, StopEnds, AfterUnload, Goes,
       Returns, Raises
  <2> QED
    BY <1>9, <2>1, <2>2
<1>10. ASSUME NEW n, NEW from, NEW names, Pop(from, n, names) PROVE EventInv'
  BY <1>8, <1>10 DEF Pop, Goes
<1>11. ASSUME NEW n, ReloadUnloads(n) PROVE EventInv'
  BY <1>8, <1>11 DEF ReloadUnloads, Goes
<1>12. ASSUME NEW p, Load(p) PROVE EventInv'
  BY <1>8, <1>12 DEF Load, Goes
<1>13. CASE UNCHANGED vars
  BY <1>13 DEF vars, call, EventInv, Audience
<1> QED
  BY <1>2, <1>3, <1>4, <1>5, <1>6, <1>7, <1>9, <1>10, <1>11, <1>12, <1>13 DEF Next, Publish

\* A publication reaches every subscriber of the list it began with, in order
\* and once, whatever the subscribers do to the list (event_bus.py:72-76).
THEOREM PublicationsReachAll == Spec => []AllAreTold
<1>1. ASSUME EventInv, at = "publishing" PROVE AllAreTold
  <2> DEFINE A == event.audience
             T == event.told
             n == IF Len(T) < Len(A) THEN Len(T) ELSE Len(A)
  <2>1. A \in Seq(Handler) /\ T \in Seq(Handler) /\ Audience(event) \in Seq(Handler)
        /\ event.next \in Nat
    BY <1>1 DEF EventInv, Publication, Audience
  <2>2. \A i \in 1 .. n : T[i] = A[i]
    BY <1>1, <2>1 DEF EventInv, Publication, Follows
  <2>3. SubSeq(T, 1, n) = SubSeq(A, 1, n)
    <3>1. n \in Nat /\ n <= Len(T) /\ n <= Len(A)
      BY <2>1
    <3> HIDE DEF n, A, T
    <3>2. SubSeq(T, 1, n) = [i \in 1 .. n |-> T[i]] /\ SubSeq(A, 1, n) = [i \in 1 .. n |-> A[i]]
      BY <2>1, <3>1
    <3> QED
      BY <2>2, <3>2
  <2>4. event.next > Len(Audience(event)) => n = Len(A)
    BY <1>1, <2>1 DEF EventInv, Publication, Follows
  <2> QED
    BY <2>3, <2>4 DEF AllAreTold
<1>2. EventInv => AllAreTold
  BY <1>1 DEF AllAreTold
<1> QED
  BY <1>2, EventInitial, EventStep, PTL DEF Spec
------------------------------------------------------------------------------
(* Plugins *)

Attended == at \in {"registering", "unloading"}

\* The loader files a plugin under its own name.
NamesInv == \A n \in Names : plugins[n] # None => Name[plugins[n]] = n

\* A loaded plugin is the loader's, is on its way to or from it, or has been
\* given up.
ActiveInv ==
  \A p \in active : p \in lost \/ plugins[Name[p]] = p \/ (Attended /\ plugin = p)

\* What is listed and not loaded has been given up, or is being unloaded.
ListInv ==
  /\ Loaded \subseteq metadata
  /\ \A n \in metadata \ Loaded :
       (\E p \in lost : Name[p] = n) \/ (at = "unloading" /\ Name[plugin] = n)

\* The plugin of the call at hand.
CallInv ==
  /\ at \in {"registering", "unloading", "reloading"} => plugin \in Plugin
  /\ at = "reloading" => plugins[Name[plugin]] = plugin
  /\ at = "unloading" => plugins[Name[plugin]] = None

\* What a stop still finds is among the names it has listed.
StopInv ==
  /\ phase = "stopping" => at \in {"stopping", "unloading"} /\ Loaded \subseteq rest
  /\ at = "stopping" => phase = "stopping"

LoaderInv == PluginTypeOK /\ NamesInv /\ ActiveInv /\ ListInv /\ CallInv /\ StopInv

LEMMA LoaderInitial == Init => LoaderInv
<1>1. ASSUME Init PROVE plugins = [n \in Names |-> None] /\ Loaded = {}
  BY <1>1 DEF Init, Loaded
<1>2. Init => PluginTypeOK
  BY DEF Init, PluginTypeOK
<1>3. Init => NamesInv /\ ActiveInv /\ ListInv /\ CallInv /\ StopInv
  BY <1>1 DEF Init, NamesInv, ActiveInv, ListInv, CallInv, StopInv
<1> QED
  BY <1>2, <1>3 DEF LoaderInv

\* Steps that leave the loader's plugins, its list and the plugin of the call alone.
LEMMA LoaderKept ==
  ASSUME LoaderInv, PluginTypeOK',
         UNCHANGED <<plugins, metadata, active, lost>>,
         \/ at' = at /\ plugin' = plugin /\ rest' = rest /\ phase' \in {phase, "up"}
         \/ ~Attended /\ at # "reloading" /\ at' = "idle" /\ phase' # "stopping"
         \/ ~Attended /\ at' = "stopping" /\ phase' = "stopping" /\ rest' = Loaded,
         at = "stopping" => phase' # "up"
  PROVE  LoaderInv'
<1>1. NamesInv' /\ Loaded' = Loaded
  BY DEF LoaderInv, NamesInv, Loaded
<1>2. ActiveInv'
  BY DEF LoaderInv, ActiveInv, Attended
<1>3. ListInv'
  BY <1>1 DEF LoaderInv, ListInv, Attended
<1>4. CallInv'
  BY DEF LoaderInv, CallInv, Attended
<1>5. StopInv'
  BY <1>1 DEF LoaderInv, StopInv
<1> QED
  BY <1>1, <1>2, <1>3, <1>4, <1>5 DEF LoaderInv

LEMMA LoaderStep == EventInv /\ LoaderInv /\ [Next]_vars => LoaderInv'
<1> SUFFICES ASSUME EventInv, LoaderInv, [Next]_vars PROVE LoaderInv'
  OBVIOUS
<1> USE PluginAssumption DEF PluginAssumption
<1>0. PluginTypeOK /\ handlers' \in Seq(Handler) /\ \A p \in Plugin : Name[p] \in Names
  BY EventStep DEF EventInv, LoaderInv, Names
<1>1. CASE HandlerReturns \/ HandlerRaises \/ Published \/ AttachRuntime \/ StartAgain \/ Stop
           \/ StopEnds \/ (\E h \in Handler : \/ HandlerSubscribes(h) \/ HandlerUnsubscribes(h)
                                            \/ Subscribe(h) \/ Unsubscribe(h))
  BY <1>0, <1>1, LoaderKept
     DEF HandlerReturns, HandlerRaises, Published, AttachRuntime, StartAgain, Stop, StopEnds,
         HandlerSubscribes, HandlerUnsubscribes, Subscribe, Unsubscribe, Tells, Raises, Returns,
         Goes, call, loader, PluginTypeOK, LoaderInv, StopInv, Attended, Loaded
<1>2. CASE UNCHANGED vars
  BY <1>0, <1>2, LoaderKept DEF vars, call, loader, PluginTypeOK, LoaderInv, StopInv
<1>3. ASSUME NEW p \in Plugin, Load(p) PROVE LoaderInv'
  <2>1. /\ at = "idle" /\ at' = "registering" /\ plugin' = p /\ rest' = {}
        /\ active' = active \cup {p} /\ UNCHANGED <<plugins, metadata, handlers, lost, phase>>
    BY <1>3 DEF Load, Goes, loader
  <2>2. PluginTypeOK' /\ NamesInv' /\ Loaded' = Loaded
    BY <1>0, <2>1 DEF LoaderInv, PluginTypeOK, NamesInv, Loaded
  <2>3. ActiveInv' /\ CallInv' /\ StopInv'
    BY <2>1 DEF LoaderInv, ActiveInv, CallInv, StopInv, Attended
  <2>4. ListInv'
    BY <2>1, <2>2 DEF LoaderInv, ListInv
  <2> QED
    BY <2>2, <2>3, <2>4 DEF LoaderInv
<1>4. CASE Register
  <2> DEFINE mine == Name[plugin]
  <2>1. /\ at = "registering" /\ plugin \in Plugin /\ mine \in Names
        /\ at' \in {"idle", "publishing"} /\ plugin' = None /\ rest' = {}
        /\ plugins' = [plugins EXCEPT ![mine] = plugin]
        /\ metadata' = metadata \cup {mine}
        /\ lost' = (lost \cup {plugins[mine]}) \ {plugin, None}
        /\ UNCHANGED <<active, phase>>
    BY <1>0, <1>4 DEF Register, Returns, Goes, LoaderInv, CallInv
  <2>2. /\ plugins' \in [Names -> Plugin \cup {None}] /\ plugins'[mine] = plugin
        /\ \A n \in Names \ {mine} : plugins'[n] = plugins[n]
    BY <1>0, <2>1 DEF PluginTypeOK
  <2>3. PluginTypeOK'
    BY <1>0, <2>1, <2>2 DEF PluginTypeOK
  <2>4. NamesInv' /\ Loaded' = Loaded \cup {mine}
    BY <2>1, <2>2 DEF LoaderInv, NamesInv, Loaded
  <2>5. ActiveInv'
    <3> SUFFICES ASSUME NEW p \in active, p \notin lost', plugins'[Name[p]] # p PROVE FALSE
      BY <2>1 DEF ActiveInv
    <3>1. p \in Plugin /\ Name[p] \in Names
      BY <1>0 DEF PluginTypeOK
    <3>2. p # plugin /\ p # None
      BY <1>0, <2>2, <3>1
    <3>3. p \notin lost
      BY <2>1, <3>2
    <3>4. plugins[Name[p]] = p
      BY <2>1, <3>2, <3>3 DEF LoaderInv, ActiveInv
    <3> QED
      BY <2>1, <2>2, <3>1, <3>2, <3>3, <3>4
  <2>6. ListInv'
    <3>1. metadata' \ Loaded' \subseteq (metadata \ Loaded) \ {mine} /\ Loaded' \subseteq metadata'
      BY <2>1, <2>4 DEF LoaderInv, ListInv
    <3>2. ASSUME NEW n \in metadata' \ Loaded' PROVE \E p \in lost' : Name[p] = n
      <4>1. PICK p \in lost : Name[p] = n
        BY <2>1, <3>1 DEF LoaderInv, ListInv
      <4>2. p # plugin /\ p # None
        BY <1>0, <3>1, <4>1 DEF PluginTypeOK
      <4> QED
        BY <2>1, <4>1, <4>2
    <3> QED
      BY <3>1, <3>2 DEF ListInv
  <2>7. CallInv' /\ StopInv'
    BY <2>1 DEF LoaderInv, CallInv, StopInv
  <2> QED
    BY <2>3, <2>4, <2>5, <2>6, <2>7 DEF LoaderInv
<1>5. ASSUME NEW from, NEW n \in Names, NEW names \in SUBSET Names, Pop(from, n, names),
             from = "idle" \/ (from = "stopping" /\ n \in rest /\ names = rest \ {n})
      PROVE  LoaderInv'
  <2>1. /\ plugins[n] # None /\ plugins[n] \in Plugin /\ at = from /\ at' = "unloading"
        /\ plugin' = plugins[n] /\ rest' = names /\ plugins' = [plugins EXCEPT ![n] = None]
        /\ UNCHANGED <<metadata, handlers, active, lost, phase>>
    BY <1>0, <1>5 DEF Pop, Goes, PluginTypeOK
  <2>2. /\ plugins' \in [Names -> Plugin \cup {None}] /\ plugins'[n] = None
        /\ \A m \in Names \ {n} : plugins'[m] = plugins[m]
    BY <1>0, <2>1 DEF PluginTypeOK
  <2>3. PluginTypeOK'
    BY <1>0, <2>1, <2>2 DEF PluginTypeOK
  <2>4. NamesInv' /\ Loaded' = Loaded \ {n} /\ Name[plugin'] = n
    BY <2>1, <2>2 DEF LoaderInv, NamesInv, Loaded
  <2>5. ActiveInv'
    <3> SUFFICES ASSUME NEW p \in active, p \notin lost, plugins'[Name[p]] # p, p # plugin'
                 PROVE  FALSE
      BY <2>1 DEF ActiveInv, Attended
    <3>1. p \in Plugin /\ Name[p] \in Names
      BY <1>0 DEF PluginTypeOK
    <3>2. plugins[Name[p]] = p
      BY <1>5, <2>1 DEF LoaderInv, ActiveInv, Attended
    <3> QED
      BY <2>1, <2>2, <3>1, <3>2
  <2>6. ListInv'
    BY <1>5, <2>1, <2>4 DEF LoaderInv, ListInv
  <2>7. CallInv' /\ StopInv'
    BY <1>5, <2>1, <2>2, <2>4 DEF LoaderInv, CallInv, StopInv
  <2> QED
    BY <2>3, <2>4, <2>5, <2>6, <2>7 DEF LoaderInv
<1>6. CASE Unloaded
  <2>1. /\ at = "unloading" /\ at' = AfterUnload /\ plugin' = None /\ rest' = rest
        /\ active' = active \ {plugin} /\ metadata' = metadata \ {Name[plugin]}
        /\ Name[plugin] \notin Loaded /\ UNCHANGED <<plugins, handlers, lost, phase>>
    BY <1>6 DEF Unloaded, Goes, LoaderInv, CallInv, Loaded
  <2>2. PluginTypeOK' /\ NamesInv' /\ Loaded' = Loaded
    BY <1>0, <2>1 DEF LoaderInv, PluginTypeOK, NamesInv, Loaded, AfterUnload
  <2>3. ActiveInv' /\ CallInv' /\ StopInv'
    BY <2>1, <2>2 DEF LoaderInv, ActiveInv, CallInv, StopInv, Attended, AfterUnload
  <2>4. ListInv'
    BY <2>1, <2>2 DEF LoaderInv, ListInv, AfterUnload, StopInv
  <2> QED
    BY <2>2, <2>3, <2>4 DEF LoaderInv
<1>7. CASE UnloadFails
  <2>1. /\ at = "unloading" /\ at' = "idle" /\ plugin' = None /\ rest' = {}
        /\ phase' = (IF phase = "stopping" THEN "up" ELSE phase) /\ lost' = lost \cup {plugin}
        /\ plugin \in Plugin /\ UNCHANGED <<plugins, metadata, handlers, active>>
    BY <1>7 DEF UnloadFails, Raises, Goes, loader, LoaderInv, CallInv
  <2>2. PluginTypeOK' /\ NamesInv' /\ Loaded' = Loaded
    BY <1>0, <2>1 DEF LoaderInv, PluginTypeOK, NamesInv, Loaded
  <2>3. ActiveInv' /\ CallInv' /\ StopInv'
    BY <1>0, <2>1 DEF LoaderInv, ActiveInv, CallInv, StopInv, Attended, PluginTypeOK
  <2>4. ListInv'
    BY <2>1, <2>2 DEF LoaderInv, ListInv
  <2> QED
    BY <2>2, <2>3, <2>4 DEF LoaderInv
<1>8. ASSUME NEW n \in Names, ReloadUnloads(n) PROVE LoaderInv'
  <2>1. /\ at = "idle" /\ at' = "reloading" /\ plugin' = plugins[n] /\ rest' = {}
        /\ plugins[n] \in Plugin /\ Name[plugins[n]] = n
        /\ active' = active \ {plugins[n]} /\ UNCHANGED <<plugins, metadata, handlers, lost, phase>>
    BY <1>0, <1>8 DEF ReloadUnloads, Goes, loader, LoaderInv, PluginTypeOK, NamesInv
  <2>2. PluginTypeOK' /\ NamesInv' /\ Loaded' = Loaded
    BY <1>0, <2>1 DEF LoaderInv, PluginTypeOK, NamesInv, Loaded
  <2>3. ActiveInv' /\ CallInv' /\ StopInv'
    BY <2>1 DEF LoaderInv, ActiveInv, CallInv, StopInv, Attended
  <2>4. ListInv'
    BY <2>1, <2>2 DEF LoaderInv, ListInv
  <2> QED
    BY <2>2, <2>3, <2>4 DEF LoaderInv
<1>9. CASE ReloadLoads
  <2>1. /\ at = "reloading" /\ at' = "idle" /\ plugin' = None /\ rest' = {}
        /\ plugin \in Plugin /\ plugins[Name[plugin]] = plugin
        /\ active' \in {active, active \cup {plugin}}
        /\ UNCHANGED <<plugins, metadata, handlers, lost, phase>>
    BY <1>9 DEF ReloadLoads, Returns, Goes, loader, LoaderInv, CallInv
  <2>2. PluginTypeOK' /\ NamesInv' /\ Loaded' = Loaded
    BY <1>0, <2>1 DEF LoaderInv, PluginTypeOK, NamesInv, Loaded
  <2>3. ActiveInv' /\ CallInv' /\ StopInv'
    BY <2>1 DEF LoaderInv, ActiveInv, CallInv, StopInv, Attended
  <2>4. ListInv'
    BY <2>1, <2>2 DEF LoaderInv, ListInv
  <2> QED
    BY <2>2, <2>3, <2>4 DEF LoaderInv
<1>10. rest \subseteq Names
  BY <1>0 DEF PluginTypeOK
<1>11. CASE \E n \in Names : Pop("idle", n, {})
  BY <1>5, <1>11
<1>12. CASE \E n \in rest : Pop("stopping", n, rest \ {n})
  <2>1. PICK n \in rest : Pop("stopping", n, rest \ {n})
    BY <1>12
  <2>2. n \in Names /\ rest \ {n} \in SUBSET Names
    BY <1>10, <2>1
  <2> QED
    BY <1>5, <2>1, <2>2
<1> QED
  BY <1>1, <1>2, <1>3, <1>4, <1>6, <1>7, <1>8, <1>9, <1>11, <1>12 DEF Next, Publish

LEMMA InvariantHolds == Spec => [](EventInv /\ LoaderInv)
<1>1. Init => EventInv /\ LoaderInv
  BY EventInitial, LoaderInitial
<1>2. EventInv /\ LoaderInv /\ [Next]_vars => (EventInv /\ LoaderInv)'
  BY EventStep, LoaderStep
<1> QED
  BY <1>1, <1>2, PTL DEF Spec

\* The loader's variables keep their types.
THEOREM TypesHold == Spec => []PluginTypeOK
<1>1. LoaderInv => PluginTypeOK
  BY DEF LoaderInv
<1> QED
  BY <1>1, InvariantHolds, PTL

\* Between calls the list of plugins shows every loaded one, and of the others
\* only those whose unload() raised (plugin_loader.py:61, :70, :77).
THEOREM ListIsTrue == Spec => []ListedIsLoaded
<1>1. LoaderInv => ListedIsLoaded
  BY DEF LoaderInv, ListInv, ListedIsLoaded
<1> QED
  BY <1>1, InvariantHolds, PTL

\* A stop() that returns has unloaded every plugin the loader has not given up
\* (runtime.py:117, plugin_loader.py:89).
THEOREM StopUnloadsAll == Spec => StopUnloads
<1>1. LoaderInv /\ [Next]_vars => [StopReturns => active' \subseteq lost]_vars
  <2> SUFFICES ASSUME LoaderInv, Next, StopReturns PROVE active' \subseteq lost
    OBVIOUS
  <2>1. StopEnds
    BY DEF Next, Publish, StopReturns, HandlerReturns, HandlerRaises, Published, AttachRuntime,
           StartAgain, Stop, HandlerSubscribes, HandlerUnsubscribes, Subscribe, Unsubscribe,
           Register, Unloaded, UnloadFails, ReloadLoads, Load, Pop, ReloadUnloads
  <2>2. Loaded = {} /\ ~Attended /\ active' = active
    BY <2>1 DEF StopEnds, Returns, Goes, StopReturns, LoaderInv, StopInv, Attended
  <2>3. ASSUME NEW p \in active PROVE plugins[Name[p]] # p
    <3>1. p \in Plugin /\ Name[p] \in Names /\ p # None
      BY PluginAssumption DEF PluginAssumption, LoaderInv, PluginTypeOK, Names
    <3> QED
      BY <2>2, <3>1 DEF Loaded
  <2> QED
    BY <2>2, <2>3 DEF LoaderInv, ActiveInv
<1> QED
  BY <1>1, InvariantHolds, PTL DEF Spec, StopUnloads
==============================================================================
