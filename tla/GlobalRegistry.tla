--------------------------- MODULE GlobalRegistry ---------------------------
(***************************************************************************)
(* The PipeWire globals that a core knows: WpRegistry and WpGlobal of      *)
(* lib/wp/object-manager.c, the WpGlobalProxy of lib/wp/global-proxy.c     *)
(* that each global may have, and the server they are a picture of.        *)
(*                                                                         *)
(* The server numbers its objects and reuses the numbers; its messages and *)
(* the requests sent to it are in flight for a while.  A WpGlobal is made  *)
(* when an object appears on the registry, or when a proxy with which this *)
(* process created an object learns its number ("bound"); both events      *)
(* speak of the same object and come in either order.                      *)
(*                                                                         *)
(* Every event handler runs to its end before the next event: the handlers *)
(* of the managers' signals, which can re-enter the registry, are the      *)
(* subject of ObjectManagers.  Here every manager is interested in every   *)
(* global and its objects are those whose proxy is bound.                  *)
(***************************************************************************)
EXTENDS Naturals, Sequences, SequencesExt

CONSTANTS
  Ids,            \* the numbers that the server gives to its objects
  ServerObjects,  \* the objects that may exist in the server, over time
  Creators,       \* proxies with which user code creates server objects
  Managers,       \* the object managers
  None,           \* NULL, and SPA_ID_INVALID
  SameCycle,      \* do bound and global of an object come without a pause?
  Deactivations,  \* the states of a pw_proxy in which user code deactivates BOUND
  Disconnects     \* may the connection to the server be lost?

ASSUME NoneAssumption == None \notin Ids \cup ServerObjects \cup Creators
ASSUME DistinctAssumption == ServerObjects \cap Creators = {}
ASSUME SwitchAssumption ==
  /\ SameCycle \in BOOLEAN /\ Disconnects \in BOOLEAN
  /\ Deactivations \subseteq {"pending", "bound"}

(* A WpGlobal is named by the event that it is made for: the appearance of  *)
(* a server object or the binding of a creator.  A proxy is a creator or is *)
(* made for a global by the managers.                                       *)
WpGlobals == ServerObjects \cup Creators
MadeFor(g) == <<g>>
Proxies == Creators \cup {MadeFor(g) : g \in WpGlobals}

APPEARS_ON_REGISTRY == "appears on registry"
OWNED_BY_PROXY      == "owned by proxy"

VARIABLES
  server,     \* per id, the object that it stands for now, or None
  unborn,     \* the server objects that did not exist yet
  unused,     \* the creators that user code did not activate yet
  made,       \* per creator, the object that the server made for it
  resource,   \* per proxy, the server object that its resource speaks for
  requests,   \* to the server, in flight
  events,     \* from the server, in flight
  midcycle,   \* do more events follow in the same main loop dispatch?
  client,     \* the state of the client, a record: see Client
  critical,   \* did a g_return_if_fail of the registry fail?
  drops       \* how often the connection was lost

serverVars == <<server, unborn, made>>
vars == <<server, unborn, unused, made, resource, requests, events, midcycle, client,
          critical, drops>>

-----------------------------------------------------------------------------
(* globals and tmp_globals are those of WpRegistry, expose the number of    *)
(* attached idle sources.  flags, id, proxy are fields of WpGlobal, exposed *)
(* are the WpGlobals whose registry is set.  global is that of a WpGlobal-  *)
(* ProxyPrivate; a pw_proxy is NULL, "pending" or "bound".  refs are the    *)
(* proxies' references held by user code or by their WpGlobal.  An object   *)
(* manager activates a proxy (waiting, which keeps the proxy alive) before  *)
(* it manages it.                                                           *)
Client ==
  [connected   : BOOLEAN,
   globals     : [Ids -> WpGlobals \cup {None}],
   tmp_globals : Seq(WpGlobals),
   expose      : Nat,
   flags       : [WpGlobals -> SUBSET {APPEARS_ON_REGISTRY, OWNED_BY_PROXY}],
   id          : [WpGlobals -> Ids \cup {None}],
   proxy       : [WpGlobals -> Proxies \cup {None}],
   exposed     : SUBSET WpGlobals,
   global      : [Proxies -> WpGlobals \cup {None}],
   pw_proxy    : [Proxies -> {"NULL", "pending", "bound"}],
   refs        : [Proxies -> SUBSET {"user", "WpGlobal"}],
   installed   : SUBSET Managers,
   waiting     : SUBSET (Managers \X Proxies),
   managed     : SUBSET (Managers \X Proxies)]

Request == [type : {"bind"}, proxy : Proxies, id : Ids]
             \cup [type : {"create", "destroy"}, proxy : Proxies, id : {None}]
Event == [type : {"global"}, object : ServerObjects, proxy : {None}, id : Ids,
          more : BOOLEAN]
           \cup [type : {"global_remove"}, object : {None}, proxy : {None},
                 id : Ids, more : BOOLEAN]
           \cup [type : {"bound", "error"}, object : {None}, proxy : Proxies,
                 id : Ids \cup {None}, more : BOOLEAN]

Activating(c, p) == \E om \in Managers : <<om, p>> \in c.waiting
Live(c, p) == c.refs[p] # {} \/ Activating(c, p)

(* The server object that a WpGlobal is about.                              *)
ObjectOf(g) == IF g \in ServerObjects THEN g ELSE made[g]

-----------------------------------------------------------------------------
(* The functions of the registry and of the proxies, as functions of the    *)
(* client's state.                                                          *)

(* wp_registry_notify_rm_object                                             *)
NotifyRemoved(c, p) == [c EXCEPT !.managed = @ \ (Managers \X {p})]

(* wp_object_abort_activation                                               *)
AbortActivation(c, p) == [c EXCEPT !.waiting = @ \ (Managers \X {p})]

(* pw_proxy_destroy: proxy_event_destroy and wp_global_proxy_destroyed      *)
DestroyPwProxy(c, p) ==
  IF c.pw_proxy[p] = "NULL" THEN c
  ELSE AbortActivation([c EXCEPT !.pw_proxy[p] = "NULL", !.global[p] = None], p)

(* The end of wp_global_rm_flag: the registry drops a WpGlobal that does    *)
(* not appear any more.                                                     *)
DropSlot(c, g, id) ==
  IF APPEARS_ON_REGISTRY \in c.flags[g] \/ g \notin c.exposed THEN c
  ELSE [c EXCEPT !.globals[id] = None]

(* wp_global_rm_flag (g, WP_GLOBAL_FLAG_OWNED_BY_PROXY)                     *)
RmOwned(c, g) ==
  IF OWNED_BY_PROXY \notin c.flags[g] THEN c
  ELSE LET told == IF g \in c.exposed /\ c.proxy[g] # None
                     THEN NotifyRemoved(c, c.proxy[g]) ELSE c
       IN  DropSlot([told EXCEPT !.flags[g] = @ \ {OWNED_BY_PROXY},
                                 !.proxy[g] = None], g, c.id[g])

(* wp_global_proxy_dispose and wp_proxy_dispose, when nobody holds p        *)
DisposeUnlessLive(c, p) ==
  IF Live(c, p) THEN c
  ELSE LET disowned == IF c.global[p] = None THEN c ELSE RmOwned(c, c.global[p])
       IN  [DestroyPwProxy(disowned, p) EXCEPT !.global[p] = None]

(* The parts of wp_global_rm_flag (g, WP_GLOBAL_FLAG_APPEARS_ON_REGISTRY):  *)
(* the managers are told that the proxy is gone,                            *)
TellGone(c, g, p) == IF g \in c.exposed THEN NotifyRemoved(c, p) ELSE c

(* the proxy is dropped if it is not owning the global,                     *)
UnrefProxy(c, p, left) ==
  IF left = {} THEN [c EXCEPT !.refs[p] = @ \ {"WpGlobal"}] ELSE c

(* Mutant: only a proxy that is bound already is dropped.                   *)
DropProxyIfBound(c, p, left) ==
  IF c.pw_proxy[p] # "bound" THEN c
  ELSE DisposeUnlessLive(UnrefProxy(AbortActivation(DestroyPwProxy(c, p), p), p, left), p)

(* after BOUND was deactivated and its activations were aborted,            *)
DropProxy(c, p, left) ==
  DisposeUnlessLive(UnrefProxy(AbortActivation(DestroyPwProxy(c, p), p), p, left), p)

(* Mutant: the id of a removed global stays valid.                          *)
InvalidateNever(c, g) == c

(* and the id is made invalid.                                              *)
Invalidate(c, g) == [c EXCEPT !.id[g] = None]

RmAppears(c, g) ==
  IF APPEARS_ON_REGISTRY \notin c.flags[g] THEN c
  ELSE LET p      == c.proxy[g]
           left   == c.flags[g] \ {APPEARS_ON_REGISTRY}
           stolen == [c EXCEPT !.flags[g] = left, !.proxy[g] = None]
           gone   == IF p = None THEN stolen
                     ELSE DropProxy(TellGone(stolen, g, p), p, left)
       IN  DropSlot(Invalidate(gone, g), g, c.id[g])

(* wp_object_manager_add_global for a global that has been exposed          *)
AddGlobal(c, om, g) ==
  LET p == IF c.proxy[g] = None THEN MadeFor(g) ELSE c.proxy[g]
      with == IF c.proxy[g] # None THEN c
              ELSE [c EXCEPT !.proxy[g] = p, !.global[p] = g,
                             !.refs[p] = {"WpGlobal"}]
  IN  [with EXCEPT !.waiting = @ \cup {<<om, p>>}]

(* The WpGlobals that wp_registry_prepare_new_global reuses for an id.      *)
Held(c, id) == {h \in ToSet(c.tmp_globals) : c.id[h] = id}

(* wp_registry_prepare_new_global for g, unless one that is held back       *)
(* already is reused; p is the proxy that is bound, if any, and is told.    *)
PrepareNewGlobal(c, g, id, flag, p) ==
  LET h == IF Held(c, id) = {} THEN g ELSE CHOOSE h \in Held(c, id) : TRUE
      prepared ==
        IF Held(c, id) = {}
          THEN [c EXCEPT !.tmp_globals = Append(@, g),
                         !.expose = IF c.tmp_globals = <<>> THEN @ + 1 ELSE @,
                         !.flags[g] = {flag}, !.id[g] = id, !.proxy[g] = p]
          ELSE [c EXCEPT !.flags[h] = @ \cup {flag},
                         !.proxy[h] = IF p = None THEN @ ELSE p]
  IN  IF p = None THEN prepared ELSE [prepared EXCEPT !.global[p] = h]

Valid(c, g) == c.flags[g] # {} /\ c.id[g] # None

(* The first loop of expose_tmp_globals; stuck says that the slot of a      *)
(* global was not free, on which the function returns.                      *)
StoreGlobal(s, g) ==
  LET c   == s.client
      old == c.globals[c.id[g]]
      ready == IF old # None THEN RmOwned(c, old) ELSE c
  IN  IF s.stuck \/ ~Valid(c, g) THEN s
      ELSE IF ready.globals[c.id[g]] # None THEN [client |-> ready, stuck |-> TRUE]
      ELSE [client |-> [ready EXCEPT !.exposed = @ \cup {g}, !.globals[c.id[g]] = g],
            stuck |-> FALSE]

(* The second loop: every manager is offered every new global.              *)
OfferGlobals(c, new) ==
  LET fresh == SelectSeq(new, LAMBDA g : Valid(c, g))
  IN  FoldLeft(LAMBDA d, om : FoldLeft(LAMBDA e, g : AddGlobal(e, om, g), d, fresh),
               c, SetToSeq(c.installed))

(* wp_registry_detach and the end of wp_core_disconnect                     *)
DetachGlobal(c, id) ==
  LET g == c.globals[id]
      stolen == [c EXCEPT !.globals[id] = None, !.exposed = @ \ {g}]
      told == IF c.proxy[g] = None THEN stolen ELSE NotifyRemoved(stolen, c.proxy[g])
  IN  IF g = None THEN c ELSE RmAppears(told, g)

Detach(c) ==
  LET exposed == FoldLeft(DetachGlobal, c, SetToSeq(Ids))
      all     == FoldLeft(RmAppears, exposed, c.tmp_globals)
  IN  FoldLeft(LAMBDA d, p : DisposeUnlessLive(DestroyPwProxy(d, p), p),
               [all EXCEPT !.tmp_globals = <<>>, !.connected = FALSE],
               SetToSeq(Proxies))

-----------------------------------------------------------------------------
(* The client goes to state d; the pw_proxies that it destroys on the way   *)
(* are destroyed on the server's side as well.                              *)
Step(d, asked) ==
  LET destroyed == {p \in Proxies : client.pw_proxy[p] # "NULL" /\ d.pw_proxy[p] = "NULL"}
  IN  /\ client' = d
      /\ requests' = requests \o asked \o
           SetToSeq({[type |-> "destroy", proxy |-> p, id |-> None] : p \in destroyed})

ClientStep == UNCHANGED <<serverVars, resource, events, midcycle, drops>>

Keep == UNCHANGED <<unused, critical>>

(* pw_core_create_object by wp_global_proxy_step_bind of a creator          *)
Create(p) ==
  /\ ~midcycle /\ client.connected
  /\ p \in unused
  /\ unused' = unused \ {p}
  /\ Step([client EXCEPT !.refs[p] = {"user"}, !.pw_proxy[p] = "pending"],
          <<[type |-> "create", proxy |-> p, id |-> None]>>)
  /\ ClientStep /\ UNCHANGED critical

(* User code drops its reference on a proxy of its own.                     *)
Unref(p) ==
  /\ ~midcycle
  /\ "user" \in client.refs[p]
  /\ Step(DisposeUnlessLive([client EXCEPT !.refs[p] = @ \ {"user"}], p), <<>>)
  /\ ClientStep /\ Keep

(* User code deactivates BOUND on a proxy of its own: wp_proxy_deactivate   *)
Deactivate(p) ==
  /\ ~midcycle
  /\ "user" \in client.refs[p] /\ client.pw_proxy[p] \in Deactivations
  /\ Step(DestroyPwProxy(client, p), <<>>)
  /\ ClientStep /\ Keep

(* Mutant: what is exposed already is not offered to a new manager.         *)
InstallForgets(om) ==
  /\ ~midcycle
  /\ om \notin client.installed
  /\ Step([client EXCEPT !.installed = @ \cup {om}], <<>>)
  /\ ClientStep /\ Keep

(* wp_core_install_object_manager                                           *)
Install(om) ==
  /\ ~midcycle
  /\ om \notin client.installed
  /\ Step(FoldLeft(LAMBDA c, id : IF c.globals[id] = None THEN c
                                  ELSE AddGlobal(c, om, c.globals[id]),
                   [client EXCEPT !.installed = @ \cup {om}], SetToSeq(Ids)), <<>>)
  /\ ClientStep /\ Keep

(* The idle source of wp_registry_prepare_new_global: expose_tmp_globals    *)
Expose ==
  /\ ~midcycle
  /\ client.expose > 0
  /\ LET new    == client.tmp_globals
         taken  == [client EXCEPT !.tmp_globals = <<>>, !.expose = @ - 1]
         stored == FoldLeft(StoreGlobal, [client |-> taken, stuck |-> FALSE], new)
     IN  /\ critical' = (critical \/ stored.stuck)
         /\ Step(IF stored.stuck THEN stored.client ELSE OfferGlobals(stored.client, new),
                 <<>>)
  /\ ClientStep /\ UNCHANGED unused

(* An activation gets to wp_global_proxy_step_bind: wp_global_proxy_bind    *)
Bind(p) ==
  /\ ~midcycle
  /\ Activating(client, p)
  /\ client.pw_proxy[p] = "NULL"
  /\ LET g == client.global[p]
     IN  \/ /\ g # None /\ g \in client.exposed /\ client.proxy[g] = p
            /\ Step([client EXCEPT !.pw_proxy[p] = "pending"],
                    <<[type |-> "bind", proxy |-> p, id |-> client.id[g]]>>)
         \/ /\ g # None => g \notin client.exposed \/ client.proxy[g] # p
            /\ Step(DisposeUnlessLive(AbortActivation(client, p), p), <<>>)
  /\ ClientStep /\ Keep

(* An activation ends: on_proxy_ready                                       *)
ProxyReady(om, p) ==
  /\ ~midcycle
  /\ <<om, p>> \in client.waiting
  /\ client.pw_proxy[p] = "bound"
  /\ Step(DisposeUnlessLive([client EXCEPT !.waiting = @ \ {<<om, p>>},
                                           !.managed = @ \cup {<<om, p>>}], p), <<>>)
  /\ ClientStep /\ Keep

-----------------------------------------------------------------------------
(* Events from the server.                                                  *)

Receive(type) ==
  /\ events # <<>>
  /\ Head(events).type = type
  /\ events' = Tail(events)
  /\ midcycle' = Head(events).more
  /\ UNCHANGED <<serverVars, resource, unused, drops>>

(* registry_global                                                          *)
RegistryGlobal ==
  /\ Receive("global")
  /\ Step(PrepareNewGlobal(client, Head(events).object, Head(events).id,
                           APPEARS_ON_REGISTRY, None), <<>>)
  /\ UNCHANGED critical

(* registry_global_remove: what is exposed under the id comes first         *)
RegistryGlobalRemove ==
  /\ Receive("global_remove")
  /\ LET id    == Head(events).id
         found == IF client.globals[id] # None THEN {client.globals[id]}
                  ELSE Held(client, id)
         g     == CHOOSE g \in found : TRUE
     IN  \/ /\ \E h \in found : APPEARS_ON_REGISTRY \in client.flags[h]
            /\ Step(RmAppears(client, g), <<>>)
            /\ UNCHANGED critical
         \/ /\ \A h \in found : APPEARS_ON_REGISTRY \notin client.flags[h]
            /\ critical' = TRUE
            /\ UNCHANGED <<client, requests>>

(* proxy_event_bound and wp_global_proxy_bound; pw_proxies that were        *)
(* destroyed receive no events                                              *)
Bound ==
  /\ Receive("bound")
  /\ LET p  == Head(events).proxy
         id == Head(events).id
         bound == [client EXCEPT !.pw_proxy[p] = "bound"]
     IN  \/ /\ client.pw_proxy[p] = "pending" /\ client.global[p] = None
            /\ IF \E h \in Held(client, id) : client.proxy[h] # None
                 THEN critical' = TRUE /\ Step(bound, <<>>)
                 ELSE /\ Step(PrepareNewGlobal(bound, p, id, OWNED_BY_PROXY, p), <<>>)
                      /\ UNCHANGED critical
         \/ /\ client.pw_proxy[p] = "pending" /\ client.global[p] # None
            /\ Step(bound, <<>>)
            /\ UNCHANGED critical
         \/ /\ client.pw_proxy[p] # "pending"
            /\ UNCHANGED <<client, requests, critical>>

(* proxy_event_error for a proxy that is not bound                          *)
ProxyError ==
  /\ Receive("error")
  /\ LET p == Head(events).proxy
     IN  IF client.pw_proxy[p] = "pending"
           THEN Step(DisposeUnlessLive(DestroyPwProxy(client, p), p), <<>>)
           ELSE UNCHANGED <<client, requests>>
  /\ UNCHANGED critical

-----------------------------------------------------------------------------
(* The server, which sends nothing to a client that is not connected.       *)

Global(id, o, more) == [type |-> "global", object |-> o, proxy |-> None,
                        id |-> id, more |-> more]
Removed(id) == [type |-> "global_remove", object |-> None, proxy |-> None,
                id |-> id, more |-> FALSE]
BoundTo(p, id, more) == [type |-> "bound", object |-> None, proxy |-> p,
                         id |-> id, more |-> more]
Error(p) == [type |-> "error", object |-> None, proxy |-> p, id |-> None,
             more |-> FALSE]

Emit(sent) == events' = IF client.connected THEN events \o sent ELSE events

ServerStep == UNCHANGED <<unused, midcycle, client, critical, drops>>

Appear(id, o) ==
  /\ server[id] = None /\ o \in unborn
  /\ server' = [server EXCEPT ![id] = o]
  /\ unborn' = unborn \ {o}
  /\ Emit(<<Global(id, o, FALSE)>>)
  /\ ServerStep /\ UNCHANGED <<made, resource, requests>>

Vanish(id) ==
  /\ server[id] # None
  /\ server' = [server EXCEPT ![id] = None]
  /\ Emit(<<Removed(id)>>)
  /\ ServerStep /\ UNCHANGED <<unborn, made, resource, requests>>

TakeRequest(type) ==
  /\ requests # <<>>
  /\ Head(requests).type = type
  /\ requests' = Tail(requests)
  /\ ServerStep

ServeBind ==
  /\ TakeRequest("bind")
  /\ LET p == Head(requests).proxy
         id == Head(requests).id
     IN  IF server[id] # None
           THEN /\ resource' = [resource EXCEPT ![p] = server[id]]
                /\ Emit(<<BoundTo(p, id, FALSE)>>)
           ELSE Emit(<<Error(p)>>) /\ UNCHANGED resource
  /\ UNCHANGED serverVars

ServeCreate ==
  /\ TakeRequest("create")
  /\ LET p == Head(requests).proxy
     IN  \/ \E id \in Ids, o \in unborn :
              /\ server[id] = None
              /\ server' = [server EXCEPT ![id] = o]
              /\ unborn' = unborn \ {o}
              /\ made' = [made EXCEPT ![p] = o]
              /\ resource' = [resource EXCEPT ![p] = o]
              /\ \/ Emit(<<BoundTo(p, id, SameCycle), Global(id, o, FALSE)>>)
                 \/ Emit(<<Global(id, o, SameCycle), BoundTo(p, id, FALSE)>>)
         \/ Emit(<<Error(p)>>) /\ UNCHANGED <<serverVars, resource>>

(* The server destroys an object together with the resource that made it.   *)
ServeDestroy ==
  /\ TakeRequest("destroy")
  /\ LET p == Head(requests).proxy
         mine == {id \in Ids : server[id] # None /\ p \in Creators /\ made[p] = server[id]}
     IN  /\ server' = [id \in Ids |-> IF id \in mine THEN None ELSE server[id]]
         /\ Emit(SetToSeq({Removed(id) : id \in mine}))
         /\ resource' = [resource EXCEPT ![p] = None]
  /\ UNCHANGED <<unborn, made>>

-----------------------------------------------------------------------------
(* The connection.                                                          *)

(* wp_core_disconnect, also from core_disconnect_async                      *)
Disconnect ==
  /\ Disconnects /\ ~midcycle
  /\ client.connected
  /\ drops = 0
  /\ drops' = drops + 1
  /\ client' = Detach(client)
  /\ requests' = <<>> /\ events' = <<>>
  /\ server' = [id \in Ids |-> IF \E p \in Creators : made[p] = server[id]
                                 THEN None ELSE server[id]]
  /\ resource' = [p \in Proxies |-> None]
  /\ UNCHANGED <<unborn, unused, made, midcycle, critical>>

(* wp_core_connect and wp_registry_attach: the server lists what it has     *)
Connect ==
  /\ ~client.connected
  /\ client' = [client EXCEPT !.connected = TRUE]
  /\ events' \in SetToSeqs({Global(id, server[id], FALSE) :
                              id \in {i \in Ids : server[i] # None}})
  /\ UNCHANGED <<serverVars, unused, resource, requests, midcycle, critical, drops>>

-----------------------------------------------------------------------------
Init ==
  /\ server = [id \in Ids |-> None]
  /\ unborn = ServerObjects
  /\ unused = Creators
  /\ made = [p \in Creators |-> None]
  /\ resource = [p \in Proxies |-> None]
  /\ requests = <<>> /\ events = <<>> /\ midcycle = FALSE
  /\ client = [connected |-> TRUE,
               globals |-> [id \in Ids |-> None], tmp_globals |-> <<>>, expose |-> 0,
               flags |-> [g \in WpGlobals |-> {}], id |-> [g \in WpGlobals |-> None],
               proxy |-> [g \in WpGlobals |-> None], exposed |-> {},
               global |-> [p \in Proxies |-> None],
               pw_proxy |-> [p \in Proxies |-> "NULL"],
               refs |-> [p \in Proxies |-> {}],
               installed |-> {}, waiting |-> {}, managed |-> {}]
  /\ critical = FALSE
  /\ drops = 0

UserNext ==
  \/ \E p \in Creators : Create(p) \/ Unref(p) \/ Deactivate(p)
  \/ \E om \in Managers : Install(om)

LoopNext ==
  \/ Expose
  \/ \E p \in Proxies : Bind(p)
  \/ \E om \in Managers, p \in Proxies : ProxyReady(om, p)

ReceiveNext == RegistryGlobal \/ RegistryGlobalRemove \/ Bound \/ ProxyError

ServeNext == ServeBind \/ ServeCreate \/ ServeDestroy

Next ==
  \/ UserNext \/ LoopNext \/ ReceiveNext \/ ServeNext
  \/ \E id \in Ids : Vanish(id) \/ \E o \in ServerObjects : Appear(id, o)
  \/ Disconnect \/ Connect

Spec == Init /\ [][Next]_vars

Fairness == WF_vars(LoopNext) /\ WF_vars(ReceiveNext) /\ WF_vars(ServeNext)

FairSpec == Spec /\ Fairness
-----------------------------------------------------------------------------
TypeOK ==
  /\ server \in [Ids -> ServerObjects \cup {None}]
  /\ unborn \subseteq ServerObjects
  /\ unused \subseteq Creators
  /\ made \in [Creators -> ServerObjects \cup {None}]
  /\ resource \in [Proxies -> ServerObjects \cup {None}]
  /\ requests \in Seq(Request)
  /\ events \in Seq(Event)
  /\ midcycle \in BOOLEAN
  /\ client \in Client
  /\ critical \in BOOLEAN
  /\ drops \in Nat

(* "notify all listeners that the proxy is gone": managers hold no          *)
(* references, so every object of a manager is the living, bound proxy of a *)
(* global that is exposed now.                                              *)
NoStaleProxy ==
  \A om \in Managers, p \in Proxies :
    <<om, p>> \in client.managed =>
      /\ Live(client, p)
      /\ client.pw_proxy[p] = "bound"
      /\ \E id \in Ids : client.globals[id] # None /\ client.proxy[client.globals[id]] = p

(* An exposed WpGlobal never points to a proxy that was disposed: it owns   *)
(* the proxy or is told when the owner drops it.                            *)
NoDanglingProxy ==
  \A id \in Ids : client.globals[id] # None =>
    LET p == client.proxy[client.globals[id]] IN p # None => Live(client, p)

(* "If the race occurs, and a wrong object is going to be bound here, what  *)
(* will then happen is that WpGlobal will dispose this proxy": a bound      *)
(* proxy never speaks for another object than its WpGlobal does.            *)
RightObject ==
  \A p \in Proxies :
    client.pw_proxy[p] = "bound" /\ client.global[p] # None =>
      resource[p] = ObjectOf(client.global[p])

(* "we can catch a late 'bound' event and still associate the proxy with    *)
(* the WpGlobal": an object of the server never gets a second proxy while   *)
(* the proxy that created it is in use.                                     *)
OneProxyPerObject ==
  \A p, q \in Proxies :
    client.pw_proxy[p] = "bound" /\ client.pw_proxy[q] = "bound"
      /\ resource[p] = resource[q] /\ resource[p] # None => p = q

(* A proxy that is kept alive by its WpGlobal is the proxy of a WpGlobal    *)
(* that still appears, and so will be dropped when that one is removed.     *)
NoOrphanProxy ==
  \A p \in Proxies : "WpGlobal" \in client.refs[p] =>
    \E id \in Ids : client.globals[id] # None /\ client.proxy[client.globals[id]] = p

(* The assertions of the registry (object-manager.c:940, 1083 and 1183)     *)
(* hold: a removal finds its global, a slot is free when it is filled, and  *)
(* no WpGlobal gets a second proxy.                                         *)
AssertionsHold == ~critical

(* When nothing is in flight and no idle source is attached, the registry   *)
(* is a picture of the server.                                              *)
Quiescent ==
  client.connected /\ requests = <<>> /\ events = <<>> /\ client.expose = 0

MirrorsServer ==
  Quiescent =>
    \A id \in Ids :
      IF client.globals[id] = None THEN server[id] = None
      ELSE /\ APPEARS_ON_REGISTRY \in client.flags[client.globals[id]]
           /\ ObjectOf(client.globals[id]) = server[id]

(* Every manager gets a proxy of every object that stays: the object is     *)
(* removed or managed by each installed manager.                            *)
EventuallyManaged ==
  \A om \in Managers, id \in Ids, o \in ServerObjects :
    (om \in client.installed /\ server[id] = o) ~>
      (server[id] # o \/ ~client.connected
        \/ \E p \in Proxies : resource[p] = o /\ <<om, p>> \in client.managed)

(* Whatever is in flight: managers and globals point to living, bound and   *)
(* unique proxies that speak for the objects they are taken for, and when   *)
(* nothing is, the globals are the objects of the server.                   *)
Consistent ==
  /\ TypeOK /\ NoStaleProxy /\ NoDanglingProxy /\ RightObject
  /\ OneProxyPerObject /\ NoOrphanProxy /\ AssertionsHold /\ MirrorsServer
=============================================================================
