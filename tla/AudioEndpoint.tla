--------------------------- MODULE AudioEndpoint ---------------------------
(***************************************************************************)
(* Endpoints: the session item (modules/module-si-audio-endpoint.c, over   *)
(* lib/wp/session-item.c), which makes a node, an adapter for it and the   *)
(* WpImplEndpoint (lib/wp/endpoint.c) that it exports; and the methods and *)
(* notifications of what is exported (pipewire-object-mixin.c), by which   *)
(* others follow and set the parameters of the node.                       *)
(*                                                                         *)
(* An activation waits in one step after the other: for the node, for the  *)
(* adapter, which is activated from an idle source as the WpImplEndpoint   *)
(* is, for the parameters of the node to be cached, and for the server to  *)
(* bind what is exported.  The queue of activations is ObjectActivation's. *)
(* Of the parameters that are passed on there is one here.                 *)
(***************************************************************************)
EXTENDS Naturals, Sequences

CONSTANTS
  Items,
  Values,            \* of the parameter
  NULL,
  Scenes,            \* sets [items, subscribers]: which items there are, and whose listener subscribes
  MaxActivations,    \* bound: activations of each item
  MaxComing,         \* bound: values that are on their way to the cache, and messages
  EndpointLapses     \* what callers and other modules may do, see below

Flags == {0, 1}

EndpointAssumption ==
  /\ MaxActivations \in Nat /\ MaxComing \in Nat /\ NULL \notin Values \cup Flags
  /\ \A scene \in Scenes : scene.items \subseteq Items /\ scene.subscribers \subseteq Items
  /\ EndpointLapses \subseteq {"window", "again", "retry"}

VARIABLES
  scene,                   \* one of Scenes
  core_up,                 \* there is a connection
  si,                      \* the items
  serial,                  \* the flag in impl_param_info, which is static
  value, coming,           \* the parameter of each node as it is cached, and as it will be
  listener,                \* the server's listener of each endpoint
  to_listener, to_endpoint \* messages

endpointVars == <<scene, core_up, si, serial, value, coming, listener, to_listener, to_endpoint>>

(* node, adapter and endpoint are the pointers of the item; a node or an endpoint
   is new, bound by the server or has lost its proxy.  connected: the endpoint
   listens to "params-changed" of the node and has the parameter in its info.
   left: what a failed activation has made and a later one has replaced. *)
Item ==
  [configured : BOOLEAN, active : BOOLEAN, exported : BOOLEAN,
   step : {"none", "node", "adapter", "export", "props", "bind"}, exports : BOOLEAN,
   activations : 0..MaxActivations,
   node : {"none", "new", "bound", "lost"}, caches_props : BOOLEAN,
   adapter : {"none", "new", "active", "reset"},
   endpoint : {"none", "new", "bound", "lost"}, connected : BOOLEAN,
   deferred : Nat, left : SUBSET {"node", "endpoint"}]

Unmade ==
  [configured |-> FALSE, active |-> FALSE, exported |-> FALSE, step |-> "none", exports |-> FALSE,
   activations |-> 0, node |-> "none", caches_props |-> FALSE, adapter |-> "none",
   endpoint |-> "none", connected |-> FALSE, deferred |-> 0, left |-> {}]

Deaf == [hears |-> FALSE, subscribed |-> FALSE, seen |-> NULL, got |-> NULL]

EndpointInit ==
  /\ scene \in Scenes /\ core_up = TRUE
  /\ si = [i \in Items |-> Unmade]
  /\ serial = 0
  /\ value \in [Items -> Values] /\ coming = [i \in Items |-> <<>>]
  /\ listener = [i \in Items |-> Deaf]
  /\ to_listener = [i \in Items |-> <<>>] /\ to_endpoint = [i \in Items |-> <<>>]

messages == <<listener, to_listener, to_endpoint>>
params == <<serial, value, coming>>

Set(i, new) == si' = [si EXCEPT ![i] = new]
Info == [type |-> "info", flags |-> serial]
Param(i) == [type |-> "param", value |-> value[i]]

(* wp_session_item_get_associated_proxy: the adapter has lost its node when it is
   reset. *)
HasNode(item) == item.adapter \in {"new", "active"}

-----------------------------------------------------------------------------
(* What deactivation undoes.  Disposing of an endpoint destroys its proxy, of
   which the item is told as if the server had.                            *)

disable_active(item) ==
  IF item.active THEN [item EXCEPT !.active = FALSE, !.adapter = "none", !.node = "none",
                                   !.caches_props = FALSE]
                 ELSE item

wp_session_item_handle_proxy_destroyed(item) == [item EXCEPT !.deferred = @ + 1]

disable_exported(item) ==
  IF ~item.exported THEN item
  ELSE LET told == IF item.endpoint = "bound" THEN wp_session_item_handle_proxy_destroyed(item) ELSE item
       IN [told EXCEPT !.exported = FALSE, !.endpoint = "none", !.connected = FALSE]

Unheard(i) ==
  /\ listener' = [listener EXCEPT ![i] = Deaf]
  /\ to_listener' = [to_listener EXCEPT ![i] = <<>>]
  /\ to_endpoint' = [to_endpoint EXCEPT ![i] = <<>>]

(* The listener of an endpoint that is no more hears nothing. *)
Becomes(i, new) ==
  /\ Set(i, new)
  /\ IF listener[i].hears /\ new.endpoint \notin {"new", "bound"}
       THEN Unheard(i) ELSE UNCHANGED messages

Here(i) == i \in scene.items

(* Nobody resets or deactivates an item before its activation has ended. *)
Deactivate(i, features) ==
  /\ Here(i) /\ si[i].step = "none" /\ (si[i].active \/ si[i].exported)
  /\ Becomes(i, IF features = "all" THEN disable_exported(disable_active(si[i]))
                                    ELSE disable_exported(si[i]))
  /\ coming' = IF features = "all" THEN [coming EXCEPT ![i] = <<>>] ELSE coming
  /\ UNCHANGED <<scene, core_up, serial, value>>

(* si_audio_endpoint_configure resets first, and may refuse the properties. *)
si_audio_endpoint_reset(item) == [disable_exported(disable_active(item)) EXCEPT !.configured = FALSE]

si_audio_endpoint_configure(i) ==
  /\ Here(i) /\ si[i].step = "none" /\ si[i].activations < MaxActivations
  /\ ~si[i].configured
  /\ \E accepted \in BOOLEAN :
       Becomes(i, [si_audio_endpoint_reset(si[i]) EXCEPT !.configured = accepted])
  /\ UNCHANGED <<scene, core_up, params>>

Reset(i) ==
  /\ Here(i) /\ si[i].step = "none" /\ si[i].configured
  /\ Becomes(i, si_audio_endpoint_reset(si[i]))
  /\ coming' = [coming EXCEPT ![i] = <<>>]
  /\ UNCHANGED <<scene, core_up, serial, value>>

-----------------------------------------------------------------------------
(* Activation.                                                             *)

return_error(item) == [item EXCEPT !.step = "none"]

(* Mutant: the node is looked at when the endpoint is activated only. *)
enable_exported_deaf(item) ==
  [item EXCEPT !.step = "export", !.endpoint = "new", !.connected = FALSE,
               !.left = IF item.endpoint = "none" THEN @ ELSE @ \cup {"endpoint"}]

(* wp_impl_endpoint_constructed: it listens to the node if that caches already. *)
enable_exported(item) ==
  [item EXCEPT !.step = "export", !.endpoint = "new",
               !.connected = HasNode(item) /\ item.caches_props,
               !.left = IF item.endpoint = "none" THEN @ ELSE @ \cup {"endpoint"}]

enable_active(item) ==
  IF ~item.configured THEN item
  ELSE [item EXCEPT !.step = "node", !.node = "new", !.caches_props = FALSE,
                    !.left = IF item.node = "none" THEN @ ELSE @ \cup {"node"}]

(* Callers activate an item again neither before they have been told that its
   endpoint is gone, nor when it has failed. *)
Unfinished(item) ==
  (item.node # "none" /\ ~item.active) \/ (item.endpoint # "none" /\ ~item.exported)

Activate(i, exports) ==
  /\ Here(i) /\ si[i].step = "none" /\ si[i].activations < MaxActivations
  /\ ~si[i].active \/ (exports /\ ~si[i].exported)
  /\ si[i].deferred > 0 => "again" \in EndpointLapses
  /\ Unfinished(si[i]) => "retry" \in EndpointLapses
  /\ LET item == [si[i] EXCEPT !.activations = @ + 1, !.exports = exports]
     IN Set(i, IF ~item.active THEN enable_active(item) ELSE enable_exported(item))
  /\ UNCHANGED <<scene, core_up, params, messages>>

(* The adapter is made and configured, and activated from an idle source. *)
on_node_activate_done(i) ==
  /\ si[i].step = "node"
  /\ \/ /\ core_up
        /\ Set(i, [si[i] EXCEPT !.node = "bound", !.adapter = "new", !.step = "adapter"])
     \/ Set(i, return_error(si[i]))
  /\ UNCHANGED <<scene, core_up, params, messages>>

on_adapter_activate_done(i) ==
  /\ si[i].step = "adapter"
  /\ LET item == [si[i] EXCEPT !.adapter = "active", !.active = TRUE, !.step = "none"]
     IN Set(i, IF item.exports THEN enable_exported(item) ELSE item)
  /\ UNCHANGED <<scene, core_up, params, messages>>

(* pw_core_export: the server listens at once, and is told all there is. *)
Bind(i, item) ==
  IF ~core_up THEN Set(i, return_error(item)) /\ UNCHANGED messages
  ELSE /\ Set(i, [item EXCEPT !.step = "bind"])
       /\ listener' = [listener EXCEPT ![i].hears = TRUE]
       /\ to_listener' = [to_listener EXCEPT ![i] = IF item.connected THEN <<Info>> ELSE <<>>]
       /\ to_endpoint' = [to_endpoint EXCEPT ![i] =
            IF i \in scene.subscribers THEN <<[type |-> "subscribe"]>> ELSE <<>>]

(* The activation of the endpoint starts, from an idle source. *)
wp_impl_endpoint_activate_get_next_step(i) ==
  /\ si[i].step = "export"
  /\ IF HasNode(si[i]) /\ si[i].node = "bound" /\ ~si[i].caches_props
       THEN Set(i, [si[i] EXCEPT !.step = "props"]) /\ UNCHANGED messages
       ELSE Bind(i, si[i])
  /\ UNCHANGED <<scene, core_up, params>>

Cached(i) == IF coming[i] = <<>> THEN value[i] ELSE coming[i][Len(coming[i])]

wp_impl_endpoint_node_activated(i) ==
  /\ si[i].step = "props"
  /\ \/ /\ Bind(i, [si[i] EXCEPT !.caches_props = TRUE, !.connected = TRUE])
        /\ value' = [value EXCEPT ![i] = Cached(i)] /\ coming' = [coming EXCEPT ![i] = <<>>]
     \/ /\ Set(i, return_error(si[i]))
        /\ UNCHANGED <<value, coming, messages>>
  /\ UNCHANGED <<scene, core_up, serial>>

(* Another module has the node cache its parameters; not while an endpoint that
   has seen that it does not waits to be activated. *)
OthersCacheProps(i) ==
  /\ si[i].node = "bound" /\ ~si[i].caches_props /\ core_up
  /\ si[i].step # "props"
  /\ si[i].step = "export" => "window" \in EndpointLapses
  /\ Set(i, [si[i] EXCEPT !.caches_props = TRUE])
  /\ value' = [value EXCEPT ![i] = Cached(i)] /\ coming' = [coming EXCEPT ![i] = <<>>]
  /\ UNCHANGED <<scene, core_up, serial, messages>>

(* The server answers: the endpoint is bound, or refused and its proxy destroyed. *)
on_impl_endpoint_activated(i) ==
  /\ si[i].step = "bind"
  /\ \/ Becomes(i, [si[i] EXCEPT !.endpoint = "bound", !.exported = TRUE, !.step = "none"])
     \/ Becomes(i, [return_error(wp_session_item_handle_proxy_destroyed(si[i]))
                      EXCEPT !.endpoint = "lost"])
  /\ UNCHANGED <<scene, core_up, params>>

-----------------------------------------------------------------------------
(* What is destroyed by others.                                            *)

EndpointLost(item) ==
  IF item.endpoint = "bound" \/ item.step = "bind"
    THEN [wp_session_item_handle_proxy_destroyed(item) EXCEPT
            !.endpoint = "lost", !.step = IF @ = "bind" THEN "none" ELSE @]
    ELSE item

(* The adapter resets itself; activations that wait for it or for the node fail. *)
NodeLost(item) ==
  IF item.node \notin {"new", "bound"} THEN item
  ELSE [item EXCEPT !.node = "lost", !.caches_props = FALSE,
                    !.adapter = IF @ = "none" THEN @ ELSE "reset",
                    !.step = IF @ \in {"node", "adapter", "props"} THEN "none" ELSE @]

ServerDestroysEndpoint(i) ==
  /\ si[i].endpoint = "bound"
  /\ Becomes(i, EndpointLost(si[i]))
  /\ UNCHANGED <<scene, core_up, params>>

ServerDestroysNode(i) ==
  /\ si[i].node = "bound"
  /\ Becomes(i, NodeLost(si[i]))
  /\ coming' = [coming EXCEPT ![i] = <<>>]
  /\ UNCHANGED <<scene, core_up, serial, value>>

Disconnect ==
  /\ core_up /\ core_up' = FALSE
  /\ si' = [i \in Items |-> NodeLost(EndpointLost(si[i]))]
  /\ coming' = [i \in Items |-> <<>>]
  /\ listener' = [i \in Items |-> Deaf]
  /\ to_listener' = [i \in Items |-> <<>>] /\ to_endpoint' = [i \in Items |-> <<>>]
  /\ UNCHANGED <<scene, serial, value>>

(* The idle source does not know which endpoint it was made for. *)
on_session_item_proxy_destroyed_deferred(i) ==
  /\ si[i].deferred > 0
  /\ Becomes(i, disable_exported([si[i] EXCEPT !.deferred = @ - 1]))
  /\ UNCHANGED <<scene, core_up, params>>

-----------------------------------------------------------------------------
(* The parameter: it changes at the node, which tells when it has cached it, and
   every endpoint that listens toggles the flag and passes it on.          *)

Changes(i, v) ==
  IF si[i].caches_props
    THEN coming' = [coming EXCEPT ![i] = Append(@, v)] /\ UNCHANGED value
    ELSE value' = [value EXCEPT ![i] = v] /\ UNCHANGED coming

(* The bound: a value changes when fewer than that is on its way. *)
Quiet(i) == Len(coming[i]) + Len(to_listener[i]) + Len(to_endpoint[i]) < MaxComing

NodeChanges(i, v) ==
  /\ Here(i) /\ si[i].node = "bound" /\ v # Cached(i) /\ Quiet(i)
  /\ Changes(i, v)
  /\ UNCHANGED <<scene, core_up, si, serial, messages>>

Toggles(item, flag) ==
  LET old == IF "endpoint" \in item.left THEN 1 - flag ELSE flag
  IN IF item.endpoint # "none" /\ item.connected THEN 1 - old ELSE old

on_node_params_changed(i) ==
  /\ coming[i] # <<>> /\ coming' = [coming EXCEPT ![i] = Tail(@)]
  /\ value' = [value EXCEPT ![i] = Head(coming[i])]
  /\ serial' = Toggles(si[i], serial)
  /\ to_listener' =
       IF listener[i].hears /\ si[i].connected
         THEN [to_listener EXCEPT ![i] = @ \o <<[Info EXCEPT !.flags = serial']>>
                 \o (IF listener[i].subscribed
                       THEN <<[Param(i) EXCEPT !.value = value'[i]]>> ELSE <<>>)]
         ELSE to_listener
  /\ UNCHANGED <<scene, core_up, si, listener, to_endpoint>>

(* wp_pw_object_mixin_impl_enum_params answers from the cache of the node. *)
impl_enum_params(i) ==
  to_listener' = IF si[i].connected /\ HasNode(si[i])
                   THEN [to_listener EXCEPT ![i] = Append(@, Param(i))] ELSE to_listener

impl_set_param(i, v) ==
  /\ IF si[i].connected /\ HasNode(si[i]) THEN Changes(i, v) ELSE UNCHANGED <<value, coming>>
  /\ UNCHANGED <<listener, to_listener>>

EndpointHandles(i) ==
  /\ to_endpoint[i] # <<>> /\ to_endpoint' = [to_endpoint EXCEPT ![i] = Tail(@)]
  /\ LET m == Head(to_endpoint[i]) IN
       \/ m.type = "enum" /\ impl_enum_params(i) /\ UNCHANGED <<listener, value, coming>>
       \/ /\ m.type = "subscribe" /\ impl_enum_params(i)
          /\ listener' = [listener EXCEPT ![i].subscribed = TRUE]
          /\ UNCHANGED <<value, coming>>
       \/ m.type = "set" /\ impl_set_param(i, m.value)
  /\ UNCHANGED <<scene, core_up, si, serial>>

(* The listener (external): it enumerates what has changed since the last info,
   as handle_event_info does for a WpEndpoint. *)
ListenerHears(i) ==
  /\ to_listener[i] # <<>> /\ to_listener' = [to_listener EXCEPT ![i] = Tail(@)]
  /\ LET m == Head(to_listener[i]) IN
       \/ /\ m.type = "info" /\ listener' = [listener EXCEPT ![i].seen = m.flags]
          /\ to_endpoint' = IF m.flags = listener[i].seen THEN to_endpoint
                            ELSE [to_endpoint EXCEPT ![i] = Append(@, [type |-> "enum"])]
       \/ /\ m.type = "param" /\ listener' = [listener EXCEPT ![i].got = m.value]
          /\ UNCHANGED to_endpoint
  /\ UNCHANGED <<scene, core_up, si, params>>

ListenerSets(i, v) ==
  /\ listener[i].hears /\ v # listener[i].got /\ Quiet(i)
  /\ to_endpoint' = [to_endpoint EXCEPT ![i] = Append(@, [type |-> "set", value |-> v])]
  /\ UNCHANGED <<scene, core_up, si, params, listener, to_listener>>

-----------------------------------------------------------------------------
(* What the loops of the daemon and the server do for an item. *)
EndpointLoop(i) ==
  \/ on_node_activate_done(i) \/ on_adapter_activate_done(i)
  \/ wp_impl_endpoint_activate_get_next_step(i) \/ wp_impl_endpoint_node_activated(i)
  \/ on_impl_endpoint_activated(i)

EndpointNext ==
  \/ Disconnect
  \/ \E i \in Items :
       \/ EndpointLoop(i) \/ on_session_item_proxy_destroyed_deferred(i)
       \/ si_audio_endpoint_configure(i) \/ Reset(i)
       \/ \E features \in {"all", "exported"} : Deactivate(i, features)
       \/ \E exports \in BOOLEAN : Activate(i, exports)
       \/ OthersCacheProps(i) \/ ServerDestroysEndpoint(i) \/ ServerDestroysNode(i)
       \/ on_node_params_changed(i) \/ EndpointHandles(i) \/ ListenerHears(i)
       \/ \E v \in Values : NodeChanges(i, v) \/ ListenerSets(i, v)

EndpointSpec == EndpointInit /\ [][EndpointNext]_endpointVars
-----------------------------------------------------------------------------
EndpointTypeOK ==
  /\ core_up \in BOOLEAN /\ si \in [Items -> Item] /\ serial \in Flags
  /\ value \in [Items -> Values] /\ coming \in [Items -> Seq(Values)]
  /\ \A i \in Items : listener[i].seen \in Flags \cup {NULL} /\ listener[i].got \in Values \cup {NULL}

(* A feature is there with what it promises: an item that is active has a node and
   its adapter, one that is exported has its endpoint bound at the server. *)
FeaturesBacked(item) ==
  /\ item.active => item.configured /\ item.node \in {"bound", "lost"}
                      /\ item.adapter = (IF item.node = "bound" THEN "active" ELSE "reset")
  /\ item.exported => item.endpoint \in {"bound", "lost"}
  /\ item.endpoint = "bound" => item.exported
  /\ item.endpoint = "lost" => item.deferred > 0 \/ ~item.exported

(* An idle source that is to undo an export undoes the one that was lost. *)
UndoesTheLost(item) == item.exported /\ item.deferred > 0 => item.endpoint = "lost"

NothingLeft(item) == item.left = {}

(* "if the item has a node, cache its props so that enum_params works": an
   endpoint of a node whose parameters are cached has them too. *)
Served(item) ==
  item.exported /\ item.endpoint = "bound" /\ item.node = "bound" /\ item.caches_props
    => item.connected
ParamsServed == \A i \in Items : Served(si[i])

(* When nothing is on its way, whoever listens to an endpoint has the parameter
   of its node. *)
Settled(i) == to_listener[i] = <<>> /\ to_endpoint[i] = <<>> /\ coming[i] = <<>>
ListenersFollow ==
  \A i \in Items :
    listener[i].hears /\ si[i].connected /\ HasNode(si[i]) /\ Settled(i) => listener[i].got = value[i]

EndpointsSound ==
  /\ EndpointTypeOK /\ ParamsServed /\ ListenersFollow
  /\ \A i \in Items : FeaturesBacked(si[i]) /\ UndoesTheLost(si[i]) /\ NothingLeft(si[i])

(* Every activation is answered. *)
EndpointsAnswer == \A i \in Items : si[i].step # "none" ~> si[i].step = "none"
=============================================================================
