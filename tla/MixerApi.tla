------------------------------ MODULE MixerApi ------------------------------
(***************************************************************************)
(* The volume control of modules/module-mixer-api.c: it keeps the volume   *)
(* of each audio node, which is that of a route of its device if there is  *)
(* one, and sets it where it was found.                                    *)
(***************************************************************************)
EXTENDS Naturals, Sequences

CONSTANTS
  Nodes,         \* the audio nodes of one device
  Channels, Levels,
  MaxSets,       \* on their way to the server (a bound)
  None

VARIABLES
  enabled,      \* WP_PLUGIN_FEATURE_ENABLED
  present,      \* on the server: the nodes, and "device"
  props, route, \* on the server: the volumes in the Props of each node, and in the
                \* route that is active for it
  om,           \* the objects in the object manager
  cachedProps, cachedRoute,  \* the params of these
  changed,      \* is objects-changed about to be emitted?
  syncs,        \* is a sync of on_params_changed under way?
  node_infos,   \* of each node, a node_info
  sets,         \* the params that were set and have not arrived
  expected,     \* of each node, the volume that its clients asked for
  hasty         \* the nodes of which expected says nothing: see set_volume

mixerVars == <<enabled, present, props, route, om, cachedProps, cachedRoute, changed,
               syncs, node_infos, sets, expected, hasty>>
server == <<present, props, route>>
cache == <<om, cachedProps, cachedRoute>>

Volume == [Channels -> Levels \cup {0}]

(* What is assumed of the constants.                                        *)
ConstantsOK == "device" \notin Nodes /\ None \notin Volume

Silence == [c \in Channels |-> 0]
Flat == {[c \in Channels |-> l] : l \in Levels}    \* what the others set (a bound)

-----------------------------------------------------------------------------
(* The volume and where it was found.                                       *)
collect_node_info(n) ==
  IF "device" \in om /\ cachedRoute[n] # None
    THEN [volume |-> cachedRoute[n], of |-> "device"]
    ELSE [volume |-> cachedProps[n], of |-> "node"]

(* Infos of nodes that are not in the object manager any more are swept.    *)
on_objects_changed ==
  node_infos' = [n \in Nodes |-> IF n \in om THEN collect_node_info(n) ELSE None]

ObjectsChanged ==
  /\ enabled /\ changed /\ changed' = FALSE
  /\ on_objects_changed
  /\ UNCHANGED <<enabled, server, cache, syncs, sets, expected, hasty>>

on_sync_done ==
  /\ syncs /\ syncs' = FALSE
  /\ IF enabled THEN on_objects_changed ELSE UNCHANGED node_infos
  /\ UNCHANGED <<enabled, server, cache, changed, sets, expected, hasty>>

(* What the server has for a node, and for its clients.                     *)
Of(ps, rt, n) == IF rt[n] # None THEN rt[n] ELSE ps[n]
Actual(n) == Of(props, route, n)

Quiet(n) == /\ ~changed /\ ~syncs /\ sets = <<>> /\ om = present
            /\ cachedProps[n] = props[n] /\ cachedRoute[n] = route[n]

(* Mutant: the channels that are not given are silenced.                    *)
silenced_volume(n, cs, l) == [c \in Channels |-> IF c \in cs THEN l ELSE 0]

(* The channels that are not given are kept as they are known.              *)
new_volume(n, cs, l) ==
  [c \in Channels |-> IF c \in cs THEN l ELSE node_infos[n].volume[c]]

-----------------------------------------------------------------------------
(* wp_mixer_api_set_volume: all channels or some are given.  A client that  *)
(* does not wait for its last call, or for somebody else's, to be reported, *)
(* is hasty.                                                                *)
set_volume(n) ==
  /\ enabled /\ Len(sets) < MaxSets
  /\ node_infos[n] # None
  /\ node_infos[n].of = "device" => "device" \in om
  /\ node_infos[n].of = "node" => n \in om
  /\ hasty' = IF Quiet(n) THEN hasty ELSE hasty \cup {n}
  /\ \E cs \in SUBSET Channels \ {{}}, l \in Levels :
       /\ sets' = Append(sets, [node |-> n, of |-> node_infos[n].of,
                      volume |-> new_volume(n, cs, l)])
       /\ expected' = [expected EXCEPT ![n] =
            IF n \in hasty' THEN Silence ELSE [c \in Channels |-> IF c \in cs THEN l ELSE @[c]]]
  /\ UNCHANGED <<enabled, server, cache, changed, syncs, node_infos>>

(* The server applies what was set, if it is still there to be set.         *)
SetArrives ==
  /\ sets # <<>> /\ sets' = Tail(sets)
  /\ LET s == Head(sets)
     IN  CASE s.of = "node" /\ s.node \in present ->
                props' = [props EXCEPT ![s.node] = s.volume] /\ UNCHANGED route
           [] s.of = "device" /\ "device" \in present /\ route[s.node] # None ->
                route' = [route EXCEPT ![s.node] = s.volume] /\ UNCHANGED props
           [] OTHER -> UNCHANGED <<props, route>>
  /\ UNCHANGED <<enabled, present, cache, changed, syncs, node_infos, expected, hasty>>

(* Another client sets the volume, or another route becomes active, or none.*)
OthersChange(n) ==
  /\ n \in present
  /\ \/ \E v \in Flat : props' = [props EXCEPT ![n] = v] /\ UNCHANGED route
     \/ /\ "device" \in present /\ UNCHANGED props
        /\ \E v \in Flat \cup {None} : route' = [route EXCEPT ![n] = v]
  /\ hasty' = IF sets = <<>> THEN hasty ELSE hasty \cup {n}
  /\ expected' = [expected EXCEPT ![n] = IF n \in hasty' THEN Silence ELSE Of(props', route', n)]
  /\ UNCHANGED <<enabled, present, cache, changed, syncs, node_infos, sets>>

(* Objects come and go; a route is that of a device.                        *)
ObjectComes(o) ==
  /\ o \notin present /\ present' = present \cup {o}
  /\ UNCHANGED <<props, route, expected, hasty>>
  /\ UNCHANGED <<enabled, cache, changed, syncs, node_infos, sets>>

ObjectGoes(o) ==
  /\ o \in present /\ present' = present \ {o}
  /\ IF o = "device"
       THEN route' = [n \in Nodes |-> None] /\ UNCHANGED props
       ELSE props' = [props EXCEPT ![o] = Silence] /\ UNCHANGED route
  /\ hasty' = IF sets = <<>> THEN hasty ELSE Nodes
  /\ expected' = [n \in Nodes |-> IF n \in hasty' THEN Silence ELSE Of(props', route', n)]
  /\ UNCHANGED <<enabled, cache, changed, syncs, node_infos, sets>>

(* The object manager learns of it: an object is added with its params.     *)
ObjectManaged ==
  /\ enabled /\ \E o \in (om \ present) \cup (present \ om) :
       /\ om' = IF o \in om THEN om \ {o} ELSE om \cup {o}
       /\ cachedProps' = IF o = "device" THEN cachedProps ELSE [cachedProps EXCEPT ![o] = props[o]]
       /\ cachedRoute' = IF o = "device" THEN route ELSE cachedRoute
  /\ changed' = TRUE
  /\ UNCHANGED <<enabled, server, syncs, node_infos, sets, expected, hasty>>

(* params-changed, of the Props of a node or the Route of the device        *)
on_params_changed ==
  /\ \/ \E n \in om \ {"device"} :
          /\ cachedProps[n] # props[n]
          /\ cachedProps' = [cachedProps EXCEPT ![n] = props[n]]
          /\ UNCHANGED cachedRoute
     \/ /\ "device" \in om /\ cachedRoute # route
        /\ cachedRoute' = route /\ UNCHANGED cachedProps
  /\ syncs' = TRUE
  /\ UNCHANGED <<enabled, server, om, changed, node_infos, sets, expected, hasty>>

Enable ==
  /\ ~enabled /\ enabled' = TRUE
  /\ UNCHANGED <<server, cache, changed, syncs, node_infos, sets, expected, hasty>>

Disable ==
  /\ enabled /\ enabled' = FALSE
  /\ om' = {} /\ changed' = FALSE
  /\ node_infos' = [n \in Nodes |-> None]
  /\ UNCHANGED <<server, cachedProps, cachedRoute, syncs, sets, expected, hasty>>

-----------------------------------------------------------------------------
MixerInit ==
  /\ enabled = FALSE /\ present = {} /\ om = {}
  /\ props = [n \in Nodes |-> Silence] /\ cachedProps = props
  /\ route = [n \in Nodes |-> None] /\ cachedRoute = route
  /\ changed = FALSE /\ syncs = FALSE
  /\ node_infos = [n \in Nodes |-> None] /\ sets = <<>>
  /\ expected = props /\ hasty = {}

MixerNext ==
  \/ ObjectsChanged \/ on_sync_done \/ SetArrives
  \/ ObjectManaged \/ on_params_changed \/ Enable \/ Disable
  \/ \E n \in Nodes : set_volume(n) \/ OthersChange(n)
  \/ \E o \in Nodes \cup {"device"} : ObjectComes(o) \/ ObjectGoes(o)
-----------------------------------------------------------------------------
(* When nothing is on its way, what the mixer tells of a node is what the   *)
(* server has, and is found where the next volume has to be set: the route  *)
(* of the device, if it has one, or the node.                               *)
InfoIsCurrent ==
  enabled => \A n \in Nodes : Quiet(n) =>
    IF n \in present
      THEN node_infos[n] = [volume |-> Actual(n),
             of |-> IF "device" \in present /\ route[n] # None THEN "device" ELSE "node"]
      ELSE node_infos[n] = None

(* "keep the existing volume values for unspecified channels": of clients   *)
(* that are not hasty, each channel has the volume that was asked for last. *)
ChannelsKept ==
  \A n \in (present \ {"device"}) \ hasty : sets = <<>> => Actual(n) = expected[n]

VolumesRight == InfoIsCurrent /\ ChannelsKept
=============================================================================
