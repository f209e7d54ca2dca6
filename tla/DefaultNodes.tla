---------------------------- MODULE DefaultNodes ----------------------------
(***************************************************************************)
(* The default nodes: module-default-nodes.c chooses, for each kind of     *)
(* default (sink, source, ...), the best node there is; it publishes the   *)
(* choice in the "default" metadata (metadata.c), keeps what the user      *)
(* configured together with a stack of earlier choices, and saves them     *)
(* (state.c) some time after a change. module-default-nodes-api.c caches   *)
(* the metadata for the scripts of the policy and tells them of changes.   *)
(*                                                                         *)
(* The metadata is the daemon's own WpImplMetadata (module-metadata.c), so *)
(* a property that is set is reported before the call returns. Nodes,      *)
(* ports and routes belong to the server: their changes, and the replies   *)
(* to the round trips of wp_core_sync, arrive in one queue.                *)
(***************************************************************************)
EXTENDS Integers, Sequences, FiniteSets, Functions

CONSTANTS
  Nodes,          \* the nodes that may exist, also their names
  Kinds,          \* the kinds of default: AUDIO_SINK, AUDIO_SOURCE, ...
  MediaClasses,   \* the media classes of a kind, in order of preference
  Direction,      \* the direction the ports of a kind must have
  Class,          \* the media class of a node
  Priority,       \* its "priority.session", -1 when it has none
  NodeStates,     \* the ports a node may have and the routes of its device
  EchoCancel,     \* the virtual nodes with the names of the echo canceller
  Worlds,         \* the nodes there may be at first
  Files,          \* the contents the state file may have at first
  NPrevConfigs,   \* N_PREV_CONFIGS
  MaxChanges,     \* bound on the changes of nodes, ports and routes
  MaxRequests,    \* bound on what clients write to the metadata
  MaxQueue,       \* bound on the queue when the environment acts
  MaxStops,       \* bound on the times the daemon stops or crashes
  NULL

ASSUME NPrevAssumption == NPrevConfigs \in Nat \ {0}
ASSUME NullAssumption == NULL \notin Nodes /\ "junk" \notin Nodes \cup {NULL}

Name == Nodes \cup {NULL}
Depth == 1..NPrevConfigs
Preferences == [config : Name, prev : [Depth -> Name]]

(* A name is on the stack once, and the stack has no holes.                *)
Sound(stack) ==
  \A i, j \in Depth : i < j /\ stack[j] # NULL => stack[i] \notin {NULL, stack[j]}

(* A node that is configured or on the stack comes first, and then the      *)
(* echo canceller, as long as priorities are closer than those are apart.   *)
ASSUME PriorityAssumption ==
  /\ Priority \in [Nodes -> Int]
  /\ \A a, b \in Nodes : Priority[a] - Priority[b] < 10000
ASSUME FiniteAssumption == IsFiniteSet(Nodes) /\ IsFiniteSet(Kinds)
ASSUME ClassesAssumption == \A k \in Kinds : MediaClasses[k] \in Seq(Range(MediaClasses[k]))
ASSUME WorldsAssumption == Worlds \subseteq [Nodes -> {NULL} \cup NodeStates]

ASSUME FilesAssumption ==
  \A f \in Files : f \in [Kinds -> Preferences] /\ \A k \in Kinds : Sound(f[k].prev)

VARIABLES
  world,     \* the server's nodes: NULL, or [ports, route]
  events,    \* what the server has sent and the daemon has not yet received
  seen,      \* the nodes of rescan_om, as the daemon knows them
  order,     \* those pairs of them of which it found the first one first
  attached,  \* the plugin, or the API, has found the metadata
  config,    \* config_value of each kind
  prev,      \* prev_config_value of each kind
  value,     \* the default that the plugin has set last
  pending,   \* the timeout that saves the state is running
  failed,    \* the last attempt to save failed
  file,      \* the state file
  metadata,  \* the keys of subject 0: default and configured
  cache,     \* the metadata as the API has cached it
  told,      \* what a script read from the API when it was told last
  wiped,     \* history: the keys that went with their subject, and are still gone
  budget     \* the changes, requests and stops that are left

plugin == <<attached, config, prev, value>>
storage == <<pending, failed, file>>
api == <<cache, told>>
server == <<world, events>>
view == <<seen, order>>
vars == <<server, view, plugin, storage, metadata, api, wiped, budget>>

----------------------------------------------------------------------------
(* The preferences                                                         *)

Memory == [k \in Kinds |-> [config |-> config[k], prev |-> prev[k]]]

(* The file is replaced as a whole, or not at all.                         *)
wp_state_save(props) ==
  \/ file' = props /\ failed' = FALSE
  \/ file' = file /\ failed' = TRUE

NoHistory == [i \in Depth |-> NULL]

(* The place of a name in the stack, where it is but once, or the last one.*)
PlaceOf(name, stack) ==
  IF \E i \in Depth : stack[i] = name
  THEN CHOOSE i \in Depth : stack[i] = name
  ELSE NPrevConfigs

(* Mutant: a name is pushed without being removed from further down.       *)
push_config_value(name, stack) ==
  [i \in Depth |-> IF i = 1 THEN name ELSE stack[i - 1]]

update_prev_config_values(name, stack) ==
  LET pos == PlaceOf(name, stack) IN
  [i \in Depth |-> IF i = 1 THEN name ELSE IF i <= pos THEN stack[i - 1] ELSE stack[i]]

----------------------------------------------------------------------------
(* The choice                                                              *)

(* Mutant: only the active route of the node's profile counts.             *)
node_has_available_route(node) == node.route.active # "no"

(* The active route of the node's profile decides; without one, any of the *)
(* routes that could be active. A node without routes is available.        *)
node_has_available_routes(node) ==
  IF node.route.active # NULL
  THEN node.route.active # "no"
  ELSE node.route.possible = {} \/ node.route.possible \ {"no"} # {}

Eligible(nodes, k, n) ==
  /\ nodes[n] # NULL
  /\ Direction[k] \in nodes[n].ports
  /\ node_has_available_routes(nodes[n])

(* The priority of a node: the configured one comes before the ones of the *)
(* stack, those before the echo canceller and the others.                  *)
Score(k, n) ==
  LET bonus == IF n \in EchoCancel THEN 10000 ELSE 0 IN
  Priority[n] + bonus +
    IF n = config[k] THEN 20000 * (NPrevConfigs + 1)
    ELSE IF \E i \in Depth : prev[k][i] = n
         THEN (NPrevConfigs + 1 - PlaceOf(n, prev[k])) * 20000
         ELSE 0

PlaceIn(seq, x) == CHOOSE i \in DOMAIN seq : seq[i] = x

(* find_best_media_classes_node tries the classes in their order, and      *)
(* find_best_media_class_node the nodes of one in the order in which they  *)
(* were found: the first one of the highest priority wins.                 *)
TriedBefore(k, a, b) ==
  LET class(n) == PlaceIn(MediaClasses[k], Class[n]) IN
  \/ class(a) < class(b)
  \/ class(a) = class(b) /\ <<a, b>> \in order

find_best_node(k) ==
  LET nodes == {n \in Nodes : Class[n] \in Range(MediaClasses[k]) /\ Eligible(seen, k, n)} IN
  IF nodes = {} THEN NULL
  ELSE CHOOSE n \in nodes : \A m \in nodes \ {n} :
         \/ Score(k, n) > Score(k, m)
         \/ Score(k, n) = Score(k, m) /\ TriedBefore(k, n, m)

----------------------------------------------------------------------------
(* The metadata: every change is reported to those that have attached      *)

NoMetadata == [default |-> [k \in Kinds |-> NULL], config |-> [k \in Kinds |-> NULL]]

(* The metadata holds new defaults, or new configured ones, at once.       *)
wp_metadata_set(group, new) == metadata' = [metadata EXCEPT ![group] = new]

(* wp_core_sync: the reply is queued behind what the server has sent. (The *)
(* daemon cannot tell a server that answers later from one that has sent   *)
(* more before.)                                                           *)
Schedule(received, purpose, times) ==
  events' = received \o [i \in 1..times |-> [type |-> "done", purpose |-> purpose]]

(* The best node of each kind is published if it is not the one that was   *)
(* set last. The API caches it, and lets a round trip pass before it tells.*)
reevaluate_default_node(received) ==
  \E best \in {[k \in Kinds |-> find_best_node(k)]} :
    LET changed == {k \in Kinds : best[k] # value[k]}
        store(now) == [k \in Kinds |-> IF k \in changed THEN best[k] ELSE now[k]] IN
    /\ value' = best
    /\ wp_metadata_set("default", store(metadata.default))
    /\ wiped' = wiped \ ({"default"} \X changed)
    /\ IF "api" \in attached
       THEN /\ cache' = [cache EXCEPT !.default = store(@)]
            /\ Schedule(received, "notify", Cardinality(changed))
       ELSE events' = received /\ UNCHANGED cache

timer_start == pending' = TRUE

(* The name that a value holds.                                            *)
NameIn(new) == IF new = "junk" THEN NULL ELSE new

(* A configured default has changed: a name (on top of the stack), NULL    *)
(* (the stack is forgotten) or a value without a name.                     *)
on_metadata_changed(k, new) ==
  IF "plugin" \in attached
  THEN /\ config' = [config EXCEPT ![k] = NameIn(new)]
       /\ prev' = [prev EXCEPT ![k] = CASE new = NULL -> NoHistory
                                        [] new = "junk" -> @
                                        [] OTHER -> update_prev_config_values(new, @)]
       /\ Schedule(events, "rescan", 1)
       /\ timer_start
  ELSE UNCHANGED <<config, prev, events, pending>>

----------------------------------------------------------------------------
(* The environment                                                         *)

Spend(what) == /\ budget[what] > 0 /\ Len(events) <= MaxQueue
               /\ budget' = [budget EXCEPT ![what] = @ - 1]

NodeEvent(n, s) == [type |-> "nodes", nodes |-> [i \in {n} |-> s], place |-> [i \in {n} |-> 1]]

(* A node comes, goes, gets or loses ports, or the routes of its device    *)
(* change.                                                                 *)
ServerChanges(n) ==
  /\ Spend("changes")
  /\ \E s \in ({NULL} \cup NodeStates) \ {world[n]} :
       /\ world' = [world EXCEPT ![n] = s]
       /\ events' = IF "plugin" \in attached THEN Append(events, NodeEvent(n, s)) ELSE events
  /\ UNCHANGED <<view, plugin, storage, metadata, api, wiped>>

(* A client configures a default, clears it, or writes a value without a   *)
(* name: wpctl, a mixer, or a script with set-default-configured-node-name.*)
set_default_configured_node_name(k) ==
  /\ "up" \in attached
  /\ Spend("requests")
  /\ \E new \in Name \cup {"junk"} :
       /\ wp_metadata_set("config", [metadata.config EXCEPT ![k] = new])
       /\ on_metadata_changed(k, new)
       /\ cache' = IF "api" \in attached
                   THEN [cache EXCEPT !.config[k] = NameIn(new)] ELSE cache
  /\ wiped' = wiped \ {<<"config", k>>}
  /\ UNCHANGED <<world, view, attached, value, failed, file, told>>

(* A client removes every key of the subject. WpMetadata reports this with *)
(* a NULL key, which neither the plugin nor the API looks at.              *)
ClearSubject ==
  /\ "up" \in attached
  /\ Spend("requests")
  /\ metadata' = NoMetadata
  /\ wiped' = wiped \cup {w \in {"default", "config"} \X Kinds : metadata[w[1]][w[2]] # NULL}
  /\ UNCHANGED <<server, view, plugin, storage, api>>

----------------------------------------------------------------------------
(* The daemon                                                              *)

(* The plugin finds the metadata: it publishes what is configured before   *)
(* it listens to changes, and rescan_om asks for the nodes there are.      *)
on_metadata_added ==
  /\ "up" \in attached
  /\ "plugin" \notin attached
  /\ attached' = attached \cup {"plugin"}
  /\ LET set(now) == [k \in Kinds |-> IF config[k] # NULL THEN config[k] ELSE now[k]] IN
     /\ wp_metadata_set("config", set(metadata.config))
     /\ cache' = IF "api" \in attached THEN [cache EXCEPT !.config = set(@)] ELSE cache
  /\ wiped' = wiped \ {<<"config", k>> : k \in {i \in Kinds : config[i] # NULL}}
  /\ LET there == {n \in Nodes : world[n] # NULL} IN
     \E place \in [there -> 1..Cardinality(there)] :
       /\ IsInjective(place)
       /\ events' = Append(events, [type |-> "nodes", nodes |-> Restrict(world, there),
                                    place |-> place])
  /\ UNCHANGED <<world, view, config, prev, value, storage, told, budget>>

(* The API finds the metadata and caches what is there.                    *)
ApiFindsMetadata ==
  /\ "up" \in attached
  /\ "api" \notin attached
  /\ attached' = attached \cup {"api"}
  /\ cache' = [metadata EXCEPT !.config = [k \in Kinds |-> NameIn(@[k])]]
  /\ Schedule(events, "notify", Cardinality({k \in Kinds : metadata.default[k] # NULL}))
  /\ UNCHANGED <<world, view, config, prev, value, storage, metadata, told,
                 wiped, budget>>

(* A node that goes leaves its place in the object manager to the last one *)
(* (g_ptr_array_remove_index_fast); they go one by one.                    *)
PlaceAfter(gone, n) ==
  LET known == {m \in Nodes : seen[m] # NULL}
      last  == CHOOSE m \in known : known \ {m} = {l \in known : <<l, m>> \in order}
  IN  IF gone # {} /\ n = last THEN CHOOSE g \in gone : TRUE ELSE n

(* rescan_om has changed (its first nodes are announced together), or the  *)
(* parameters of a device have.                                            *)
ReceiveNodes ==
  /\ events # <<>> /\ Head(events).type = "nodes"
  /\ LET e == Head(events)
         stay == {n \in Nodes : seen[n] # NULL /\ seen'[n] # NULL}
         new == {n \in Nodes : seen[n] = NULL /\ seen'[n] # NULL}
         gone == {n \in Nodes : seen[n] # NULL /\ seen'[n] = NULL} IN
     /\ seen' = [n \in Nodes |-> IF n \in DOMAIN e.nodes THEN e.nodes[n] ELSE seen[n]]
     /\ order' = {p \in stay \X stay : <<PlaceAfter(gone, p[1]), PlaceAfter(gone, p[2])>> \in order}
                   \cup (stay \X new)
                   \cup {p \in new \X new : e.place[p[1]] < e.place[p[2]]}
  /\ Schedule(Tail(events), "rescan", 1)
  /\ UNCHANGED <<world, plugin, storage, metadata, api, wiped, budget>>

(* Mutant: every rescan asks for another one.                              *)
sync_rescan_again ==
  /\ events # <<>> /\ Head(events) = [type |-> "done", purpose |-> "rescan"]
  /\ reevaluate_default_node(Append(Tail(events), Head(events)))
  /\ UNCHANGED <<world, view, attached, config, prev, storage, told, budget>>

sync_rescan ==
  /\ events # <<>> /\ Head(events) = [type |-> "done", purpose |-> "rescan"]
  /\ reevaluate_default_node(Tail(events))
  /\ UNCHANGED <<world, view, attached, config, prev, storage, told, budget>>

sync_changed_notification ==
  /\ events # <<>> /\ Head(events) = [type |-> "done", purpose |-> "notify"]
  /\ events' = Tail(events)
  /\ told' = cache.default
  /\ UNCHANGED <<world, view, plugin, storage, metadata, cache, wiped, budget>>

timeout_save_state_callback ==
  /\ pending
  /\ pending' = FALSE
  /\ wp_state_save(Memory)
  /\ UNCHANGED <<server, view, plugin, metadata, api, wiped, budget>>

load_state ==
  /\ config' = [k \in Kinds |-> file[k].config]
  /\ prev' = [k \in Kinds |-> file[k].prev]

(* The daemon starts: the plugin is enabled and loads its state.           *)
Start ==
  /\ "up" \notin attached
  /\ attached' = {"up"}
  /\ load_state
  /\ UNCHANGED <<server, view, value, storage, metadata, api, wiped, budget>>

(* It stops (wp_default_nodes_disable) or crashes: the timeout is          *)
(* destroyed, and the metadata goes with the process.                      *)
Down ==
  /\ attached' = {}
  /\ config' = [k \in Kinds |-> NULL]
  /\ prev' = [k \in Kinds |-> NoHistory]
  /\ value' = [k \in Kinds |-> NULL]
  /\ pending' = FALSE /\ failed' = FALSE
  /\ metadata' = NoMetadata
  /\ cache' = NoMetadata
  /\ told' = [k \in Kinds |-> NULL]
  /\ events' = <<>>
  /\ seen' = [n \in Nodes |-> NULL]
  /\ order' = {}
  /\ wiped' = {}

wp_default_nodes_disable ==
  /\ "up" \in attached
  /\ Spend("stops")
  /\ Down
  /\ UNCHANGED <<world, file>>

----------------------------------------------------------------------------

Init ==
  /\ world \in Worlds
  /\ events = <<>>
  /\ seen = [n \in Nodes |-> NULL] /\ order = {}
  /\ attached = {}
  /\ config = [k \in Kinds |-> NULL]
  /\ prev = [k \in Kinds |-> NoHistory]
  /\ value = [k \in Kinds |-> NULL]
  /\ pending = FALSE /\ failed = FALSE
  /\ file \in Files
  /\ metadata = NoMetadata
  /\ cache = NoMetadata /\ told = [k \in Kinds |-> NULL]
  /\ wiped = {}
  /\ budget = [changes |-> MaxChanges, requests |-> MaxRequests, stops |-> MaxStops]

Daemon ==
  \/ on_metadata_added \/ ApiFindsMetadata
  \/ ReceiveNodes \/ sync_rescan \/ sync_changed_notification
  \/ timeout_save_state_callback
  \/ Start

Environment ==
  \/ \E n \in Nodes : ServerChanges(n)
  \/ \E k \in Kinds : set_default_configured_node_name(k)
  \/ ClearSubject
  \/ wp_default_nodes_disable

Next == Daemon \/ Environment

(* The main loop dispatches what is ready; the init system starts the      *)
(* daemon again.                                                           *)
Spec == Init /\ [][Next]_vars /\ WF_vars(Daemon)

----------------------------------------------------------------------------
(* Properties                                                              *)

TypeOK ==
  /\ config \in [Kinds -> Name]
  /\ prev \in [Kinds -> [Depth -> Name]]
  /\ file \in [Kinds -> Preferences]
  /\ pending \in BOOLEAN /\ failed \in BOOLEAN
  /\ attached \subseteq {"up", "plugin", "api"}

(* Every choice stays on the stack until it is the oldest: no name takes   *)
(* the place of another, and none is hidden behind a hole.                 *)
StackSound == \A k \in Kinds : Sound(prev[k])

(* Whatever clients configure, however the daemon stopped before and       *)
(* whichever saves failed: what the file holds is what the plugin has in   *)
(* memory, unless a save is about to happen or the last one failed.        *)
Stored ==
  "up" \in attached /\ ~pending /\ ~failed => file = Memory

(* The daemon has nothing left to do.                                      *)
Quiet == events = <<>> /\ {"plugin", "api"} \subseteq attached

(* The place of a node in the user's preference: configured, or on the     *)
(* stack, or neither.                                                      *)
Rank(k, n) == IF n = config[k] THEN 0
              ELSE IF \E i \in Depth : prev[k][i] = n
                   THEN PlaceOf(n, prev[k]) ELSE NPrevConfigs + 1

Plugged(route) ==
  LET routes == IF route.active = NULL THEN route.possible ELSE {route.active} IN
  routes # {} => \E r \in routes : r # "no"

Candidates(k) ==
  {n \in Nodes : /\ Class[n] \in Range(MediaClasses[k])
                 /\ world[n] # NULL
                 /\ Direction[k] \in world[n].ports /\ Plugged(world[n].route)}

Better(k, a, b) ==
  \/ Rank(k, a) < Rank(k, b)
  \/ Rank(k, a) = Rank(k, b) /\ a \in EchoCancel /\ b \notin EchoCancel
  \/ Rank(k, a) = Rank(k, b) /\ (a \in EchoCancel <=> b \in EchoCancel)
     /\ Priority[a] > Priority[b]

(* When everything is quiet the published default is a node that the       *)
(* server really has, with the ports and routes it needs, and none is      *)
(* better: configured by the user, then chosen before, then by priority.   *)
DefaultIsBest ==
  Quiet => \A k \in Kinds : <<"default", k>> \notin wiped =>
    IF Candidates(k) = {}
    THEN metadata.default[k] = NULL
    ELSE /\ metadata.default[k] \in Candidates(k)
         /\ \A n \in Candidates(k) : ~Better(k, n, metadata.default[k])

(* The API answers with what the metadata holds, at every moment, and when *)
(* everything is quiet a script that waits for "changed" has read it too.  *)
ApiUpToDate ==
  /\ "api" \in attached =>
       \A k \in Kinds :
         /\ <<"default", k>> \notin wiped => cache.default[k] = metadata.default[k]
         /\ <<"config", k>> \notin wiped => cache.config[k] = NameIn(metadata.config[k])
  /\ Quiet => told = cache.default

Consistent == TypeOK /\ StackSound /\ Stored

(* The rescans end: whatever happens to the nodes, once it has stopped the *)
(* defaults and what the scripts were told no longer change.               *)
Settles == <>[](Quiet /\ ~pending)

(* module-default-nodes.c:392 says of the default: "store it in the        *)
(* metadata if it was changed". When the keys of the subject are removed   *)
(* the default has changed, and nothing stores it again.                   *)
StoredIfChanged ==
  Quiet => \A k \in Kinds : Candidates(k) # {} => metadata.default[k] # NULL

(* 40-device-defaults.lua:5 says that preferences are stored and restored  *)
(* at the start: a clean stop keeps what was configured.                   *)
PreferencesPersist == []["up" \in attached /\ attached' = {} => file = Memory \/ failed]_vars

(* When everything is quiet the published default is the best node, and the *)
(* API and the scripts know it.                                             *)
DefaultsAgree == DefaultIsBest /\ ApiUpToDate
=============================================================================
