---------------------------- MODULE AlsaMonitor ----------------------------
(***************************************************************************)
(* The ALSA monitor: src/scripts/monitors/alsa.lua over the WpSpaDevice of *)
(* lib/wp/device.c.  The SPA plugin reports sound cards to the monitor and *)
(* nodes to the device of each card, and the script makes a WpSpaDevice or *)
(* a WpNode of them, with a name that no other has.  With reservation, it  *)
(* keeps the device of a card only while the name of the card on D-Bus is  *)
(* its own (see ReserveDevice).                                            *)
(*                                                                         *)
(* A name is <<base, counter>>, the first of a base without a suffix; the   *)
(* base of a node has the name of its device in it.                        *)
(***************************************************************************)
EXTENDS Naturals, Sequences, SequencesExt, FiniteSetsExt

CONSTANTS
  Cards,          \* the numbers under which the SPA plugin reports cards
  CardName,       \* of each card, the sanitized name of its device
  Nodes,          \* the nodes of a card, in the order of their numbers
  Profile,        \* of each node, the name of its profile
  Configs,        \* what the script may find: see config
  LastCounter,    \* 99 in the script
  MaxDisturbances,\* unpluggings, losses of the card, restarts of D-Bus (a bound)
  None

VARIABLES
  config,         \* reserving: is there a plugin for reservations?  broken: the
                  \* cards whose SPA device cannot be loaded.  disabled: the
                  \* cards and nodes that a rule disables
  monitor,        \* does the monitor exist?
  plugged,        \* the cards that are there
  profile,        \* of each device that is enabled, the nodes of its profile
  rd,             \* of each card, the state of its reservation
  name,           \* of each card, the name that prepareDevice gave it
  device,         \* of each card, how far its WpSpaDevice got
  node,           \* of each card, the names of its managed nodes
  info,           \* of each card, the nodes whose properties have arrived
  device_names_table, node_names_table,
  lost,           \* the names that the script does not give back: see Lose
  disturbances

alsaVars == <<config, monitor, plugged, profile, rd, name, device, node,
              info, device_names_table, node_names_table, lost, disturbances>>

NodeSet == Range(Nodes)
NoNodes == [n \in NodeSet |-> None]
NoCards ==
  [rd |-> [c \in Cards |-> "none"], name |-> [c \in Cards |-> None],
   device |-> [c \in Cards |-> "none"], profile |-> [c \in Cards |-> {}],
   node |-> [c \in Cards |-> NoNodes], info |-> [c \in Cards |-> {}]]

DeviceNames == {<<CardName[c]>> : c \in Cards} \X (1..LastCounter)
NodeNames == (DeviceNames \X {Profile[n] : n \in NodeSet}) \X (1..LastCounter)

ConstantsOK ==
  /\ LastCounter \in Nat \ {0} /\ None \notin DeviceNames \cup NodeNames
  /\ Nodes \in Seq(NodeSet) /\ IsInjective(Nodes) /\ IsFiniteSet(Cards)
  /\ Configs \subseteq [reserving : BOOLEAN, broken : SUBSET Cards,
                        disabled : SUBSET (Cards \cup NodeSet)]

-----------------------------------------------------------------------------
World == [monitor |-> monitor, rd |-> rd, name |-> name, device |-> device,
          profile |-> profile, node |-> node, info |-> info, device_names_table |-> device_names_table,
          node_names_table |-> node_names_table, lost |-> lost]

Becomes(w) ==
  /\ monitor' = w.monitor /\ rd' = w.rd /\ name' = w.name
  /\ device' = w.device /\ profile' = w.profile
  /\ node' = w.node /\ info' = w.info /\ lost' = w.lost
  /\ device_names_table' = w.device_names_table
  /\ node_names_table' = w.node_names_table

(* The first name that is free, which is taken.  The last one that the loop *)
(* makes is neither checked nor taken.                                      *)
Deduplicated(base, table) ==
  LET free == {k \in 1..(LastCounter - 1) : <<base, k>> \notin table}
  IN  IF free = {} THEN [name |-> <<base, LastCounter>>, table |-> table]
      ELSE [name |-> <<base, Min(free)>>, table |-> table \cup {<<base, Min(free)>>}]

NamesOf(w, c, ns) == {w.node[c][n] : n \in ns} \ {None}

(* Mutant: the iterator stops at the first number without an object.        *)
managed_objects_to_hole(w, c) ==
  {i \in DOMAIN Nodes : \A j \in 1..i : w.node[c][Nodes[j]] # None}

(* new_managed_object_iterator passes over the numbers that have no object. *)
managed_objects(w, c) == {i \in DOMAIN Nodes : w.node[c][Nodes[i]] # None}

(* The proxy of a node that is replaced or removed loses its last reference *)
(* and takes its properties with it.                                        *)
store_managed_object(w, c, n, object) ==
  [w EXCEPT !.node[c][n] = object, !.info[c] = @ \ {n}]

(* With the SpaDevice, its nodes go, and its object-removed is not emitted. *)
finalize(w, c) ==
  [w EXCEPT !.device[c] = "none", !.profile[c] = {}, !.node[c] = NoNodes,
            !.info[c] = {}]

(* Names that this script never frees: the table keeps them until the       *)
(* monitor is made again.                                                   *)
Lose(w, names) == [w EXCEPT !.lost = @ \cup names]

-----------------------------------------------------------------------------
createNode(w, c, n) ==
  LET unique == Deduplicated(<<w.name[c], Profile[n]>>, w.node_names_table)
  IN  IF n \in config.disabled THEN w
      ELSE store_managed_object([w EXCEPT !.node_names_table = unique.table],
                                c, n, unique.name)

(* The handler of object-removed of a card, and what the SpaDevice does     *)
(* after it.  Without properties, their index raises an error.              *)
removeNode(w, c, n) ==
  LET freed == IF w.node[c][n] = None THEN w
               ELSE IF n \notin w.info[c] THEN Lose(w, {w.node[c][n]})
               ELSE [w EXCEPT !.node_names_table = @ \ {w.node[c][n]}]
  IN  store_managed_object(freed, c, n, None)

createDevice(w, c, there) ==
  IF c \in config.broken \/ c \notin there THEN w
  ELSE [finalize(w, c) EXCEPT !.device[c] = "created"]

prepareDevice(w, c, there) ==
  LET unique == Deduplicated(<<CardName[c]>>, w.device_names_table)
      named  == [w EXCEPT !.name[c] = unique.name, !.device_names_table = unique.table]
  IN  IF c \in config.disabled THEN w
      ELSE IF config.reserving THEN [named EXCEPT !.rd[c] = "acquiring"]
      ELSE createDevice(named, c, there)

(* The handler of object-removed of the monitor.  Without a device it does  *)
(* nothing; the error of a node without properties ends its loop.           *)
removeDevice(w, c) ==
  LET managed == managed_objects(w, c)
      freed   == {i \in managed : \A j \in managed : j <= i => Nodes[j] \in w.info[c]}
      Names(is) == NamesOf(w, c, {Nodes[i] : i \in is})
  IN  IF w.device[c] = "none"
        THEN IF c \in config.disabled THEN w ELSE Lose(w, {w.name[c]})
        ELSE finalize(
               Lose([w EXCEPT !.rd[c] = "none", !.name[c] = None,
                              !.device_names_table = @ \ {w.name[c]},
                              !.node_names_table = @ \ Names(freed)],
                    Names(managed \ freed)), c)

(* createMonitor: the plugin reports the cards that are there when it is    *)
(* activated.                                                               *)
createMonitor(w, order) ==
  FoldLeft(LAMBDA v, c : prepareDevice(v, c, Range(order)),
           [w EXCEPT !.monitor = TRUE, !.device_names_table = {},
                     !.node_names_table = {}, !.lost = {}],
           order)

-----------------------------------------------------------------------------
Disturb == disturbances < MaxDisturbances /\ disturbances' = disturbances + 1

(* object_info of the monitor: a card is plugged in, or removed.            *)
Plug(c) ==
  /\ c \notin plugged /\ rd[c] # "acquiring"  \* the bus is faster than a hand
  /\ plugged' = plugged \cup {c}
  /\ Becomes(IF monitor THEN prepareDevice(World, c, plugged') ELSE World)
  /\ UNCHANGED <<config, disturbances>>

Unplug(c) ==
  /\ c \in plugged /\ Disturb
  /\ plugged' = plugged \ {c}
  /\ Becomes(IF monitor THEN removeDevice(World, c) ELSE World)
  /\ UNCHANGED config

(* The device is exported, and its listener is told of its nodes.           *)
Enable(c) ==
  /\ device[c] = "created"
  /\ \E ns \in SUBSET NodeSet :
       Becomes(FoldLeft(LAMBDA w, n : IF n \in ns THEN createNode(w, c, n) ELSE w,
                        [World EXCEPT !.device[c] = "enabled", !.profile[c] = ns],
                        Nodes))
  /\ UNCHANGED <<config, plugged, disturbances>>

(* object_info of a device: its profile changes, a node at a time.          *)
NodeAppears(c, n) ==
  /\ device[c] = "enabled" /\ n \notin profile[c]
  /\ Becomes(createNode([World EXCEPT !.profile[c] = @ \cup {n}], c, n))
  /\ UNCHANGED <<config, plugged, disturbances>>

NodeVanishes(c, n) ==
  /\ device[c] = "enabled" /\ n \in profile[c]
  /\ IF n \in info[c] \cup config.disabled THEN UNCHANGED disturbances ELSE Disturb
  /\ Becomes(removeNode([World EXCEPT !.profile[c] = @ \ {n}], c, n))
  /\ UNCHANGED <<config, plugged>>

(* The server tells of the properties of a node that was created.           *)
NodeInfo(c, n) ==
  /\ node[c][n] # None /\ n \notin info[c]
  /\ info' = [info EXCEPT ![c] = @ \cup {n}]
  /\ UNCHANGED <<config, monitor, plugged, profile, rd, name, device, node,
                 device_names_table, node_names_table, lost, disturbances>>

(* notify::state of the reservation.                                        *)
Acquired(c) ==
  /\ rd[c] = "acquiring"
  /\ Becomes(createDevice([World EXCEPT !.rd[c] = "acquired"], c, plugged))
  /\ UNCHANGED <<config, plugged, disturbances>>

Busy(c) ==
  /\ rd[c] \in {"acquiring", "released"}
  /\ rd[c] = "released" \/ Disturb
  /\ rd[c] = "released" => UNCHANGED disturbances
  /\ Becomes(finalize([World EXCEPT !.rd[c] = "busy"], c))
  /\ UNCHANGED <<config, plugged>>

Available(c) ==
  /\ rd[c] \in {"busy", "released"}
  /\ Becomes([World EXCEPT !.rd[c] = "acquiring"])
  /\ UNCHANGED <<config, plugged, disturbances>>

(* release-requested: the names of the nodes stay in the table.             *)
ReleaseRequested(c) ==
  /\ rd[c] = "acquired" /\ Disturb
  /\ Becomes(finalize(Lose([World EXCEPT !.rd[c] = "released"],
                           NamesOf(World, c, NodeSet)), c))
  /\ UNCHANGED <<config, plugged>>

(* notify::state of D-Bus, after the plugin dropped its reservations.       *)
DBusCloses ==
  /\ config.reserving /\ monitor /\ Disturb
  /\ Becomes([World EXCEPT !.monitor = FALSE, !.rd = NoCards.rd, !.name = NoCards.name,
                            !.device = NoCards.device, !.profile = NoCards.profile,
                            !.node = NoCards.node, !.info = NoCards.info])
  /\ UNCHANGED <<config, plugged>>

DBusConnects ==
  /\ config.reserving /\ ~monitor
  /\ \E order \in Bijection(1..Cardinality(plugged), plugged) :
       Becomes(createMonitor(World, order))
  /\ UNCHANGED <<config, plugged, disturbances>>

-----------------------------------------------------------------------------
AlsaInit ==
  /\ config \in Configs
  /\ monitor = TRUE /\ plugged = {}
  /\ rd = NoCards.rd /\ name = NoCards.name /\ device = NoCards.device
  /\ profile = NoCards.profile /\ node = NoCards.node /\ info = NoCards.info
  /\ device_names_table = {} /\ node_names_table = {} /\ lost = {}
  /\ disturbances = 0

AlsaNext ==
  \/ \E c \in Cards :
       \/ Plug(c) \/ Unplug(c) \/ Enable(c)
       \/ Acquired(c) \/ Busy(c) \/ Available(c) \/ ReleaseRequested(c)
       \/ \E n \in NodeSet : NodeAppears(c, n) \/ NodeVanishes(c, n) \/ NodeInfo(c, n)
  \/ DBusCloses \/ DBusConnects
-----------------------------------------------------------------------------
Existing == {c \in Cards : device[c] # "none"}
Named == {p \in Cards \X NodeSet : node[p[1]][p[2]] # None}

(* No two devices and no two nodes that exist at the same time have the     *)
(* same name, although names outlive their owners, and owners the device:   *)
(* a card keeps its name while another application has it.  Only the last   *)
(* name that a base can have is given twice, after all others are taken.    *)
NamesDistinct ==
  /\ \A c, d \in {b \in Cards : name[b] # None} :
       name[c] = name[d] => c = d \/ name[c][2] = LastCounter
  /\ \A x, y \in Named :
       node[x[1]][x[2]] = node[y[1]][y[2]] => x = y \/ node[x[1]][x[2]][2] = LastCounter

(* A name is free again when its owner is gone, unless it was lost: the     *)
(* owner was taken over by another application, was removed while it was,   *)
(* or was removed before its properties arrived.                            *)
NamesRecycled ==
  monitor =>
    /\ device_names_table \subseteq lost \cup {name[c] : c \in Cards}
    /\ node_names_table \subseteq lost \cup UNION {NamesOf(World, c, NodeSet) : c \in Cards}

(* There is a device for just the cards that are there, are wanted and, if  *)
(* need be, acquired; and for each, the nodes of its profile.               *)
MirrorsHardware ==
  monitor =>
    /\ Existing = {c \in plugged \ (config.disabled \cup config.broken) :
                     config.reserving => rd[c] = "acquired"}
    /\ \A c \in Cards : {n \in NodeSet : node[c][n] # None} =
         IF device[c] = "enabled" THEN profile[c] \ config.disabled ELSE {}

DevicesNamed == NamesDistinct /\ NamesRecycled /\ MirrorsHardware
=============================================================================
