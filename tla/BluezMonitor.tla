---------------------------- MODULE BluezMonitor ----------------------------
(***************************************************************************)
(* The Bluetooth monitor: src/scripts/monitors/bluez.lua over the          *)
(* WpSpaDevice of lib/wp/device.c.  BlueZ reports devices that are         *)
(* connected or not; the script keeps a WpSpaDevice of each, activates it  *)
(* while it is connected, and makes its nodes.  The leader of a device set *)
(* is made by a module, stored COMBINE_OFFSET above its number; the node   *)
(* that the module creates comes back through the server, and is stored    *)
(* under the number itself, so that it is told of the volumes.             *)
(***************************************************************************)
EXTENDS Naturals, FiniteSets

CONSTANTS
  Devices,       \* the numbers under which BlueZ reports devices
  Ids,           \* the numbers of the nodes of a device
  Leaders,       \* those that stand for a device set
  MaxAnnounced,  \* nodes of one set on their way from the server (a bound)
  None

VARIABLES
  active,     \* is the seat active?  Without logind, it always is
  bluez,      \* of each device, what BlueZ tells of it
  object,     \* of each, is there a WpSpaDevice?
  activating, \* of each, is an activation under way?
  enabled,    \* of each, has it WP_SPA_DEVICE_FEATURE_ENABLED?
  nodes,      \* of each that is enabled, the nodes that it reported
  managed,    \* of each, its managed objects
  combine,    \* of each, those COMBINE_OFFSET above: the modules of its sets
  announced,  \* of each set, the nodes that are on their way from the server
  present,    \* of each, the sets whose node is in device_set_nodes_om
  configured  \* of each, the nodes that have the volumes of their route

bluezVars == <<active, bluez, object, activating, enabled, nodes, managed, combine,
               announced, present, configured>>

(* What is assumed of the constants.                                        *)
ConstantsOK == None \notin {"local", "node of the set"}

NoObjects == [i \in Ids |-> None]

-----------------------------------------------------------------------------
(* ENABLED is deactivated: the managed objects are dropped.  An export that *)
(* follows has another number on the server, where the nodes that are still *)
(* on their way look for the old one.                                       *)
Cleared(ds) ==
  /\ enabled' = [d \in Devices |-> enabled[d] /\ d \notin ds]
  /\ nodes' = [d \in Devices |-> IF d \in ds THEN {} ELSE nodes[d]]
  /\ managed' = [d \in Devices |-> IF d \in ds THEN NoObjects ELSE managed[d]]
  /\ combine' = [d \in Devices |-> IF d \in ds THEN {} ELSE combine[d]]
  /\ announced' = [d \in Devices |->
                     IF d \in ds THEN [i \in Ids |-> 0] ELSE announced[d]]
  /\ present' = [d \in Devices |-> IF d \in ds THEN {} ELSE present[d]]
  /\ configured' = [d \in Devices |-> IF d \in ds THEN {} ELSE configured[d]]

(* createDevice: the SpaDevice is made when it is first heard of, and is    *)
(* activated or deactivated each time.  What has not been activated yet     *)
(* cannot be deactivated: an activation that is under way goes on.          *)
createDevice(d, state) ==
  /\ object' = [object EXCEPT ![d] = TRUE]
  /\ activating' = [activating EXCEPT ![d] = @ \/ (state = "connected" /\ ~enabled[d])]
  /\ Cleared(IF state = "connected" THEN {} ELSE {d})

(* object_info of the monitor, for a device that is there.                  *)
Reported(d, state) ==
  /\ bluez[d] # state
  /\ bluez' = [bluez EXCEPT ![d] = state]
  /\ IF active THEN createDevice(d, state)
     ELSE UNCHANGED <<object, activating, enabled, nodes, managed, combine, announced,
                      present, configured>>
  /\ UNCHANGED active

Destroyed(ds) ==
  /\ object' = [d \in Devices |-> object[d] /\ d \notin ds]
  /\ activating' = [d \in Devices |-> activating[d] /\ d \notin ds]
  /\ Cleared(ds)

Removed(d) ==
  /\ bluez[d] # "gone"
  /\ bluez' = [bluez EXCEPT ![d] = "gone"]
  /\ Destroyed({d})
  /\ UNCHANGED active

(* startStopMonitor: the monitor is made, and is told of all the devices.   *)
createMonitor ==
  /\ ~active /\ active' = TRUE
  /\ object' = [d \in Devices |-> bluez[d] # "gone"]
  /\ activating' = [d \in Devices |-> bluez[d] = "connected"]
  /\ UNCHANGED <<bluez, enabled, nodes, managed, combine, announced, present,
                 configured>>

(* Its deactivation drops the devices, which are its managed objects.       *)
stopMonitor ==
  /\ active /\ active' = FALSE
  /\ Destroyed(Devices)
  /\ UNCHANGED bluez

(* The device is exported and gets its listener.                            *)
Enabled(d) ==
  /\ activating[d]
  /\ activating' = [activating EXCEPT ![d] = FALSE]
  /\ enabled' = [enabled EXCEPT ![d] = TRUE]
  /\ UNCHANGED <<active, bluez, object, nodes, managed, combine, announced, present,
                 configured>>

createNode(d, i) ==
  /\ enabled[d] /\ bluez[d] = "connected" /\ i \notin nodes[d]
  /\ nodes' = [nodes EXCEPT ![d] = @ \cup {i}]
  /\ IF i \in Leaders
       THEN /\ announced[d][i] < MaxAnnounced
            /\ announced' = [announced EXCEPT ![d][i] = @ + 1]
            /\ combine' = [combine EXCEPT ![d] = @ \cup {i}]
            /\ UNCHANGED <<managed, configured>>
       ELSE /\ managed' = [managed EXCEPT ![d][i] = "local"]
            /\ configured' = [configured EXCEPT ![d] = @ \cup {i}]
            /\ UNCHANGED <<combine, announced>>
  /\ UNCHANGED <<active, bluez, object, activating, enabled, present>>

(* removeNode, and what the SpaDevice does after it.                        *)
removeNode(d, i) ==
  /\ enabled[d] /\ i \in nodes[d]
  /\ nodes' = [nodes EXCEPT ![d] = @ \ {i}]
  /\ combine' = [combine EXCEPT ![d] = @ \ {i}]
  /\ managed' = [managed EXCEPT ![d][i] = None]
  /\ configured' = [configured EXCEPT ![d] = @ \ {i}]
  /\ UNCHANGED <<active, bluez, object, activating, enabled, announced, present>>

(* Mutant: the routes are not set again.                                    *)
SetNodeStored(d, i) ==
  /\ announced[d][i] > 0
  /\ announced' = [announced EXCEPT ![d][i] = @ - 1]
  /\ present' = [present EXCEPT ![d] = @ \cup {i}]
  /\ managed' = [managed EXCEPT ![d][i] = "node of the set"]
  /\ UNCHANGED <<active, bluez, object, activating, enabled, nodes, combine, configured>>

(* object-added of device_set_nodes_om; the routes are set again.           *)
SetNodeAdded(d, i) ==
  /\ announced[d][i] > 0
  /\ announced' = [announced EXCEPT ![d][i] = @ - 1]
  /\ present' = [present EXCEPT ![d] = @ \cup {i}]
  /\ managed' = [managed EXCEPT ![d][i] = "node of the set"]
  /\ configured' = [configured EXCEPT ![d] = @ \cup {i}]
  /\ UNCHANGED <<active, bluez, object, activating, enabled, nodes, combine>>

(* The node of a module that was unloaded goes, and nobody looks at it; the *)
(* server tells of it before it tells of the next.                          *)
SetNodeGone(d, i) ==
  /\ i \in present[d] /\ (i \notin combine[d] \/ announced[d][i] > 0)
  /\ present' = [present EXCEPT ![d] = @ \ {i}]
  /\ UNCHANGED <<active, bluez, object, activating, enabled, nodes, managed, combine,
                 announced, configured>>

(* The volume of a route changes: spa_device_event_event passes it on to    *)
(* the managed object, when it is a WpNode.                                 *)
SetRoute(d, i) ==
  /\ enabled[d] /\ i \in nodes[d]
  /\ configured' = [configured EXCEPT ![d] =
                      IF managed[d][i] # None THEN @ \cup {i} ELSE @ \ {i}]
  /\ UNCHANGED <<active, bluez, object, activating, enabled, nodes, managed, combine,
                 announced, present>>

-----------------------------------------------------------------------------
BluezInit ==
  /\ active \in BOOLEAN
  /\ bluez = [d \in Devices |-> "gone"]
  /\ object = [d \in Devices |-> FALSE] /\ activating = [d \in Devices |-> FALSE]
  /\ enabled = [d \in Devices |-> FALSE] /\ nodes = [d \in Devices |-> {}]
  /\ managed = [d \in Devices |-> NoObjects] /\ combine = [d \in Devices |-> {}]
  /\ announced = [d \in Devices |-> [i \in Ids |-> 0]]
  /\ present = [d \in Devices |-> {}] /\ configured = [d \in Devices |-> {}]

BluezNext ==
  \/ createMonitor \/ stopMonitor
  \/ \E d \in Devices :
       \/ \E state \in {"connected", "disconnected"} : Reported(d, state)
       \/ Removed(d) \/ Enabled(d)
       \/ \E i \in Ids :
            \/ createNode(d, i) \/ removeNode(d, i) \/ SetRoute(d, i)
            \/ SetNodeAdded(d, i) \/ SetNodeGone(d, i)
-----------------------------------------------------------------------------
(* There is a WpSpaDevice of each device that BlueZ reports to an active    *)
(* seat, enabled or being so while it is connected; the objects of one that *)
(* is enabled are those of the nodes that it reported.                      *)
MirrorsBlueZ ==
  \A d \in Devices :
    /\ object[d] <=> active /\ bluez[d] # "gone"
    /\ object[d] /\ bluez[d] = "connected" => enabled[d] \/ activating[d]
    /\ combine[d] = nodes[d] \cap Leaders
    /\ {i \in Ids : managed[d][i] = "local"} = nodes[d] \ Leaders
    /\ ~object[d] => ~enabled[d] /\ ~activating[d]
    /\ ~enabled[d] => managed[d] = NoObjects

(* The nodes that are there, those of device sets included, have the        *)
(* volumes of their routes, in whatever order they were made, announced,    *)
(* made again and told of volumes.                                          *)
VolumesReachNodes ==
  \A d \in Devices : \A i \in nodes[d] :
    i \in Leaders /\ i \in present[d] /\ announced[d][i] = 0
      => i \in configured[d] /\ managed[d][i] = "node of the set"

BluezRight == MirrorsBlueZ /\ VolumesReachNodes
=============================================================================
