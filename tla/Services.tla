------------------------------ MODULE Services ------------------------------
(***************************************************************************)
(* What the daemon shares with other programs, each part with the programs *)
(* it is shared with: the reservation of a device (ReserveDevice), the bus *)
(* that reservations and permissions live on (Dbus), metadata (Metadata),  *)
(* and the endpoints that it exports (AudioEndpoint).  They have no state  *)
(* in common, so a behaviour is about one of them, its subject.            *)
(***************************************************************************)
EXTENDS ReserveDevice

CONSTANTS
  SubjectsRun,                                         \* which parts are run
  Names, Permissions, MaxAttempts, MaxNews, Lapses, \* of Dbus
  Places, Writes, MaxEvents, MaxBindings, MetadataLapses,
  Items, Values, Scenes, MaxActivations, MaxComing, EndpointLapses,
  NULL

VARIABLES
  subject,
  state, dbus_connection, enabled, has_cancellable, attempts, tried, syncs,
  core_connected, has_address, leaked, status, manager, reserve_devices,
  signal_id, subscriptions, stored, news, known, looked_up,
  kind, properties, core_up, binding, bound, data, metadata, told, requests,
  events, served, plugin, has_impl,
  scene, endpoint_core_up, si, serial, value, coming, listener, to_listener, to_endpoint

B == INSTANCE Dbus
M == INSTANCE Metadata
E == INSTANCE AudioEndpoint WITH core_up <- endpoint_core_up

ASSUME SubjectsAssumption == SubjectsRun \subseteq {"reservation", "bus", "metadata", "endpoint"}
ASSUME BusAssumption == B!DbusAssumption
ASSUME MetadataLapsesAssumption == MetadataLapses \subseteq {"rebind"}
ASSUME EndpointsAssumption == E!EndpointAssumption

dbusVars == <<state, dbus_connection, enabled, has_cancellable, attempts, tried, syncs,
              core_connected, has_address, leaked, status, manager, reserve_devices,
              signal_id, subscriptions, stored, news, known, looked_up>>
metadataVars == <<kind, properties, core_up, binding, bound, data, metadata, told, requests,
                  events, served, plugin, has_impl>>
endpointVars == <<scene, endpoint_core_up, si, serial, value, coming, listener, to_listener,
                  to_endpoint>>
serviceVars == <<subject, vars, dbusVars, metadataVars, endpointVars>>

(* What is not the subject starts in one way. *)
ServicesInit ==
  /\ subject \in SubjectsRun
  /\ Init /\ B!DbusInit /\ M!MetadataInit /\ E!EndpointInit
  /\ subject # "reservation" => crowd = CHOOSE c \in Crowds : TRUE
  /\ subject # "bus" => has_address /\ stored = CHOOSE p \in Permissions : TRUE
  /\ subject # "metadata" => kind = "proxy"
  /\ subject # "endpoint" => /\ scene = CHOOSE s \in Scenes : TRUE
                             /\ value = [i \in Items |-> CHOOSE v \in Values : TRUE]

ServicesNext ==
  \/ /\ subject = "reservation" /\ Next
     /\ UNCHANGED <<subject, dbusVars, metadataVars, endpointVars>>
  \/ /\ subject = "bus" /\ B!DbusNext
     /\ UNCHANGED <<subject, vars, metadataVars, endpointVars>>
  \/ /\ subject = "metadata" /\ M!MetadataNext
     /\ UNCHANGED <<subject, vars, dbusVars, endpointVars>>
  \/ /\ subject = "endpoint" /\ E!EndpointNext
     /\ UNCHANGED <<subject, vars, dbusVars, metadataVars>>

(* The fairness of ReserveDevice, with the guards of its actions written out, which
   TLC evaluates faster than ENABLED. *)
Calm == subject # "reservation"

ReservationFairness ==
  \A p \in Peers :
    /\ []<>(Calm \/ p \notin up \/ toBus[p] = <<>>) \/ []<><<BusServes(p)>>_vars
    /\ []<>(Calm \/ p \notin up \/ toPeer[p] = <<>>) \/ []<><<Dispatch(p)>>_vars
    /\ \/ []<>(Calm \/ p \notin up \ scripted \/ rd[p].req_rel_invocation = None)
       \/ []<><<ClientAnswers(p)>>_vars
    /\ \/ []<>(Calm \/ p \notin (up \cap scripted) \ unplugged \/ rd[p].created)
       \/ []<><<CreateReservation(p)>>_vars
    /\ \/ []<>(Calm \/ p \notin up \/ rd[p].step # "request release" \/ ~Unanswered(p))
       \/ []<><<Unanswered(p) /\ CallTimesOut(p)>>_vars

(* What waits on the bus is served by the main loop of the daemon and by the bus;
   the item by that loop and the server. *)
BusFairness ==
  /\ WF_dbusVars(subject = "bus" /\ B!wp_dbus_enable)
  /\ WF_dbusVars(subject = "bus" /\ B!on_dbus_activated)
  /\ WF_dbusVars(subject = "bus" /\ B!on_sync_reconnect)
  /\ WF_dbusVars(subject = "bus" /\ \E a \in attempts : B!on_got_bus(a))

EndpointFairness ==
  \A i \in Items : WF_endpointVars(subject = "endpoint" /\ E!EndpointLoop(i))

ServicesSpec ==
  /\ ServicesInit /\ [][ServicesNext]_serviceVars
  /\ ReservationFairness /\ BusFairness /\ EndpointFairness
-----------------------------------------------------------------------------
(* The plugins follow the connection to the bus, whatever is lost and made again:
   reservations are exported on the connection that there is, and the permissions
   that a script has looked up are those that are stored (Dbus). *)
BusFollowed == B!BusFollowed

(* The copy of the metadata is what the server has, but for what is on its way, and
   its listeners have been told of all of it (Metadata). *)
MetadataMirrored == M!MetadataMirrored

(* An endpoint that is exported is backed by its node, answers for its parameters,
   and is given up when it is lost, and only it (AudioEndpoint). *)
EndpointsSound == E!EndpointsSound

(* "toggle the serial flag; this notifies that there is a data change": whoever
   listens to an endpoint has its parameter when nothing is on its way. *)
ListenersFollow == E!ListenersFollow

(* Whoever waits is answered: acquisitions of a device end and monitors agree on who
   has it, the plugins are enabled or told why not, a lost bus is connected or given
   up, and items are activated or told why not. *)
EverybodyAnswered ==
  /\ subject = "reservation" => Agreement
  /\ subject = "bus" => B!BusComesBack
  /\ subject = "endpoint" => E!EndpointsAnswer
-----------------------------------------------------------------------------
(* Constants for the runs: two peers, of which any may be scripted and to which all
   may happen, or three monitors, to which nothing does (a client and two monitors
   are too many states for the run); no two have the same priority; metadata of two
   subjects, with and without a type; one endpoint whose listener subscribes or not,
   or two that are not subscribed to. *)
CONSTANTS p1, p2, p3, e1, e2

MCFailures == {"crash", "unplug", "timeout", "proxy"}
MCPairs == {[up |-> {p1, p2}, scripted |-> s, failures |-> MCFailures] : s \in SUBSET {p1, p2}}
MCMonitors == {[up |-> Peers, scripted |-> Peers, failures |-> {}]}
MCCrowds == MCPairs \cup MCMonitors
MCClients == {[up |-> Peers, scripted |-> {p2, p3}, failures |-> {}]}
MCPriority == [p \in Peers |-> CASE p = p1 -> -20 [] p = p2 -> 0 [] p = p3 -> 20]
MCPlaces == {<<"s1", "k1">>, <<"s1", "k2">>, <<"s2", "k1">>}
MCWrites == {[type |-> NULL, value |-> "v"], [type |-> "Spa:Id", value |-> "w"]}
MCOneEndpoint == {[items |-> {e1}, subscribers |-> s] : s \in SUBSET {e1}}
MCTwoEndpoints == {[items |-> {e1, e2}, subscribers |-> {}]}
=============================================================================
