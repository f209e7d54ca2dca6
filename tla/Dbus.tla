-------------------------------- MODULE Dbus --------------------------------
(***************************************************************************)
(* The connection to a message bus (lib/wp/dbus.c) and the two plugins     *)
(* that live on it: module-reserve-device/plugin.c, which exports the      *)
(* reservations, and module-portal-permissionstore.c, which follows the    *)
(* permissions that a service of the bus stores.                           *)
(*                                                                         *)
(* The plugins are told of the connection by notify::state, inside the     *)
(* call that changes it.  A connection is numbered by the attempt to make  *)
(* it.  It is open until the bus closes it or nobody has a reference; what *)
(* replaces it in WpDbus without dropping the reference leaves it open.    *)
(* The activation of WpDbus is that of ObjectActivation: those who wait    *)
(* are answered when the feature is there, or all with an error.           *)
(***************************************************************************)
EXTENDS Naturals, Sequences

CONSTANTS
  Names,             \* names of devices that are reserved
  Permissions,       \* what the service may have stored
  NULL,
  MaxAttempts,       \* bound: attempts to connect
  MaxNews,           \* bound: changes that are signalled and not yet received
  Lapses             \* what callers may do beyond what they do in the repository

Reserve == "reserve-device"
Store == "portal-permissionstore"
Plugins == {Reserve, Store}
States == {"closed", "connecting", "connected"}
Statuses == {"off", "enabling", "enabled", "failed", "disabled"}
Connections == 1..MaxAttempts
Attempts == [id : Connections, waits : BOOLEAN, cancellable : BOOLEAN, cancelled : BOOLEAN]

DbusAssumption ==
  /\ MaxAttempts \in Nat /\ MaxNews \in Nat
  /\ NULL \notin Connections \cup Permissions
  /\ Lapses \subseteq {"reconnecting", "dropped"}

VARIABLES
  state, dbus_connection, enabled,       \* WpDbus and its feature
  has_cancellable,                       \* there is none before the first disable
  attempts, tried,                       \* under way; how many there were
  syncs,                                 \* syncs that are to reconnect
  core_connected, has_address,           \* the core; whether the bus has an address
  leaked,                                \* connections that nobody will drop
  status,                                \* of the plugins
  manager, reserve_devices,              \* of reserve-device
  signal_id, subscriptions,              \* of portal-permissionstore; by connection
  stored, news,                          \* permissions; changes on their way, by connection
  known, looked_up                       \* what the script has; whether from this connection

busVars == <<state, dbus_connection, enabled, has_cancellable, attempts, tried, syncs,
             core_connected, has_address, leaked>>
pluginVars == <<manager, reserve_devices, signal_id, subscriptions>>
storeVars == <<stored, news, known, looked_up>>
dbusVars == <<busVars, status, pluginVars, storeVars>>

DbusInit ==
  /\ state = "closed" /\ dbus_connection = NULL /\ enabled = FALSE
  /\ has_cancellable = FALSE /\ attempts = {} /\ tried = 0 /\ syncs = 0
  /\ core_connected = TRUE /\ has_address \in BOOLEAN /\ leaked = {}
  /\ status = [p \in Plugins |-> "off"]
  /\ manager = NULL /\ reserve_devices = {}
  /\ signal_id = NULL /\ subscriptions = {}
  /\ stored \in Permissions /\ news = [c \in Connections |-> <<>>] /\ known = NULL /\ looked_up = FALSE

(* Connections that somebody has a reference to. *)
Open == ({dbus_connection, manager} \cup leaked) \ {NULL}

-----------------------------------------------------------------------------
(* The plugins, as handlers of notify::state and in their own calls.       *)

(* rd_unref releases the device, see ReserveDevice. *)
clear_reservation == manager' = NULL /\ reserve_devices' = {}

clear_signal(connection) ==
  IF connection # NULL /\ signal_id # NULL
    THEN /\ subscriptions' = subscriptions \ ({signal_id} \cap {connection})
         /\ signal_id' = NULL
    ELSE UNCHANGED <<signal_id, subscriptions>>

(* Mutant: only a new connection matters. *)
reserve_state_connected(new, connection) ==
  IF new = "connected" THEN manager' = connection /\ UNCHANGED reserve_devices
                       ELSE UNCHANGED <<manager, reserve_devices>>

reserve_state_changed(new, connection) ==
  IF new = "connected"
    THEN manager' = connection /\ UNCHANGED reserve_devices
    ELSE clear_reservation

store_state_changed(new, connection) ==
  IF new = "connected"
    THEN signal_id' = connection /\ subscriptions' = subscriptions \cup {connection}
    ELSE clear_signal(connection)

(* The handlers see the connection as it is when the state changes. *)
wp_dbus_set_state(new, connection) ==
  /\ state' = new /\ dbus_connection' = connection
  /\ IF new = state
       THEN UNCHANGED pluginVars
       ELSE reserve_state_changed(new, connection) /\ store_state_changed(new, connection)

(* Signals are dispatched as long as they are subscribed to, on a connection that
   somebody has. *)
ForgetNews ==
  /\ news' = [c \in Connections |-> IF c \in (subscriptions \cap Open)' THEN news[c] ELSE <<>>]
  /\ looked_up' = (looked_up /\ UNCHANGED <<dbus_connection, subscriptions>>)
  /\ UNCHANGED <<stored, known>>

-----------------------------------------------------------------------------
(* Connecting.                                                             *)

do_connect(waits) ==
  /\ attempts' = attempts \cup {[id |-> tried + 1, waits |-> waits,
                                 cancellable |-> has_cancellable, cancelled |-> FALSE]}
  /\ tried' = tried + 1
  /\ UNCHANGED leaked
  /\ wp_dbus_set_state("connecting", dbus_connection)
  /\ ForgetNews

Waiting == {p \in Plugins : status[p] = "enabling"}
Answered(as) == status' = [p \in Plugins |-> IF p \in Waiting THEN as ELSE status[p]]

(* wp_reserve_device_plugin_enable and that of the permission store: the
   transition of the plugin waits for that of WpDbus. *)
Enable(p) ==
  /\ \/ status[p] = "off"
     \/ status[p] = "disabled" /\ (state = "connected" => "dropped" \in Lapses)
  /\ status' = [status EXCEPT ![p] = "enabling"]
  /\ UNCHANGED <<busVars, pluginVars, storeVars>>

(* wp_dbus_enable: one transition of WpDbus at a time. *)
wp_dbus_enable ==
  /\ Waiting # {} /\ ~enabled /\ \A a \in attempts : ~a.waits
  /\ IF has_address
       THEN tried < MaxAttempts /\ do_connect(TRUE) /\ UNCHANGED status
       ELSE Answered("failed")
            /\ UNCHANGED <<state, dbus_connection, attempts, tried, leaked, pluginVars, storeVars>>
  /\ UNCHANGED <<enabled, has_cancellable, syncs, core_connected, has_address>>

(* on_dbus_activated of both plugins. *)
on_dbus_activated ==
  /\ Waiting # {} /\ enabled
  /\ Answered("enabled")
  /\ UNCHANGED <<busVars, pluginVars, storeVars>>

(* The attempt ends: for the transition, or for on_sync_reconnect.  An error is
   told to the transition; the state stays what it is. *)
on_got_bus(a) ==
  /\ a \in attempts /\ attempts' = attempts \ {a}
  /\ leaked' = leaked \cup ({dbus_connection} \ {NULL})
  /\ \/ /\ ~a.cancelled
        /\ wp_dbus_set_state("connected", a.id)
        /\ enabled' = TRUE
        /\ UNCHANGED status
     \/ /\ IF a.waits THEN Answered("failed") ELSE UNCHANGED status
        /\ dbus_connection' = NULL
        /\ UNCHANGED <<state, enabled, pluginVars>>
  /\ ForgetNews
  /\ UNCHANGED <<has_cancellable, tried, syncs, core_connected, has_address>>

(* The bus closes a connection.  The handler clears the one WpDbus has now. *)
on_connection_closed(c) ==
  /\ c \in Open
  /\ wp_dbus_set_state("closed", NULL)
  /\ leaked' = leaked \ {c}
  /\ syncs' = IF core_connected THEN syncs + 1 ELSE syncs
  /\ ForgetNews
  /\ UNCHANGED <<enabled, has_cancellable, attempts, tried, core_connected, has_address, status>>

on_sync_reconnect ==
  /\ syncs > 0 /\ core_connected /\ syncs' = syncs - 1
  /\ IF has_address
       THEN tried < MaxAttempts /\ do_connect(FALSE)
       ELSE UNCHANGED <<state, dbus_connection, attempts, tried, leaked, pluginVars, storeVars>>
  /\ UNCHANGED <<enabled, has_cancellable, core_connected, has_address, status>>

(* The core loses its server, and with it the daemon ends: syncs are answered
   with an error. *)
CoreDisconnects ==
  /\ core_connected /\ core_connected' = FALSE /\ syncs' = 0
  /\ UNCHANGED <<state, dbus_connection, enabled, has_cancellable, attempts, tried,
                 has_address, leaked, status, pluginVars, storeVars>>

(* Nobody deactivates WpDbus while it connects again, but one may. *)
Reconnecting == syncs > 0 \/ attempts # {}

wp_dbus_disable ==
  /\ enabled /\ (Reconnecting => "reconnecting" \in Lapses)
  /\ attempts' = {[a EXCEPT !.cancelled = a.cancellable] : a \in attempts}
  /\ UNCHANGED <<tried, syncs, core_connected, has_address, leaked, status>>
  /\ wp_dbus_set_state("closed", NULL)
  /\ has_cancellable' = TRUE /\ enabled' = FALSE
  /\ ForgetNews

(* The disable functions of the plugins. *)
Disable(p) ==
  /\ status[p] = "enabled" /\ status' = [status EXCEPT ![p] = "disabled"]
  /\ IF p = Reserve
       THEN clear_reservation /\ UNCHANGED <<signal_id, subscriptions>>
       ELSE clear_signal(dbus_connection) /\ UNCHANGED <<manager, reserve_devices>>
  /\ UNCHANGED busVars /\ ForgetNews

-----------------------------------------------------------------------------
(* The actions of reserve-device, called by scripts that found it enabled. *)

Usable == state = "connected" /\ (status[Reserve] = "enabled" \/ "dropped" \in Lapses)

create_reservation(n) ==
  /\ Usable
  /\ reserve_devices' = reserve_devices \cup {n}
  /\ UNCHANGED <<busVars, status, manager, signal_id, subscriptions, storeVars>>

destroy_reservation(n) ==
  /\ Usable
  /\ reserve_devices' = reserve_devices \ {n}
  /\ UNCHANGED <<busVars, status, manager, signal_id, subscriptions, storeVars>>

(* The permission store: somebody changes what is stored, and each subscription
   gets a signal; the script looks it up when a client appears. *)
Heard == subscriptions \cap Open

StoreChanges(permissions) ==
  /\ permissions # stored /\ stored' = permissions
  /\ \A c \in Heard : Len(news[c]) < MaxNews
  /\ news' = [c \in Connections |-> IF c \in Heard THEN Append(news[c], permissions) ELSE news[c]]
  /\ UNCHANGED <<busVars, status, pluginVars, known, looked_up>>

wp_portal_permissionstore_plugin_changed(c) ==
  /\ news[c] # <<>> /\ news' = [news EXCEPT ![c] = Tail(@)]
  /\ known' = Head(news[c])
  /\ UNCHANGED <<busVars, status, pluginVars, stored, looked_up>>

lookup ==
  /\ status[Store] = "disabled" => "dropped" \in Lapses
  /\ known' = IF dbus_connection = NULL THEN NULL ELSE stored
  /\ looked_up' = (dbus_connection # NULL)
  /\ UNCHANGED <<busVars, status, pluginVars, stored, news>>

-----------------------------------------------------------------------------
DbusLoop ==
  \/ wp_dbus_enable \/ on_dbus_activated \/ on_sync_reconnect
  \/ \E a \in attempts : on_got_bus(a)

DbusNext ==
  \/ DbusLoop
  \/ \E p \in Plugins : Enable(p) \/ Disable(p)
  \/ \E c \in Connections : on_connection_closed(c) \/ wp_portal_permissionstore_plugin_changed(c)
  \/ CoreDisconnects \/ wp_dbus_disable
  \/ \E n \in Names : create_reservation(n) \/ destroy_reservation(n)
  \/ \E permissions \in Permissions : StoreChanges(permissions)
  \/ lookup
-----------------------------------------------------------------------------
DbusTypeOK ==
  /\ state \in States /\ dbus_connection \in Connections \cup {NULL}
  /\ enabled \in BOOLEAN /\ has_cancellable \in BOOLEAN
  /\ attempts \subseteq Attempts /\ tried \in 0..MaxAttempts /\ syncs \in Nat
  /\ core_connected \in BOOLEAN /\ has_address \in BOOLEAN /\ leaked \subseteq Connections
  /\ status \in [Plugins -> Statuses]
  /\ manager \in Connections \cup {NULL} /\ reserve_devices \subseteq Names
  /\ signal_id \in Connections \cup {NULL} /\ subscriptions \subseteq Connections
  /\ stored \in Permissions /\ news \in [Connections -> Seq(Permissions)]
  /\ known \in Permissions \cup {NULL} /\ looked_up \in BOOLEAN

(* There is a connection when the state says so, and no other. *)
OneConnection == (state = "connected" <=> dbus_connection # NULL) /\ leaked = {}

(* Reservations are exported on the connection that there is, or there are none. *)
ReservationsExported ==
  /\ reserve_devices # {} => manager # NULL
  /\ manager \in {NULL, dbus_connection}
  /\ status[Reserve] # "disabled" => manager = dbus_connection

(* Each change is signalled once, and a script that has looked up the permissions
   has those that are stored, or they are on their way. *)
PermissionsFollowed ==
  /\ Heard \subseteq {dbus_connection}
  /\ status[Store] # "disabled" /\ dbus_connection # NULL => Heard = {dbus_connection}
  /\ looked_up =>
       /\ dbus_connection # NULL
       /\ LET coming == news[dbus_connection]
          IN stored = IF coming = <<>> THEN known ELSE coming[Len(coming)]

BusFollowed == DbusTypeOK /\ OneConnection /\ ReservationsExported /\ PermissionsFollowed

(* An attempt to connect again that fails is not told to anybody, and leaves the
   state as it is: there is no other attempt. *)
GaveUp == state = "connecting" /\ attempts = {}

(* Whoever enables a plugin is answered, all at once.  A connection that was lost is
   tried once more, as long as the core is connected, and that attempt ends: with a
   connection, or given up for good. *)
BusComesBack ==
  /\ Waiting # {} ~> (Waiting = {} \/ tried = MaxAttempts)
  /\ (has_address /\ enabled /\ state = "closed")
       ~> \/ state = "connected" \/ GaveUp
          \/ ~enabled \/ ~core_connected \/ tried = MaxAttempts
=============================================================================
