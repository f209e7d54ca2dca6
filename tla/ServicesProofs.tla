--------------------------- MODULE ServicesProofs ---------------------------
(***************************************************************************)
(* That the plugins of the message bus follow its connection (BusFollowed  *)
(* of Services): the invariant says who is calling the bus, what a sync    *)
(* that is to reconnect means, and whose signals are on their way.         *)
(*                                                                         *)
(* And that endpoints are sound (EndpointsSound): the invariant says how   *)
(* far the activation of an item is, when its endpoint listens to its      *)
(* node, and what the queue to a listener tells it: the last parameter in  *)
(* it is that of the node, or an info whose flag has changed is there.     *)
(***************************************************************************)
EXTENDS Services, SequenceTheorems, TLAPS

(* One attempt at a time, the last that was made, which nobody has cancelled. *)
OneAttempt ==
  /\ \A a \in attempts : \A b \in attempts : a = b
  /\ \A a \in attempts : ~a.cancelled /\ state = "connecting" /\ (a.waits <=> ~enabled)

(* A sync that is to reconnect means that the connection is lost. *)
SyncMeansLost ==
  /\ syncs \in {0, 1}
  /\ syncs = 1 => state = "closed" /\ attempts = {} /\ enabled
  /\ ~enabled => dbus_connection = NULL

(* The permission store is subscribed to on the connection that there is, and the last
   of the signals that come from it says what is stored. *)
SignalsAreNews ==
  /\ status[B!Store] # "disabled" /\ dbus_connection # NULL =>
       dbus_connection \in subscriptions /\ signal_id = dbus_connection
  /\ \A c \in B!Connections :
       news[c] # <<>> => /\ c = dbus_connection /\ c \in subscriptions
                         /\ news[c][Len(news[c])] = stored
  /\ looked_up => dbus_connection # NULL /\ dbus_connection \in subscriptions
  /\ looked_up /\ news[dbus_connection] = <<>> => known = stored

BusInv ==
  /\ B!DbusTypeOK /\ B!OneConnection /\ B!ReservationsExported
  /\ OneAttempt /\ SyncMeansLost /\ SignalsAreNews

(* The invariant says what BusFollowed does. *)
LEMMA BusInvImplies == BusInv => BusFollowed
BY BusAssumption DEF BusInv, BusFollowed, B!BusFollowed, B!PermissionsFollowed, B!Heard, B!Open,
   B!OneConnection, B!ReservationsExported, SignalsAreNews, B!DbusAssumption, B!DbusTypeOK,
   B!Connections

LEMMA BusInvInit == B!DbusInit => BusInv
<1> SUFFICES ASSUME B!DbusInit PROVE BusInv
  OBVIOUS
<1>1. news = [c \in B!Connections |-> <<>>] /\ <<>> \in Seq(Permissions)
  BY DEF B!DbusInit
<1>2. news \in [B!Connections -> Seq(Permissions)]
  BY <1>1
<1>3. /\ enabled \in BOOLEAN /\ has_cancellable \in BOOLEAN /\ core_connected \in BOOLEAN
      /\ has_address \in BOOLEAN /\ looked_up \in BOOLEAN
  BY Zenon DEF B!DbusInit
<1>4. B!DbusTypeOK
  BY <1>2, <1>3, BusAssumption DEF B!DbusInit, B!DbusAssumption, B!DbusTypeOK,
     B!States, B!Statuses
<1> QED
  BY <1>1, <1>4 DEF B!DbusInit, BusInv, B!OneConnection,
     B!ReservationsExported, OneAttempt, SyncMeansLost, SignalsAreNews

LEMMA BusInvStutters == BusInv /\ UNCHANGED dbusVars => BusInv'
BY DEF BusInv, dbusVars, B!DbusTypeOK, B!OneConnection, B!ReservationsExported,
   OneAttempt, SyncMeansLost, SignalsAreNews, B!Connections

(* ForgetNews forgets, and never invents. *)
LEMMA NewsForgotten ==
  ASSUME B!DbusTypeOK, B!ForgetNews
  PROVE  /\ stored' = stored /\ known' = known /\ looked_up' \in BOOLEAN
         /\ news' \in [B!Connections -> Seq(Permissions)]
         /\ \A c \in B!Connections :
              news'[c] # <<>> => /\ c \in subscriptions' /\ news'[c] = news[c]
                                 /\ c \in {dbus_connection', manager'} \cup leaked' /\ c # NULL
         /\ \A c \in B!Connections :
              c = dbus_connection' /\ c # NULL /\ c \in subscriptions' => news'[c] = news[c]
         /\ looked_up' => /\ looked_up /\ dbus_connection' = dbus_connection
                          /\ subscriptions' = subscriptions
<1>1. /\ stored' = stored /\ known' = known
      /\ news' = [c \in B!Connections |-> IF c \in (subscriptions \cap B!Open)' THEN news[c] ELSE <<>>]
  BY DEF B!ForgetNews
<1>2. looked_up' = (looked_up /\ UNCHANGED <<dbus_connection, subscriptions>>)
  BY DEF B!ForgetNews
<1>3. looked_up' \in BOOLEAN
  BY <1>2, Zenon
<1>4. looked_up' => /\ looked_up /\ dbus_connection' = dbus_connection
                    /\ subscriptions' = subscriptions
  BY <1>2, Zenon
<1>5. <<>> \in Seq(Permissions) /\ news \in [B!Connections -> Seq(Permissions)]
  BY DEF B!DbusTypeOK
<1>6. news' \in [B!Connections -> Seq(Permissions)]
  BY <1>1, <1>5
<1> QED
  BY <1>1, <1>3, <1>4, <1>6 DEF B!Open

(* What of the invariant the connection is about, for the actions that do not touch
   the news. *)
LEMMA EnableKeeps ==
  ASSUME BusInv, Lapses = {}, NEW p \in B!Plugins, B!Enable(p) PROVE BusInv'
BY BusAssumption DEF B!Enable, BusInv, B!DbusTypeOK, B!OneConnection, B!ReservationsExported, OneAttempt, SyncMeansLost, SignalsAreNews, B!Statuses, B!Plugins, B!busVars, B!pluginVars, B!storeVars, B!DbusAssumption, B!Usable, B!Answered, B!Waiting, B!Heard, B!Open

LEMMA ActivatedKeeps ==
  ASSUME BusInv, Lapses = {}, B!on_dbus_activated PROVE BusInv'
BY BusAssumption DEF B!on_dbus_activated, BusInv, B!DbusTypeOK, B!OneConnection, B!ReservationsExported, OneAttempt, SyncMeansLost, SignalsAreNews, B!Statuses, B!Plugins, B!busVars, B!pluginVars, B!storeVars, B!DbusAssumption, B!Usable, B!Answered, B!Waiting, B!Heard, B!Open

LEMMA CoreDisconnectsKeeps ==
  ASSUME BusInv, Lapses = {}, B!CoreDisconnects PROVE BusInv'
BY BusAssumption DEF B!CoreDisconnects, BusInv, B!DbusTypeOK, B!OneConnection, B!ReservationsExported, OneAttempt, SyncMeansLost, SignalsAreNews, B!Statuses, B!Plugins, B!busVars, B!pluginVars, B!storeVars, B!DbusAssumption, B!Usable, B!Answered, B!Waiting, B!Heard, B!Open

LEMMA CreateKeeps ==
  ASSUME BusInv, Lapses = {}, NEW n \in Names, B!create_reservation(n) PROVE BusInv'
BY BusAssumption DEF B!create_reservation, BusInv, B!DbusTypeOK, B!OneConnection, B!ReservationsExported, OneAttempt, SyncMeansLost, SignalsAreNews, B!Statuses, B!Plugins, B!busVars, B!pluginVars, B!storeVars, B!DbusAssumption, B!Usable, B!Answered, B!Waiting, B!Heard, B!Open

LEMMA DestroyKeeps ==
  ASSUME BusInv, Lapses = {}, NEW n \in Names, B!destroy_reservation(n) PROVE BusInv'
BY BusAssumption DEF B!destroy_reservation, BusInv, B!DbusTypeOK, B!OneConnection, B!ReservationsExported, OneAttempt, SyncMeansLost, SignalsAreNews, B!Statuses, B!Plugins, B!busVars, B!pluginVars, B!storeVars, B!DbusAssumption, B!Usable, B!Answered, B!Waiting, B!Heard, B!Open

LEMMA StoreChangesKeeps ==
  ASSUME BusInv, NEW permissions \in Permissions, B!StoreChanges(permissions) PROVE BusInv'
<1>1. /\ UNCHANGED <<B!busVars, status, B!pluginVars, known, looked_up>> /\ stored' = permissions
      /\ news' = [c \in B!Connections |->
                    IF c \in B!Heard THEN Append(news[c], permissions) ELSE news[c]]
  BY DEF B!StoreChanges
<1>2. news \in [B!Connections -> Seq(Permissions)]
  BY DEF BusInv, B!DbusTypeOK
<1>3. \A c \in B!Connections : /\ Append(news[c], permissions) \in Seq(Permissions)
                               /\ Append(news[c], permissions) # <<>>
                               /\ LET s == Append(news[c], permissions) IN s[Len(s)] = permissions
  BY <1>2
<1>4. news' \in [B!Connections -> Seq(Permissions)]
  BY <1>1, <1>2, <1>3
<1>5. B!DbusTypeOK'
  BY <1>1, <1>4 DEF BusInv, B!DbusTypeOK, B!busVars, B!pluginVars, B!Connections
<1>6. \A c \in B!Connections : c \in B!Heard <=> c = dbus_connection /\ c \in subscriptions
  BY BusAssumption DEF B!Heard, B!Open, BusInv, B!OneConnection, B!ReservationsExported,
     B!DbusAssumption
<1>7. \A c \in B!Connections : c \notin B!Heard => news'[c] = <<>>
  BY <1>1, <1>6 DEF BusInv, SignalsAreNews
<1>8. \A c \in B!Connections :
        c \in B!Heard => news'[c] # <<>> /\ news'[c][Len(news'[c])] = permissions
  BY <1>1, <1>3
<1>9. looked_up => dbus_connection \in B!Connections /\ dbus_connection \in B!Heard
  BY <1>6 DEF BusInv, SignalsAreNews, B!DbusTypeOK
<1>10. SignalsAreNews'
  BY <1>1, <1>6, <1>7, <1>8, <1>9 DEF BusInv, SignalsAreNews, B!busVars, B!pluginVars
<1> QED
  BY <1>1, <1>5, <1>10 DEF BusInv, B!OneConnection, B!ReservationsExported, OneAttempt,
     SyncMeansLost, B!busVars, B!pluginVars

LEMMA ChangedKeeps ==
  ASSUME BusInv, NEW c \in B!Connections, B!wp_portal_permissionstore_plugin_changed(c)
  PROVE  BusInv'
<1>1. /\ UNCHANGED <<B!busVars, status, B!pluginVars, stored, looked_up>>
      /\ news[c] # <<>> /\ news' = [news EXCEPT ![c] = Tail(news[c])] /\ known' = Head(news[c])
  BY DEF B!wp_portal_permissionstore_plugin_changed
<1>2. news \in [B!Connections -> Seq(Permissions)]
  BY DEF BusInv, B!DbusTypeOK
<1>3. PICK s \in Seq(Permissions) : s = news[c]
  BY <1>2
<1>4. /\ Tail(s) \in Seq(Permissions) /\ Head(s) \in Permissions
      /\ Tail(s) # <<>> => Tail(s)[Len(Tail(s))] = s[Len(s)]
      /\ Tail(s) = <<>> => Head(s) = s[Len(s)]
  <2>1. s # <<>> /\ Len(s) \in Nat /\ Len(s) # 0
    BY <1>1, <1>3, EmptySeq, LenProperties
  <2>2. PICK t \in Seq(Permissions) : t = Tail(s)
    BY <2>1, HeadTailProperties
  <2>3. /\ Len(t) = Len(s) - 1 /\ Head(s) \in Permissions /\ Head(s) = s[1]
        /\ \A i \in 1 .. Len(t) : t[i] = s[i + 1]
    BY <2>1, <2>2, HeadTailProperties
  <2>4. Len(t) \in Nat /\ (t = <<>> <=> Len(t) = 0)
    BY EmptySeq, LenProperties
  <2>5. t # <<>> => t[Len(t)] = s[Len(s)]
    BY <2>1, <2>3, <2>4
  <2>6. t = <<>> => Head(s) = s[Len(s)]
    <3>1. Len(t) = 0 => Len(s) = 1
      BY <2>1, <2>3
    <3> QED
      BY <3>1, <2>3, <2>4, Zenon
  <2> QED
    BY <2>2, <2>3, <2>5, <2>6
<1>5. news' \in [B!Connections -> Seq(Permissions)] /\ known' \in Permissions /\ news'[c] = Tail(s)
      /\ \A d \in B!Connections : d # c => news'[d] = news[d]
  BY <1>1, <1>2, <1>3, <1>4
<1>6. B!DbusTypeOK'
  BY <1>1, <1>5 DEF BusInv, B!DbusTypeOK, B!busVars, B!pluginVars, B!Connections
<1>7. c = dbus_connection /\ c \in subscriptions /\ s[Len(s)] = stored
      /\ \A d \in B!Connections : d # c => news[d] = <<>>
  BY <1>1, <1>3 DEF BusInv, SignalsAreNews
<1>8. SignalsAreNews'
  BY <1>1, <1>3, <1>4, <1>5, <1>7 DEF BusInv, SignalsAreNews, B!busVars, B!pluginVars
<1> QED
  BY <1>1, <1>6, <1>8 DEF BusInv, B!OneConnection, B!ReservationsExported, OneAttempt,
     SyncMeansLost, B!busVars, B!pluginVars

LEMMA LookupKeeps ==
  ASSUME BusInv, Lapses = {}, B!lookup PROVE BusInv'
BY BusAssumption DEF B!lookup, BusInv, B!DbusTypeOK, B!OneConnection, B!ReservationsExported, OneAttempt, SyncMeansLost, SignalsAreNews, B!Statuses, B!Plugins, B!busVars, B!pluginVars, B!storeVars, B!DbusAssumption, B!Usable, B!Answered, B!Waiting, B!Heard, B!Open

(* What the plugins do of a new connection, and of none: what was on its way is
   forgotten with the connection it came from. *)
LEMMA PluginsFind ==
  ASSUME NEW c, B!wp_dbus_set_state("connected", c), state = "connecting"
  PROVE  /\ state' = "connected" /\ dbus_connection' = c /\ manager' = c /\ signal_id' = c
         /\ subscriptions' = subscriptions \cup {c} /\ UNCHANGED reserve_devices
BY DEF B!wp_dbus_set_state, B!reserve_state_changed, B!store_state_changed

LEMMA PluginsLose ==
  ASSUME BusInv, NEW new \in {"closed", "connecting"}, B!wp_dbus_set_state(new, NULL),
         B!ForgetNews, leaked' = {}
  PROVE  /\ state' = new /\ dbus_connection' = NULL /\ ~looked_up'
         /\ manager' = NULL /\ reserve_devices' = {} /\ UNCHANGED <<signal_id, subscriptions>>
         /\ stored' = stored /\ known' = known /\ looked_up' \in BOOLEAN
         /\ news' \in [B!Connections -> Seq(Permissions)]
         /\ B!OneConnection' /\ B!ReservationsExported' /\ SignalsAreNews'
<1>1. state = new => manager = NULL /\ reserve_devices = {}
  BY DEF BusInv, B!OneConnection, B!ReservationsExported
<1>2. /\ state' = new /\ dbus_connection' = NULL
      /\ manager' = NULL /\ reserve_devices' = {} /\ UNCHANGED <<signal_id, subscriptions>>
  BY <1>1 DEF B!wp_dbus_set_state, B!reserve_state_changed, B!store_state_changed,
     B!clear_signal, B!clear_reservation, B!pluginVars
<1>3. B!DbusTypeOK /\ (looked_up => dbus_connection # NULL)
  BY DEF BusInv, SignalsAreNews
<1>4. \A c \in B!Connections : c \notin {dbus_connection', manager'} \cup leaked' \/ c = NULL
  BY <1>2, BusAssumption DEF B!DbusAssumption
<1>5. ~looked_up' /\ \A c \in B!Connections : news'[c] = <<>>
  BY <1>2, <1>3, <1>4, NewsForgotten
<1> QED
  BY <1>2, <1>3, <1>5, NewsForgotten DEF B!OneConnection, B!ReservationsExported, SignalsAreNews

LEMMA BusEnableKeeps ==
  ASSUME BusInv, B!wp_dbus_enable PROVE BusInv'
<1>1. CASE has_address
  <2>1. /\ tried < MaxAttempts /\ B!do_connect(TRUE) /\ ~enabled /\ \A a \in attempts : ~a.waits
        /\ UNCHANGED <<status, enabled, has_cancellable, syncs, core_connected, has_address>>
    BY <1>1 DEF B!wp_dbus_enable
  <2>2. dbus_connection = NULL /\ attempts = {} /\ syncs = 0 /\ leaked' = {}
    BY <2>1 DEF BusInv, OneAttempt, SyncMeansLost, B!do_connect, B!OneConnection
  <2>3. B!wp_dbus_set_state("connecting", NULL) /\ B!ForgetNews
    BY <2>1, <2>2 DEF B!do_connect
  <2>4. attempts' = {[id |-> tried + 1, waits |-> TRUE,
                      cancellable |-> has_cancellable, cancelled |-> FALSE]}
        /\ tried' = tried + 1
    BY <2>1, <2>2 DEF B!do_connect
  <2>5. enabled' \in BOOLEAN /\ has_cancellable' \in BOOLEAN /\ has_cancellable \in BOOLEAN
        /\ core_connected' \in BOOLEAN /\ has_address' \in BOOLEAN
    BY <2>1, Zenon DEF BusInv, B!DbusTypeOK
  <2>6. tried' \in 0 .. MaxAttempts /\ tried' \in B!Connections
    BY <2>1, <2>4, BusAssumption DEF BusInv, B!DbusTypeOK, B!DbusAssumption, B!Connections
  <2>7. attempts' \subseteq B!Attempts
    BY <2>4, <2>5, <2>6 DEF B!Attempts
  <2>8. B!DbusTypeOK'
    BY <2>1, <2>2, <2>3, <2>5, <2>6, <2>7, PluginsLose DEF BusInv, B!DbusTypeOK, B!States,
       B!Connections
  <2>9. OneAttempt' /\ SyncMeansLost'
    BY <2>1, <2>2, <2>3, <2>4, PluginsLose DEF BusInv, OneAttempt, SyncMeansLost
  <2> QED
    BY <2>2, <2>3, <2>8, <2>9, PluginsLose DEF BusInv
<1>2. CASE ~has_address
  BY <1>2 DEF B!wp_dbus_enable, BusInv, B!DbusTypeOK, B!OneConnection, B!ReservationsExported,
     OneAttempt, SyncMeansLost, SignalsAreNews, B!Statuses, B!Plugins, B!pluginVars,
     B!storeVars, B!Answered, B!Waiting
<1> QED
  BY <1>1, <1>2

LEMMA SyncReconnectKeeps ==
  ASSUME BusInv, B!on_sync_reconnect PROVE BusInv'
<1>1. /\ syncs = 1 /\ syncs' = 0 /\ state = "closed" /\ attempts = {} /\ enabled
      /\ dbus_connection = NULL /\ leaked = {}
      /\ UNCHANGED <<enabled, has_cancellable, core_connected, has_address, status>>
  BY DEF BusInv, SyncMeansLost, B!OneConnection, B!on_sync_reconnect
<1>2. enabled' \in BOOLEAN /\ has_cancellable' \in BOOLEAN /\ has_cancellable \in BOOLEAN
      /\ core_connected' \in BOOLEAN /\ has_address' \in BOOLEAN
  BY <1>1, Zenon DEF BusInv, B!DbusTypeOK
<1>3. CASE has_address
  <2>1. tried < MaxAttempts /\ B!do_connect(FALSE) /\ leaked' = {}
    BY <1>1, <1>3 DEF B!on_sync_reconnect, B!do_connect
  <2>2. B!wp_dbus_set_state("connecting", NULL) /\ B!ForgetNews
    BY <1>1, <2>1 DEF B!do_connect
  <2>3. attempts' = {[id |-> tried + 1, waits |-> FALSE,
                      cancellable |-> has_cancellable, cancelled |-> FALSE]}
        /\ tried' = tried + 1
    BY <1>1, <2>1 DEF B!do_connect
  <2>4. tried' \in 0 .. MaxAttempts /\ tried' \in B!Connections
    BY <2>1, <2>3, BusAssumption DEF BusInv, B!DbusTypeOK, B!DbusAssumption, B!Connections
  <2>5. attempts' \subseteq B!Attempts
    BY <1>2, <2>3, <2>4 DEF B!Attempts
  <2>6. B!DbusTypeOK'
    BY <1>1, <1>2, <2>1, <2>2, <2>4, <2>5, PluginsLose DEF BusInv, B!DbusTypeOK, B!States,
       B!Connections
  <2>7. OneAttempt' /\ SyncMeansLost'
    BY <1>1, <2>1, <2>2, <2>3, PluginsLose DEF BusInv, OneAttempt, SyncMeansLost
  <2> QED
    BY <2>1, <2>2, <2>6, <2>7, PluginsLose DEF BusInv
<1>4. CASE ~has_address
  <2>1. UNCHANGED <<state, dbus_connection, attempts, tried, leaked, B!pluginVars, B!storeVars>>
    BY <1>4 DEF B!on_sync_reconnect
  <2> QED
    BY <1>1, <1>2, <2>1 DEF BusInv, B!DbusTypeOK, B!OneConnection, B!ReservationsExported,
       OneAttempt, SyncMeansLost, SignalsAreNews, B!pluginVars, B!storeVars
<1> QED
  BY <1>3, <1>4

LEMMA ClosedKeeps ==
  ASSUME BusInv, NEW c \in B!Connections, B!on_connection_closed(c) PROVE BusInv'
<1>1. c = dbus_connection /\ state = "connected" /\ leaked = {} /\ attempts = {} /\ syncs = 0
      /\ enabled
  BY DEF B!on_connection_closed, B!Open, BusInv, B!OneConnection, B!ReservationsExported,
     OneAttempt, SyncMeansLost
<1>2. /\ B!wp_dbus_set_state("closed", NULL) /\ B!ForgetNews /\ leaked' = {}
      /\ syncs' = (IF core_connected THEN syncs + 1 ELSE syncs)
      /\ UNCHANGED <<enabled, has_cancellable, attempts, tried, core_connected, has_address, status>>
  BY <1>1 DEF B!on_connection_closed
<1>3. enabled' \in BOOLEAN /\ has_cancellable' \in BOOLEAN
      /\ core_connected' \in BOOLEAN /\ has_address' \in BOOLEAN
  BY <1>2, Zenon DEF BusInv, B!DbusTypeOK
<1>4. B!DbusTypeOK'
  <2>1. syncs' \in Nat
    BY <1>1, <1>2
  <2> QED
    BY <1>2, <1>3, <2>1, PluginsLose DEF BusInv, B!DbusTypeOK, B!States, B!Connections
<1>5. OneAttempt' /\ SyncMeansLost'
  BY <1>1, <1>2, PluginsLose DEF OneAttempt, SyncMeansLost
<1> QED
  BY <1>2, <1>4, <1>5, PluginsLose DEF BusInv

LEMMA BusDisableKeeps ==
  ASSUME BusInv, Lapses = {}, B!wp_dbus_disable PROVE BusInv'
<1>1. /\ attempts = {} /\ syncs = 0 /\ attempts' = {} /\ leaked = {} /\ leaked' = {}
      /\ UNCHANGED <<tried, syncs, core_connected, has_address, status>>
      /\ B!wp_dbus_set_state("closed", NULL) /\ B!ForgetNews
      /\ has_cancellable' = TRUE /\ enabled' = FALSE
  BY DEF B!wp_dbus_disable, B!Reconnecting, BusInv, SyncMeansLost, B!OneConnection, B!DbusTypeOK
<1>2. enabled' \in BOOLEAN /\ has_cancellable' \in BOOLEAN
      /\ core_connected' \in BOOLEAN /\ has_address' \in BOOLEAN
  BY <1>1, Zenon DEF BusInv, B!DbusTypeOK
<1>3. B!DbusTypeOK'
  BY <1>1, <1>2, PluginsLose DEF BusInv, B!DbusTypeOK, B!States, B!Connections
<1>4. OneAttempt' /\ SyncMeansLost'
  BY <1>1, PluginsLose DEF OneAttempt, SyncMeansLost
<1> QED
  BY <1>1, <1>3, <1>4, PluginsLose DEF BusInv

LEMMA GotBusKeeps ==
  ASSUME BusInv, NEW a \in attempts, B!on_got_bus(a) PROVE BusInv'
<1>1. /\ state = "connecting" /\ dbus_connection = NULL /\ leaked = {} /\ attempts = {a}
      /\ manager = NULL /\ reserve_devices = {} /\ syncs = 0 /\ ~a.cancelled
      /\ (a.waits <=> ~enabled) /\ a.id \in B!Connections
  BY DEF BusInv, B!OneConnection, B!ReservationsExported, OneAttempt, SyncMeansLost,
     B!DbusTypeOK, B!Attempts
<1>2. /\ attempts' = {} /\ leaked' = {} /\ B!ForgetNews
      /\ UNCHANGED <<has_cancellable, tried, syncs, core_connected, has_address>>
  BY <1>1 DEF B!on_got_bus
<1>3. has_cancellable' \in BOOLEAN /\ core_connected' \in BOOLEAN /\ has_address' \in BOOLEAN
  BY <1>2, Zenon DEF BusInv, B!DbusTypeOK
<1>4. /\ ~looked_up /\ \A c \in B!Connections : news[c] = <<>>
  BY <1>1, BusAssumption DEF BusInv, SignalsAreNews, B!DbusAssumption
<1>5. CASE B!wp_dbus_set_state("connected", a.id) /\ enabled' = TRUE /\ UNCHANGED status
  <2>1. /\ state' = "connected" /\ dbus_connection' = a.id /\ manager' = a.id
        /\ signal_id' = a.id /\ subscriptions' = subscriptions \cup {a.id}
        /\ UNCHANGED reserve_devices
    BY <1>1, <1>5, PluginsFind
  <2>2. /\ stored' = stored /\ known' = known /\ looked_up' \in BOOLEAN /\ ~looked_up'
        /\ news' \in [B!Connections -> Seq(Permissions)]
        /\ \A c \in B!Connections : news'[c] = <<>>
    BY <1>2, <1>4, NewsForgotten DEF BusInv
  <2>3. enabled' \in BOOLEAN
    BY <1>5, Zenon
  <2>4. B!DbusTypeOK'
    BY <1>1, <1>2, <1>3, <1>5, <2>1, <2>2, <2>3 DEF BusInv, B!DbusTypeOK, B!States,
       B!Connections
  <2>5. a.id # NULL
    BY <1>1, BusAssumption DEF B!DbusAssumption
  <2>6. B!OneConnection' /\ B!ReservationsExported' /\ OneAttempt' /\ SyncMeansLost' /\ SignalsAreNews'
    BY <1>1, <1>2, <1>5, <2>1, <2>2, <2>5 DEF B!OneConnection, B!ReservationsExported,
       OneAttempt, SyncMeansLost, SignalsAreNews
  <2> QED
    BY <2>4, <2>6 DEF BusInv
<1>6. CASE /\ IF a.waits THEN B!Answered("failed") ELSE UNCHANGED status
           /\ dbus_connection' = NULL /\ UNCHANGED <<state, enabled, B!pluginVars>>
  <2>1. /\ stored' = stored /\ known' = known /\ looked_up' \in BOOLEAN /\ ~looked_up'
        /\ news' \in [B!Connections -> Seq(Permissions)]
        /\ \A c \in B!Connections : news'[c] = <<>>
    BY <1>2, <1>4, NewsForgotten DEF BusInv
  <2>2. enabled' \in BOOLEAN
    BY <1>6, Zenon DEF BusInv, B!DbusTypeOK
  <2>3. status' \in [B!Plugins -> B!Statuses]
    BY <1>6 DEF B!Answered, B!Waiting, BusInv, B!DbusTypeOK, B!Statuses
  <2>4. B!DbusTypeOK'
    BY <1>1, <1>2, <1>3, <1>6, <2>1, <2>2, <2>3 DEF BusInv, B!DbusTypeOK, B!pluginVars,
       B!Connections
  <2>5. B!OneConnection' /\ B!ReservationsExported' /\ OneAttempt' /\ SyncMeansLost' /\ SignalsAreNews'
    BY <1>1, <1>2, <1>6, <2>1 DEF B!OneConnection, B!ReservationsExported,
       OneAttempt, SyncMeansLost, SignalsAreNews, B!pluginVars
  <2> QED
    BY <2>4, <2>5 DEF BusInv
<1> QED
  BY <1>5, <1>6 DEF B!on_got_bus

LEMMA DisableKeeps ==
  ASSUME BusInv, NEW p \in B!Plugins, B!Disable(p) PROVE BusInv'
<1>1. /\ status[p] = "enabled" /\ status' = [status EXCEPT ![p] = "disabled"]
      /\ UNCHANGED B!busVars /\ B!ForgetNews
      /\ status' \in [B!Plugins -> B!Statuses] /\ status'[p] = "disabled"
      /\ \A q \in B!Plugins : q # p => status'[q] = status[q]
  BY DEF B!Disable, BusInv, B!DbusTypeOK, B!Statuses
<1>2. enabled' \in BOOLEAN /\ has_cancellable' \in BOOLEAN
      /\ core_connected' \in BOOLEAN /\ has_address' \in BOOLEAN
  BY <1>1, Zenon DEF BusInv, B!DbusTypeOK, B!busVars
<1>3. OneAttempt' /\ SyncMeansLost' /\ B!OneConnection'
  BY <1>1 DEF BusInv, OneAttempt, SyncMeansLost, B!OneConnection, B!busVars
<1>4. /\ stored' = stored /\ known' = known /\ looked_up' \in BOOLEAN
      /\ news' \in [B!Connections -> Seq(Permissions)]
      /\ \A c \in B!Connections :
           news'[c] # <<>> => c \in subscriptions' /\ news'[c] = news[c]
      /\ \A c \in B!Connections :
           c = dbus_connection' /\ c # NULL /\ c \in subscriptions' => news'[c] = news[c]
      /\ looked_up' => looked_up /\ subscriptions' = subscriptions
  BY <1>1, NewsForgotten DEF BusInv
<1>5. CASE p = B!Reserve
  <2>1. /\ manager' = NULL /\ reserve_devices' = {} /\ UNCHANGED <<signal_id, subscriptions>>
    BY <1>5 DEF B!Disable, B!clear_reservation
  <2>2. B!DbusTypeOK'
    BY <1>1, <1>2, <1>4, <2>1 DEF BusInv, B!DbusTypeOK, B!busVars, B!Connections
  <2>3. B!ReservationsExported'
    BY <1>1, <1>5, <2>1 DEF B!ReservationsExported
  <2>4. status'[B!Store] = status[B!Store] /\ dbus_connection' = dbus_connection
    BY <1>1, <1>5 DEF B!Reserve, B!Store, B!Plugins, B!busVars
  <2>5. SignalsAreNews'
    BY <1>4, <2>1, <2>4 DEF BusInv, SignalsAreNews, B!DbusTypeOK
  <2> QED
    BY <1>3, <2>2, <2>3, <2>5 DEF BusInv
<1>6. CASE p = B!Store
  <2>1. /\ B!clear_signal(dbus_connection) /\ UNCHANGED <<manager, reserve_devices>>
    BY <1>6 DEF B!Disable, B!Reserve, B!Store
  <2>2. signal_id' \in {signal_id, NULL} /\ subscriptions' \subseteq subscriptions
    BY <2>1 DEF B!clear_signal
  <2>3. B!DbusTypeOK'
    BY <1>1, <1>2, <1>4, <2>1, <2>2 DEF BusInv, B!DbusTypeOK, B!busVars, B!Connections
  <2>4. status'[B!Reserve] = status[B!Reserve] /\ dbus_connection' = dbus_connection
    BY <1>1, <1>6 DEF B!Reserve, B!Store, B!Plugins, B!busVars
  <2>5. B!ReservationsExported'
    BY <2>1, <2>4 DEF BusInv, B!ReservationsExported
  <2>6. SignalsAreNews'
    BY <1>1, <1>4, <1>6, <2>4 DEF BusInv, SignalsAreNews, B!DbusTypeOK
  <2> QED
    BY <1>3, <2>3, <2>5, <2>6 DEF BusInv
<1> QED
  BY <1>5, <1>6 DEF B!Plugins

LEMMA BusInvStep == ASSUME BusInv, Lapses = {}, B!DbusNext PROVE BusInv'
<1>1. CASE B!DbusLoop
  BY <1>1, BusEnableKeeps, ActivatedKeeps, SyncReconnectKeeps, GotBusKeeps DEF B!DbusLoop
<1>2. CASE \E p \in B!Plugins : B!Enable(p) \/ B!Disable(p)
  BY <1>2, EnableKeeps, DisableKeeps
<1>3. CASE \E c \in B!Connections :
             B!on_connection_closed(c) \/ B!wp_portal_permissionstore_plugin_changed(c)
  BY <1>3, ClosedKeeps, ChangedKeeps
<1>4. CASE B!CoreDisconnects \/ B!wp_dbus_disable
  BY <1>4, CoreDisconnectsKeeps, BusDisableKeeps
<1>5. CASE \E n \in Names : B!create_reservation(n) \/ B!destroy_reservation(n)
  BY <1>5, CreateKeeps, DestroyKeeps
<1>6. CASE \E permissions \in Permissions : B!StoreChanges(permissions)
  BY <1>6, StoreChangesKeeps
<1>7. CASE B!lookup
  BY <1>7, LookupKeeps
<1> QED
  BY <1>1, <1>2, <1>3, <1>4, <1>5, <1>6, <1>7 DEF B!DbusNext

(* The plugins follow the connection to the bus: there is one connection when the state
   says so, reservations are exported on it or there are none, and who has looked up the
   permissions has what is stored or it is on its way.  This needs that nobody uses a
   plugin that was disabled or deactivates the connection while it is made again, which
   nobody in the repository does. *)
THEOREM PluginsFollowTheBus == ASSUME Lapses = {} PROVE ServicesSpec => []BusFollowed
<1>1. ServicesInit => BusInv
  BY BusInvInit DEF ServicesInit
<1>2. BusInv /\ [ServicesNext]_serviceVars => BusInv'
  BY BusInvStep, BusInvStutters DEF ServicesNext, serviceVars
<1> QED
  BY <1>1, <1>2, BusInvImplies, PTL DEF ServicesSpec

-----------------------------------------------------------------------------
(* The stages of an item, when callers do what they do in the repository: while an
   activation waits for the node, for the adapter or for the endpoint, what comes after
   it is not there, and no idle source is to undo an export. *)
StagesRight(item) ==
  /\ item.left = {} /\ item.deferred \in Nat
  /\ item.active \/ item.exported \/ item.step # "none" => item.configured
  /\ item.exported => item.active /\ item.step = "none"
  /\ item.step # "none" => item.deferred = 0
  /\ item.step = "node" => ~item.active /\ item.node = "new" /\ item.adapter = "none"
                           /\ item.endpoint = "none"
  /\ item.step = "adapter" => ~item.active /\ item.node = "bound" /\ item.adapter = "new"
                              /\ item.endpoint = "none"
  /\ item.step \in {"export", "props", "bind"} => item.active /\ item.endpoint = "new"
  /\ ~item.active /\ item.node = "none" => item.adapter = "none" /\ ~item.caches_props
  /\ item.adapter \in {"new", "active"} => item.node = "bound"
  /\ E!FeaturesBacked(item) /\ E!UndoesTheLost(item)

(* An endpoint that the server listens to listens itself to its node, which caches. *)
ConnectionRight(item) ==
  /\ item.endpoint = "none" => ~item.connected
  /\ item.connected /\ E!HasNode(item) => item.caches_props
  /\ item.step = "export" /\ E!HasNode(item) /\ item.caches_props => item.connected
  /\ (item.step = "bind" \/ item.endpoint = "bound") /\ E!HasNode(item) => item.connected

ItemRight(item) == item \in E!Item /\ StagesRight(item) /\ ConnectionRight(item)

ToListener == [type : {"info"}, flags : E!Flags] \cup [type : {"param"}, value : Values]
ToEndpoint == [type : {"enum", "subscribe"}] \cup [type : {"set"}, value : Values]

ListenerState ==
  [hears : BOOLEAN, subscribed : BOOLEAN, seen : E!Flags \cup {NULL}, got : Values \cup {NULL}]

(* Of the queue q to a listener l: the last parameter in it is v, or is what l has. *)
Fresh(q, l, v) ==
  /\ (\A k \in DOMAIN q : q[k].type = "info") => l.got = v
  /\ \A k \in DOMAIN q :
       q[k].type = "param" /\ (\A j \in DOMAIN q : j > k => q[j].type = "info") => q[k].value = v

(* No flag is that of the info before it, the first not the one that l has seen, and
   the last is the flag of now. *)
Toggled(q, l, flag) ==
  /\ (\A k \in DOMAIN q : q[k].type = "param") => l.seen = flag
  /\ \A k \in DOMAIN q : q[k].type = "info" =>
       /\ (\A j \in DOMAIN q : j < k => q[j].type = "param") => q[k].flags # l.seen
       /\ (\A j \in DOMAIN q : j > k => q[j].type = "param") => q[k].flags = flag
       /\ \A m \in DOMAIN q :
            /\ q[m].type = "info" /\ k < m
            /\ \A j \in DOMAIN q : k < j /\ j < m => q[j].type = "param"
            => q[k].flags # q[m].flags

HasType(q, type) == \E k \in DOMAIN q : q[k].type = type

(* A listener that subscribes is told, one that does not asks when the flag has
   changed. *)
IsFollowed(l, q, e, v, subscribes, flag) ==
  IF subscribes
    THEN HasType(e, "subscribe") \/ (l.subscribed /\ Fresh(q, l, v))
    ELSE /\ HasType(e, "enum") \/ HasType(q, "info") \/ Fresh(q, l, v)
         /\ Toggled(q, l, flag)

(* Who does not hear an endpoint has nothing of it. *)
HearingRight(item, l, q, e) ==
  IF l.hears THEN item.step = "bind" \/ item.endpoint = "bound"
             ELSE l = E!Deaf /\ q = <<>> /\ e = <<>>

Attached(item, l) == l.hears /\ item.connected /\ E!HasNode(item)

(* The listener l of an item, and what is between them. *)
ListenerRight(item, l, q, e, v, subscribes, flag) ==
  /\ l \in ListenerState /\ q \in Seq(ToListener) /\ e \in Seq(ToEndpoint)
  /\ HearingRight(item, l, q, e)
  /\ Attached(item, l) => IsFollowed(l, q, e, v, subscribes, flag)

OneRight(i) ==
  /\ ItemRight(si[i]) /\ value[i] \in Values /\ coming[i] \in Seq(Values)
  /\ ListenerRight(si[i], listener[i], to_listener[i], to_endpoint[i], value[i],
                   i \in scene.subscribers, serial)

OfItems(f) == f = [i \in Items |-> f[i]]

EndpointInv ==
  /\ scene \in Scenes /\ endpoint_core_up \in BOOLEAN /\ serial \in E!Flags
  /\ OfItems(si) /\ OfItems(value) /\ OfItems(coming)
  /\ OfItems(listener) /\ OfItems(to_listener) /\ OfItems(to_endpoint)
  /\ \A i \in Items : /\ OneRight(i)
                      /\ i \notin scene.items => si[i] = E!Unmade /\ coming[i] = <<>>

-----------------------------------------------------------------------------
LEMMA ParamSent ==
  ASSUME NEW q \in Seq(ToListener), NEW l, NEW v \in Values, NEW flag,
         NEW p, p = [type |-> "param", value |-> v]
  PROVE  /\ Append(q, p) \in Seq(ToListener)
         /\ Fresh(Append(q, p), l, v)
         /\ Toggled(q, l, flag) => Toggled(Append(q, p), l, flag)
<1> DEFINE s == Append(q, p)
<1>1. p \in ToListener
  BY DEF ToListener
<1>2. /\ s \in Seq(ToListener) /\ Len(s) = Len(q) + 1 /\ s[Len(s)] = p
      /\ \A k \in 1..Len(q) : s[k] = q[k]
      /\ DOMAIN s = 1..Len(s) /\ DOMAIN q = 1..Len(q) /\ Len(q) \in Nat
  BY <1>1
<1>3. p.type = "param" /\ p.value = v /\ p.type # "info"
  OBVIOUS
<1> HIDE DEF s
<1>4. Fresh(s, l, v)
  <2>1. Len(s) \in DOMAIN s
    BY <1>2
  <2>2. ~ \A k \in DOMAIN s : s[k].type = "info"
    BY <2>1, <1>2, <1>3
  <2>3. ASSUME NEW k \in DOMAIN s, \A j \in DOMAIN s : j > k => s[j].type = "info"
        PROVE  s[k].value = v
    BY <2>1, <2>3, <1>2, <1>3
  <2> QED
    BY <2>2, <2>3 DEF Fresh
<1>5. ASSUME Toggled(q, l, flag) PROVE Toggled(s, l, flag)
  <2>1. ASSUME \A k \in DOMAIN s : s[k].type = "param" PROVE l.seen = flag
    <3>1. \A k \in DOMAIN q : q[k].type = "param"
      BY <2>1, <1>2
    <3> QED
      BY <3>1, <1>5 DEF Toggled
  <2>2. ASSUME NEW k \in DOMAIN s, s[k].type = "info"
        PROVE  /\ (\A j \in DOMAIN s : j < k => s[j].type = "param") => s[k].flags # l.seen
               /\ (\A j \in DOMAIN s : j > k => s[j].type = "param") => s[k].flags = flag
               /\ \A m \in DOMAIN s :
                    /\ s[m].type = "info" /\ k < m
                    /\ \A j \in DOMAIN s : k < j /\ j < m => s[j].type = "param"
                    => s[k].flags # s[m].flags
    <3>1. k \in DOMAIN q /\ q[k] = s[k]
      BY <2>2, <1>2, <1>3
    <3>2. ASSUME \A j \in DOMAIN s : j < k => s[j].type = "param" PROVE s[k].flags # l.seen
      <4>1. \A j \in DOMAIN q : j < k => q[j].type = "param"
        BY <3>2, <1>2
      <4> QED
        BY <4>1, <3>1, <2>2, <1>5 DEF Toggled
    <3>3. ASSUME \A j \in DOMAIN s : j > k => s[j].type = "param" PROVE s[k].flags = flag
      <4>1. \A j \in DOMAIN q : j > k => q[j].type = "param"
        BY <3>3, <1>2
      <4> QED
        BY <4>1, <3>1, <2>2, <1>5 DEF Toggled
    <3>4. ASSUME NEW m \in DOMAIN s, s[m].type = "info", k < m,
                 \A j \in DOMAIN s : k < j /\ j < m => s[j].type = "param"
          PROVE  s[k].flags # s[m].flags
      <4>1. m \in DOMAIN q /\ q[m] = s[m]
        BY <3>4, <1>2, <1>3
      <4>2. \A j \in DOMAIN q : k < j /\ j < m => q[j].type = "param"
        BY <3>4, <1>2
      <4> QED
        BY <4>1, <4>2, <3>1, <2>2, <3>4, <1>5 DEF Toggled
    <3> QED
      BY <3>2, <3>3, <3>4
  <2> QED
    BY <2>1, <2>2 DEF Toggled
<1> QED
  BY <1>2, <1>4, <1>5 DEF s

LEMMA InfoSent ==
  ASSUME NEW q \in Seq(ToListener), NEW l, NEW flag \in E!Flags,
         Toggled(q, l, 1 - flag), NEW p, p = [type |-> "info", flags |-> flag]
  PROVE  Toggled(Append(q, p), l, flag)
<1> DEFINE s == Append(q, p)
<1>1. p \in ToListener
  BY DEF ToListener
<1>2. /\ s \in Seq(ToListener) /\ Len(s) = Len(q) + 1 /\ s[Len(s)] = p
      /\ \A k \in 1..Len(q) : s[k] = q[k]
      /\ DOMAIN s = 1..Len(s) /\ DOMAIN q = 1..Len(q) /\ Len(q) \in Nat
  BY <1>1
<1>3. p.type = "info" /\ p.flags = flag /\ p.type # "param" /\ flag # 1 - flag
  BY DEF E!Flags
<1> HIDE DEF s
<1>4. Len(s) \in DOMAIN s
  BY <1>2
<1>5. ~ \A k \in DOMAIN s : s[k].type = "param"
  BY <1>4, <1>2, <1>3
<1>6. ASSUME NEW k \in DOMAIN s, s[k].type = "info"
      PROVE  /\ (\A j \in DOMAIN s : j < k => s[j].type = "param") => s[k].flags # l.seen
             /\ (\A j \in DOMAIN s : j > k => s[j].type = "param") => s[k].flags = flag
             /\ \A m \in DOMAIN s :
                  /\ s[m].type = "info" /\ k < m
                  /\ \A j \in DOMAIN s : k < j /\ j < m => s[j].type = "param"
                  => s[k].flags # s[m].flags
  <2>1. CASE k = Len(s)
    <3>1. ASSUME \A j \in DOMAIN s : j < k => s[j].type = "param" PROVE s[k].flags # l.seen
      <4>1. \A j \in DOMAIN q : q[j].type = "param"
        BY <3>1, <2>1, <1>2
      <4>2. l.seen = 1 - flag
        BY <4>1 DEF Toggled
      <4> QED
        BY <4>2, <2>1, <1>2, <1>3
    <3>2. s[k].flags = flag /\ \A m \in DOMAIN s : ~ k < m
      BY <2>1, <1>2, <1>3
    <3> QED
      BY <3>1, <3>2
  <2>2. CASE k # Len(s)
    <3>1. k \in DOMAIN q /\ q[k] = s[k] /\ k < Len(s) /\ k \in Nat
      BY <2>2, <1>2
    <3>2. ASSUME \A j \in DOMAIN s : j < k => s[j].type = "param" PROVE s[k].flags # l.seen
      <4>1. \A j \in DOMAIN q : j < k => q[j].type = "param"
        BY <3>2, <1>2
      <4> QED
        BY <4>1, <3>1, <1>6 DEF Toggled
    <3>3. ~ \A j \in DOMAIN s : j > k => s[j].type = "param"
      BY <3>1, <1>4, <1>2, <1>3
    <3>4. ASSUME NEW m \in DOMAIN s, s[m].type = "info", k < m,
                 \A j \in DOMAIN s : k < j /\ j < m => s[j].type = "param"
          PROVE  s[k].flags # s[m].flags
      <4>1. CASE m = Len(s)
        <5>1. \A j \in DOMAIN q : j > k => q[j].type = "param"
          BY <3>4, <4>1, <1>2
        <5>2. q[k].flags = 1 - flag
          BY <5>1, <3>1, <1>6 DEF Toggled
        <5> QED
          BY <5>2, <4>1, <3>1, <1>2, <1>3
      <4>2. CASE m # Len(s)
        <5>1. m \in DOMAIN q /\ q[m] = s[m]
          BY <4>2, <1>2
        <5>2. \A j \in DOMAIN q : k < j /\ j < m => q[j].type = "param"
          BY <3>4, <1>2
        <5> QED
          BY <5>1, <5>2, <3>1, <1>6, <3>4 DEF Toggled
      <4> QED
        BY <4>1, <4>2
    <3> QED
      BY <3>2, <3>3, <3>4
  <2> QED
    BY <2>1, <2>2
<1>7. Toggled(s, l, flag)
  BY <1>5, <1>6 DEF Toggled
<1> QED
  BY <1>7 DEF s

LEMMA FreshAfter ==
  ASSUME NEW q \in Seq(ToListener), q # <<>>, NEW l, NEW ln, NEW v, Fresh(q, l, v),
         Head(q).type = "info" => ln.got = l.got,
         Head(q).type = "param" => ln.got = Head(q).value
  PROVE  Fresh(Tail(q), ln, v)
<1> DEFINE t == Tail(q)
<1>1. /\ t \in Seq(ToListener) /\ Len(t) = Len(q) - 1
      /\ \A k \in 1..Len(t) : t[k] = q[k + 1]
      /\ DOMAIN t = 1..Len(t) /\ DOMAIN q = 1..Len(q) /\ Len(t) \in Nat
      /\ Head(q) = q[1] /\ q[1] \in ToListener
  OBVIOUS
<1>2. q[1].type \in {"info", "param"}
  BY <1>1 DEF ToListener
<1> HIDE DEF t
<1>3. ASSUME \A k \in DOMAIN t : t[k].type = "info" PROVE ln.got = v
  <2>1. \A k \in DOMAIN q : k > 1 => q[k].type = "info"
    <3>1. ASSUME NEW k \in DOMAIN q, k > 1 PROVE q[k].type = "info"
      <4>1. k - 1 \in DOMAIN t /\ t[k - 1] = q[k]
        BY <3>1, <1>1
      <4> QED
        BY <4>1, <1>3
    <3> QED
      BY <3>1
  <2>2. CASE q[1].type = "info"
    <3>1. \A k \in DOMAIN q : q[k].type = "info"
      BY <2>1, <2>2, <1>1
    <3> QED
      BY <3>1, <2>2, <1>1 DEF Fresh
  <2>3. CASE q[1].type = "param"
    <3>1. q[1].value = v
      BY <2>1, <2>3, <1>1 DEF Fresh
    <3> QED
      BY <3>1, <2>3, <1>1
  <2> QED
    BY <1>2, <2>2, <2>3
<1>4. ASSUME NEW k \in DOMAIN t, t[k].type = "param",
             \A j \in DOMAIN t : j > k => t[j].type = "info"
      PROVE  t[k].value = v
  <2>1. k + 1 \in DOMAIN q /\ q[k + 1] = t[k]
    BY <1>1
  <2>2. ASSUME NEW j \in DOMAIN q, j > k + 1 PROVE q[j].type = "info"
    <3>1. j - 1 \in DOMAIN t /\ t[j - 1] = q[j] /\ j - 1 > k
      BY <2>2, <1>1
    <3> QED
      BY <3>1, <1>4
  <2> QED
    BY <2>1, <2>2, <1>4 DEF Fresh
<1>5. Fresh(t, ln, v)
  BY <1>3, <1>4 DEF Fresh
<1> QED
  BY <1>5 DEF t

LEMMA ToggledAfter ==
  ASSUME NEW q \in Seq(ToListener), q # <<>>, NEW l, NEW ln, NEW flag, Toggled(q, l, flag),
         Head(q).type = "info" => ln.seen = Head(q).flags,
         Head(q).type = "param" => ln.seen = l.seen
  PROVE  Toggled(Tail(q), ln, flag)
<1> DEFINE t == Tail(q)
<1>1. /\ t \in Seq(ToListener) /\ Len(t) = Len(q) - 1
      /\ \A k \in 1..Len(t) : t[k] = q[k + 1]
      /\ DOMAIN t = 1..Len(t) /\ DOMAIN q = 1..Len(q) /\ Len(t) \in Nat
      /\ Head(q) = q[1] /\ q[1] \in ToListener
  OBVIOUS
<1>2. q[1].type \in {"info", "param"}
  BY <1>1 DEF ToListener
<1> HIDE DEF t
<1>3. ASSUME \A k \in DOMAIN t : t[k].type = "param" PROVE ln.seen = flag
  <2>1. ASSUME NEW k \in DOMAIN q, k > 1 PROVE q[k].type = "param"
    <3>1. k - 1 \in DOMAIN t /\ t[k - 1] = q[k]
      BY <2>1, <1>1
    <3> QED
      BY <3>1, <1>3
  <2>2. CASE q[1].type = "param"
    <3>1. \A k \in DOMAIN q : q[k].type = "param"
      BY <2>1, <2>2, <1>1
    <3> QED
      BY <3>1, <2>2, <1>1 DEF Toggled
  <2>3. CASE q[1].type = "info"
    <3>1. q[1].flags = flag
      BY <2>1, <2>3, <1>1 DEF Toggled
    <3> QED
      BY <3>1, <2>3, <1>1
  <2> QED
    BY <1>2, <2>2, <2>3
<1>4. ASSUME NEW k \in DOMAIN t, t[k].type = "info"
      PROVE  /\ (\A j \in DOMAIN t : j < k => t[j].type = "param") => t[k].flags # ln.seen
             /\ (\A j \in DOMAIN t : j > k => t[j].type = "param") => t[k].flags = flag
             /\ \A m \in DOMAIN t :
                  /\ t[m].type = "info" /\ k < m
                  /\ \A j \in DOMAIN t : k < j /\ j < m => t[j].type = "param"
                  => t[k].flags # t[m].flags
  <2>1. k + 1 \in DOMAIN q /\ q[k + 1] = t[k] /\ k \in Nat /\ 1 \in DOMAIN q
    BY <1>1
  <2>2. \A j \in DOMAIN q : j > 1 => j - 1 \in DOMAIN t /\ t[j - 1] = q[j] /\ j \in Nat
    BY <1>1
  <2>3. ASSUME \A j \in DOMAIN t : j < k => t[j].type = "param" PROVE t[k].flags # ln.seen
    <3>1. ASSUME NEW j \in DOMAIN q, 1 < j, j < k + 1 PROVE q[j].type = "param"
      <4>1. j - 1 \in DOMAIN t /\ t[j - 1] = q[j] /\ j - 1 < k
        BY <3>1, <2>1, <2>2
      <4> QED
        BY <4>1, <2>3
    <3>2. CASE q[1].type = "param"
      <4>1. \A j \in DOMAIN q : j < k + 1 => q[j].type = "param"
        BY <3>1, <3>2, <1>1
      <4>2. q[k + 1].flags # l.seen
        BY <4>1, <2>1, <1>4 DEF Toggled
      <4> QED
        BY <4>2, <3>2, <2>1, <1>1
    <3>3. CASE q[1].type = "info"
      <4>1. 1 < k + 1
        BY <2>1, <1>1
      <4>2. q[1].flags # q[k + 1].flags
        BY <4>1, <3>1, <3>3, <2>1, <1>4 DEF Toggled
      <4> QED
        BY <4>2, <3>3, <2>1, <1>1
    <3> QED
      BY <1>2, <3>2, <3>3
  <2>4. ASSUME \A j \in DOMAIN t : j > k => t[j].type = "param" PROVE t[k].flags = flag
    <3>1. ASSUME NEW j \in DOMAIN q, j > k + 1 PROVE q[j].type = "param"
      <4>1. j - 1 \in DOMAIN t /\ t[j - 1] = q[j] /\ j - 1 > k
        BY <3>1, <1>1
      <4> QED
        BY <4>1, <2>4
    <3> QED
      BY <3>1, <2>1, <1>4 DEF Toggled
  <2>5. ASSUME NEW m \in DOMAIN t, t[m].type = "info", k < m,
               \A j \in DOMAIN t : k < j /\ j < m => t[j].type = "param"
        PROVE  t[k].flags # t[m].flags
    <3>1. m + 1 \in DOMAIN q /\ q[m + 1] = t[m] /\ k + 1 < m + 1
      BY <2>5, <1>1
    <3>2. ASSUME NEW j \in DOMAIN q, k + 1 < j, j < m + 1 PROVE q[j].type = "param"
      <4>1. j - 1 \in DOMAIN t /\ t[j - 1] = q[j] /\ k < j - 1 /\ j - 1 < m
        BY <3>2, <1>1
      <4> QED
        BY <4>1, <2>5
    <3> QED
      BY <3>1, <3>2, <2>1, <2>5, <1>4 DEF Toggled
  <2> QED
    BY <2>3, <2>4, <2>5
<1>5. Toggled(t, ln, flag)
  BY <1>3, <1>4 DEF Toggled
<1> QED
  BY <1>5 DEF t

LEMMA TypeAfter ==
  ASSUME NEW S, NEW q \in Seq(S), q # <<>>, NEW type, HasType(q, type), Head(q).type # type
  PROVE  HasType(Tail(q), type)
<1>1. PICK k \in DOMAIN q : q[k].type = type
  BY DEF HasType
<1>2. k \in 1..Len(q) /\ k # 1
  BY <1>1
<1>3. k - 1 \in DOMAIN Tail(q) /\ Tail(q)[k - 1] = q[k]
  BY <1>2
<1> QED
  BY <1>1, <1>3 DEF HasType

LEMMA TypeSent ==
  ASSUME NEW S, NEW q \in Seq(S), NEW m \in S, NEW type
  PROVE  /\ HasType(q, type) => HasType(Append(q, m), type)
         /\ m.type = type => HasType(Append(q, m), type)
<1>1. /\ DOMAIN q = 1..Len(q) /\ DOMAIN Append(q, m) = 1..(Len(q) + 1) /\ Len(q) \in Nat
      /\ Append(q, m)[Len(q) + 1] = m /\ \A k \in 1..Len(q) : Append(q, m)[k] = q[k]
  OBVIOUS
<1>2. ASSUME HasType(q, type) PROVE HasType(Append(q, m), type)
  <2>1. PICK k \in DOMAIN q : q[k].type = type
    BY <1>2 DEF HasType
  <2>2. k \in DOMAIN Append(q, m) /\ Append(q, m)[k].type = type
    BY <2>1, <1>1
  <2> QED
    BY <2>2 DEF HasType
<1>3. ASSUME m.type = type PROVE HasType(Append(q, m), type)
  <2>1. Len(q) + 1 \in DOMAIN Append(q, m) /\ Append(q, m)[Len(q) + 1].type = type
    BY <1>1, <1>3
  <2> QED
    BY <2>1 DEF HasType
<1> QED
  BY <1>2, <1>3

-----------------------------------------------------------------------------
(* What happens to an item keeps it right.                                 *)

(* The item with other stages. *)
Staged(item, configured, active, exported, step, node, caches_props, adapter, endpoint, connected,
       deferred) ==
  [configured |-> configured, active |-> active, exported |-> exported, step |-> step,
   exports |-> item.exports, activations |-> item.activations, node |-> node,
   caches_props |-> caches_props, adapter |-> adapter, endpoint |-> endpoint,
   connected |-> connected, deferred |-> deferred, left |-> item.left]

LEMMA StagedAsItIs ==
  ASSUME NEW item \in E!Item
  PROVE  /\ item = Staged(item, item.configured, item.active, item.exported, item.step, item.node,
                          item.caches_props, item.adapter, item.endpoint, item.connected,
                          item.deferred)
         /\ item.configured \in BOOLEAN /\ item.active \in BOOLEAN /\ item.exported \in BOOLEAN
         /\ item.step \in {"none", "node", "adapter", "export", "props", "bind"}
         /\ item.node \in {"none", "new", "bound", "lost"} /\ item.caches_props \in BOOLEAN
         /\ item.adapter \in {"none", "new", "active", "reset"}
         /\ item.endpoint \in {"none", "new", "bound", "lost"} /\ item.connected \in BOOLEAN
         /\ item.deferred \in Nat
BY DEF Staged, E!Item

LEMMA ActiveDisabled ==
  ASSUME NEW item \in E!Item, item.active
  PROVE  /\ E!disable_active(item) = Staged(item, item.configured, FALSE, item.exported, item.step,
              "none", FALSE, "none", item.endpoint, item.connected, item.deferred)
         /\ E!disable_active(item) \in E!Item
<1>1. item = Staged(item, item.configured, item.active, item.exported, item.step, item.node,
                    item.caches_props, item.adapter, item.endpoint, item.connected, item.deferred)
  BY StagedAsItIs
<1>2. PICK new : new = E!disable_active(item)
  OBVIOUS
<1>3. new = [item EXCEPT !.active = FALSE, !.adapter = "none", !.node = "none", !.caches_props = FALSE]
  BY <1>2 DEF E!disable_active
<1>4. new = Staged(item, item.configured, FALSE, item.exported, item.step, "none", FALSE, "none",
                   item.endpoint, item.connected, item.deferred)
  BY ONLY <1>1, <1>3 DEF Staged
<1>5. new \in E!Item
  BY <1>4 DEF Staged, E!Item
<1> QED
  BY ONLY <1>2, <1>4, <1>5, Zenon

LEMMA ExportDisabled ==
  ASSUME NEW item \in E!Item, item.exported
  PROVE  \E deferred \in Nat :
           /\ E!disable_exported(item) \in E!Item
           /\ E!disable_exported(item) = Staged(item, item.configured, item.active, FALSE, item.step,
                item.node, item.caches_props, item.adapter, "none", FALSE, deferred)
           /\ deferred = IF item.endpoint = "bound" THEN item.deferred + 1 ELSE item.deferred
<1>1. item = Staged(item, item.configured, item.active, item.exported, item.step, item.node,
                    item.caches_props, item.adapter, item.endpoint, item.connected, item.deferred)
  BY StagedAsItIs
<1>2. PICK deferred : deferred = IF item.endpoint = "bound" THEN item.deferred + 1 ELSE item.deferred
  OBVIOUS
<1>3. deferred \in Nat
  BY <1>2, StagedAsItIs
<1>4. PICK gone : gone = IF item.endpoint = "bound" THEN [item EXCEPT !.deferred = deferred] ELSE item
  OBVIOUS
<1>5. PICK new : new = E!disable_exported(item)
  OBVIOUS
<1>6. new = [gone EXCEPT !.exported = FALSE, !.endpoint = "none", !.connected = FALSE]
  BY <1>2, <1>4, <1>5 DEF E!disable_exported, E!wp_session_item_handle_proxy_destroyed
<1>7. gone = Staged(item, item.configured, item.active, item.exported, item.step, item.node,
                    item.caches_props, item.adapter, item.endpoint, item.connected, deferred)
  <2>1. CASE item.endpoint = "bound"
    <3>1. gone = [item EXCEPT !.deferred = deferred]
      BY <1>4, <2>1
    <3> QED
      BY ONLY <1>1, <3>1 DEF Staged
  <2>2. CASE item.endpoint # "bound"
    <3>1. gone = item /\ deferred = item.deferred
      BY <1>2, <1>4, <2>2
    <3> QED
      BY ONLY <1>1, <3>1, Zenon
  <2> QED
    BY <2>1, <2>2
<1>8. new = Staged(item, item.configured, item.active, FALSE, item.step, item.node,
                   item.caches_props, item.adapter, "none", FALSE, deferred)
  BY ONLY <1>6, <1>7 DEF Staged
<1>9. new \in E!Item
  BY <1>3, <1>8 DEF Staged, E!Item
<1> QED
  BY ONLY <1>2, <1>3, <1>5, <1>8, <1>9, Zenon

LEMMA ItemDeactivated ==
  ASSUME NEW item, ItemRight(item), item.step = "none"
  PROVE  ItemRight(E!disable_exported(item)) /\ ItemRight(E!disable_exported(E!disable_active(item)))
<1>1. item \in E!Item /\ StagesRight(item) /\ ConnectionRight(item)
  BY DEF ItemRight
<1>2. ItemRight(E!disable_exported(item))
  <2>1. CASE item.exported
    <3>1. PICK deferred \in Nat :
            /\ E!disable_exported(item) \in E!Item
            /\ E!disable_exported(item) = Staged(item, item.configured, item.active, FALSE, item.step,
                 item.node, item.caches_props, item.adapter, "none", FALSE, deferred)
            /\ deferred = IF item.endpoint = "bound" THEN item.deferred + 1 ELSE item.deferred
      BY ONLY <1>1, <2>1, ExportDisabled, Zenon
    <3>2. PICK new : new = E!disable_exported(item)
      OBVIOUS
    <3>3. new \in E!Item
      BY ONLY <3>1, <3>2, Zenon
    <3>4. StagesRight(new) /\ ConnectionRight(new)
      BY <1>1, <3>1, <3>2 DEF Staged, StagesRight, ConnectionRight, E!FeaturesBacked,
         E!UndoesTheLost, E!HasNode
    <3> QED
      BY <3>2, <3>3, <3>4 DEF ItemRight
  <2>2. CASE ~item.exported
    BY <2>2 DEF E!disable_exported
  <2> QED
    BY <2>1, <2>2
<1>3. ASSUME item.active PROVE ItemRight(E!disable_exported(E!disable_active(item)))
  <2>1. PICK idle : idle = E!disable_active(item)
    OBVIOUS
  <2>2. idle = Staged(item, item.configured, FALSE, item.exported, item.step, "none", FALSE, "none",
                      item.endpoint, item.connected, item.deferred)
    BY ONLY <1>1, <1>3, <2>1, ActiveDisabled, Zenon
  <2>3. idle \in E!Item
    BY ONLY <1>1, <1>3, <2>1, ActiveDisabled, Zenon
  <2>4. CASE item.exported
    <3>1. idle.exported
      BY <2>2, <2>4 DEF Staged
    <3>2. PICK deferred \in Nat :
            /\ E!disable_exported(idle) \in E!Item
            /\ E!disable_exported(idle) = Staged(idle, idle.configured, idle.active, FALSE, idle.step,
                 idle.node, idle.caches_props, idle.adapter, "none", FALSE, deferred)
            /\ deferred = IF idle.endpoint = "bound" THEN idle.deferred + 1 ELSE idle.deferred
      BY ONLY <2>3, <3>1, ExportDisabled, Zenon
    <3>3. PICK new : new = E!disable_exported(idle)
      OBVIOUS
    <3>4. new \in E!Item
      BY ONLY <3>2, <3>3, Zenon
    <3>5. StagesRight(new) /\ ConnectionRight(new)
      BY <1>1, <2>2, <3>2, <3>3 DEF Staged, StagesRight, ConnectionRight, E!FeaturesBacked,
         E!UndoesTheLost, E!HasNode
    <3> QED
      BY <2>1, <3>3, <3>4, <3>5 DEF ItemRight
  <2>5. CASE ~item.exported
    <3>1. E!disable_exported(idle) = idle
      BY <2>2, <2>5 DEF Staged, E!disable_exported
    <3>2. StagesRight(idle) /\ ConnectionRight(idle)
      BY <1>1, <2>2, <2>5 DEF Staged, StagesRight, ConnectionRight, E!FeaturesBacked,
         E!UndoesTheLost, E!HasNode
    <3> QED
      BY <2>1, <2>3, <3>1, <3>2 DEF ItemRight
  <2> QED
    BY <2>4, <2>5
<1>4. ASSUME ~item.active PROVE E!disable_active(item) = item
  BY <1>4 DEF E!disable_active
<1> QED
  BY <1>2, <1>3, <1>4

LEMMA ItemReset ==
  ASSUME NEW item, ItemRight(item), item.step = "none", NEW accepted \in BOOLEAN
  PROVE  /\ ItemRight(E!si_audio_endpoint_reset(item))
         /\ ItemRight([E!si_audio_endpoint_reset(item) EXCEPT !.configured = accepted])
<1>1. PICK idle : idle = E!disable_exported(E!disable_active(item))
  OBVIOUS
<1>2. idle \in E!Item /\ StagesRight(idle) /\ ConnectionRight(idle)
  BY <1>1, ItemDeactivated DEF ItemRight
<1>3. idle = Staged(idle, idle.configured, idle.active, idle.exported, idle.step, idle.node,
                    idle.caches_props, idle.adapter, idle.endpoint, idle.connected, idle.deferred)
  BY <1>2, StagedAsItIs
<1>4. ~idle.active /\ ~idle.exported /\ idle.step = "none"
  <2>1. item \in E!Item
    BY DEF ItemRight
  <2>2. PICK inactive : inactive = E!disable_active(item)
    OBVIOUS
  <2>3. inactive \in E!Item /\ ~inactive.active /\ inactive.step = "none"
    <3>1. CASE item.active
      BY <2>1, <2>2, <3>1, ActiveDisabled DEF Staged
    <3>2. CASE ~item.active
      BY <2>1, <2>2, <3>2 DEF E!disable_active
    <3> QED
      BY <3>1, <3>2
  <2>4. idle = E!disable_exported(inactive)
    BY <1>1, <2>2
  <2>5. CASE inactive.exported
    <3>1. PICK deferred \in Nat :
            idle = Staged(inactive, inactive.configured, inactive.active, FALSE, inactive.step,
              inactive.node, inactive.caches_props, inactive.adapter, "none", FALSE, deferred)
      BY ONLY <2>3, <2>4, <2>5, ExportDisabled, Zenon
    <3> QED
      BY <2>3, <3>1 DEF Staged
  <2>6. CASE ~inactive.exported
    BY <2>3, <2>4, <2>6 DEF E!disable_exported
  <2> QED
    BY <2>5, <2>6
<1>5. ASSUME NEW configured \in BOOLEAN PROVE ItemRight([idle EXCEPT !.configured = configured])
  <2>1. PICK new : new = [idle EXCEPT !.configured = configured]
    OBVIOUS
  <2>2. new = Staged(idle, configured, idle.active, idle.exported, idle.step, idle.node,
                     idle.caches_props, idle.adapter, idle.endpoint, idle.connected, idle.deferred)
    BY ONLY <1>3, <2>1 DEF Staged
  <2>3. new \in E!Item
    BY <1>2, <2>2 DEF Staged, E!Item
  <2>4. StagesRight(new) /\ ConnectionRight(new)
    BY <1>2, <1>4, <2>2 DEF Staged, StagesRight, ConnectionRight, E!FeaturesBacked,
       E!UndoesTheLost, E!HasNode
  <2> QED
    BY <2>1, <2>3, <2>4 DEF ItemRight
<1>6. E!si_audio_endpoint_reset(item) = [idle EXCEPT !.configured = FALSE]
  BY <1>1 DEF E!si_audio_endpoint_reset
<1>7. [[idle EXCEPT !.configured = FALSE] EXCEPT !.configured = accepted] =
        [idle EXCEPT !.configured = accepted]
  BY <1>2 DEF E!Item
<1> QED
  BY <1>5, <1>6, <1>7

LEMMA ItemExported ==
  ASSUME NEW item, ItemRight(item), item.active, item.step = "none", item.deferred = 0,
         item.endpoint = "none"
  PROVE  ItemRight(E!enable_exported(item))
<1>1. item \in E!Item /\ StagesRight(item) /\ ConnectionRight(item)
  BY DEF ItemRight
<1>2. item = Staged(item, item.configured, item.active, item.exported, item.step, item.node,
                    item.caches_props, item.adapter, item.endpoint, item.connected, item.deferred)
  BY <1>1, StagedAsItIs
<1>3. PICK connected \in BOOLEAN : connected = (E!HasNode(item) /\ item.caches_props)
  BY <1>1, StagedAsItIs DEF E!HasNode
<1>4. PICK new : new = [item EXCEPT !.step = "export", !.endpoint = "new", !.connected = connected,
                                    !.left = item.left]
  OBVIOUS
<1>5. E!enable_exported(item) = new
  BY <1>3, <1>4 DEF E!enable_exported
<1>6. new = Staged(item, item.configured, item.active, item.exported, "export", item.node,
                   item.caches_props, item.adapter, "new", connected, item.deferred)
  BY ONLY <1>2, <1>4 DEF Staged
<1>7. new \in E!Item
  BY <1>1, <1>3, <1>6 DEF Staged, E!Item
<1>8. StagesRight(new) /\ ConnectionRight(new)
  BY <1>1, <1>3, <1>6 DEF Staged, StagesRight, ConnectionRight, E!FeaturesBacked, E!UndoesTheLost,
     E!HasNode
<1> QED
  BY <1>5, <1>7, <1>8 DEF ItemRight

LEMMA ItemActivates ==
  ASSUME NEW item, ItemRight(item), item.step = "none", item.deferred = 0, ~E!Unfinished(item),
         item.activations < MaxActivations, NEW exports \in BOOLEAN,
         NEW counted, counted = [item EXCEPT !.activations = @ + 1, !.exports = exports]
  PROVE  ItemRight(IF ~item.active THEN E!enable_active(counted)
                   ELSE IF item.exported THEN item ELSE E!enable_exported(counted))
<1>1. item \in E!Item /\ StagesRight(item) /\ ConnectionRight(item)
  BY DEF ItemRight
<1>2. item = Staged(item, item.configured, item.active, item.exported, item.step, item.node,
                    item.caches_props, item.adapter, item.endpoint, item.connected, item.deferred)
  BY <1>1, StagedAsItIs
<1>3. PICK n : n = item.activations + 1
  OBVIOUS
<1>4. n \in 0..MaxActivations
  BY <1>1, <1>3, EndpointsAssumption DEF E!Item, E!EndpointAssumption
<1>5. counted = [item EXCEPT !.activations = n, !.exports = exports]
  BY <1>3
<1>6. counted = [configured |-> item.configured, active |-> item.active,
                 exported |-> item.exported, step |-> item.step, exports |-> exports,
                 activations |-> n, node |-> item.node, caches_props |-> item.caches_props,
                 adapter |-> item.adapter, endpoint |-> item.endpoint,
                 connected |-> item.connected, deferred |-> item.deferred, left |-> item.left]
  BY ONLY <1>2, <1>5 DEF Staged
<1>7. counted \in E!Item
  BY <1>1, <1>4, <1>6 DEF E!Item
<1>8. StagesRight(counted) /\ ConnectionRight(counted)
  BY <1>1, <1>6 DEF StagesRight, ConnectionRight, E!FeaturesBacked, E!UndoesTheLost, E!HasNode
<1>9. CASE item.active
  <2>1. CASE item.exported
    BY <1>9, <2>1
  <2>2. CASE ~item.exported
    <3>1. /\ ItemRight(counted) /\ counted.active /\ counted.step = "none" /\ counted.deferred = 0
          /\ counted.endpoint = "none"
      BY <1>6, <1>7, <1>8, <1>9, <2>2 DEF ItemRight, E!Unfinished
    <3> QED
      BY <1>9, <2>2, <3>1, ItemExported
  <2> QED
    BY <2>1, <2>2
<1>10. CASE ~item.active
  <2>1. CASE ~item.configured
    <3>1. E!enable_active(counted) = counted
      BY <1>6, <2>1 DEF E!enable_active
    <3> QED
      BY <1>7, <1>8, <1>10, <3>1 DEF ItemRight
  <2>2. CASE item.configured
    <3>1. PICK new : new = E!enable_active(counted)
      OBVIOUS
    <3>2. item.node = "none"
      BY <1>10 DEF E!Unfinished
    <3>3. counted = Staged(counted, counted.configured, counted.active, counted.exported,
                           counted.step, counted.node, counted.caches_props, counted.adapter,
                           counted.endpoint, counted.connected, counted.deferred)
      BY <1>7, StagedAsItIs
    <3>4. new = [counted EXCEPT !.step = "node", !.node = "new", !.caches_props = FALSE,
                                !.left = counted.left]
      BY <1>6, <2>2, <3>1, <3>2 DEF E!enable_active
    <3>5. new = Staged(counted, counted.configured, counted.active, counted.exported, "node", "new",
                       FALSE, counted.adapter, counted.endpoint, counted.connected,
                       counted.deferred)
      BY ONLY <3>3, <3>4 DEF Staged
    <3>6. new \in E!Item
      BY <1>7, <3>5 DEF Staged, E!Item
    <3>7. StagesRight(new) /\ ConnectionRight(new)
      BY <1>1, <1>6, <1>10, <2>2, <3>2, <3>5 DEF Staged, StagesRight, ConnectionRight,
         E!FeaturesBacked, E!UndoesTheLost, E!HasNode, E!Unfinished
    <3> QED
      BY <1>10, <3>1, <3>6, <3>7 DEF ItemRight
  <2> QED
    BY <2>1, <2>2
<1> QED
  BY <1>9, <1>10

LEMMA ItemErrs ==
  ASSUME NEW item, ItemRight(item), item.step # "none"
  PROVE  ItemRight(E!return_error(item))
<1>1. item \in E!Item /\ StagesRight(item) /\ ConnectionRight(item)
  BY DEF ItemRight
<1>2. item = Staged(item, item.configured, item.active, item.exported, item.step, item.node,
                    item.caches_props, item.adapter, item.endpoint, item.connected,
                    item.deferred)
  BY <1>1, StagedAsItIs
<1>3. PICK new : new = E!return_error(item)
  OBVIOUS
<1>4. new = [item EXCEPT !.step = "none"]
  BY <1>3 DEF E!return_error
<1>5. new = Staged(item, item.configured, item.active, item.exported, "none", item.node,
                   item.caches_props, item.adapter, item.endpoint, item.connected,
                   item.deferred)
  BY ONLY <1>2, <1>4 DEF Staged
<1>6. new \in E!Item
  BY <1>1, <1>5 DEF Staged, E!Item
<1>7. StagesRight(new)
  BY <1>1, <1>5 DEF Staged, StagesRight, E!FeaturesBacked, E!UndoesTheLost
<1>8. ConnectionRight(new)
  BY <1>1, <1>5 DEF Staged, StagesRight, ConnectionRight, E!HasNode
<1> QED
  BY <1>3, <1>6, <1>7, <1>8 DEF ItemRight

LEMMA ItemHasItsNode ==
  ASSUME NEW item, ItemRight(item), item.step = "node"
  PROVE  ItemRight([item EXCEPT !.node = "bound", !.adapter = "new", !.step = "adapter"])
<1>1. item \in E!Item /\ StagesRight(item) /\ ConnectionRight(item)
  BY DEF ItemRight
<1>2. item = Staged(item, item.configured, item.active, item.exported, item.step, item.node,
                    item.caches_props, item.adapter, item.endpoint, item.connected,
                    item.deferred)
  BY <1>1, StagedAsItIs
<1>3. PICK new : new = [item EXCEPT !.node = "bound", !.adapter = "new", !.step = "adapter"]
  OBVIOUS
<1>4. new = Staged(item, item.configured, item.active, item.exported, "adapter", "bound",
                   item.caches_props, "new", item.endpoint, item.connected, item.deferred)
  BY ONLY <1>2, <1>3 DEF Staged
<1>5. new \in E!Item
  BY <1>1, <1>4 DEF Staged, E!Item
<1>6. StagesRight(new)
  BY <1>1, <1>4 DEF Staged, StagesRight, E!FeaturesBacked, E!UndoesTheLost
<1>7. ConnectionRight(new)
  BY <1>1, <1>4 DEF Staged, StagesRight, ConnectionRight, E!HasNode
<1> QED
  BY <1>3, <1>5, <1>6, <1>7 DEF ItemRight

LEMMA ItemAdapted ==
  ASSUME NEW item, ItemRight(item), item.step = "adapter"
  PROVE  ItemRight([item EXCEPT !.adapter = "active", !.active = TRUE, !.step = "none"])
<1>1. item \in E!Item /\ StagesRight(item) /\ ConnectionRight(item)
  BY DEF ItemRight
<1>2. item = Staged(item, item.configured, item.active, item.exported, item.step, item.node,
                    item.caches_props, item.adapter, item.endpoint, item.connected,
                    item.deferred)
  BY <1>1, StagedAsItIs
<1>3. PICK new : new = [item EXCEPT !.adapter = "active", !.active = TRUE, !.step = "none"]
  OBVIOUS
<1>4. new = Staged(item, item.configured, TRUE, item.exported, "none", item.node,
                   item.caches_props, "active", item.endpoint, item.connected, item.deferred)
  BY ONLY <1>2, <1>3 DEF Staged
<1>5. new \in E!Item
  BY <1>1, <1>4 DEF Staged, E!Item
<1>6. StagesRight(new)
  BY <1>1, <1>4 DEF Staged, StagesRight, E!FeaturesBacked, E!UndoesTheLost
<1>7. ConnectionRight(new)
  BY <1>1, <1>4 DEF Staged, StagesRight, ConnectionRight, E!HasNode
<1> QED
  BY <1>3, <1>5, <1>6, <1>7 DEF ItemRight

LEMMA ItemWaitsForProps ==
  ASSUME NEW item, ItemRight(item), item.step = "export"
  PROVE  ItemRight([item EXCEPT !.step = "props"])
<1>1. item \in E!Item /\ StagesRight(item) /\ ConnectionRight(item)
  BY DEF ItemRight
<1>2. item = Staged(item, item.configured, item.active, item.exported, item.step, item.node,
                    item.caches_props, item.adapter, item.endpoint, item.connected,
                    item.deferred)
  BY <1>1, StagedAsItIs
<1>3. PICK new : new = [item EXCEPT !.step = "props"]
  OBVIOUS
<1>4. new = Staged(item, item.configured, item.active, item.exported, "props", item.node,
                   item.caches_props, item.adapter, item.endpoint, item.connected,
                   item.deferred)
  BY ONLY <1>2, <1>3 DEF Staged
<1>5. new \in E!Item
  BY <1>1, <1>4 DEF Staged, E!Item
<1>6. StagesRight(new)
  BY <1>1, <1>4 DEF Staged, StagesRight, E!FeaturesBacked, E!UndoesTheLost
<1>7. ConnectionRight(new)
  BY <1>1, <1>4 DEF Staged, StagesRight, ConnectionRight, E!HasNode
<1> QED
  BY <1>3, <1>5, <1>6, <1>7 DEF ItemRight

LEMMA ItemBinds ==
  ASSUME NEW item, ItemRight(item), item.step = "export",
         ~(E!HasNode(item) /\ item.node = "bound" /\ ~item.caches_props)
  PROVE  ItemRight([item EXCEPT !.step = "bind"])
<1>1. item \in E!Item /\ StagesRight(item) /\ ConnectionRight(item)
  BY DEF ItemRight
<1>2. item = Staged(item, item.configured, item.active, item.exported, item.step, item.node,
                    item.caches_props, item.adapter, item.endpoint, item.connected,
                    item.deferred)
  BY <1>1, StagedAsItIs
<1>3. PICK new : new = [item EXCEPT !.step = "bind"]
  OBVIOUS
<1>4. new = Staged(item, item.configured, item.active, item.exported, "bind", item.node,
                   item.caches_props, item.adapter, item.endpoint, item.connected,
                   item.deferred)
  BY ONLY <1>2, <1>3 DEF Staged
<1>5. new \in E!Item
  BY <1>1, <1>4 DEF Staged, E!Item
<1>6. StagesRight(new)
  BY <1>1, <1>4 DEF Staged, StagesRight, E!FeaturesBacked, E!UndoesTheLost
<1>7. ConnectionRight(new)
  BY <1>1, <1>4 DEF Staged, StagesRight, ConnectionRight, E!HasNode
<1> QED
  BY <1>3, <1>5, <1>6, <1>7 DEF ItemRight

LEMMA ItemCaches ==
  ASSUME NEW item, ItemRight(item), item.node = "bound",
         item.step \notin {"export", "props"}
  PROVE  ItemRight([item EXCEPT !.caches_props = TRUE])
<1>1. item \in E!Item /\ StagesRight(item) /\ ConnectionRight(item)
  BY DEF ItemRight
<1>2. item = Staged(item, item.configured, item.active, item.exported, item.step, item.node,
                    item.caches_props, item.adapter, item.endpoint, item.connected,
                    item.deferred)
  BY <1>1, StagedAsItIs
<1>3. PICK new : new = [item EXCEPT !.caches_props = TRUE]
  OBVIOUS
<1>4. new = Staged(item, item.configured, item.active, item.exported, item.step, item.node,
                   TRUE, item.adapter, item.endpoint, item.connected, item.deferred)
  BY ONLY <1>2, <1>3 DEF Staged
<1>5. new \in E!Item
  BY <1>1, <1>4 DEF Staged, E!Item
<1>6. StagesRight(new)
  BY <1>1, <1>4 DEF Staged, StagesRight, E!FeaturesBacked, E!UndoesTheLost
<1>7. ConnectionRight(new)
  BY <1>1, <1>4 DEF Staged, StagesRight, ConnectionRight, E!HasNode
<1> QED
  BY <1>3, <1>5, <1>6, <1>7 DEF ItemRight

LEMMA ItemBound ==
  ASSUME NEW item, ItemRight(item), item.step = "bind"
  PROVE  ItemRight([item EXCEPT !.endpoint = "bound", !.exported = TRUE, !.step = "none"])
<1>1. item \in E!Item /\ StagesRight(item) /\ ConnectionRight(item)
  BY DEF ItemRight
<1>2. item = Staged(item, item.configured, item.active, item.exported, item.step, item.node,
                    item.caches_props, item.adapter, item.endpoint, item.connected,
                    item.deferred)
  BY <1>1, StagedAsItIs
<1>3. PICK new : new = [item EXCEPT !.endpoint = "bound", !.exported = TRUE, !.step = "none"]
  OBVIOUS
<1>4. new = Staged(item, item.configured, item.active, TRUE, "none", item.node,
                   item.caches_props, item.adapter, "bound", item.connected, item.deferred)
  BY ONLY <1>2, <1>3 DEF Staged
<1>5. new \in E!Item
  BY <1>1, <1>4 DEF Staged, E!Item
<1>6. StagesRight(new)
  BY <1>1, <1>4 DEF Staged, StagesRight, E!FeaturesBacked, E!UndoesTheLost
<1>7. ConnectionRight(new)
  BY <1>1, <1>4 DEF Staged, StagesRight, ConnectionRight, E!HasNode
<1> QED
  BY <1>3, <1>5, <1>6, <1>7 DEF ItemRight

LEMMA ItemBindsItsProps ==
  ASSUME NEW item, ItemRight(item), item.step = "props",
         NEW cached, cached = [item EXCEPT !.caches_props = TRUE, !.connected = TRUE]
  PROVE  ItemRight([cached EXCEPT !.step = "bind"]) /\ ItemRight(E!return_error(cached))
<1>1. item \in E!Item /\ StagesRight(item) /\ ConnectionRight(item)
  BY DEF ItemRight
<1>2. item = Staged(item, item.configured, item.active, item.exported, item.step, item.node,
                    item.caches_props, item.adapter, item.endpoint, item.connected, item.deferred)
  BY <1>1, StagedAsItIs
<1>3. cached = [item EXCEPT !.caches_props = TRUE, !.connected = TRUE]
  OBVIOUS
<1>4. cached = Staged(item, item.configured, item.active, item.exported, item.step, item.node, TRUE,
                      item.adapter, item.endpoint, TRUE, item.deferred)
  BY ONLY <1>2, <1>3 DEF Staged
<1>5. ASSUME NEW step \in {"bind", "none"} PROVE ItemRight([cached EXCEPT !.step = step])
  <2>1. PICK new : new = [cached EXCEPT !.step = step]
    OBVIOUS
  <2>2. new = Staged(item, item.configured, item.active, item.exported, step, item.node, TRUE,
                     item.adapter, item.endpoint, TRUE, item.deferred)
    BY ONLY <1>4, <2>1 DEF Staged
  <2>3. new \in E!Item
    BY <1>1, <2>2 DEF Staged, E!Item
  <2>4. StagesRight(new) /\ ConnectionRight(new)
    BY <1>1, <2>2 DEF Staged, StagesRight, ConnectionRight, E!FeaturesBacked, E!UndoesTheLost,
       E!HasNode
  <2> QED
    BY <2>1, <2>3, <2>4 DEF ItemRight
<1> QED
  BY <1>5 DEF E!return_error

LEMMA EndpointGone ==
  ASSUME NEW item, ItemRight(item), item.endpoint = "bound" \/ item.step = "bind",
         NEW new, NEW step, step = (IF item.step = "bind" THEN "none" ELSE item.step),
         new = [E!wp_session_item_handle_proxy_destroyed(item) EXCEPT !.endpoint = "lost",
                                                                       !.step = step]
  PROVE  ItemRight(new)
<1>1. item \in E!Item /\ StagesRight(item) /\ ConnectionRight(item)
  BY DEF ItemRight
<1>2. item = Staged(item, item.configured, item.active, item.exported, item.step, item.node,
                    item.caches_props, item.adapter, item.endpoint, item.connected, item.deferred)
  BY <1>1, StagedAsItIs
<1>3. PICK n : n = item.deferred + 1
  OBVIOUS
<1>4. n \in Nat /\ n > 0
  BY <1>1, <1>3 DEF StagesRight
<1>5. PICK gone : gone = [item EXCEPT !.deferred = n]
  OBVIOUS
<1>6. new = [gone EXCEPT !.endpoint = "lost", !.step = step]
  BY <1>3, <1>5 DEF E!wp_session_item_handle_proxy_destroyed
<1>7. gone = Staged(item, item.configured, item.active, item.exported, item.step, item.node,
                    item.caches_props, item.adapter, item.endpoint, item.connected, n)
  BY ONLY <1>2, <1>5 DEF Staged
<1>8. step = "none"
  BY <1>1 DEF StagesRight, E!FeaturesBacked
<1>9. new = Staged(item, item.configured, item.active, item.exported, "none", item.node,
                   item.caches_props, item.adapter, "lost", item.connected, n)
  BY ONLY <1>6, <1>7, <1>8 DEF Staged
<1>10. new \in E!Item
  BY <1>1, <1>4, <1>9 DEF Staged, E!Item
<1>11. item.endpoint = "bound" \/ item.step = "bind"
  OBVIOUS
<1>12. StagesRight(new)
  BY ONLY <1>1, <1>4, <1>9, <1>11 DEF Staged, StagesRight, E!FeaturesBacked, E!UndoesTheLost
<1>13. ConnectionRight(new)
  BY ONLY <1>1, <1>9 DEF Staged, ConnectionRight, E!HasNode
<1> QED
  BY <1>10, <1>12, <1>13 DEF ItemRight

LEMMA ItemRefused ==
  ASSUME NEW item, ItemRight(item), item.step = "bind"
  PROVE  ItemRight([E!return_error(E!wp_session_item_handle_proxy_destroyed(item))
                      EXCEPT !.endpoint = "lost"])
<1>1. PICK gone : gone = E!wp_session_item_handle_proxy_destroyed(item)
  OBVIOUS
<1>2. PICK new : new = [gone EXCEPT !.endpoint = "lost", !.step = "none"]
  OBVIOUS
<1>3. [[gone EXCEPT !.step = "none"] EXCEPT !.endpoint = "lost"] = new
  <2>1. item \in E!Item /\ gone = [item EXCEPT !.deferred = item.deferred + 1]
    BY <1>1 DEF ItemRight, E!wp_session_item_handle_proxy_destroyed
  <2> QED
    BY <1>2, <2>1 DEF E!Item
<1>4. ItemRight(new)
  BY <1>1, <1>2, EndpointGone
<1> QED
  BY <1>1, <1>3, <1>4 DEF E!return_error

LEMMA ItemLost ==
  ASSUME NEW item, ItemRight(item)
  PROVE  ItemRight(E!EndpointLost(item)) /\ ItemRight(E!NodeLost(item))
<1>1. item \in E!Item /\ StagesRight(item) /\ ConnectionRight(item)
  BY DEF ItemRight
<1>2. item = Staged(item, item.configured, item.active, item.exported, item.step, item.node,
                    item.caches_props, item.adapter, item.endpoint, item.connected, item.deferred)
  BY <1>1, StagedAsItIs
<1>3. ItemRight(E!EndpointLost(item))
  <2>1. CASE item.endpoint = "bound" \/ item.step = "bind"
    <3>1. PICK step : step = IF item.step = "bind" THEN "none" ELSE item.step
      OBVIOUS
    <3>2. PICK new : new = E!EndpointLost(item)
      OBVIOUS
    <3>3. E!wp_session_item_handle_proxy_destroyed(item).step = item.step
      BY <1>1 DEF E!wp_session_item_handle_proxy_destroyed, E!Item
    <3>4. new = [E!wp_session_item_handle_proxy_destroyed(item) EXCEPT !.endpoint = "lost",
                                                                       !.step = step]
      BY <2>1, <3>1, <3>2, <3>3 DEF E!EndpointLost
    <3> QED
      BY <2>1, <3>1, <3>2, <3>4, EndpointGone
  <2>2. CASE ~(item.endpoint = "bound" \/ item.step = "bind")
    BY <2>2 DEF E!EndpointLost
  <2> QED
    BY <2>1, <2>2
<1>4. ItemRight(E!NodeLost(item))
  <2>1. CASE item.node \in {"new", "bound"}
    <3>1. PICK adapter \in {"none", "reset"} :
            adapter = IF item.adapter = "none" THEN "none" ELSE "reset"
      OBVIOUS
    <3>2. PICK step \in {"none", "export", "bind"} :
            step = IF item.step \in {"node", "adapter", "props"} THEN "none" ELSE item.step
      BY <1>1, StagedAsItIs
    <3>3. PICK new : new = E!NodeLost(item)
      OBVIOUS
    <3>4. new = [item EXCEPT !.node = "lost", !.caches_props = FALSE, !.adapter = adapter,
                             !.step = step]
      BY <2>1, <3>1, <3>2, <3>3 DEF E!NodeLost
    <3>5. new = Staged(item, item.configured, item.active, item.exported, step, "lost", FALSE,
                       adapter, item.endpoint, item.connected, item.deferred)
      BY ONLY <1>2, <3>4 DEF Staged
    <3>6. new \in E!Item
      BY <1>1, <3>1, <3>2, <3>5 DEF Staged, E!Item
    <3>7. StagesRight(new) /\ ConnectionRight(new)
      BY <1>1, <2>1, <3>1, <3>2, <3>5 DEF Staged, StagesRight, ConnectionRight, E!FeaturesBacked,
         E!UndoesTheLost, E!HasNode
    <3> QED
      BY <3>3, <3>6, <3>7 DEF ItemRight
  <2>2. CASE item.node \notin {"new", "bound"}
    BY <2>2 DEF E!NodeLost
  <2> QED
    BY <2>1, <2>2
<1> QED
  BY <1>3, <1>4

LEMMA ItemUndone ==
  ASSUME NEW item, ItemRight(item), item.deferred > 0
  PROVE  ItemRight(E!disable_exported([item EXCEPT !.deferred = @ - 1]))
<1>1. item \in E!Item /\ StagesRight(item) /\ ConnectionRight(item)
  BY DEF ItemRight
<1>2. item = Staged(item, item.configured, item.active, item.exported, item.step, item.node,
                    item.caches_props, item.adapter, item.endpoint, item.connected, item.deferred)
  BY <1>1, StagedAsItIs
<1>3. PICK n \in Nat : n = item.deferred - 1
  BY <1>1 DEF StagesRight
<1>4. PICK less : less = [item EXCEPT !.deferred = n]
  OBVIOUS
<1>5. less = Staged(item, item.configured, item.active, item.exported, item.step, item.node,
                    item.caches_props, item.adapter, item.endpoint, item.connected, n)
  BY ONLY <1>2, <1>4 DEF Staged
<1>6. less \in E!Item
  BY <1>1, <1>3, <1>5 DEF Staged, E!Item
<1>7. item.step = "none"
  BY <1>1 DEF StagesRight
<1>8. CASE item.exported
  <2>1. item.endpoint = "lost"
    BY <1>1, <1>8 DEF StagesRight, E!UndoesTheLost
  <2>2. less.exported
    BY <1>5, <1>8 DEF Staged
  <2>3. PICK deferred \in Nat :
          /\ E!disable_exported(less) \in E!Item
          /\ E!disable_exported(less) = Staged(less, less.configured, less.active, FALSE, less.step,
               less.node, less.caches_props, less.adapter, "none", FALSE, deferred)
    BY ONLY <1>6, <2>2, ExportDisabled, Zenon
  <2>4. PICK new : new = E!disable_exported(less)
    OBVIOUS
  <2>5. StagesRight(new) /\ ConnectionRight(new)
    BY <1>1, <1>5, <1>7, <1>8, <2>3, <2>4 DEF Staged, StagesRight, ConnectionRight,
       E!FeaturesBacked, E!UndoesTheLost, E!HasNode
  <2> QED
    BY <1>3, <1>4, <2>3, <2>4, <2>5 DEF ItemRight
<1>9. CASE ~item.exported
  <2>1. E!disable_exported(less) = less
    BY <1>5, <1>9 DEF Staged, E!disable_exported
  <2>2. StagesRight(less) /\ ConnectionRight(less)
    BY <1>1, <1>3, <1>5, <1>7, <1>9 DEF Staged, StagesRight, ConnectionRight, E!FeaturesBacked,
       E!UndoesTheLost, E!HasNode
  <2> QED
    BY <1>3, <1>4, <1>6, <2>1, <2>2 DEF ItemRight
<1> QED
  BY <1>8, <1>9

-----------------------------------------------------------------------------
(* A step of one item leaves the others alone.                             *)

Changed(f, new, i) == new = [f EXCEPT ![i] = new[i]]

OnlyAt(i) ==
  /\ Changed(si, si', i) /\ Changed(value, value', i) /\ Changed(coming, coming', i)
  /\ Changed(listener, listener', i) /\ Changed(to_listener, to_listener', i)
  /\ Changed(to_endpoint, to_endpoint', i)

LEMMA SameAt == ASSUME NEW f, OfItems(f), NEW i \in Items PROVE Changed(f, f, i)
BY DEF OfItems, Changed

LEMMA SetAt ==
  ASSUME NEW f, OfItems(f), NEW i \in Items, NEW x, NEW new, new = [f EXCEPT ![i] = x]
  PROVE  Changed(f, new, i) /\ new[i] = x
BY DEF OfItems, Changed

LEMMA ElseKept ==
  ASSUME NEW f, OfItems(f), NEW i \in Items, NEW new, Changed(f, new, i)
  PROVE  OfItems(new) /\ \A j \in Items : j # i => new[j] = f[j]
BY DEF OfItems, Changed

LEMMA Present ==
  ASSUME EndpointInv, NEW i \in Items,
         \/ si[i].step # "none" \/ si[i].node # "none" \/ si[i].endpoint # "none"
         \/ si[i].deferred # 0 \/ coming[i] # <<>>
         \/ listener[i].hears \/ to_listener[i] # <<>> \/ to_endpoint[i] # <<>>
  PROVE  i \in scene.items
<1>1. HearingRight(si[i], listener[i], to_listener[i], to_endpoint[i])
  BY DEF EndpointInv, OneRight, ListenerRight
<1>2. CASE si[i] = E!Unmade /\ coming[i] = <<>>
  BY <1>1, <1>2 DEF E!Unmade, HearingRight
<1>3. CASE ~(si[i] = E!Unmade /\ coming[i] = <<>>)
  BY <1>3 DEF EndpointInv
<1> QED
  BY <1>2, <1>3

(* The flag is that of all endpoints: nobody looks at it, or there is one endpoint. *)
OneOrSubscribed ==
  \A s \in Scenes : s.items \subseteq s.subscribers \/ \E i \in Items : s.items = {i}

LEMMA OthersKept ==
  ASSUME EndpointInv, NEW i \in Items, i \in scene.items, OnlyAt(i), OneRight(i)',
         UNCHANGED scene, endpoint_core_up' \in BOOLEAN, serial' \in E!Flags,
         serial' = serial \/ OneOrSubscribed
  PROVE  EndpointInv'
<1>1. /\ OfItems(si) /\ OfItems(value) /\ OfItems(coming)
      /\ OfItems(listener) /\ OfItems(to_listener) /\ OfItems(to_endpoint)
  BY DEF EndpointInv
<1>2. /\ OfItems(si') /\ \A j \in Items : j # i => si'[j] = si[j]
      /\ OfItems(value') /\ \A j \in Items : j # i => value'[j] = value[j]
      /\ OfItems(coming') /\ \A j \in Items : j # i => coming'[j] = coming[j]
      /\ OfItems(listener') /\ \A j \in Items : j # i => listener'[j] = listener[j]
      /\ OfItems(to_listener') /\ \A j \in Items : j # i => to_listener'[j] = to_listener[j]
      /\ OfItems(to_endpoint') /\ \A j \in Items : j # i => to_endpoint'[j] = to_endpoint[j]
  <2>1. OfItems(si') /\ \A j \in Items : j # i => si'[j] = si[j]
    BY <1>1, ElseKept, Zenon DEF OnlyAt
  <2>2. OfItems(value') /\ \A j \in Items : j # i => value'[j] = value[j]
    BY <1>1, ElseKept, Zenon DEF OnlyAt
  <2>3. OfItems(coming') /\ \A j \in Items : j # i => coming'[j] = coming[j]
    BY <1>1, ElseKept, Zenon DEF OnlyAt
  <2>4. OfItems(listener') /\ \A j \in Items : j # i => listener'[j] = listener[j]
    BY <1>1, ElseKept, Zenon DEF OnlyAt
  <2>5. OfItems(to_listener') /\ \A j \in Items : j # i => to_listener'[j] = to_listener[j]
    BY <1>1, ElseKept, Zenon DEF OnlyAt
  <2>6. OfItems(to_endpoint') /\ \A j \in Items : j # i => to_endpoint'[j] = to_endpoint[j]
    BY <1>1, ElseKept, Zenon DEF OnlyAt
  <2> QED
    BY <2>1, <2>2, <2>3, <2>4, <2>5, <2>6
<1>3. /\ OfItems(si)' /\ OfItems(value)' /\ OfItems(coming)'
      /\ OfItems(listener)' /\ OfItems(to_listener)' /\ OfItems(to_endpoint)'
  BY <1>2 DEF OfItems
<1>4. ASSUME NEW j \in Items
      PROVE  OneRight(j)' /\ (j \notin scene'.items => si'[j] = E!Unmade /\ coming'[j] = <<>>)
  <2>1. CASE j = i
    BY <2>1
  <2>2. CASE j # i
    <3>1. /\ ItemRight(si[j]) /\ value[j] \in Values /\ coming[j] \in Seq(Values)
          /\ ListenerRight(si[j], listener[j], to_listener[j], to_endpoint[j], value[j],
                           j \in scene.subscribers, serial)
          /\ j \notin scene.items => si[j] = E!Unmade /\ coming[j] = <<>>
      BY DEF EndpointInv, OneRight
    <3>2. ListenerRight(si[j], listener[j], to_listener[j], to_endpoint[j], value[j],
                        j \in scene.subscribers, serial')
      <4>1. CASE serial' = serial
        BY <3>1, <4>1
      <4>2. CASE j \notin scene.items
        <5>1. ~E!HasNode(si[j])
          BY <3>1, <4>2 DEF E!Unmade, E!HasNode
        <5> QED
          BY <3>1, <5>1 DEF ListenerRight, Attached
      <4>3. CASE j \in scene.items /\ OneOrSubscribed
        <5>1. j \in scene.subscribers
          BY <2>2, <4>3 DEF OneOrSubscribed, EndpointInv
        <5> QED
          BY <3>1, <5>1 DEF ListenerRight, IsFollowed
      <4> QED
        BY <4>1, <4>2, <4>3
    <3> QED
      BY <1>2, <2>2, <3>1, <3>2 DEF OneRight
  <2> QED
    BY <2>1, <2>2
<1> QED
  BY <1>3, <1>4 DEF EndpointInv

LEMMA ItemMoves ==
  ASSUME EndpointInv, NEW i \in Items, i \in scene.items, NEW new, ItemRight(new), E!Set(i, new),
         UNCHANGED <<scene, serial>>, endpoint_core_up' \in BOOLEAN,
         Changed(value, value', i), value'[i] \in Values,
         Changed(coming, coming', i), coming'[i] \in Seq(Values),
         \/ E!Unheard(i)
         \/ /\ UNCHANGED <<listener, to_listener, to_endpoint>>
            /\ listener[i].hears =>
                 /\ new.step = "bind" \/ new.endpoint = "bound"
                 /\ Attached(new, listener[i]) =>
                      Attached(si[i], listener[i]) /\ value'[i] = value[i]
  PROVE  EndpointInv'
<1>1. /\ OfItems(si) /\ OfItems(value) /\ OfItems(coming)
      /\ OfItems(listener) /\ OfItems(to_listener) /\ OfItems(to_endpoint) /\ OneRight(i)
      /\ serial' \in E!Flags
  BY DEF EndpointInv
<1>2. Changed(si, si', i) /\ si'[i] = new
  BY <1>1 DEF E!Set, OfItems, Changed
<1>3. CASE E!Unheard(i)
  <2>1. /\ Changed(listener, listener', i) /\ Changed(to_listener, to_listener', i)
        /\ Changed(to_endpoint, to_endpoint', i)
        /\ listener'[i] = E!Deaf /\ to_listener'[i] = <<>> /\ to_endpoint'[i] = <<>>
    <3>1. Changed(listener, listener', i) /\ listener'[i] = E!Deaf
      BY <1>1, <1>3 DEF E!Unheard, OfItems, Changed
    <3>2. Changed(to_listener, to_listener', i) /\ to_listener'[i] = <<>>
      BY <1>1, <1>3 DEF E!Unheard, OfItems, Changed
    <3>3. Changed(to_endpoint, to_endpoint', i) /\ to_endpoint'[i] = <<>>
      BY <1>1, <1>3 DEF E!Unheard, OfItems, Changed
    <3> QED
      BY <3>1, <3>2, <3>3
  <2>2. E!Deaf \in ListenerState /\ ~E!Deaf.hears
    BY DEF E!Deaf, ListenerState
  <2>3. ListenerRight(new, E!Deaf, <<>>, <<>>, value'[i], i \in scene.subscribers, serial)
    BY <2>2 DEF ListenerRight, HearingRight, Attached
  <2>4. OneRight(i)'
    BY <1>2, <2>1, <2>3 DEF OneRight
  <2> QED
    BY <1>1, <1>2, <2>1, <2>4, OthersKept DEF OnlyAt
<1>4. CASE /\ UNCHANGED <<listener, to_listener, to_endpoint>>
           /\ listener[i].hears =>
                /\ new.step = "bind" \/ new.endpoint = "bound"
                /\ Attached(new, listener[i]) =>
                     Attached(si[i], listener[i]) /\ value'[i] = value[i]
  <2>1. /\ Changed(listener, listener', i) /\ Changed(to_listener, to_listener', i)
        /\ Changed(to_endpoint, to_endpoint', i)
    BY <1>1, <1>4, SameAt
  <2>2. HearingRight(new, listener[i], to_listener[i], to_endpoint[i])
    BY <1>1, <1>4 DEF OneRight, ListenerRight, HearingRight
  <2>3. ASSUME Attached(new, listener[i])
        PROVE  IsFollowed(listener[i], to_listener[i], to_endpoint[i], value'[i],
                          i \in scene.subscribers, serial)
    <3>1. Attached(si[i], listener[i]) /\ value'[i] = value[i]
      BY <1>4, <2>3 DEF Attached
    <3> QED
      BY <1>1, <3>1 DEF OneRight, ListenerRight
  <2>4. ListenerRight(new, listener[i], to_listener[i], to_endpoint[i], value'[i],
                      i \in scene.subscribers, serial)
    BY <1>1, <2>2, <2>3 DEF OneRight, ListenerRight
  <2>5. OneRight(i)'
    BY <1>2, <1>4, <2>4 DEF OneRight
  <2> QED
    BY <1>1, <1>2, <2>1, <2>5, OthersKept DEF OnlyAt
<1> QED
  BY <1>3, <1>4

(* As ItemMoves, when the parameter stays. *)
LEMMA ItemSteps ==
  ASSUME EndpointInv, NEW i \in Items, i \in scene.items, NEW new, ItemRight(new),
         UNCHANGED <<scene, serial, endpoint_core_up, value>>,
         coming' = coming \/ coming' = [coming EXCEPT ![i] = <<>>],
         \/ E!Becomes(i, new)
         \/ E!Set(i, new) /\ UNCHANGED E!messages /\ (listener[i].hears => new.endpoint = "bound"),
         listener[i].hears /\ new.endpoint \in {"new", "bound"} =>
           /\ new.step = "bind" \/ new.endpoint = "bound"
           /\ Attached(new, listener[i]) => Attached(si[i], listener[i])
  PROVE  EndpointInv'
<1>1. /\ OfItems(value) /\ OfItems(coming) /\ value[i] \in Values /\ coming[i] \in Seq(Values)
      /\ endpoint_core_up \in BOOLEAN
  BY DEF EndpointInv, OneRight
<1>2. Changed(value, value', i) /\ value'[i] = value[i]
  BY <1>1, SameAt
<1>3. Changed(coming, coming', i) /\ coming'[i] \in Seq(Values)
  <2>1. CASE coming' = coming
    BY <1>1, <2>1, SameAt
  <2>2. CASE coming' = [coming EXCEPT ![i] = <<>>]
    <3>1. Changed(coming, coming', i) /\ coming'[i] = <<>>
      BY <1>1, <2>2 DEF OfItems, Changed
    <3> QED
      BY <3>1
  <2> QED
    BY <2>1, <2>2
<1>4. CASE E!Becomes(i, new)
  <2>1. CASE listener[i].hears /\ new.endpoint \notin {"new", "bound"}
    <3>1. E!Set(i, new) /\ E!Unheard(i)
      BY <1>4, <2>1 DEF E!Becomes
    <3> QED
      BY <1>1, <1>2, <1>3, <3>1, ItemMoves
  <2>2. CASE ~(listener[i].hears /\ new.endpoint \notin {"new", "bound"})
    <3>1. E!Set(i, new) /\ UNCHANGED <<listener, to_listener, to_endpoint>>
      BY <1>4, <2>2 DEF E!Becomes, E!messages
    <3>2. listener[i].hears =>
            /\ new.step = "bind" \/ new.endpoint = "bound"
            /\ Attached(new, listener[i]) => Attached(si[i], listener[i]) /\ value'[i] = value[i]
      BY <1>2, <2>2
    <3> QED
      BY <1>1, <1>2, <1>3, <3>1, <3>2, ItemMoves
  <2> QED
    BY <2>1, <2>2
<1>5. CASE E!Set(i, new) /\ UNCHANGED E!messages /\ (listener[i].hears => new.endpoint = "bound")
  <2>1. E!Set(i, new) /\ UNCHANGED <<listener, to_listener, to_endpoint>>
    BY <1>5 DEF E!messages
  <2>2. listener[i].hears =>
          /\ new.step = "bind" \/ new.endpoint = "bound"
          /\ Attached(new, listener[i]) => Attached(si[i], listener[i]) /\ value'[i] = value[i]
    BY <1>2, <1>5
  <2> QED
    BY <1>1, <1>2, <1>3, <2>1, <2>2, ItemMoves
<1> QED
  BY <1>4, <1>5

(* What the invariant says of an item that the server listens to. *)
LEMMA WhoHears ==
  ASSUME EndpointInv, NEW i \in Items
  PROVE  /\ ItemRight(si[i]) /\ si[i] \in E!Item /\ StagesRight(si[i]) /\ ConnectionRight(si[i])
         /\ listener[i].hears => \/ si[i].step = "bind" /\ si[i].endpoint = "new"
                                 \/ si[i].step = "none" /\ si[i].endpoint = "bound"
                                    /\ si[i].exported /\ si[i].active /\ si[i].configured
                                    /\ si[i].deferred = 0
BY DEF EndpointInv, OneRight, ItemRight, StagesRight, ListenerRight, HearingRight,
   E!FeaturesBacked, E!UndoesTheLost

LEMMA DeactivateKeeps ==
  ASSUME EndpointInv, NEW i \in Items, NEW features \in {"all", "exported"},
         E!Deactivate(i, features)
  PROVE  EndpointInv'
<1>1. PICK new : new = IF features = "all" THEN E!disable_exported(E!disable_active(si[i]))
                       ELSE E!disable_exported(si[i])
  OBVIOUS
<1>2. /\ i \in scene.items /\ si[i].step = "none" /\ E!Becomes(i, new)
      /\ UNCHANGED <<scene, serial, endpoint_core_up, value>>
      /\ coming' = coming \/ coming' = [coming EXCEPT ![i] = <<>>]
  BY <1>1 DEF E!Deactivate, E!Here
<1>3. ItemRight(new)
  BY <1>1, <1>2, WhoHears, ItemDeactivated
<1>4. listener[i].hears => new.endpoint \notin {"new", "bound"}
  <2>1. ASSUME listener[i].hears PROVE new.endpoint = "none"
    <3>1. si[i] \in E!Item /\ si[i].exported /\ si[i].active
      BY <1>2, <2>1, WhoHears
    <3>2. E!disable_exported(si[i]).endpoint = "none"
      BY <3>1, ExportDisabled DEF Staged
    <3>3. PICK idle : idle = E!disable_active(si[i])
      OBVIOUS
    <3>4. idle \in E!Item /\ idle.exported
      BY <3>1, <3>3, ActiveDisabled DEF Staged
    <3>5. E!disable_exported(idle).endpoint = "none"
      BY <3>4, ExportDisabled DEF Staged
    <3> QED
      BY <1>1, <3>2, <3>3, <3>5
  <2> QED
    BY <2>1
<1> QED
  BY <1>2, <1>3, <1>4, ItemSteps

LEMMA ConfigureKeeps ==
  ASSUME EndpointInv, NEW i \in Items, E!si_audio_endpoint_configure(i) PROVE EndpointInv'
<1>1. PICK accepted \in BOOLEAN :
        E!Becomes(i, [E!si_audio_endpoint_reset(si[i]) EXCEPT !.configured = accepted])
  BY DEF E!si_audio_endpoint_configure
<1>2. PICK new : new = [E!si_audio_endpoint_reset(si[i]) EXCEPT !.configured = accepted]
  OBVIOUS
<1>3. /\ i \in scene.items /\ si[i].step = "none" /\ ~si[i].configured /\ E!Becomes(i, new)
      /\ UNCHANGED <<scene, serial, endpoint_core_up, value, coming>>
  BY <1>1, <1>2 DEF E!si_audio_endpoint_configure, E!Here, E!params
<1>4. ItemRight(new)
  BY <1>2, <1>3, WhoHears, ItemReset
<1>5. ~listener[i].hears
  BY <1>3, WhoHears
<1> QED
  BY <1>3, <1>4, <1>5, ItemSteps

LEMMA ResetKeeps == ASSUME EndpointInv, NEW i \in Items, E!Reset(i) PROVE EndpointInv'
<1>1. PICK new : new = E!si_audio_endpoint_reset(si[i])
  OBVIOUS
<1>2. /\ i \in scene.items /\ si[i].step = "none" /\ E!Becomes(i, new)
      /\ UNCHANGED <<scene, serial, endpoint_core_up, value>>
      /\ coming' = [coming EXCEPT ![i] = <<>>]
  BY <1>1 DEF E!Reset, E!Here
<1>3. ItemRight(new)
  BY <1>1, <1>2, WhoHears, ItemReset
<1>4. ~new.configured /\ ~new.exported /\ new.endpoint # "bound"
  <2>1. PICK idle : idle = E!disable_exported(E!disable_active(si[i]))
    OBVIOUS
  <2>2. ItemRight(idle)
    BY <1>2, <2>1, WhoHears, ItemDeactivated
  <2>3. ~new.configured
    BY <1>1, <2>1, <2>2 DEF E!si_audio_endpoint_reset, ItemRight, E!Item
  <2> QED
    BY <1>3, <2>3 DEF ItemRight, StagesRight, E!FeaturesBacked
<1>5. listener[i].hears => new.endpoint \notin {"new", "bound"}
  <2>1. ASSUME listener[i].hears PROVE new.endpoint = "none"
    <3>1. si[i] \in E!Item /\ si[i].exported /\ si[i].active
      BY <1>2, <2>1, WhoHears
    <3>2. PICK idle : idle = E!disable_active(si[i])
      OBVIOUS
    <3>3. idle \in E!Item /\ idle.exported
      BY <3>1, <3>2, ActiveDisabled DEF Staged
    <3>4. PICK off : off = E!disable_exported(idle)
      OBVIOUS
    <3>5. off \in E!Item /\ off.endpoint = "none"
      BY <3>3, <3>4, ExportDisabled DEF Staged
    <3>6. new = [off EXCEPT !.configured = FALSE]
      BY <1>1, <3>2, <3>4 DEF E!si_audio_endpoint_reset
    <3> QED
      BY <3>5, <3>6 DEF E!Item
  <2> QED
    BY <2>1
<1> QED
  BY <1>2, <1>3, <1>5, ItemSteps

LEMMA ActivateKeeps ==
  ASSUME EndpointInv, EndpointLapses = {}, NEW i \in Items, NEW exports \in BOOLEAN,
         E!Activate(i, exports)
  PROVE  EndpointInv'
<1>1. PICK counted : counted = [si[i] EXCEPT !.activations = @ + 1, !.exports = exports]
  OBVIOUS
<1>2. PICK new : new = IF ~si[i].active THEN E!enable_active(counted) ELSE E!enable_exported(counted)
  OBVIOUS
<1>3. ItemRight(si[i]) /\ si[i] \in E!Item /\ StagesRight(si[i])
  BY WhoHears
<1>4. counted.active = si[i].active
  BY <1>1, <1>3 DEF E!Item
<1>5. /\ i \in scene.items /\ si[i].step = "none" /\ si[i].activations < MaxActivations
      /\ ~si[i].active \/ (exports /\ ~si[i].exported)
      /\ ~E!Unfinished(si[i])
      /\ ~(si[i].deferred > 0)
      /\ E!Set(i, new) /\ UNCHANGED E!messages
      /\ UNCHANGED <<scene, serial, endpoint_core_up, value, coming>>
  BY <1>1, <1>2, <1>4 DEF E!Activate, E!Here, E!params
<1>6. si[i].deferred = 0
  BY <1>3, <1>5 DEF StagesRight
<1>7. ItemRight(new)
  <2>1. ItemRight(IF ~si[i].active THEN E!enable_active(counted)
                  ELSE IF si[i].exported THEN si[i] ELSE E!enable_exported(counted))
    BY <1>1, <1>3, <1>5, <1>6, ItemActivates
  <2> QED
    BY <1>2, <1>5, <2>1
<1>8. ~listener[i].hears
  BY <1>5, WhoHears DEF E!Unfinished
<1> QED
  BY <1>5, <1>7, <1>8, ItemSteps

LEMMA NodeActivateKeeps ==
  ASSUME EndpointInv, NEW i \in Items, E!on_node_activate_done(i) PROVE EndpointInv'
<1>1. PICK new \in {[si[i] EXCEPT !.node = "bound", !.adapter = "new", !.step = "adapter"],
                    E!return_error(si[i])} :
        E!Set(i, new)
  BY DEF E!on_node_activate_done
<1>2. /\ si[i].step = "node" /\ UNCHANGED <<scene, serial, endpoint_core_up, value, coming>>
      /\ UNCHANGED E!messages
  BY DEF E!on_node_activate_done, E!params
<1>3. i \in scene.items
  BY <1>2, Present
<1>4. ItemRight(new)
  <2>1. /\ ItemRight([si[i] EXCEPT !.node = "bound", !.adapter = "new", !.step = "adapter"])
        /\ ItemRight(E!return_error(si[i]))
    BY <1>2, WhoHears, ItemErrs, ItemHasItsNode
  <2> QED
    BY <1>1, <2>1, Zenon
<1>5. ~listener[i].hears
  BY <1>2, WhoHears
<1> QED
  BY <1>1, <1>2, <1>3, <1>4, <1>5, ItemSteps

LEMMA AdapterActivateKeeps ==
  ASSUME EndpointInv, NEW i \in Items, E!on_adapter_activate_done(i) PROVE EndpointInv'
<1>1. PICK active : active = [si[i] EXCEPT !.adapter = "active", !.active = TRUE, !.step = "none"]
  OBVIOUS
<1>2. PICK new : new = IF active.exports THEN E!enable_exported(active) ELSE active
  OBVIOUS
<1>3. /\ si[i].step = "adapter" /\ UNCHANGED <<scene, serial, endpoint_core_up, value, coming>>
      /\ UNCHANGED E!messages /\ E!Set(i, new)
  BY <1>1, <1>2 DEF E!on_adapter_activate_done, E!params
<1>4. i \in scene.items
  BY <1>3, Present
<1>5. ItemRight(active)
  BY <1>1, <1>3, WhoHears, ItemAdapted
<1>6. active.active /\ active.step = "none" /\ active.deferred = 0 /\ active.endpoint = "none"
  BY <1>1, <1>3, WhoHears DEF StagesRight, E!Item
<1>7. ItemRight(new)
  BY <1>2, <1>5, <1>6, ItemExported
<1>8. ~listener[i].hears
  BY <1>3, WhoHears
<1> QED
  BY <1>3, <1>4, <1>7, <1>8, ItemSteps

LEMMA EndpointActivatedKeeps ==
  ASSUME EndpointInv, NEW i \in Items, E!on_impl_endpoint_activated(i) PROVE EndpointInv'
<1>1. PICK new \in {[si[i] EXCEPT !.endpoint = "bound", !.exported = TRUE, !.step = "none"],
                    [E!return_error(E!wp_session_item_handle_proxy_destroyed(si[i]))
                       EXCEPT !.endpoint = "lost"]} :
        E!Becomes(i, new)
  BY DEF E!on_impl_endpoint_activated
<1>2. si[i].step = "bind" /\ UNCHANGED <<scene, serial, endpoint_core_up, value, coming>>
  BY DEF E!on_impl_endpoint_activated, E!params
<1>3. i \in scene.items
  BY <1>2, Present
<1>4. ItemRight(new)
  <2>1. /\ ItemRight([si[i] EXCEPT !.endpoint = "bound", !.exported = TRUE, !.step = "none"])
        /\ ItemRight([E!return_error(E!wp_session_item_handle_proxy_destroyed(si[i]))
                         EXCEPT !.endpoint = "lost"])
    BY <1>2, WhoHears, ItemBound, ItemRefused
  <2> QED
    BY <1>1, <2>1, Zenon
<1>5. \/ new.endpoint = "lost"
      \/ /\ new.endpoint = "bound" /\ new.connected = si[i].connected
         /\ new.adapter = si[i].adapter
  BY <1>1, WhoHears DEF E!Item, E!return_error, E!wp_session_item_handle_proxy_destroyed
<1> QED
  BY <1>1, <1>2, <1>3, <1>4, <1>5, ItemSteps DEF Attached, E!HasNode

LEMMA EndpointDestroyedKeeps ==
  ASSUME EndpointInv, NEW i \in Items, E!ServerDestroysEndpoint(i) PROVE EndpointInv'
<1>1. PICK new : new = E!EndpointLost(si[i])
  OBVIOUS
<1>2. /\ si[i].endpoint = "bound" /\ UNCHANGED <<scene, serial, endpoint_core_up, value, coming>>
      /\ E!Becomes(i, new)
  BY <1>1 DEF E!ServerDestroysEndpoint, E!params
<1>3. i \in scene.items
  BY <1>2, Present
<1>4. ItemRight(new)
  BY <1>1, WhoHears, ItemLost
<1>5. new.endpoint = "lost"
  BY <1>1, <1>2, WhoHears DEF E!EndpointLost, E!Item, E!wp_session_item_handle_proxy_destroyed
<1> QED
  BY <1>2, <1>3, <1>4, <1>5, ItemSteps

LEMMA NodeDestroyedKeeps ==
  ASSUME EndpointInv, NEW i \in Items, E!ServerDestroysNode(i) PROVE EndpointInv'
<1>1. PICK new : new = E!NodeLost(si[i])
  OBVIOUS
<1>2. /\ si[i].node = "bound" /\ UNCHANGED <<scene, serial, endpoint_core_up, value>>
      /\ coming' = [coming EXCEPT ![i] = <<>>] /\ E!Becomes(i, new)
  BY <1>1 DEF E!ServerDestroysNode
<1>3. i \in scene.items
  BY <1>2, Present
<1>4. ItemRight(new)
  BY <1>1, WhoHears, ItemLost
<1>5. /\ new.endpoint = si[i].endpoint /\ new.adapter \in {"none", "reset"}
      /\ si[i].step = "bind" => new.step = "bind"
  BY <1>1, <1>2, WhoHears DEF E!NodeLost, E!Item
<1>6. listener[i].hears => new.step = "bind" \/ new.endpoint = "bound"
  BY <1>5, WhoHears
<1> QED
  BY <1>2, <1>3, <1>4, <1>5, <1>6, ItemSteps DEF Attached, E!HasNode

LEMMA DeferredKeeps ==
  ASSUME EndpointInv, NEW i \in Items, E!on_session_item_proxy_destroyed_deferred(i)
  PROVE  EndpointInv'
<1>1. PICK new : new = E!disable_exported([si[i] EXCEPT !.deferred = @ - 1])
  OBVIOUS
<1>2. /\ si[i].deferred > 0 /\ UNCHANGED <<scene, serial, endpoint_core_up, value, coming>>
      /\ E!Becomes(i, new)
  BY <1>1 DEF E!on_session_item_proxy_destroyed_deferred, E!params
<1>3. i \in scene.items
  BY <1>2, Present
<1>4. ItemRight(new)
  BY <1>1, <1>2, WhoHears, ItemUndone
<1>5. ~listener[i].hears
  BY <1>2, WhoHears DEF StagesRight
<1> QED
  BY <1>2, <1>3, <1>4, <1>5, ItemSteps

(* Who starts to listen is told of the flag, or is told of the parameter at once. *)
LEMMA BindKeeps ==
  ASSUME EndpointInv, NEW i \in Items, i \in scene.items, NEW item,
         ItemRight([item EXCEPT !.step = "bind"]), ItemRight(E!return_error(item)),
         ~listener[i].hears,
         E!Bind(i, item), item \in E!Item, item.endpoint = "new",
         UNCHANGED <<scene, serial, endpoint_core_up>>,
         Changed(value, value', i), value'[i] \in Values,
         Changed(coming, coming', i), coming'[i] \in Seq(Values)
  PROVE  EndpointInv'
<1>1. /\ OfItems(si) /\ OfItems(listener) /\ OfItems(to_listener) /\ OfItems(to_endpoint)
      /\ OneRight(i) /\ endpoint_core_up \in BOOLEAN /\ serial \in E!Flags
      /\ serial' = serial /\ scene' = scene
  BY DEF EndpointInv
<1>2. CASE ~endpoint_core_up
  <2>1. /\ E!Set(i, E!return_error(item)) /\ UNCHANGED <<listener, to_listener, to_endpoint>>
    BY <1>2 DEF E!Bind, E!messages
  <2> QED
    BY <1>1, <2>1, ItemMoves
<1>3. CASE endpoint_core_up
  <2>1. PICK new : new = [item EXCEPT !.step = "bind"]
    OBVIOUS
  <2>2. new.step = "bind" /\ new.connected = item.connected /\ new \in E!Item
    BY <2>1 DEF E!Item
  <2>3. Changed(si, si', i) /\ si'[i] = new
    BY <1>1, <1>3, <2>1 DEF E!Bind, E!Set, OfItems, Changed
  <2>4. /\ listener[i] = E!Deaf
    BY <1>1 DEF OneRight, ListenerRight, HearingRight
  <2>5. PICK l : l = [E!Deaf EXCEPT !.hears = TRUE]
    OBVIOUS
  <2>6. Changed(listener, listener', i) /\ listener'[i] = l
    <3>1. listener' = [listener EXCEPT ![i].hears = TRUE]
      BY <1>3 DEF E!Bind
    <3>2. Changed(listener, listener', i) /\ listener'[i] = [listener[i] EXCEPT !.hears = TRUE]
      BY <1>1, <3>1 DEF OfItems, Changed
    <3> QED
      BY <2>4, <2>5, <3>2, Zenon
  <2>7. /\ Changed(to_listener, to_listener', i)
        /\ to_listener'[i] = IF item.connected THEN <<E!Info>> ELSE <<>>
    BY <1>1, <1>3 DEF E!Bind, OfItems, Changed
  <2>8. /\ Changed(to_endpoint, to_endpoint', i)
        /\ to_endpoint'[i] = IF i \in scene.subscribers THEN <<[type |-> "subscribe"]>> ELSE <<>>
    BY <1>1, <1>3 DEF E!Bind, OfItems, Changed
  <2>9. /\ E!Info \in ToListener /\ E!Info.type = "info" /\ E!Info.flags = serial
        /\ [type |-> "subscribe"] \in ToEndpoint
    BY <1>1 DEF E!Info, ToListener, ToEndpoint
  <2>10. l \in ListenerState /\ l.hears /\ l.seen = NULL
    BY ONLY <2>5 DEF ListenerState, E!Deaf
  <2>11. ASSUME Attached(new, l)
         PROVE  IsFollowed(l, to_listener'[i], to_endpoint'[i], value'[i], i \in scene.subscribers,
                           serial)
    <3>1. to_listener'[i] = <<E!Info>>
      BY <2>2, <2>7, <2>11 DEF Attached
    <3>2. CASE i \in scene.subscribers
      <4>1. to_endpoint'[i] = <<[type |-> "subscribe"]>>
        BY <2>8, <3>2
      <4>2. HasType(to_endpoint'[i], "subscribe")
        BY <4>1 DEF HasType
      <4> QED
        BY <3>2, <4>2 DEF IsFollowed
    <3>3. CASE i \notin scene.subscribers
      <4>1. DOMAIN to_listener'[i] = {1} /\ to_listener'[i][1] = E!Info
        BY <3>1
      <4>2. HasType(to_listener'[i], "info")
        BY <2>9, <4>1 DEF HasType
      <4>3. NULL # serial
        BY <1>1, EndpointsAssumption DEF E!EndpointAssumption
      <4>4. Toggled(to_listener'[i], l, serial)
        BY <2>9, <2>10, <4>1, <4>3 DEF Toggled
      <4> QED
        BY <3>3, <4>2, <4>4 DEF IsFollowed
    <3> QED
      BY <3>2, <3>3
  <2>12. to_listener'[i] \in Seq(ToListener) /\ to_endpoint'[i] \in Seq(ToEndpoint)
    BY <2>7, <2>8, <2>9
  <2>13. ListenerRight(new, l, to_listener'[i], to_endpoint'[i], value'[i], i \in scene.subscribers,
                       serial)
    BY <2>2, <2>10, <2>11, <2>12 DEF ListenerRight, HearingRight
  <2>14. OneRight(i)'
    BY <2>1, <2>3, <2>6, <2>13 DEF OneRight
  <2> QED
    BY <1>1, <2>3, <2>6, <2>7, <2>8, <2>14, OthersKept DEF OnlyAt
<1> QED
  BY <1>1, <1>2, <1>3

LEMMA NextStepKeeps ==
  ASSUME EndpointInv, NEW i \in Items, E!wp_impl_endpoint_activate_get_next_step(i)
  PROVE  EndpointInv'
<1>1. /\ si[i].step = "export"
      /\ UNCHANGED <<scene, serial, endpoint_core_up, value, coming>>
  BY DEF E!wp_impl_endpoint_activate_get_next_step, E!params
<1>2. i \in scene.items
  BY <1>1, Present
<1>3. /\ ItemRight(si[i]) /\ si[i] \in E!Item /\ ~listener[i].hears /\ si[i].endpoint = "new"
  BY <1>1, WhoHears DEF StagesRight
<1>4. CASE E!HasNode(si[i]) /\ si[i].node = "bound" /\ ~si[i].caches_props
  <2>1. E!Set(i, [si[i] EXCEPT !.step = "props"]) /\ UNCHANGED E!messages
    BY <1>4 DEF E!wp_impl_endpoint_activate_get_next_step
  <2>2. ItemRight([si[i] EXCEPT !.step = "props"])
    BY <1>1, <1>3, ItemWaitsForProps
  <2> QED
    BY <1>1, <1>2, <1>3, <2>1, <2>2, ItemSteps
<1>5. CASE ~(E!HasNode(si[i]) /\ si[i].node = "bound" /\ ~si[i].caches_props)
  <2>1. E!Bind(i, si[i])
    BY <1>5 DEF E!wp_impl_endpoint_activate_get_next_step
  <2>2. ItemRight([si[i] EXCEPT !.step = "bind"]) /\ ItemRight(E!return_error(si[i]))
    BY <1>1, <1>3, <1>5, ItemBinds, ItemErrs
  <2>3. /\ Changed(value, value', i) /\ value'[i] \in Values
        /\ Changed(coming, coming', i) /\ coming'[i] \in Seq(Values)
    BY <1>1, SameAt DEF EndpointInv, OneRight
  <2> QED
    BY <1>1, <1>2, <1>3, <2>1, <2>2, <2>3, BindKeeps
<1> QED
  BY <1>4, <1>5

LEMMA CachedTyped ==
  ASSUME EndpointInv, NEW i \in Items PROVE E!Cached(i) \in Values
<1>1. value[i] \in Values /\ coming[i] \in Seq(Values)
  BY DEF EndpointInv, OneRight
<1>2. coming[i] # <<>> => coming[i][Len(coming[i])] \in Values
  BY <1>1
<1> QED
  BY <1>1, <1>2 DEF E!Cached

(* What is on its way to the cache is in it. *)
LEMMA CacheFilled ==
  ASSUME EndpointInv, NEW i \in Items,
         value' = [value EXCEPT ![i] = E!Cached(i)], coming' = [coming EXCEPT ![i] = <<>>]
  PROVE  /\ Changed(value, value', i) /\ value'[i] \in Values
         /\ Changed(coming, coming', i) /\ coming'[i] \in Seq(Values)
<1>1. OfItems(value) /\ OfItems(coming) /\ E!Cached(i) \in Values
  BY CachedTyped DEF EndpointInv
<1>2. Changed(value, value', i) /\ value'[i] = E!Cached(i)
  BY <1>1 DEF OfItems, Changed
<1>3. Changed(coming, coming', i) /\ coming'[i] = <<>>
  BY <1>1 DEF OfItems, Changed
<1>4. <<>> \in Seq(Values)
  OBVIOUS
<1> QED
  BY <1>1, <1>2, <1>3, <1>4, Zenon

LEMMA EndpointNodeActivatedKeeps ==
  ASSUME EndpointInv, NEW i \in Items, E!wp_impl_endpoint_node_activated(i) PROVE EndpointInv'
<1>1. si[i].step = "props" /\ UNCHANGED <<scene, serial, endpoint_core_up>>
  BY DEF E!wp_impl_endpoint_node_activated
<1>2. i \in scene.items
  BY <1>1, Present
<1>3. ItemRight(si[i]) /\ si[i] \in E!Item /\ ~listener[i].hears /\ si[i].endpoint = "new"
  BY <1>1, WhoHears DEF StagesRight
<1>4. PICK cached : cached = [si[i] EXCEPT !.caches_props = TRUE, !.connected = TRUE]
  OBVIOUS
<1>5. CASE /\ E!Bind(i, cached)
           /\ value' = [value EXCEPT ![i] = E!Cached(i)] /\ coming' = [coming EXCEPT ![i] = <<>>]
  <2>1. ItemRight([cached EXCEPT !.step = "bind"]) /\ ItemRight(E!return_error(cached))
    BY <1>1, <1>3, <1>4, ItemBindsItsProps
  <2>2. cached \in E!Item /\ cached.endpoint = "new"
    BY <1>3, <1>4 DEF E!Item
  <2>3. /\ Changed(value, value', i) /\ value'[i] \in Values
        /\ Changed(coming, coming', i) /\ coming'[i] \in Seq(Values)
    BY <1>5, CacheFilled
  <2> QED
    BY <1>1, <1>2, <1>3, <1>5, <2>1, <2>2, <2>3, BindKeeps
<1>6. CASE E!Set(i, E!return_error(si[i])) /\ UNCHANGED <<value, coming>> /\ UNCHANGED E!messages
  <2>1. ItemRight(E!return_error(si[i]))
    BY <1>1, <1>3, ItemErrs
  <2> QED
    BY <1>1, <1>2, <1>3, <1>6, <2>1, ItemSteps
<1> QED
  BY <1>4, <1>5, <1>6 DEF E!wp_impl_endpoint_node_activated

LEMMA OthersCacheKeeps ==
  ASSUME EndpointInv, EndpointLapses = {}, NEW i \in Items, E!OthersCacheProps(i)
  PROVE  EndpointInv'
<1>1. PICK new : new = [si[i] EXCEPT !.caches_props = TRUE]
  OBVIOUS
<1>2. /\ si[i].node = "bound" /\ ~si[i].caches_props /\ si[i].step \notin {"export", "props"}
      /\ E!Set(i, new) /\ value' = [value EXCEPT ![i] = E!Cached(i)]
      /\ coming' = [coming EXCEPT ![i] = <<>>] /\ UNCHANGED <<scene, serial, endpoint_core_up>>
      /\ UNCHANGED <<listener, to_listener, to_endpoint>>
  BY <1>1 DEF E!OthersCacheProps, E!messages
<1>3. i \in scene.items
  BY <1>2, Present
<1>4. ItemRight(new)
  BY <1>1, <1>2, WhoHears, ItemCaches
<1>5. /\ new.step = si[i].step /\ new.endpoint = si[i].endpoint /\ new.connected = si[i].connected
      /\ new.adapter = si[i].adapter
  BY <1>1, WhoHears DEF E!Item
<1>6. ~Attached(new, listener[i])
  BY <1>2, <1>5, WhoHears DEF Attached, E!HasNode, ConnectionRight
<1>7. listener[i].hears => new.step = "bind" \/ new.endpoint = "bound"
  BY <1>5, WhoHears
<1>8. endpoint_core_up' \in BOOLEAN
  BY <1>2 DEF EndpointInv
<1> QED
  BY <1>2, <1>3, <1>4, <1>6, <1>7, <1>8, CacheFilled, ItemMoves

LEMMA DisconnectKeeps == ASSUME EndpointInv, E!Disconnect PROVE EndpointInv'
<1>1. /\ endpoint_core_up' = FALSE /\ UNCHANGED <<scene, serial, value>>
      /\ si' = [i \in Items |-> E!NodeLost(E!EndpointLost(si[i]))]
      /\ coming' = [i \in Items |-> <<>>] /\ listener' = [i \in Items |-> E!Deaf]
      /\ to_listener' = [i \in Items |-> <<>>] /\ to_endpoint' = [i \in Items |-> <<>>]
  BY DEF E!Disconnect
<1>2. /\ OfItems(si)' /\ OfItems(value)' /\ OfItems(coming)'
      /\ OfItems(listener)' /\ OfItems(to_listener)' /\ OfItems(to_endpoint)'
  BY <1>1 DEF OfItems, EndpointInv
<1>3. ASSUME NEW i \in Items
      PROVE  OneRight(i)' /\ (i \notin scene'.items => si'[i] = E!Unmade /\ coming'[i] = <<>>)
  <2>1. PICK new : new = E!NodeLost(E!EndpointLost(si[i]))
    OBVIOUS
  <2>2. ItemRight(new)
    BY <2>1, WhoHears, ItemLost
  <2>3. E!Deaf \in ListenerState /\ ~E!Deaf.hears
    BY DEF E!Deaf, ListenerState
  <2>4. ListenerRight(new, E!Deaf, <<>>, <<>>, value[i], i \in scene.subscribers, serial)
    BY <2>3 DEF ListenerRight, HearingRight, Attached
  <2>5. OneRight(i)'
    BY <1>1, <2>1, <2>2, <2>4 DEF OneRight, EndpointInv
  <2>6. ASSUME i \notin scene'.items PROVE si'[i] = E!Unmade
    <3>1. si[i] = E!Unmade
      BY <1>1, <2>6 DEF EndpointInv
    <3>2. E!EndpointLost(E!Unmade) = E!Unmade /\ E!NodeLost(E!Unmade) = E!Unmade
      BY DEF E!Unmade, E!EndpointLost, E!NodeLost
    <3> QED
      BY <1>1, <3>1, <3>2
  <2> QED
    BY <1>1, <2>5, <2>6
<1> QED
  BY <1>1, <1>2, <1>3 DEF EndpointInv

LEMMA ChangesRight ==
  ASSUME EndpointInv, NEW i \in Items, NEW x \in Values, E!Changes(i, x)
  PROVE  /\ Changed(value, value', i) /\ value'[i] \in Values
         /\ Changed(coming, coming', i) /\ coming'[i] \in Seq(Values)
         /\ si[i].caches_props => value'[i] = value[i]
<1>1. OfItems(value) /\ OfItems(coming) /\ value[i] \in Values /\ coming[i] \in Seq(Values)
  BY DEF EndpointInv, OneRight
<1>2. CASE si[i].caches_props
  <2>1. coming' = [coming EXCEPT ![i] = Append(@, x)] /\ value' = value
    BY <1>2 DEF E!Changes
  <2>2. Changed(coming, coming', i) /\ coming'[i] = Append(coming[i], x)
    BY <1>1, <2>1 DEF OfItems, Changed
  <2>3. Append(coming[i], x) \in Seq(Values)
    BY <1>1
  <2> QED
    BY <1>1, <2>1, <2>2, <2>3, SameAt
<1>3. CASE ~si[i].caches_props
  <2>1. value' = [value EXCEPT ![i] = x] /\ coming' = coming
    BY <1>3 DEF E!Changes
  <2>2. Changed(value, value', i) /\ value'[i] = x
    BY <1>1, <2>1 DEF OfItems, Changed
  <2> QED
    BY <1>1, <1>3, <2>1, <2>2, SameAt
<1> QED
  BY <1>2, <1>3

LEMMA NodeChangesKeeps ==
  ASSUME EndpointInv, NEW i \in Items, NEW x \in Values, E!NodeChanges(i, x) PROVE EndpointInv'
<1>1. /\ i \in scene.items /\ E!Changes(i, x) /\ si' = si
      /\ UNCHANGED <<scene, serial, endpoint_core_up>>
      /\ UNCHANGED <<listener, to_listener, to_endpoint>>
  BY DEF E!NodeChanges, E!Here, E!messages
<1>2. ItemRight(si[i]) /\ OfItems(si) /\ endpoint_core_up' \in BOOLEAN
  BY <1>1, WhoHears DEF EndpointInv
<1>3. E!Set(i, si[i])
  BY <1>1, <1>2 DEF E!Set, OfItems
<1>4. listener[i].hears => si[i].step = "bind" \/ si[i].endpoint = "bound"
  BY WhoHears
<1>5. Attached(si[i], listener[i]) => si[i].caches_props
  BY WhoHears DEF Attached, ConnectionRight
<1>6. /\ Changed(value, value', i) /\ value'[i] \in Values
      /\ Changed(coming, coming', i) /\ coming'[i] \in Seq(Values)
      /\ si[i].caches_props => value'[i] = value[i]
  BY <1>1, ChangesRight
<1> QED
  BY <1>1, <1>2, <1>3, <1>4, <1>5, <1>6, ItemMoves

(* What the invariant says of the messages between an endpoint and its listener. *)
LEMMA WhatIsSent ==
  ASSUME EndpointInv, NEW i \in Items
  PROVE  /\ listener[i] \in ListenerState /\ value[i] \in Values /\ serial \in E!Flags
         /\ to_listener[i] \in Seq(ToListener) /\ to_endpoint[i] \in Seq(ToEndpoint)
         /\ OfItems(si) /\ OfItems(value) /\ OfItems(coming)
         /\ OfItems(listener) /\ OfItems(to_listener) /\ OfItems(to_endpoint)
         /\ Attached(si[i], listener[i]) =>
              IsFollowed(listener[i], to_listener[i], to_endpoint[i], value[i],
                         i \in scene.subscribers, serial)
         /\ to_listener[i] # <<>> \/ to_endpoint[i] # <<>> => listener[i].hears
         /\ listener[i].hears => si[i].step = "bind" \/ si[i].endpoint = "bound"
BY DEF EndpointInv, OneRight, ListenerRight, HearingRight

(* A step of what is between an endpoint and its listener. *)
LEMMA MessagesMove ==
  ASSUME EndpointInv, NEW i \in Items, listener[i].hears,
         UNCHANGED <<scene, serial, endpoint_core_up, si>>,
         Changed(value, value', i), value'[i] \in Values,
         Changed(coming, coming', i), coming'[i] \in Seq(Values),
         Changed(listener, listener', i), listener'[i] \in ListenerState, listener'[i].hears,
         Changed(to_listener, to_listener', i), to_listener'[i] \in Seq(ToListener),
         Changed(to_endpoint, to_endpoint', i), to_endpoint'[i] \in Seq(ToEndpoint),
         Attached(si[i], listener[i]) =>
           IsFollowed(listener'[i], to_listener'[i], to_endpoint'[i], value'[i],
                      i \in scene.subscribers, serial)
  PROVE  EndpointInv'
<1>1. i \in scene.items
  BY Present
<1>2. OfItems(si) /\ (si[i].step = "bind" \/ si[i].endpoint = "bound") /\ ItemRight(si[i])
  BY WhatIsSent, WhoHears
<1>3. Changed(si, si', i)
  BY <1>2, SameAt
<1>4. ListenerRight(si[i], listener'[i], to_listener'[i], to_endpoint'[i], value'[i],
                    i \in scene.subscribers, serial)
  BY <1>2 DEF ListenerRight, HearingRight, Attached
<1>5. OneRight(i)'
  BY <1>2, <1>4 DEF OneRight
<1>6. endpoint_core_up' \in BOOLEAN /\ serial' \in E!Flags
  BY DEF EndpointInv
<1>7. OnlyAt(i)
  BY <1>3 DEF OnlyAt
<1> QED
  BY <1>1, <1>5, <1>6, <1>7, OthersKept

LEMMA ListenerSetsKeeps ==
  ASSUME EndpointInv, NEW i \in Items, NEW x \in Values, E!ListenerSets(i, x) PROVE EndpointInv'
<1>1. PICK m : m = [type |-> "set", value |-> x]
  OBVIOUS
<1>2. m \in ToEndpoint
  BY <1>1 DEF ToEndpoint
<1>3. /\ listener[i].hears /\ to_endpoint' = [to_endpoint EXCEPT ![i] = Append(@, m)]
      /\ UNCHANGED <<scene, serial, endpoint_core_up, si, value, coming, listener, to_listener>>
  BY <1>1 DEF E!ListenerSets, E!params
<1>4. Changed(to_endpoint, to_endpoint', i) /\ to_endpoint'[i] = Append(to_endpoint[i], m)
  BY <1>3, WhatIsSent DEF OfItems, Changed
<1>5. Append(to_endpoint[i], m) \in Seq(ToEndpoint)
  BY <1>2, WhatIsSent
<1>6. ASSUME Attached(si[i], listener[i])
      PROVE  IsFollowed(listener[i], to_listener[i], to_endpoint'[i], value[i],
                        i \in scene.subscribers, serial)
  <2>1. IsFollowed(listener[i], to_listener[i], to_endpoint[i], value[i], i \in scene.subscribers,
                   serial)
    BY <1>6, WhatIsSent
  <2>2. \A type : HasType(to_endpoint[i], type) => HasType(to_endpoint'[i], type)
    BY <1>2, <1>4, WhatIsSent, TypeSent
  <2> QED
    BY <2>1, <2>2 DEF IsFollowed
<1>7. /\ Changed(value, value', i) /\ value'[i] \in Values
      /\ Changed(coming, coming', i) /\ coming'[i] \in Seq(Values)
      /\ Changed(listener, listener', i) /\ listener'[i] \in ListenerState
      /\ Changed(to_listener, to_listener', i) /\ to_listener'[i] \in Seq(ToListener)
  BY <1>3, WhatIsSent, SameAt DEF EndpointInv, OneRight
<1> QED
  BY <1>3, <1>4, <1>5, <1>6, <1>7, MessagesMove

LEMMA AnswersRight ==
  ASSUME EndpointInv, NEW i \in Items, E!impl_enum_params(i)
  PROVE  /\ Changed(to_listener, to_listener', i) /\ to_listener'[i] \in Seq(ToListener)
         /\ Attached(si[i], listener[i]) =>
              /\ \A l : Fresh(to_listener'[i], l, value[i])
              /\ \A l, flag : Toggled(to_listener[i], l, flag) => Toggled(to_listener'[i], l, flag)
<1>1. PICK m : m = [type |-> "param", value |-> value[i]]
  OBVIOUS
<1>2. /\ m = E!Param(i) /\ m \in ToListener /\ OfItems(to_listener) /\ value[i] \in Values
      /\ to_listener[i] \in Seq(ToListener)
  BY <1>1, WhatIsSent DEF E!Param, ToListener
<1>3. CASE si[i].connected /\ E!HasNode(si[i])
  <2>1. to_listener' = [to_listener EXCEPT ![i] = Append(@, m)]
    BY <1>2, <1>3 DEF E!impl_enum_params
  <2>2. Changed(to_listener, to_listener', i) /\ to_listener'[i] = Append(to_listener[i], m)
    BY <1>2, <2>1 DEF OfItems, Changed
  <2>3. \A l, flag : /\ Append(to_listener[i], m) \in Seq(ToListener)
                     /\ Fresh(Append(to_listener[i], m), l, value[i])
                     /\ Toggled(to_listener[i], l, flag) =>
                          Toggled(Append(to_listener[i], m), l, flag)
    BY <1>1, <1>2, ParamSent
  <2> QED
    BY <2>2, <2>3
<1>4. CASE ~(si[i].connected /\ E!HasNode(si[i]))
  BY <1>2, <1>4, SameAt DEF E!impl_enum_params, Attached
<1> QED
  BY <1>3, <1>4

LEMMA EndpointHandlesKeeps ==
  ASSUME EndpointInv, NEW i \in Items, E!EndpointHandles(i) PROVE EndpointInv'
<1>1. PICK m : m = Head(to_endpoint[i])
  OBVIOUS
<1>2. /\ to_endpoint[i] # <<>> /\ to_endpoint' = [to_endpoint EXCEPT ![i] = Tail(@)]
      /\ UNCHANGED <<scene, serial, endpoint_core_up, si>>
  BY DEF E!EndpointHandles
<1>3. listener[i].hears /\ to_endpoint[i] \in Seq(ToEndpoint) /\ m \in ToEndpoint
  BY <1>1, <1>2, WhatIsSent
<1>4. Changed(to_endpoint, to_endpoint', i) /\ to_endpoint'[i] = Tail(to_endpoint[i])
  BY <1>2, WhatIsSent DEF OfItems, Changed
<1>5. to_endpoint'[i] \in Seq(ToEndpoint)
  BY <1>2, <1>3, <1>4
<1>6. \A type : HasType(to_endpoint[i], type) /\ m.type # type => HasType(to_endpoint'[i], type)
  BY <1>1, <1>2, <1>3, <1>4, TypeAfter
<1>7. Attached(si[i], listener[i]) =>
        IsFollowed(listener[i], to_listener[i], to_endpoint[i], value[i], i \in scene.subscribers,
                   serial)
  BY WhatIsSent
<1>8. CASE m.type = "enum" /\ E!impl_enum_params(i) /\ UNCHANGED <<listener, value, coming>>
  <2>1. ASSUME Attached(si[i], listener[i])
        PROVE  IsFollowed(listener[i], to_listener'[i], to_endpoint'[i], value[i],
                          i \in scene.subscribers, serial)
    <3>1. /\ Fresh(to_listener'[i], listener[i], value[i])
          /\ Toggled(to_listener[i], listener[i], serial) =>
               Toggled(to_listener'[i], listener[i], serial)
      BY <1>8, <2>1, AnswersRight
    <3>2. m.type # "subscribe"
      BY <1>8
    <3> QED
      BY <1>6, <1>7, <2>1, <3>1, <3>2 DEF IsFollowed
  <2>2. Changed(to_listener, to_listener', i) /\ to_listener'[i] \in Seq(ToListener)
    BY <1>8, AnswersRight
  <2>3. /\ Changed(value, value', i) /\ value'[i] \in Values
        /\ Changed(coming, coming', i) /\ coming'[i] \in Seq(Values)
        /\ Changed(listener, listener', i) /\ listener'[i] \in ListenerState
    BY <1>8, WhatIsSent, SameAt DEF EndpointInv, OneRight
  <2> QED
    BY <1>2, <1>3, <1>4, <1>5, <1>8, <2>1, <2>2, <2>3, MessagesMove
<1>9. CASE /\ m.type = "subscribe" /\ E!impl_enum_params(i) /\ UNCHANGED <<value, coming>>
           /\ listener' = [listener EXCEPT ![i].subscribed = TRUE]
  <2>1. PICK l : l = [listener[i] EXCEPT !.subscribed = TRUE]
    OBVIOUS
  <2>2. /\ l \in ListenerState /\ l.hears /\ l.subscribed /\ l.seen = listener[i].seen
        /\ l.got = listener[i].got
    BY <1>3, <2>1, WhatIsSent DEF ListenerState
  <2>3. Changed(listener, listener', i) /\ listener'[i] = l
    BY <1>9, <2>1, WhatIsSent DEF OfItems, Changed
  <2>4. ASSUME Attached(si[i], listener[i])
        PROVE  IsFollowed(l, to_listener'[i], to_endpoint'[i], value[i], i \in scene.subscribers,
                          serial)
    <3>1. /\ Fresh(to_listener'[i], l, value[i])
          /\ Toggled(to_listener[i], l, serial) => Toggled(to_listener'[i], l, serial)
      BY <1>9, <2>4, AnswersRight
    <3>2. Toggled(to_listener[i], listener[i], serial) => Toggled(to_listener[i], l, serial)
      BY <2>2 DEF Toggled
    <3> QED
      BY <1>7, <2>2, <2>4, <3>1, <3>2 DEF IsFollowed
  <2>5. Changed(to_listener, to_listener', i) /\ to_listener'[i] \in Seq(ToListener)
    BY <1>9, AnswersRight
  <2>6. /\ Changed(value, value', i) /\ value'[i] \in Values
        /\ Changed(coming, coming', i) /\ coming'[i] \in Seq(Values)
    BY <1>9, WhatIsSent, SameAt DEF EndpointInv, OneRight
  <2> QED
    BY <1>2, <1>3, <1>4, <1>5, <1>9, <2>2, <2>3, <2>4, <2>5, <2>6, MessagesMove
<1>10. CASE m.type = "set" /\ E!impl_set_param(i, m.value)
  <2>1. m.value \in Values
    BY <1>3, <1>10 DEF ToEndpoint
  <2>2. UNCHANGED <<listener, to_listener>>
    BY <1>10 DEF E!impl_set_param
  <2>3. /\ Changed(value, value', i) /\ value'[i] \in Values
        /\ Changed(coming, coming', i) /\ coming'[i] \in Seq(Values)
        /\ Attached(si[i], listener[i]) => value'[i] = value[i]
    <3>1. CASE si[i].connected /\ E!HasNode(si[i])
      <4>1. E!Changes(i, m.value)
        BY <1>10, <3>1 DEF E!impl_set_param
      <4>2. si[i].caches_props
        BY <3>1, WhoHears DEF ConnectionRight
      <4> QED
        BY <2>1, <4>1, <4>2, ChangesRight
    <3>2. CASE ~(si[i].connected /\ E!HasNode(si[i]))
      <4>1. value' = value /\ coming' = coming
        BY <1>10, <3>2 DEF E!impl_set_param
      <4> QED
        BY <4>1, WhatIsSent, SameAt DEF EndpointInv, OneRight
    <3> QED
      BY <3>1, <3>2
  <2>4. ASSUME Attached(si[i], listener[i])
        PROVE  IsFollowed(listener[i], to_listener[i], to_endpoint'[i], value'[i],
                          i \in scene.subscribers, serial)
    <3>1. m.type # "enum" /\ m.type # "subscribe"
      BY <1>10
    <3> QED
      BY <1>6, <1>7, <2>3, <2>4, <3>1 DEF IsFollowed
  <2>5. /\ Changed(listener, listener', i) /\ listener'[i] \in ListenerState
        /\ Changed(to_listener, to_listener', i) /\ to_listener'[i] \in Seq(ToListener)
    BY <2>2, WhatIsSent, SameAt
  <2> QED
    BY <1>2, <1>3, <1>4, <1>5, <2>2, <2>3, <2>4, <2>5, MessagesMove
<1> QED
  BY <1>1, <1>8, <1>9, <1>10 DEF E!EndpointHandles

LEMMA ListenerHearsKeeps ==
  ASSUME EndpointInv, NEW i \in Items, E!ListenerHears(i) PROVE EndpointInv'
<1>1. PICK m : m = Head(to_listener[i])
  OBVIOUS
<1>2. /\ to_listener[i] # <<>> /\ to_listener' = [to_listener EXCEPT ![i] = Tail(@)]
      /\ UNCHANGED <<scene, serial, endpoint_core_up, si, value, coming>>
  BY DEF E!ListenerHears, E!params
<1>3. /\ listener[i].hears /\ listener[i] \in ListenerState
      /\ to_listener[i] \in Seq(ToListener) /\ m \in ToListener
      /\ to_endpoint[i] \in Seq(ToEndpoint)
  BY <1>1, <1>2, WhatIsSent
<1>4. Changed(to_listener, to_listener', i) /\ to_listener'[i] = Tail(to_listener[i])
  BY <1>2, WhatIsSent DEF OfItems, Changed
<1>5. to_listener'[i] \in Seq(ToListener)
  BY <1>2, <1>3, <1>4
<1>6. Attached(si[i], listener[i]) =>
        IsFollowed(listener[i], to_listener[i], to_endpoint[i], value[i], i \in scene.subscribers,
                   serial)
  BY WhatIsSent
<1>7. /\ Changed(value, value', i) /\ value'[i] \in Values
      /\ Changed(coming, coming', i) /\ coming'[i] \in Seq(Values)
  BY <1>2, WhatIsSent, SameAt DEF EndpointInv, OneRight
<1>8. CASE /\ m.type = "info" /\ listener' = [listener EXCEPT ![i].seen = m.flags]
           /\ to_endpoint' = IF m.flags = listener[i].seen THEN to_endpoint
                             ELSE [to_endpoint EXCEPT ![i] = Append(@, [type |-> "enum"])]
  <2>1. PICK l : l = [listener[i] EXCEPT !.seen = m.flags]
    OBVIOUS
  <2>2. m.flags \in E!Flags
    BY <1>3, <1>8 DEF ToListener
  <2>3. /\ l \in ListenerState /\ l.hears /\ l.subscribed = listener[i].subscribed
        /\ l.seen = m.flags /\ l.got = listener[i].got
    BY <1>3, <2>1, <2>2 DEF ListenerState
  <2>4. Changed(listener, listener', i) /\ listener'[i] = l
    BY <1>8, <2>1, WhatIsSent DEF OfItems, Changed
  <2>5. PICK asks : asks = [type |-> "enum"]
    OBVIOUS
  <2>6. asks \in ToEndpoint /\ asks.type = "enum"
    BY <2>5 DEF ToEndpoint
  <2>7. /\ Changed(to_endpoint, to_endpoint', i)
        /\ to_endpoint'[i] = IF m.flags = listener[i].seen THEN to_endpoint[i]
                             ELSE Append(to_endpoint[i], asks)
    BY <1>8, <2>5, WhatIsSent DEF OfItems, Changed
  <2>8. to_endpoint'[i] \in Seq(ToEndpoint)
    BY <1>3, <2>6, <2>7
  <2>9. \A type : HasType(to_endpoint[i], type) => HasType(to_endpoint'[i], type)
    BY <1>3, <2>6, <2>7, TypeSent
  <2>10. m.flags # listener[i].seen => HasType(to_endpoint'[i], "enum")
    BY <1>3, <2>6, <2>7, TypeSent
  <2>11. Fresh(to_listener[i], listener[i], value[i]) => Fresh(to_listener'[i], l, value[i])
    BY <1>1, <1>2, <1>3, <1>4, <1>8, <2>3, FreshAfter
  <2>12. ASSUME Toggled(to_listener[i], listener[i], serial)
         PROVE  Toggled(to_listener'[i], l, serial) /\ m.flags # listener[i].seen
    <3>1. Toggled(to_listener'[i], l, serial)
      BY <1>1, <1>2, <1>3, <1>4, <1>8, <2>3, <2>12, ToggledAfter
    <3>2. 1 \in DOMAIN to_listener[i] /\ to_listener[i][1] = m
          /\ \A j \in DOMAIN to_listener[i] : ~ j < 1
      BY <1>1, <1>2, <1>3
    <3>3. to_listener[i][1].flags # listener[i].seen
      BY <1>8, <2>12, <3>2 DEF Toggled
    <3> QED
      BY <3>1, <3>2, <3>3
  <2>13. ASSUME Attached(si[i], listener[i])
         PROVE  IsFollowed(l, to_listener'[i], to_endpoint'[i], value[i], i \in scene.subscribers,
                           serial)
    <3>1. IsFollowed(listener[i], to_listener[i], to_endpoint[i], value[i],
                     i \in scene.subscribers, serial)
      BY <1>6, <2>13
    <3> QED
      BY <2>3, <2>9, <2>10, <2>11, <2>12, <3>1 DEF IsFollowed
  <2> QED
    BY <1>2, <1>3, <1>4, <1>5, <1>7, <2>3, <2>4, <2>7, <2>8, <2>13, MessagesMove
<1>9. CASE /\ m.type = "param" /\ listener' = [listener EXCEPT ![i].got = m.value]
           /\ UNCHANGED to_endpoint
  <2>1. PICK l : l = [listener[i] EXCEPT !.got = m.value]
    OBVIOUS
  <2>2. m.value \in Values
    BY <1>3, <1>9 DEF ToListener
  <2>3. /\ l \in ListenerState /\ l.hears /\ l.subscribed = listener[i].subscribed
        /\ l.seen = listener[i].seen /\ l.got = m.value
    BY <1>3, <2>1, <2>2 DEF ListenerState
  <2>4. Changed(listener, listener', i) /\ listener'[i] = l
    BY <1>9, <2>1, WhatIsSent DEF OfItems, Changed
  <2>5. Changed(to_endpoint, to_endpoint', i)
    BY <1>9, WhatIsSent, SameAt
  <2>6. Fresh(to_listener[i], listener[i], value[i]) => Fresh(to_listener'[i], l, value[i])
    BY <1>1, <1>2, <1>3, <1>4, <1>9, <2>3, FreshAfter
  <2>7. Toggled(to_listener[i], listener[i], serial) => Toggled(to_listener'[i], l, serial)
    BY <1>1, <1>2, <1>3, <1>4, <1>9, <2>3, ToggledAfter
  <2>8. HasType(to_listener[i], "info") => HasType(to_listener'[i], "info")
    <3>1. m.type # "info"
      BY <1>9
    <3> QED
      BY <1>1, <1>2, <1>3, <1>4, <3>1, TypeAfter
  <2>9. ASSUME Attached(si[i], listener[i])
        PROVE  IsFollowed(l, to_listener'[i], to_endpoint[i], value[i], i \in scene.subscribers,
                          serial)
    <3>1. IsFollowed(listener[i], to_listener[i], to_endpoint[i], value[i],
                     i \in scene.subscribers, serial)
      BY <1>6, <2>9
    <3> QED
      BY <2>3, <2>6, <2>7, <2>8, <3>1 DEF IsFollowed
  <2> QED
    BY <1>2, <1>3, <1>4, <1>5, <1>7, <1>9, <2>3, <2>4, <2>5, <2>9, MessagesMove
<1> QED
  BY <1>1, <1>8, <1>9 DEF E!ListenerHears

(* The endpoint that listens to its node toggles the flag, and tells. *)
LEMMA TogglesRight ==
  ASSUME EndpointInv, NEW i \in Items
  PROVE  /\ E!Toggles(si[i], serial) \in E!Flags
         /\ listener[i].hears /\ si[i].connected => E!Toggles(si[i], serial) = 1 - serial
<1>1. si[i].left = {} /\ serial \in {0, 1}
  BY WhoHears DEF StagesRight, EndpointInv, E!Flags
<1>2. listener[i].hears => si[i].endpoint # "none"
  BY WhoHears
<1> QED
  BY <1>1, <1>2 DEF E!Toggles, E!Flags

LEMMA ParamsChangedKeeps ==
  ASSUME EndpointInv, OneOrSubscribed, NEW i \in Items, E!on_node_params_changed(i)
  PROVE  EndpointInv'
<1>1. /\ coming[i] # <<>> /\ coming' = [coming EXCEPT ![i] = Tail(@)]
      /\ value' = [value EXCEPT ![i] = Head(coming[i])]
      /\ serial' = E!Toggles(si[i], serial)
      /\ UNCHANGED <<scene, endpoint_core_up, si, listener, to_endpoint>>
  BY DEF E!on_node_params_changed
<1>2. i \in scene.items /\ coming[i] \in Seq(Values) /\ endpoint_core_up' \in BOOLEAN
  BY <1>1, Present DEF EndpointInv, OneRight
<1>3. /\ Changed(coming, coming', i) /\ coming'[i] = Tail(coming[i])
      /\ Changed(value, value', i) /\ value'[i] = Head(coming[i])
  BY <1>1, WhatIsSent DEF OfItems, Changed
<1>4. Tail(coming[i]) \in Seq(Values) /\ Head(coming[i]) \in Values
  BY <1>1, <1>2
<1>5. serial' \in E!Flags
  BY <1>1, TogglesRight
<1>6. /\ Changed(si, si', i) /\ Changed(listener, listener', i)
      /\ Changed(to_endpoint, to_endpoint', i)
  BY <1>1, WhatIsSent, SameAt
<1>7. /\ listener[i] \in ListenerState /\ to_listener[i] \in Seq(ToListener)
      /\ to_endpoint[i] \in Seq(ToEndpoint)
      /\ HearingRight(si[i], listener[i], to_listener[i], to_endpoint[i])
      /\ ItemRight(si[i])
  BY DEF EndpointInv, OneRight, ListenerRight
<1>8. CASE listener[i].hears /\ si[i].connected
  <2>1. PICK toggled : toggled = [type |-> "info", flags |-> serial']
    OBVIOUS
  <2>2. PICK param : param = [type |-> "param", value |-> value'[i]]
    OBVIOUS
  <2>3. toggled \in ToListener /\ param \in ToListener /\ toggled.type = "info"
    BY <1>3, <1>4, <1>5, <2>1, <2>2 DEF ToListener
  <2>4. PICK q : q = Append(to_listener[i], toggled)
    OBVIOUS
  <2>5. q \in Seq(ToListener) /\ Append(q, param) \in Seq(ToListener)
    BY <1>7, <2>3, <2>4
  <2>6. [E!Info EXCEPT !.flags = serial'] = toggled
    BY <2>1 DEF E!Info
  <2>7. [E!Param(i) EXCEPT !.value = value'[i]] = param
    BY <2>2 DEF E!Param
  <2>8. to_listener' = [to_listener EXCEPT ![i] = to_listener[i] \o <<toggled>>
                          \o (IF listener[i].subscribed THEN <<param>> ELSE <<>>)]
    <3>1. to_listener' = [to_listener EXCEPT ![i] =
                            to_listener[i] \o <<[E!Info EXCEPT !.flags = serial']>>
                              \o (IF listener[i].subscribed
                                     THEN <<[E!Param(i) EXCEPT !.value = value'[i]]>> ELSE <<>>)]
      BY <1>8, Zenon DEF E!on_node_params_changed
    <3> QED
      BY ONLY <2>6, <2>7, <3>1, Zenon
  <2>9. to_listener[i] \o <<toggled>> = q /\ q \o <<param>> = Append(q, param) /\ q \o <<>> = q
    BY <1>7, <2>3, <2>4, <2>5, AppendIsConcat, ConcatEmptySeq
  <2>10. /\ Changed(to_listener, to_listener', i)
         /\ to_listener'[i] = IF listener[i].subscribed THEN Append(q, param) ELSE q
    <3>1. to_listener' = [to_listener EXCEPT ![i] =
                            IF listener[i].subscribed THEN Append(q, param) ELSE q]
      BY <2>8, <2>9
    <3> QED
      BY <3>1, WhatIsSent DEF OfItems, Changed
  <2>11. serial' = 1 - serial /\ serial = 1 - serial'
    <3>1. serial' = 1 - serial /\ serial \in {0, 1}
      BY <1>1, <1>8, TogglesRight DEF EndpointInv, E!Flags
    <3> QED
      BY <3>1
  <2>12. ASSUME Attached(si[i], listener[i])
         PROVE  IsFollowed(listener[i], to_listener'[i], to_endpoint[i], value'[i],
                           i \in scene.subscribers, serial')
    <3>1. IsFollowed(listener[i], to_listener[i], to_endpoint[i], value[i],
                     i \in scene.subscribers, serial)
      BY <2>12, WhatIsSent
    <3>2. Fresh(Append(q, param), listener[i], value'[i])
      BY <1>3, <1>4, <2>2, <2>5, ParamSent
    <3>3. Toggled(q, listener[i], serial') =>
            Toggled(Append(q, param), listener[i], serial')
      BY <1>3, <1>4, <2>2, <2>5, ParamSent
    <3>4. HasType(q, "info") /\ HasType(Append(q, param), "info")
      BY <1>7, <2>3, <2>4, <2>5, TypeSent
    <3>5. CASE i \in scene.subscribers
      BY <2>10, <3>1, <3>2, <3>5 DEF IsFollowed
    <3>6. CASE i \notin scene.subscribers
      <4>1. Toggled(to_listener[i], listener[i], 1 - serial')
        BY <2>11, <3>1, <3>6 DEF IsFollowed
      <4>2. Toggled(q, listener[i], serial')
        BY <1>5, <1>7, <2>1, <2>4, <4>1, InfoSent
      <4> QED
        BY <2>10, <3>3, <3>4, <3>6, <4>2 DEF IsFollowed
    <3> QED
      BY <3>5, <3>6
  <2>13. ListenerRight(si[i], listener[i], to_listener'[i], to_endpoint[i], value'[i],
                       i \in scene.subscribers, serial')
    BY <1>7, <1>8, <2>5, <2>10, <2>12 DEF ListenerRight, HearingRight
  <2>14. OneRight(i)'
    BY <1>1, <1>3, <1>4, <1>7, <2>13 DEF OneRight
  <2> QED
    BY <1>1, <1>2, <1>3, <1>5, <1>6, <2>10, <2>14, OthersKept DEF OnlyAt
<1>9. CASE ~(listener[i].hears /\ si[i].connected)
  <2>1. to_listener' = to_listener
    BY <1>9 DEF E!on_node_params_changed
  <2>2. Changed(to_listener, to_listener', i)
    BY <2>1, WhatIsSent, SameAt
  <2>3. ListenerRight(si[i], listener[i], to_listener[i], to_endpoint[i], value'[i],
                      i \in scene.subscribers, serial')
    BY <1>7, <1>9 DEF ListenerRight, Attached
  <2>4. OneRight(i)'
    BY <1>1, <1>3, <1>4, <1>7, <2>1, <2>3 DEF OneRight
  <2> QED
    BY <1>1, <1>2, <1>3, <1>5, <1>6, <2>2, <2>4, OthersKept DEF OnlyAt
<1> QED
  BY <1>8, <1>9

LEMMA EndpointInvInit == E!EndpointInit => EndpointInv
<1> SUFFICES ASSUME E!EndpointInit PROVE EndpointInv
  OBVIOUS
<1>1. E!Unmade \in E!Item
  BY EndpointsAssumption DEF E!Unmade, E!Item, E!EndpointAssumption
<1>2. ItemRight(E!Unmade)
  BY <1>1 DEF ItemRight, StagesRight, ConnectionRight, E!Unmade, E!FeaturesBacked,
     E!UndoesTheLost, E!HasNode
<1>3. E!Deaf \in ListenerState /\ ~E!Deaf.hears
  BY DEF E!Deaf, ListenerState
<1>4. ASSUME NEW i \in Items PROVE OneRight(i) /\ si[i] = E!Unmade /\ coming[i] = <<>>
  <2>1. /\ si[i] = E!Unmade /\ coming[i] = <<>> /\ listener[i] = E!Deaf /\ value[i] \in Values
        /\ to_listener[i] = <<>> /\ to_endpoint[i] = <<>>
    BY DEF E!EndpointInit
  <2>2. ListenerRight(E!Unmade, E!Deaf, <<>>, <<>>, value[i], i \in scene.subscribers, serial)
    BY <1>3 DEF ListenerRight, HearingRight, Attached
  <2> QED
    BY <1>2, <2>1, <2>2 DEF OneRight
<1>5. /\ OfItems(si) /\ OfItems(value) /\ OfItems(coming)
      /\ OfItems(listener) /\ OfItems(to_listener) /\ OfItems(to_endpoint)
      /\ scene \in Scenes /\ endpoint_core_up \in BOOLEAN /\ serial \in E!Flags
  BY DEF E!EndpointInit, OfItems, E!Flags
<1> QED
  BY <1>4, <1>5 DEF EndpointInv

LEMMA EndpointInvStutters == EndpointInv /\ UNCHANGED endpointVars => EndpointInv'
BY DEF EndpointInv, OneRight, OfItems, endpointVars

LEMMA EndpointInvStep ==
  ASSUME EndpointInv, EndpointLapses = {}, OneOrSubscribed, E!EndpointNext
  PROVE  EndpointInv'
<1>1. CASE E!Disconnect
  BY <1>1, DisconnectKeeps
<1>2. ASSUME NEW i \in Items, E!EndpointLoop(i) PROVE EndpointInv'
  BY <1>2, NodeActivateKeeps, AdapterActivateKeeps, NextStepKeeps, EndpointNodeActivatedKeeps,
     EndpointActivatedKeeps DEF E!EndpointLoop
<1>3. ASSUME NEW i \in Items,
             \/ E!on_session_item_proxy_destroyed_deferred(i)
             \/ E!si_audio_endpoint_configure(i) \/ E!Reset(i)
             \/ \E features \in {"all", "exported"} : E!Deactivate(i, features)
             \/ \E exports \in BOOLEAN : E!Activate(i, exports)
      PROVE  EndpointInv'
  BY <1>3, DeferredKeeps, ConfigureKeeps, ResetKeeps, DeactivateKeeps, ActivateKeeps
<1>4. ASSUME NEW i \in Items,
             \/ E!OthersCacheProps(i) \/ E!ServerDestroysEndpoint(i) \/ E!ServerDestroysNode(i)
             \/ E!on_node_params_changed(i) \/ E!EndpointHandles(i) \/ E!ListenerHears(i)
             \/ \E x \in Values : E!NodeChanges(i, x) \/ E!ListenerSets(i, x)
      PROVE  EndpointInv'
  BY <1>4, OthersCacheKeeps, EndpointDestroyedKeeps, NodeDestroyedKeeps, ParamsChangedKeeps,
     EndpointHandlesKeeps, ListenerHearsKeeps, NodeChangesKeeps, ListenerSetsKeeps
<1> QED
  BY <1>1, <1>2, <1>3, <1>4 DEF E!EndpointNext

(* Of what is not on its way, the listener has the last. *)
LEMMA EndpointInvImplies == EndpointInv => EndpointsSound
<1> SUFFICES ASSUME EndpointInv PROVE EndpointsSound
  OBVIOUS
<1>1. ASSUME NEW i \in Items
      PROVE  E!FeaturesBacked(si[i]) /\ E!UndoesTheLost(si[i]) /\ E!NothingLeft(si[i])
  BY WhoHears DEF StagesRight, E!NothingLeft
<1>2. ASSUME NEW i \in Items PROVE E!Served(si[i])
  BY WhoHears DEF E!Served, StagesRight, ConnectionRight, E!FeaturesBacked, E!HasNode
<1>3. ASSUME NEW i \in Items, listener[i].hears, si[i].connected, E!HasNode(si[i]), E!Settled(i)
      PROVE  listener[i].got = value[i]
  <2>1. to_listener[i] = <<>> /\ to_endpoint[i] = <<>>
    BY <1>3 DEF E!Settled
  <2>2. IsFollowed(listener[i], to_listener[i], to_endpoint[i], value[i], i \in scene.subscribers,
                   serial)
    BY <1>3, WhatIsSent DEF Attached
  <2>3. \A type : ~HasType(to_listener[i], type) /\ ~HasType(to_endpoint[i], type)
    BY <2>1 DEF HasType
  <2>4. Fresh(to_listener[i], listener[i], value[i])
    BY <2>2, <2>3 DEF IsFollowed
  <2> QED
    BY <2>1, <2>4 DEF Fresh
<1>4. E!EndpointTypeOK
  <2>1. \A i \in Items : /\ si[i] \in E!Item /\ value[i] \in Values /\ coming[i] \in Seq(Values)
                         /\ listener[i].seen \in E!Flags \cup {NULL}
                         /\ listener[i].got \in Values \cup {NULL}
    BY DEF EndpointInv, OneRight, ItemRight, ListenerRight, ListenerState
  <2>2. si \in [Items -> E!Item] /\ value \in [Items -> Values] /\ coming \in [Items -> Seq(Values)]
    BY <2>1 DEF EndpointInv, OfItems
  <2> QED
    BY <2>1, <2>2 DEF E!EndpointTypeOK, EndpointInv
<1> QED
  BY <1>1, <1>2, <1>3, <1>4 DEF EndpointsSound, E!EndpointsSound, E!ParamsServed, E!ListenersFollow

(* An endpoint that is exported is backed by its node, has the parameters of a node that
   caches them, is undone by the idle source of the proxy that was lost and by no other,
   and leaves nothing behind; and whoever listens to it has the parameter of the node when
   nothing is on its way.  This needs callers that wait, as those of the repository do
   (EndpointLapses), and that all listeners subscribe or there is one endpoint: the flag
   by which the others see a change is shared by all endpoints, and with two of them
   ListenersFollow is false. *)
THEOREM EndpointsStaySound ==
  ASSUME EndpointLapses = {}, OneOrSubscribed PROVE ServicesSpec => []EndpointsSound
<1>1. ServicesInit => EndpointInv
  BY EndpointInvInit DEF ServicesInit
<1>2. EndpointInv /\ [ServicesNext]_serviceVars => EndpointInv'
  BY EndpointInvStep, EndpointInvStutters DEF ServicesNext, serviceVars
<1> QED
  BY <1>1, <1>2, EndpointInvImplies, PTL DEF ServicesSpec
=============================================================================
