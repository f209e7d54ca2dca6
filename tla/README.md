# WirePlumber in TLA+

WirePlumber is the session and policy manager of PipeWire: a C library (`lib/wp`)
that mirrors the objects of a PipeWire server, a daemon (`src/main.c`) that loads
modules (`modules/`), and Lua scripts (`src/scripts`) that decide which stream is
linked to which device.  This directory holds TLA+ modules translated from that
code, TLC configurations that check them on small instances, and TLAPS proofs.
All paths below are relative to the root of the repository.

`PROJECT.json` lists the components, the runs, the definitions with the lines that
they stand for, the hazards with the properties that cover them, one mutant per
property (a plausible bug that the property detects), the findings and the theorems.

    tlc -workers 2 -config ObjectActivation.cfg MCObjectActivation
    tlapm ObjectActivationProofs.tla

## 1. The system

Everything in the C library and in the scripts runs in the thread of one GLib main
loop.  There is no parallelism; what makes the code hard is what is between two
events and what is inside one:

* *re-entrancy*: closures and signal handlers are user code.  They are called in
  the middle of library functions and may call the library again.  The frames that
  are on the C stack then go on with what they read before.
* *asynchrony*: a request to the server, a D-Bus call or an activation ends in a
  later event, when the object that made it may have changed, failed or gone away.
* *idle sources*: work is put off to the main loop, coalesced by a flag or pointer
  that says that a source is already attached.
* *outside actors*: the server numbers its objects and reuses the numbers; other
  session managers compete for devices; both can disappear.

### Inventory

| Component (sources) | State | Operations | Depends on | What makes it correct | Modules |
|---|---|---|---|---|---|
| Object activation (`lib/wp/object.c`, `transition.c`) | active features, queue of transitions, weak ref to the ongoing one, idle source, step of each transition | activate, deactivate, update_features, abort, advance, return, return_error, cancel | main loop, subclass hooks | each closure called exactly once; one transition at a time; failures drain the queue; success means active; nobody forgotten | `ObjectActivation`, `ActivationService` |
| Registry and object managers (`lib/wp/object-manager.c`) | globals by id, held back globals, local objects, installed managers; per manager objects, pending objects, changed, idle source, installed | register/remove object, install/destroy manager, global/global_remove, expose, notify | core, global proxies, activation | managers' objects are those that exist; `installed` once and not too early; changes reported | `ObjectManagers`, `GlobalRegistry` |
| Global proxies (`global-proxy.c`, `proxy.c`) | WpGlobal flags, proxy, id; pw_proxy | bind, create, bound, removed, error, destroy, dispose | registry, server | a proxy speaks for its global's object; no dangling or orphan proxy; no second proxy for one object | `GlobalRegistry` |
| Core (`core.c`) | pw_core, info, table of async tasks, registry | connect, disconnect, sync, done, error (EPIPE), clone | server | every sync is answered once; a lost connection is noticed; signals once | `Core` |
| Daemon start-up (`src/main.c`, `component-loader.c`, `plugin.c`, `module.c`) | WpInitTransition step, object manager, pending plugins; exit code | load components, connect, check for another session manager, activate plugins, activate scripts, exit | core, object managers, activation | scripts run after all plugins; start-up completes or the daemon exits with the first error | `Daemon` |
| PipeWire objects (`private/pipewire-object-mixin.c`, `node.c`, `device.c`, ...) | cached info and params, feature state, tasks waiting for params; managed objects of a SPA device | info and param events, enum_params, set_param, export, store managed object | global proxies, core sync | the cache is that of the last report; a managed object exists while its parent has it | `ParamCache`; the monitors |
| Metadata (`metadata.c`, `module-metadata.c`) | array of items per subject | set, clear, iterate, property event | global proxies | local copy equals the server's after a sync, and listeners were told of all of it | `Metadata`; its use in `DefaultNodes` |
| Session items (`session-item.c`, `si-*.c`, `module-si-*.c`) | configuration, active/exported, links, ports format | configure, activate, export, reset | activation, object managers | an active link has all its PipeWire links, in one format; a failed one leaves none; what is exported is backed by its node and given up when it is lost; every activation ends | `StandardLink`, `AudioEndpoint` |
| Linking policy (`src/scripts/policy-*.lua`, `create-item.lua`) | items, per-item flags, pending scan, default nodes; profiles of before a call | rescan, handle linkable, move; switch and restore profiles | session items, metadata, object managers | a scan under way is repeated for changes that came meanwhile; targets respected; scans end | `PolicyNode`, `BluetoothPolicy` |
| Device policy (`policy-device-*.lua`, `module-default-profile.c`) | stored and selected profiles and routes | select, store, restore | params, state | the user's choice survives the device's changes | `Devices` |
| Stored settings (`state.c`, `module-default-nodes.c`, `restore-stream.lua`) | properties in memory, a file, a timeout | save, load, delayed save | state files, metadata | what is loaded is the last completed save; the best node is the default; a stream gets back what its user gave it | `DefaultNodes`, `StreamRestore`, `Devices` |
| Device reservation (`modules/module-reserve-device`, `monitors/alsa.lua`) | reservation state, owner id, transition, invocation | acquire, release, deny, RequestRelease, name events | D-Bus, other peers | the device is open in one process; every acquire ends; the highest priority wins | `ReserveDevice`, `Dbus` |
| Device monitors (`monitors/*.lua`, `module-logind.c`, ...) | devices and nodes per parent, tables of names | create/remove objects, seat state, device sets | SPA plugins, logind, reservations | a node exists while its device does, under a name of its own, and has the volume of its route | `AlsaMonitor`, `BluezMonitor` |
| Volume control (`module-mixer-api.c`) | volumes per node | set/get volume | params | what it knows is what the server has; channels that are not given keep their volume | `MixerApi` |
| Interest, properties (`object-interest.c`, `properties.c`) | constraints, validity; counted dictionaries | add, validate, match; wrap, copy, take, set, update, iterate | | a match answers for the constraints there are; owned once, written alone | `ObjectInterest`, `Properties` |
| Pods, JSON, types (`spa-pod.c`, `spa-json.c`, `spa-type.c`) | counted boxes over shared or foreign memory, growing buffers; registered types | build, add, parse, get, iterate, fixate, filter, copy, register | PipeWire's inline functions | what was put in comes out, in every order; the text fits its buffer; owned once | `SpaType`, `SpaPod`, `SpaJson`, `SpaMemory` |
| Lua engine (`module-lua-scripting`) | scripts, closures | load, call, unload, convert values | plugins | scripts are enabled in order; a table that becomes a pod or JSON comes back as that table | `Daemon`, `LuaPod`, `SpaJson` |
| Bus connection (`dbus.c`) and permission store (`module-portal-permissionstore.c`) | state, connection, attempts; subscription | connect, reconnect, closed, enable, disable, lookup, changed | core sync, GDBus | one connection, which everything on it follows; whoever waits is answered | `Dbus` |
| Access scripts (`access/*.lua`) | none between events | client added, store changed | object managers, permission store | no permission before the decision | not modelled |
| wpctl, logging | none | | | | not modelled |

The interactions that matter most: activation is used by *every* other object
(proxies, plugins, session items, metadata, scripts); an object manager activates
proxies before it manages them; the policies only see what object managers report, and
parameters as the cache has them; the daemon's own start-up is a transition driven by the
core, by object managers and by activations.

## 2. What is modelled

The comments of the modules give the correspondence in detail; this is the overview.

### ObjectActivation, ActivationService, ObjectActivationProofs

One `WpObject`.  `transitions`, `ongoing_transition`, `ft_active`,
`idle_advnc_source` are the fields of `WpObjectPrivate`; `step`, `started`, `invoked`,
`cancelled` are per transition what `WpTransitionPrivate` has; `sources` counts the
idle sources that are attached to the main context (the pointer
`idle_advnc_source` may be cleared while its source remains attached, and the model
keeps both); `jobs` are the asynchronous steps of the subclass; `stack` is the C
stack, reduced to the frames of `wp_transition_return`.

The stack is what makes the model faithful.  `wp_transition_return` invokes the
closure, then sets completed, then emits `notify::completed`, whose handler either
schedules the next transition or aborts all of them, each of which invokes a closure
again.  With an empty stack the main loop picks any event; otherwise only the topmost
frame, or user code inside its closure, moves.  `Activate`, `Deactivate`, `Cancel`,
`Abort`, `ProxyDestroyed` are the calls that user code makes in either place;
`AdvanceTransitions` is the idle callback; `JobDone`, `JobFailed`, `ChangeSupported`
are the subclass; `ClosureReturn` and `Unwind` are the two halves of the rest of
`wp_transition_return`.

The subclass is the environment: `NextStep` gives the step for a set of missing
features (any function, as the code allows) and a step ends at once, later, or with an
error.

`ActivationService` is the promise to clients: requests answered one after the other
in the order of arrival, each once, "done" only if what was asked for and is supported
is active.  `ImplementsService` is the refinement: the pending requests are the ongoing
transition, unless it has completed, and the queue.

### ObjectManagers, ObjectManagersProofs

The registry's loops over its array of managers and over its local objects, as frames
with an index, and a manager's reaction (`wp_object_manager_maybe_objects_changed`
with its three cases, the idle emission, the `installed` flag).  Handlers of any of
the four signals may register and remove objects, install and drop managers, as
`create-item.lua` (76, 113), `policy-node.lua` (131) and the daemon (`main.c:253-305`) do.
`RegisterSpares`, `RemoveSpares`, `InstallSpares` and `DropSpares` are what they owe to the
walks under them: no object is added to or removed from an array for a manager that is being
told of it, no manager is dropped in a walk over the array of managers, and nothing is
registered or removed while `installed` is emitted.  All handlers of the repository keep to
it; `Lapses` names the calls that do not.  References are modelled as far as they decide
when a manager is finalized (`Referenced`, `Release`).

### GlobalRegistry

`WpRegistry`, `WpGlobal` and `WpGlobalProxy` against a server that numbers its objects
and reuses the numbers, with requests and events in flight in both directions.  The
functions of the C code that change several objects at once (`wp_global_rm_flag`,
`wp_registry_prepare_new_global`, `expose_tmp_globals`, `wp_registry_detach`, dispose)
are functions of the `client` record with the same names, and each action applies them
in the order in which the handler calls them.  `critical` records a failing
`g_return_if_fail`, after which the function returns early as in the code.

`SameCycle` is the assumption that the comment at `object-manager.c:1166` relies on:
`bound` and `global` of the same object come in one main loop dispatch.

### ReserveDevice

Peers on one bus that all run `WpReserveDevice`; those that are *scripted* run
`monitors/alsa.lua`, the others acquire and release when they like.  The bus, the name
of the device and its owner, the messages on their way to and from the bus (in order
per peer; a release of a name is a blocking call, which flushes what was sent before).
`rd[p]` is a record with the fields of the reservation and of its transition; the
transition's steps keep the names of the code.  Crash, unplug, one failing proxy and one call
that times out although it would have been answered are the failures; a call that nobody will
answer (`Unanswered`) times out sooner or later.  `crowd` says who is there, who is scripted
and what may fail, and never changes.

### Services: Dbus, Metadata, AudioEndpoint, ServicesProofs

What the daemon shares with other programs; `Services` has these three modules and
`ReserveDevice` side by side, as `DaemonAndCore` does below with two others.

`Dbus` is the connection (`lib/wp/dbus.c`) with the two plugins that live on it, which are
told of it by `notify::state`, inside the call that changes it (`wp_dbus_set_state`).
A connection is numbered by the attempt that made it: the attempts are under way at the same
time as the connection closes, is disabled or made again, and a connection that is replaced
without being dropped would be `leaked`.  `Lapses` are calls that nobody in the repository
makes: disabling WpDbus while it reconnects, and using a plugin that was disabled.

`Metadata` is `WpMetadata` as a proxy, with the server and the messages in both directions, and
`WpImplMetadata` with its plugin, where a change is reported inside the call.  The copy is
an array that is searched from its beginning; `told` is what a listener of `changed` makes of
the signals.  A proxy binds again only when the reply to its earlier round trip has come
(`"rebind" \notin MetadataLapses`), as all callers do: the daemon never deactivates one.

`AudioEndpoint` is `si-audio-endpoint` on `WpSessionItem`, the `WpImplEndpoint` that it exports and
the half of the object mixin that serves what is exported.  `step` is what an activation
waits for; `deferred` counts the idle sources of `wp_session_item_handle_proxy_destroyed`;
the parameter of the node passes through its cache (`coming`), the info with its `serial` flag
and the messages to the listener, who enumerates what the flags say has changed.

### Core

One `WpCore` and the table `async_tasks` behind `wp_core_sync`.  Sequence numbers start
again with each connection, as `pw_core_sync` numbers them; the server answers in order,
breaks the connection at any time, and user code disconnects and connects at any time.
A task that ends in the iteration of the main loop in which it was made calls its
callback from an idle source (`late`), as a GTask does.  `DisconnectCore` is
`proxy_core_destroy`, common to `wp_core_disconnect` and to the idle callback of
`core_error`.  `ResyncOnError` lets callbacks sync again when they are told of an error.

### Daemon, DaemonAndCore, DaemonAndCoreProofs

`WpInitTransition` and the exit of `main`, one level above the other modules:
activations, object managers and the core are reduced to what they tell the daemon.  The
step functions of the code are functions of a record with the state (`World`), since a
callback executes several of them in a row.  What the model keeps with care is the main
loop: idle sources are dispatched in the order in which they were attached, an
iteration dispatches those that were attached when it began, and goes on doing so after
`g_main_loop_quit` (`batch`).  Configurations are the flattened list of components;
some component may fail to load, some plugins and scripts may fail to be enabled.

`DaemonAndCore` puts the two last modules side by side in one specification: a behaviour
is about one of them (`subject`), and the other stays in an initial state.  They share no
state, because `Daemon` has the core only as what it tells `main.c`.  `Library` and
`Session` below do the same with their parts; each property of these modules names
its part, and TLC explores each part as if it were alone.

### ParamCache, Devices, DevicesProofs

`ParamCache` is `pipewire-object-mixin.c`: what was requested (`requests`), what the server
has sent (`events`), the proxy with its info, its features and its cache.  The parameters and
the reply of the round trip that ends their enumeration are one event, since readers see
the cache change as a whole.  `Devices` extends it with the three policies that read it.
`policy-device-profile.lua` and `module-default-profile.c` select a profile,
`policy-device-routes.lua` a route for each device id of the profile; both also *save* what
they see, so that a report of their own request must not be taken for a choice of the
user.  The device is external: it has routes with availabilities, some of which it
prefers for its profile.  `chosen` is what the user chose and nothing has overridden
since; `alone` says that no two changes have overlapped.

### PolicyNode and StandardLink

`PolicyNode` is `policy-node.lua` over the items of `create-item.lua`.  A scan is one step,
since nothing else runs during it; its functions map a record with the state of the
policy, `World`, to another one, and have the names of the script's functions.  Links are
registered, activated, fail, or become orphans when they are removed while they are being
activated; `syncs` are the round trips after which a scan is asked for again.
`StandardLink` is what activating a link does: the adapters' port configuration with its
round trips, the format negotiation of the two ends, the PipeWire links, and every
abort of these.  `format_task` names whoever waits for an adapter; it may
be displaced by another link that configures the same adapter (`g_task_return` runs the
callback of the displaced one inside the call).

### DefaultNodes, DefaultNodesProofs

`module-default-nodes.c` with the daemon's metadata and `module-default-nodes-api.c`.  The
metadata is local to the daemon, so that a property that is set is reported before the
call returns; nodes, ports, routes and the replies to syncs come in one queue (`events`).
Replies that nobody waits for any more are left out of the queue, and a reply that is
under way serves all who ask before it arrives, as the pending flags of the code make sure.
`config` and `prev` are what is saved; `file` is what a start loads.

### Session: AlsaMonitor, BluezMonitor, BluetoothPolicy, StreamRestore, MixerApi, SessionProofs

`AlsaMonitor`: cards, their reservations and devices, and the tables of names that make the
names of devices and nodes distinct.  The assumptions about what is around the script are
stated where they are used: the bus is faster than the user's hands (a card is not
replugged before the reservation heard of its removal); closing the bus ends the
transitions at once; rules do not rename; the SPA device of a card that is absent
does not load; a device that the script drops is gone at once, because the engine
collects garbage after each closure (`wplua/closure.c:104`).  `lost` has the names that the
script does not give back, see section 5.

`BluezMonitor`: devices that connect and disconnect, the seat, and device sets, whose nodes
are made by a module and come back through the server, where their device
finds them.  Nodes of a set come after the device is in `devices_om`.  `configured` is the
set of nodes that know their route's volume.

`BluetoothPolicy`: streams that record for calls, devices with profiles that are set by
the policy, by their users or by nobody, the two timeouts.  `before` is the profile that
the device had before the call; `blurred` are the devices whose profile was in transit
when the script decided, where "before" has no meaning.

`StreamRestore`: streams under one key, with what is restored to them, what the user
changes and what is saved a second later, over restarts.  `blurred` says of volume or
target that two streams of the key, or a change and a restoration, crossed.  `chosen` stays
over a restart, except for what is `Unsaved` then: what is not in the file is lost.

`MixerApi`: nodes whose volume is in a route or in their own Props, and the module's copy.
`expected` is what clients asked for; `hasty` are nodes whose clients set two channels without
waiting for the first to arrive.

### Library: SpaType, SpaPod, LuaPod, SpaJson, SpaMemory, ObjectInterest, Properties

What scripts and modules build out of the library.  Pods and JSON are pure operators
with the names of the functions: builders, argument lists (`builder_add_valist`), parsers,
iterators, and the two ways from and to Lua.  A pod is its tree of types and values, not
its bytes; JSON is a sequence of tokens with their lengths, because the growth of the
buffer (`ensure_allocated_max_size`) is about lengths; numbers of ids are modulo `Width`,
since a missing one is -1.  `SpaType` has PipeWire's tables of types in small, and the
registration of new ones.  `SpaJson` has the Lua side of JSON as well, `LuaPod` that of pods and the values of Lua that both are made of.

`Properties` and `SpaMemory` have the ownership of what the library counts references of:
dictionaries that are owned, wrapped, taken or given away, with their iterators and items;
pods and JSON that share the memory of a builder, wrap that of others, or are parts of
another one.  `Keepers` is what callers owe: whoever uses a part of a pod keeps an owner of
the memory, as every caller in the repository does; a parser is used only while its pod is
there.  `ObjectInterest` has constraints added, validated and matched in any order.

## 3. What is checked

Twelve runs.  Each states what must hold as a few conjunctions, whose conjuncts are
defined and explained in the modules; `PROJECT.json` names one mutant per property.

* **ObjectActivation** (667 000 states) - three requests, two features, one disturbance
  (a deactivation, abort, cancellation, lost proxy or change of the supported features).
  Three requests are one that runs, one that is queued, and one that a closure
  makes while the first two are aborted.  `Safe` (`CallbackOnce`, `OneAtATime`,
  `ErrorDrainsQueue`), `NoLostWakeup`, the refinement `ImplementsService`, and
  `EveryRequestReturns`.  Features may be deactivated under a transition: `Stalled` names the
  one state in which work is left that nothing wakes up, and both properties say that it comes
  from that and from nothing else.  Fairness: idle sources are dispatched, closures return, and a
  step that the subclass starts ends or fails.  The first two are GLib's and the client's;
  the third is what the environment owes.  There is no fairness on requests or disturbances.
* **ObjectManagers** (276 000) - two managers, of which one only wants globals, two local
  objects, of which one is of interest to neither, one global; handlers of every signal make
  every call that spares the walks under them (`Lapses = {}`), nested as deep as it goes.
  `Consistent`: `NoStaleObject`, `NoMissedObject`, `InstalledOnce`, `InstalledWhenReady`;
  `NothingForgotten` under fairness of idle sources, handlers and activations:
  `ChangesReported`, `EventuallyInstalled`.
* **GlobalRegistry** (48 000) - one number, two server objects (so that the number is reused),
  one creator, one manager, one loss of the connection.  `Consistent`: `NoStaleProxy`,
  `NoDanglingProxy`, `RightObject`, `OneProxyPerObject`, `NoOrphanProxy`, `AssertionsHold`,
  `MirrorsServer`; `EventuallyManaged` under fairness of the main loop, of the delivery of
  messages and of the server.
* **Services** (219 000) - four parts.  The reservation: two peers with different priorities, both,
  one or none of them scripted; crash, unplug, at most one premature timeout, at most one proxy
  failure; a client acquires only when no peer is more than two messages behind, which bounds the
  channels.  Or three monitors, the least number of which one can lose the call of another,
  and nothing fails but such calls.  `Consistent`: `DeviceOfOwner`, `OwnNameAssertion`.
  `CallsAnswered`: between two peers no call is lost.  (`Crowds <- MCClients`, a client and two
  monitors, has 530 000 states, in which `Consistent` holds too; it is not in the run.)  The bus: three attempts to
  connect, so that a connection is lost, made again and disabled while that is under
  way; one name, two sets of permissions, two signals on their way, so that a stale one and a
  fresh one are.  `BusFollowed`: `OneConnection`, `ReservationsExported`, `PermissionsFollowed`.
  Metadata: two keys of one subject and one of another, values with and without a type; two
  bindings, so that messages of the first arrive in the second; a change waits until there
  are fewer than two events.  `MetadataMirrored`: `NoDuplicates`, `CopyMirrors`, `ListenersKnow`.
  The endpoint: subscribed to or not, two values, two activations, two values or messages on
  their way.  `EndpointsSound`: `FeaturesBacked`, `UndoesTheLost`, `NothingLeft`, `ParamsServed`,
  `ListenersFollow`.  `EverybodyAnswered`: `AcquireEnds` (also of three monitors) and `HighestWins` (of two) of the
  reservation, `BusComesBack`, `EndpointsAnswer`.  Fairness: buses and main loops run, a call
  that nobody will answer times out, a monitor reserves
  a device that it finds, and a client that makes a caller wait decides in the end (the last is
  what the interface asks of it); an attempt to connect ends, GIO sees to that; each step of an
  activation ends, as the server answers or the connection is lost.
* **Daemon** (36 000) - `DaemonAndCore`.  The daemon with two plugins, two scripts, the engine,
  eight configurations (the engine last or first, without plugins, without scripts,
  unnamed, missing; an empty list; a section that is not an array), plugins that may fail at
  once or later and scripts that may fail later: `Consistent` (`ScriptsAfterPlugins`,
  `CleanupComplete`, `FailureReported`) and `NobodyHangs` (`StartsOrExits`,
  `LossEndsDaemon`).  The core with three syncs over two connections, so that two syncs share
  a number and the third is in flight or comes late: `AnswersMatch`, and `NobodyHangs` again: each
  sync is answered.  Fairness:
  the main loop runs, the server answers as long as the connection lasts, and what is
  enabled asynchronously ends.  Signals, losses and connecting are not fair: a sync of
  a core that stays disconnected is answered too.
* **PolicyNode** (555 000) - two streams, two devices, six setups (a stream that asks for a
  target, an exclusive stream, one filter, two filters, a stream that cannot be moved, one that
  passes through to one device only), one change by the user, links that may fail, one retry.  `LinksSound`: no link without its ends, exclusive ones alone,
  no feedback loop; `QuietMeansLinked`: when nothing is pending every stream that has a usable
  target is linked to the one it wants; `Settles`: scans end although links may fail
  each time.  Fairness: activations end, syncs are answered.  It is written as `[]<>~guard \/
  []<><<A>>_vars`, which is weak fairness of an action whose guard is known, because TLC would
  have to compute a whole scan to see that the action is enabled.
* **StandardLink** (575 000) - two streams, two devices, three links (so that two compete for an
  adapter and one comes after a removed one), two channels, two formats; five setups: one
  stream with two devices of different formats, of the same one, or with one that has no DSP
  ports and one that is not configured on activation; two streams with one device, of
  which one passes through or is not remixed.  `LinksSound`: no
  PipeWire link outlives its item, an active one has all of them, formats agree;
  `EveryLinkEnds` under fairness of server and main loop.
* **DefaultNodes** (1 127 000) - three nodes, one of them the echo canceller's, with ports and
  routes; two changes, one request of a client, one stop or crash; a stack of two earlier
  choices, which is the least in which an entry can be moved past another.  `Consistent`
  (`StackSound`, `Stored`), `DefaultsAgree` (`DefaultIsBest`, `ApiUpToDate`), `Settles`, with
  the daemon's main loop fair.
* **Devices** (249 000) - one device that may be unplugged, three profiles (off, stereo, duplex),
  two routes of one device id; two worlds (phones plugged in or not, duplex or not) between
  which the device changes once, one choice of the user, one removal; the environment acts when at most
  two messages are in transit.  `CacheFresh`, `EndsRight` (profile selected, routes available,
  volume restored), `Settles` for changes that do not overlap.  Fairness: daemon and server.
* **DevicesRoute** (violation of `StoredRouteIsRestored`) - with one switch of the profile, the
  route that is set after the stored one is the one that the device came up with; see the
  finding.
* **Library** (192 000) - pods, Lua tables, JSON, each with up to three arguments of distinct
  keys, in every order; two registrations of types; two constraints out of fifteen on five
  objects; two holders, an iterator and an item of properties; two holders, an iterator and a
  builder of pods or JSON with three boxes and two memories.  Three arguments are what is needed for one to be
  asked for before, between and after others, and for the buffer (64 bytes) to grow more than
  once.  One of the floats is `FLT_MAX`, whose text is longer than the 32 characters that a
  builder reserves for a float: added behind a text of twenty letters it is cut, alone it is not.
  Two of the objects have no properties of a kind that constraints ask for.
  Patterns of glob matching are given as the sets of values that they match.
  `TypesKeepNames`, `PodsKeepValues` (from C and from Lua), `JsonKeepsValues`, `MatchesMean`,
  `MemoryOwnedOnce`, `WritesStayPrivate`.
* **Session** (609 000) - two cards of one name with two nodes, five configurations (with and
  without reservations, one broken or disabled card, one disabled node) and two disturbances,
  the counter of names going to 8 in place of 99 (with 2, where the last name of a base is
  given twice, the invariants hold as well); two Bluetooth devices with two node ids, of which one is
  the leader of a set; one headset with two profiles and two streams that record; two
  streams of one key, one target, one restart; one node with two channels in the mixer, and one
  change at a time.  `DevicesNamed`, `BluezRight`,
  `ProfileComesBack`, `StreamsKept`, `VolumesRight`; `CallsEnd` with fairness of the timeout that
  restores profiles and of the device that obeys.

### Disagreements

What TLC refutes of statements in the repository.  Only the first is a run, the others
are stated in the modules and are refuted with the constants given.

| Statement | Where | Refuted with |
|---|---|---|
| `StoredRouteIsRestored`: stored routes come back with their profile | `Devices` | `DevicesRoute.cfg` |
| `AlwaysSettles`: policies that see their own requests come to an end | `Devices` | `Devices.cfg`: two routes requested at a time are each taken for the user's choice, in turns, for ever |
| `EveryRequestReturns` without `Stalled`: "When the transition is done, callback will be invoked" | `ObjectActivation` | `ObjectActivation.cfg`: `wp_object_deactivate` between the end of a step and the advance makes the next step equal to the current one, and nobody executes it |
| `CallbackOnce` for clients that keep a `GAsyncResult` | `ObjectActivation` | `SPECIFICATION KeepSpec`: a completed transition that is kept alive stays the ongoing one and is advanced again |
| `InstalledOnce` | `ObjectManagers` | `Lapses = {"register"}` or `{"remove"}`: the flag is set after the signal, and a handler of `installed` that registers or removes an object has it emitted again |
| `NoStaleObject` | `ObjectManagers` | `Lapses = {"install"}`: a manager that is installed while an object that it wants is being added finds it in the array, and is told of it once more by the walk |
| `NoMissedObject` | `ObjectManagers` | `Lapses = {"drop"}`, three managers: the last one takes the place of the one that is dropped, and a walk that has passed that place never comes to it |
| `NoDanglingProxy` | `GlobalRegistry` | `Deactivations = {"bound"}`: the way back from a deactivated proxy to its global is cleared, and the global keeps a pointer to the proxy |
| `OneProxyPerObject`, promised by the comment at `object-manager.c:835` | `GlobalRegistry` | `SameCycle = FALSE`: the idle source may expose the global between two reads of the socket |
| `NeverIdle`: "this logic here keeps the device acquired at all times" (alsa.lua) | `ReserveDevice` | `Crowds <- MCPairs`, one monitor, one client: the name stays without an owner |
| `EveryCallAnswered`: "if signal handlers are connected, assume the functionality is implemented" (reserve-device.c:244) | `ReserveDevice` | `Crowds <- MCMonitors`: a call that arrives when the device was released for another caller is kept, its handlers have nothing to release, and the caller waits for the timeout; `MCClients`: the second call overwrites the first |
| `HighestWins` without its bound of two | `ReserveDevice` | `Crowds <- MCMonitors`: the leave that a peer was given is used when a third, with a higher priority, has the name, and two take it from each other for ever; or the call of the highest meets a moment without an owner and is refused, the change of the owner is ignored during the transition, and it stays "busy" |
| `BusComesBack` without `GaveUp`: "try to reconnect on idle if connection was closed" (dbus.c:147), taken as a promise | `Dbus` | `Services.cfg`: an attempt of `on_sync_reconnect` that fails (dbus.c:78-85) leaves the state at "connecting", and nobody tries again |
| `CallbackAlwaysCalled` | `Core` | `ResyncOnError = TRUE`: a callback that syncs while the table is walked leaves tasks that nobody answers |
| `AdvancesTransition`, the assertion of `wp_transition_advance` | `Daemon` | scripts in `FailsAtOnce`: a script that fails at once ends the transition that the engine's activation uses afterwards |
| `OneSetOfLinks` (NEWS.rst on filters) | `PolicyNode` | `PolicyNode.cfg` |
| `Resumes`: "policy-node should never be suspended for 20sec" | `PolicyNode` | `PolicyNode.cfg`: while an item is pending scans are skipped, and when the item fails nobody asks for another one |
| `NoNeedToReconfigure`: "if formats are the same, no need to reconfigure" | `StandardLink` | `StandardLink.cfg` |
| `ListenersFollow`: "toggle the serial flag; this notifies that there is a data change" (pipewire-object-mixin.c:993) | `AudioEndpoint` | `SubjectsRun = {"endpoint"}`, `Items = {e1, e2}`, `Scenes <- MCTwoEndpoints`, `MaxActivations = 1`, `MaxComing = 1`: the info is static (endpoint.c:297), two endpoints toggle one flag twice, and their listeners see no change |
| `BusFollowed` for other callers | `Dbus` | `Lapses = {"reconnecting"}` or `{"dropped"}`: an attempt that is not cancelled connects what was disabled; a plugin that was disabled and is enabled or called on a connected bus has no manager or no signal |
| `MetadataMirrored` for other callers | `Metadata` | `MetadataLapses = {"rebind"}`: the reply to the round trip of an earlier binding says that the copy is complete |
| `EndpointsSound` for other callers | `AudioEndpoint` | `EndpointLapses = {"window"}`: another module has the node cache its parameters between the making of the endpoint and its activation, and it never listens; `{"again"}`: an idle source undoes the export of the next activation; `{"retry"}`: a failed activation leaves its node and endpoint behind |
| `NullFails`: properties "may be NULL, but in case there are any constraints that require them, the match will fail" (object-interest.c:699) | `ObjectInterest` | `Library.cfg`: a node without its info has no properties; "is absent" and "not equals" match it |
| `FloatsFit`: `wp_spa_json_builder_add_float`, "Adds a float value into the builder" (spa-json.c:1076) | `Library` | `Library.cfg`: `"%.6f"` of a large float has up to 47 characters, 32 are reserved: `vsnprintf` cuts it and the size grows past `max_size`; what follows is written inside the memory, behind characters that nobody wrote |
| `ChoicesSurvive`: what users choose for a stream is restored when the session manager is back | `StreamRestore` | `Session.cfg`: a volume or target is saved a second after the last change (restore-stream.lua:94-105), and a stop before that loses it |
| `PreferencesPersist`, `StoredIfChanged` | `DefaultNodes` | `DefaultNodes.cfg`: a clean stop before the timeout loses the change; a cleared subject is not published again |

A behaviour of the managers that is worth knowing: while a manager is being installed, an `object-added`
handler may register an object that this manager does not want; the walk that follows comes to
the manager, and `installed` may be emitted before the loop over the local objects has ended.

Behaviours of the reservation that the model has and that are worth knowing when it is
changed: with an owner in `Unreplaceable` the forced request is refused, `owner_id` stays set,
and the next acquire fails its `g_return_if_fail` and never ends; a device that is
unplugged while another process has it leaves its reservation behind; two monitors
with equal priorities take the device from each other without end.

Behaviours of the daemon likewise: the step `CLEANUP` never advances, so that on success
the transition is not completed and stays alive (`init_done` and main.c:74 only matter to
errors); a loss of the connection during the start-up exits with code OK; with the engine
as the only plugin `installed` is emitted inside `wp_core_install_object_manager`, which
goes on to use the object manager that the handler has dropped (`misused`).

## 4. What is proved

The theorems about a module are in the module of its name with `Proofs`; those about parts of
a composition (`DaemonAndCore`, `Session`) are about the specification that the run checks.
Every inductive invariant below was checked by TLC on the instance of the run before it
was proved.  The assumptions are the named ASSUMEs of the modules, which TLC evaluates in
the runs; where a theorem has a hypothesis of its own it is named here.

### ObjectActivationProofs

For every set of transitions and features, every `NextStep` and every bound on
disturbances (the ASSUMEs of `ObjectActivation` only say that the constants are of their
kind):

* `TypeCorrect`: `Spec => []TypeOK`, also for `KeepSpec`, in which clients keep results;
* `CallbackOnceHolds`, `OneAtATimeHolds`, `ErrorDrainsQueueHolds`, and `SafeHolds`, which is
  the three together as the run checks them;
* `NoLostWakeupHolds`: that the step a transition believes it has taken is in flight, was
  reached, or was deactivated under it (`StepUnderWay`) is what makes `Stalled` the only
  state in which nothing wakes it up (see the disagreements);
* `ImplementsServiceHolds`: activation implements `ActivationService`.

None of the invariants is inductive.  The code advances "the ongoing transition"
without looking whether it has completed already; that a closure is called once depends
on a fact about the *stack*: `CompletedHasFrame`, a completed transition stays the
ongoing one only as long as its own frame is on the stack, and while there is a frame the
main loop does not dispatch `AdvanceTransitions`.  That in turn needs `NothingRunsBelow`
(with frames on the stack no transition runs), `FramesOK` (every frame's transition has
completed, only the lowest frame may resume the queue, a frame unwinds below another
only while the queue is being aborted), and that fresh and queued transitions
are untouched and distinct.  `IInv` is their conjunction; there is one lemma per
action, below it one step per conjunct, and lemmas for what `Advance`, `StartNext` and
`AbortActivation`, which several actions share, do to sequences of frames.  The
conjunct `NothingKept` is exactly what `KeepSpec` gives up.

`WInv` adds what wakes the queue up.  `NoLostWakeup` speaks of moments in which the main loop
has control, but the wake-up is promised in the middle of a call: `QueueWoken` says
that as long as frames are on the stack one of them has its closure still to run, after
which `on_transition_completed` attaches a source; `OngoingWoken`, that a running transition
without a source waits for a job of its subclass; `StepUnderWay`, that the step which
a transition waits for is in a job or was reached, which is what a deactivation at the wrong
moment breaks; `Attached`, that the remembered source is attached.

The refinement has a lemma per action over `IInv`.  `FirstUnanswered` says what the mapping
makes of the ongoing transition and of the queue; advancing answers the first of the
service's requests or stutters; an abort answers the whole queue one frame after the
other, so that each closure is a step of the service of its own.

### DaemonAndCoreProofs and FoldInduction

`DaemonConsistent`: `BothSpec => []Consistent`, for any set of configurations, that is any
number of plugins and scripts in any order, with or without the engine
(`NameAssumption`, `ConfigAssumption`, `FailsAssumption`: each entry of a configuration has
its own name and object).  `Consistent` is `TypeOK`, `ScriptsAfterPlugins`,
`CleanupComplete` and `FailureReported`.  What they depend on is a *count*:
`pending_plugins` equals the number of components whose activation is under way
(`Counted`, with the cardinality of a set that changes by one), and each of
those has exactly one idle source or waits for its own end (`SourcesMatch`).  The rest of `DInv`
says per step of the transition what is inactive, under way and enabled; which manager the
transition has; that `init_start` comes first and once; and that a finalized transition
implies a code and a loop that has been quit.  Since a callback executes several steps
in a row, the lemmas are about functions of `World`, the way the model has them: they say that
what holds before a function holds after it, and an action is a composition of these.

A list of components is loaded, and added to a manager, by a fold.  What a fold
preserves is proved once, in `FoldInduction`: `FoldSteps` takes a sequence of sets of
states, one per element, and shows that the fold ends in the last one.  It is
instantiated with the operator that is folded (there is no way to pass it to a theorem), by
`DaemonAndCoreProofs`, `ObjectManagersProofs`, `DevicesProofs` and `SessionProofs`.
`FoldSetSteps` is the same for loops over a set, with a set of states for each part of the set
that may have been done.

`CoreAnswersMatch`: `BothSpec => []AnswersMatch`, for any number of syncs and connections,
with or without `ResyncOnError`.  That a success was served (`DoneMeansServed`) is not
inductive: numbers start again with each connection, and a walk of the table that a
callback interrupts leaves tasks there that wait under numbers of the connection before.
`CoreInv` says why no number is mixed up: nothing is in flight without a connection; what is
in flight was numbered on this one; the task under a number on its way to the server was made
on this connection (`RequestsMatch`); the one under a number on its way back was served
(`AnswersServed`).

### ObjectManagersProofs

`ManagersConsistent`: `Spec => []Consistent`, for any number of managers, local objects and
globals, any interests, and handlers of all four signals that register, remove, install and
drop, nested to any depth.  Its hypothesis `Lapses = {}` is what the run assumes as well: the
calls spare the walks under them.  None of the four conditions can be dropped: with each lapse
TLC refutes `Consistent` (see the table above).

Between two callbacks `Consistent` says nothing, so the invariant `IInv` says what every
frame on the stack is doing.  `StackOK` has which frame can stand on which, and that the
index of a frame is still about the manager that it was about, though frames above it
have grown the array.  A manager that is being installed is a party to what goes on
below and above it: it comes behind the walks of removals, and a registration that stands on the
same stack does not concern it (`InstallsBehind`); no other frame under its installation is about it,
and while `installed` is emitted only installations run above (`InstallsApart`).  `LocalsRight`
is an equation for each manager and local object: the manager has it once if it is registered,
of interest, and no frame holds it back (`Blocks`: a registration that has yet to come past,
a removal that has come past, an installation that has yet to see it), and not at all
otherwise.  `GlobalsRight` is the same for globals, which are managed as their activations end:
what a manager has is not being activated, and what is gone is about to leave (`Leaving`).
`EmittedRight` ties the count of `installed` to the flag and to the frame that is emitting it.

One lemma for each action; the lemmas about `RemoveFast` and `Release` say that arrays lose
exactly what was removed, whose order `g_ptr_array_remove_fast` changes, which is why
references are dropped only where no walk over the managers is under way (`Settled`).

### DefaultNodesProofs

`PreferencesKept`: `Spec => []Consistent`, for every set of nodes and kinds, every depth of
the stack of earlier choices and every number of changes, stops and failed saves.  The
assumptions are those of `DefaultNodes`: the stack has at least one place
(`NPrevAssumption`), the name of no node is the mark of an empty place (`NullAssumption`),
and the files that a first start may find hold a sound stack (`FilesAssumption`).

`Consistent` says that the stack in memory is sound (no choice twice, no gap) and that the
file is what is in memory unless a save is due or one failed.  It is not inductive: a start loads the
file, so that the file must hold a sound stack as well (`FileSound`), whichever save it is
from; and a daemon that is down must not have a save due (`NothingDue`), or the one that
starts next would be answerable for it.  `IInv` is `TypeOK`, `StackSound`, `Stored`,
`FileSound` and `NothingDue`.  The heart is `PushSound`, about
`update_prev_config_values`: putting a name on top and moving the entries above its earlier
place down by one keeps a stack sound, whether the name was in it, was not, or drops off its end.
Then one lemma per action that touches these variables (`RequestInv`, `SaveInv`,
`StartInv`, `StopInv`), and `Frame` for all others.

`DefaultsAreBest`: `Spec => []DefaultsAgree`, for every finite set of nodes, priorities,
classes and every order in which nodes come, change and go: in a quiet moment the published
default is the best node of its kind (`DefaultIsBest`) and the API's copy is what is
published (`ApiUpToDate`).  The assumptions say that nodes are finitely many, that priorities are
numbers, and of what classes and states there are.  The module looks for the best node in the order in
which nodes were added; the proof therefore begins with "the first of a finite set in a
total order" (`FirstOfOrder`, `BestFound`, `BestKept`).  `DInv` ties the three
stages together: what the plugin has seen of a node is so, or the *last* event on its way
that tells of the node tells what is so (`NewsComing`); what was set last is the
best, or a rescan is due (`RescanComing`); what the scripts have read is what the API
has cached, or they are about to be told (`NotifyComing`).

### DevicesProofs

`CacheIsFresh`: `Spec => []CacheFresh`, for every list of parameters, device, set of worlds
and bound.  Its hypothesis `NullIsNoDevice` says that NULL is not a function on the ids
(an absent device can be told from one that is there); `DeviceAssumption` says that the
four parameters the policies read are among the ids, that a profile has finitely many
device ids, and `ParamsAssumption` that the parameters are a list.

That the cache is fresh when all is quiet says nothing of the moments before.  `CacheInv`
has instead: what an answer on its way carries is right, or there is more to come of
that parameter behind it, an enumeration that the server has yet to answer, an answer or a
report (`ReportedFresh`); so is what is cached (`CachedFresh`).  The order of the
queues is what makes this inductive: a change is reported before it can be
enumerated, and an enumeration that is answered after the change carries the new value.  An
object that is gone says so last (`RemovedLast`), and the features become active behind the
parameters that they cache (`CachedBeforeDone`, `InfoBeforeDone`), without which the
policies would read parameters that are not there and the types would not hold.

### ServicesProofs

`PluginsFollowTheBus`: `ServicesSpec => []BusFollowed`, for every number of names, permissions,
attempts and changes, whatever the other services do.  Its hypothesis `Lapses = {}` says that
callers do what they do in the repository: nobody disables WpDbus while it reconnects, and
nobody uses a plugin that was disabled; with either `BusFollowed` is false.  A
connection is made, lost and replaced by three parties, the asynchronous call, the close
signal and the `sync` that waits for the core.  `BusInv` says that they take turns: there is
one attempt at a time, which nobody has cancelled (`OneAttempt`); a `sync` that is to
reconnect means that the connection is lost and that no attempt is under way
(`SyncMeansLost`).  And it says whose signals are on their way: those of the connection that
there is, on which the permission store is subscribed, the last of them with what is stored
(`SignalsAreNews`).

`EndpointsStaySound`: `ServicesSpec => []EndpointsSound`, for every number of items, values,
activations and messages.  It has two hypotheses.  `EndpointLapses = {}`: callers wait as
those of the repository do.  `OneOrSubscribed`: the listeners subscribe, or there is one
endpoint.  The serial flag by which a listener that does not subscribe sees a change is
static (`endpoint.c:297`), so that all endpoints share it; with two of them `ListenersFollow`
is false (table of disagreements).  `EndpointInv` has four parts for each item:

* `StagesRight`: how far its activation is, what exists at each step and what does not yet,
  and that no idle source is to undo an export while the next is on its way, which is what
  makes `UndoesTheLost` inductive;
* `ConnectionRight`: an endpoint that the server listens to listens to its node, and its node
  caches its parameters;
* `HearingRight`: who does not hear an endpoint has nothing of it;
* `IsFollowed`: what the queue to a listener will tell it.  For one that subscribes the last
  parameter in it is that of the node (`Fresh`).  For one that does not, no flag in it is the
  flag before it and the last is the flag of now (`Toggled`), so that each info makes it ask,
  and an info, a question or the right parameter is on its way.

Two lemmas each say what a parameter and an info that are sent do to a queue (`ParamSent`,
`InfoSent`) and what taking its head does (`FreshAfter`, `ToggledAfter`); one lemma for each
action follows, and `OthersKept` says that the other endpoints do not notice the flag.

### SessionProofs

For any number of cards, devices, nodes, profiles, streams, volumes and restarts (`SessionAssumption`,
which says of the constants of the parts what their marks and names are):

* `SessionVolumesRight`: the mixer knows what clients and devices have set.  `MixerInv` adds
  that what was collected last is what there is to collect, unless a collection is
  due, and that of two volumes on their way to one node none is stale (`SetsMatch`);
* `SessionBluezRight`: the devices and nodes of the Bluetooth monitor are those that BlueZ has;
  `BluezOf` is the state of one device, and an action touches one device at a time or clears
  a set of them (`ClearedIsOf`);
* `SessionStreamsKept`: volume and target come back.  `StreamsInv` says of each stream where the
  chosen volume is: on its way, or set and known (`Reaching`); and of the target that the
  last change in flight is the choice (`TargetComing`);
* `SessionDevicesNamed`: the cards have their devices and nodes, under names that nobody else
  has.  `AlsaInv` is about a world, a record of what the script has, because the handlers of
  the model are functions from worlds to worlds.  That names are distinct rests on the
  tables: a name that can be taken is in its table as long as its owner has it
  (`DeviceNamesOK`, `NodeNamesOK`), and freeing one takes it from nobody else.  `CardOK` ties
  the device of a card to its reservation and says that a card that was unplugged without a
  device has a name that is lost.  Two handlers are loops, over the nodes of a profile
  and over the cards that are there, and between two turns the invariant does not hold:
  `Making` is what holds then, and `FoldInduction` carries it through the loop
  (`MakeNodesMade`, `CardsReported`);
* `SessionProfileComesBack`: devices have the profile of before a call back, and none stays
  switched for nothing.  `BluetoothInv` looks at the profile that is the last on its way to a
  device (`Eventual`): the profile of before, or, while the device is switched, that one is
  remembered and is one that the device has (`ProfileRight`).  It too is about worlds.  Each
  stream that is looked at may switch all devices, so that a loop over streams holds one over
  devices; `FoldSetSteps` of `FoldInduction` is the induction over such a loop, whatever the
  order (`ProfilesSwitched`, `ProfilesRestored`, `StreamsHandled`).  Of the constants it needs
  that devices and streams are finite and that of any profiles one has the highest priority.

### Only model-checked

* Liveness under fairness and ENABLED are out of the prover's reach: every `Settles`,
  `EventuallyManaged`, `EveryRequestReturns`, `NobodyHangs` and the like.
* `Library`: pods and JSON are nested values.  Their builders and parsers have
  recursive operators, and what these compute for every input needs induction over
  data.  The other parts of `Library` are in one specification with them.
* `StandardLink.LinksSound` and the invariants of `ReserveDevice` and `GlobalRegistry` have no proof
  yet.  `EndsRight`, `MetadataMirrored` and the invariants of `PolicyNode` choose among lists
  with `SelectSeq` and `SelectInSeq`, of which the provers know nothing.

## 5. What is not modelled

* Formatting, logging, the bytes of pods and messages, names that no property tells apart.
* The owner-name proxy of a reservation.
* In GlobalRegistry signal handlers do not re-enter the registry, and in ObjectManagers
  a global has no number and no proxy: each module has the part that the other leaves
  out.  A use after free has no next state; where the code would have one the model
  keeps the object allocated.  Calls of handlers that do not spare the walks under them
  (`object-manager.c:747`, `865`, `1307`) and a transition that is kept beyond its
  closure (`object.c:327`) are behind `Lapses` and `KeepSpec`, and in the
  table of disagreements; they are not in the passing runs.
* Of the core: clones that share a `pw_context`, properties, the timeout helper.  Of the
  daemon: the second connection beyond its failure at start-up, `wpexec`, and what happens
  in plugins after the start-up.
* Of PipeWire objects: the lookups of ports by direction, exported nodes and devices
  (`impl-*`), the getters.
* Of session items: `si-node` and acquisitions; of the policies:
  `policy-endpoint-*.lua`, `suspend-node.lua`, `intended-roles.lua`.
* Of the monitors: v4l2, libcamera and MIDI, which repeat the pattern of the others
  without names or sets to keep; logind and the inotify of `module-file-monitor-api.c`.
* The scripts of access control and `wpctl`: they keep no state between two events.
* In `Devices` and `ParamCache` one device, whose parameter list and "done" come as one event;
  the ACP device behind it is external.  A change that is reported while the features that
  cache parameters are still being activated is not enumerated
  (`pipewire-object-mixin.c:766`): `missed` has these, and `CacheFresh` excepts them.  The
  profile that is saved with whatever else changes (`policy-device-routes.lua:453`) and the switch
  of profiles while one is in transit (`policy-bluetooth.lua:222`) have no property of their own.
* In `Library` the parts do not interact.  The arguments of a pod or object have distinct keys,
  and callers respect `Keepers`.

### Noticed while reading

Behaviours of the code that the models have, exclude by an assumption, or leave out with the data
that they are about.  They are not findings that a run shows.

* Pods in Lua: a sequence unrefs a pod that it borrowed (`api/pod.c:772`); a property of an
  unknown name with a pod as value is written without its header (`api/pod.c:635`); an unknown
  name of an id becomes `SPA_ID_INVALID` (`api/pod.c:76`); arrays of Fd are read as floats
  (`api/pod.c:907`).
* Pods in C: a sequence in `wp_spa_pod_builder_add_valist` stops at offset 0
  (`spa-pod.c:2290`); `wp_spa_pod_filter` has 1024 bytes for its result (`spa-pod.c:1842`); the child
  of a constant pod may be modified (`spa-pod.c:1775`) and `wp_spa_pod_fixate` does not
  look at the flag (`spa-pod.c:1797`).
* JSON: the value that a parser or iterator returns points to the parser's own cursor
  (`spa-json.c:1427`): if it is kept over the next step it is the later value.
  Parsers keep their text without a reference.
* Interests: a constraint whose conversion fails is matched as if it had been converted
  (`object-interest.c:798`).
* Metadata: the iterator's fold reports the subject of the iterator's own position
  (`metadata.c:370`).
* An exported metadata whose proxy is destroyed loses its copy and its feature, and activating it
  again reaches `g_assert_not_reached` (`metadata.c:673`).
* Bus: after a failed attempt to reconnect the state stays "connecting" and nobody tries again
  (`dbus.c:84`).  Permission store: `set` takes an argument that it does not send (`create`,
  `module-portal-permissionstore.c:88`).
* ALSA monitor: names of nodes that are busy, or released by another process, are not given
  back; a node that is removed before its info arrives ends the handler with an error.
* Bluetooth monitor: a deactivation during an activation does not stop it.
* Bluetooth policy: a switch while a profile is in transit saves the wrong one; the headset
  profile that is saved can become one without a microphone.
* Streams: a saved mute of "false" comes back as nothing; the target is erased when its node
  is gone; streams of one key overwrite one another (`blurred`).
* Mixer: "keep the existing volume values for unspecified channels" does not hold for a client
  that sets two channels without waiting (`hasty`).
* Endpoints: `on_node_activate_done` goes on after it has returned an error, a failed activation
  leaves the node and the adapter behind, and an endpoint does not notice that its adapter is
  reset: it stays active when its node is destroyed; `static-endpoints.lua` registers endpoints whose activation failed.
* `si-node` may use a transition that the abort of its item has ended (`module-si-node.c:103`);
  `si-audio-adapter` does not clear `is_unpositioned` when it is reset.

## 6. The plan

| | Modules | State | What is left |
|---|---|---|---|
| 1 | `ObjectActivation`, `ActivationService` | safety and refinement proved | |
| 2 | `ObjectManagers`, `GlobalRegistry` | `Consistent` of the first proved, the second checked | `Consistent` of `GlobalRegistry` |
| 3 | `ReserveDevice`, `Dbus`, `Metadata`, `AudioEndpoint` (`Services`) | `BusFollowed` and `EndpointsSound` proved, rest checked | `DeviceOfOwner` for any number of peers, `MetadataMirrored` |
| 4 | `Core`, `Daemon`, `DaemonAndCore` | safety proved | |
| 5 | `ParamCache`, `Devices` | `CacheFresh` proved, rest checked | `EndsRight` |
| 6 | `StandardLink` | checked | `LinksSound`; `si-node` |
| 7 | `PolicyNode` | checked | endpoint policies, ducking, suspension |
| 8 | `DefaultNodes` | safety proved | |
| 9 | `AlsaMonitor`, `BluezMonitor`, `BluetoothPolicy`, `StreamRestore`, `MixerApi` (`Session`) | safety proved | |
| 10 | `SpaType`, `SpaPod`, `SpaJson`, `SpaMemory`, `ObjectInterest`, `Properties`, `LuaPod` (`Library`) | checked | `OneOwner` of `Properties` and `SpaMemory` for any number of holders |
| 11 | scripts of access control, bindings of objects in `api.c` | not begun | |

The proofs that are left, in the order of their worth: `DeviceOfOwner` of `ReserveDevice` for
any number of peers; `LinksSound` of `StandardLink`; `Consistent` of `GlobalRegistry`; ownership in `Properties` and `SpaMemory`, which have no recursion but
share a specification with modules that do.
