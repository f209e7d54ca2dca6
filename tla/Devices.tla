------------------------------ MODULE Devices ------------------------------
(***************************************************************************)
(* The policy of devices: policy-device-profile.lua selects the profile of *)
(* a device, module-default-profile.c remembers the one the user saved,    *)
(* and policy-device-routes.lua selects the route of each of the device    *)
(* ids of the profile, sets its volume and remembers both. They read the   *)
(* cached parameters of the device, which the server changes one by one,   *)
(* and each of them acts on every change it is told of.                    *)
(*                                                                         *)
(* One device, that may be unplugged and come back; the daemon exports it, *)
(* so it also goes when the daemon stops. The device itself is external:   *)
(* what a profile or a route that is set changes, and what is reported.    *)
(***************************************************************************)
EXTENDS ParamCache

CONSTANTS
  Routes,           \* the routes a device may have
  RouteDevices,     \* the device ids a route is for
  RouteProfiles,    \* the profiles a route can be used in
  RoutePriority,
  Outputs,          \* the routes whose direction is Output
  ProfileOrder,     \* the profiles, in the order a device lists them
  ProfileDevices,   \* the device ids of a profile
  ProfilePriority,
  DeviceProfile,    \* the property "device.profile", or NULL
  Preferred,        \* the priorities of profiles in the configuration
  Volumes,          \* the properties of a route that are stored
  DefaultVolume,    \* those that a route gets when none are stored
  Worlds,           \* the routes and profiles there may be, with their availability
  MaxChanges,       \* bound on the changes of availability
  MaxUser,          \* bound on what the user does
  MaxRemovals,      \* bound on unplugs and stops
  MaxMessages       \* bound on the messages in transit when the environment acts

Profiles == Range(ProfileOrder)

ASSUME VolumeAssumption == DefaultVolume \in Volumes

(* What there is to know of a device, and what it may be like.             *)
ASSUME DeviceAssumption ==
  /\ {"EnumProfile", "Profile", "EnumRoute", "Route"} \subseteq Ids
  /\ "off" \in Profiles
  /\ \A p \in Profiles : IsFiniteSet(ProfileDevices[p])
  /\ \A w \in Worlds : DOMAIN w.profiles \subseteq Profiles

VARIABLES
  device,   \* dev_info: the profile it has, and route_infos
  memory,   \* the profiles of default-profile, and state_table
  pending,  \* the timeouts that will save them
  files,    \* what was saved
  chosen,   \* history: what the user chose, and nothing has changed since
  alone,    \* history: nothing changed before the last change was dealt with
  budget

policy == <<device, memory, pending, files>>
history == <<chosen, alone>>
vars == <<cacheVars, policy, history, budget>>

NoDevice == [active_profile |-> NULL, route_infos |-> <<>>]
NothingSaved ==
  [profile |-> NULL,
   routes |-> [p \in Profiles |-> {}],
   props |-> [r \in Routes |-> NULL]]

----------------------------------------------------------------------------
(* policy-device-profile.lua                                               *)

Listed(enum) == SelectSeq(ProfileOrder, LAMBDA p : p \in DOMAIN enum)

(* The first of those with the highest priority.                           *)
Highest(profiles) ==
  CHOOSE p \in profiles : \A q \in profiles \ {p} :
    \/ ProfilePriority[p] > ProfilePriority[q]
    \/ ProfilePriority[p] = ProfilePriority[q] /\ Before(ProfileOrder, p, q)

(* Without any that fits, it is the last one that the loop looked at.      *)
findBestProfile(enum) ==
  LET rated(available) ==
        {p \in DOMAIN enum \ {"pro-audio", "off"} : enum[p] = available}
  IN IF DeviceProfile \in DOMAIN enum /\ enum[DeviceProfile] # "no" THEN DeviceProfile
     ELSE IF rated("yes") # {} THEN Highest(rated("yes"))
     ELSE IF rated("unknown") # {} THEN Highest(rated("unknown"))
     ELSE IF "off" \in DOMAIN enum THEN "off"
     ELSE IF DOMAIN enum = {} THEN NULL
     ELSE Last(Listed(enum))

(* Preferred profiles count even when they are not available.              *)
findPreferredProfile(enum) ==
  LET found == SelectSeq(Preferred, LAMBDA p : p \in DOMAIN enum) IN
  IF found = <<>> THEN NULL ELSE Head(found)

(* What is set for the profiles there are and the default one.             *)
SelectedProfile(enum, default) ==
  IF default \in DOMAIN enum /\ enum[default] # "no" THEN default
  ELSE IF findPreferredProfile(enum) # NULL THEN findPreferredProfile(enum)
  ELSE findBestProfile(enum)

(* active_profiles is never filled in, so the persistent profile and the   *)
(* one that is already set are set again.                                  *)
handleProfiles(enum, default) ==
  LET profile == SelectedProfile(enum, default) IN
  IF profile = NULL THEN <<>> ELSE <<set_param("Profile", profile)>>

----------------------------------------------------------------------------
(* module-default-profile.c: only a profile that was saved and that the    *)
(* device lists becomes the default.                                       *)
update_profile(params, default) ==
  IF params["Profile"].save /\ params["Profile"].name \in DOMAIN params["EnumProfile"]
  THEN params["Profile"].name
  ELSE default

----------------------------------------------------------------------------
(* policy-device-routes.lua                                                *)

Usable(infos, profile, d) ==
  {r \in DOMAIN infos : d \in RouteDevices[r] /\ profile \in RouteProfiles[r]}

HighestRoute(routes) ==
  CHOOSE r \in routes : \A q \in routes : RoutePriority[r] >= RoutePriority[q]

(* An output that became available comes first; of several, any.           *)
NewlyAvailable(infos, profile, d) ==
  {r \in Usable(infos, profile, d) \cap Outputs :
    infos[r].available # "no" /\ infos[r].available # infos[r].prev_available}

findBestRoute(infos, profile, d) ==
  LET rated(available) == {r \in Usable(infos, profile, d) : infos[r].available = available}
      fresh == NewlyAvailable(infos, profile, d)
  IN IF fresh # {} THEN fresh
     ELSE IF rated("yes") # {} THEN {HighestRoute(rated("yes"))}
     ELSE IF rated("unknown") # {} THEN {HighestRoute(rated("unknown"))}
     ELSE {NULL}

(* The routes that may be restored for a device id: one that was stored,   *)
(* when the profile changed and it is available, or else the best one.     *)
Restorable(infos, profile, d, stored) ==
  LET saved == Usable(infos, profile, d) \cap stored
      best == findBestRoute(infos, profile, d)
  IN {r \in saved : infos[r].available # "no"}
     \cup IF saved = {} \/ \E r \in saved : infos[r].available = "no" THEN best ELSE {}

restoreRoute(d, r, save, props) ==
  set_param("Route",
    [device |-> d, route |-> r, save |-> save,
     props |-> IF props[r] = NULL THEN DefaultVolume ELSE props[r]])

(* A request for each device id, in any order.                             *)
RequestsFor(request) ==
  LET order == SetToSeq(DOMAIN request) IN
  [i \in 1..Cardinality(DOMAIN request) |-> request[order[i]]]

(* What the enumerated routes make of the cached information.              *)
Enumerated(infos, enum) ==
  [r \in DOMAIN enum |->
    LET old == IF r \in DOMAIN infos THEN infos[r]
               ELSE [available |-> enum[r], active |-> FALSE] IN
    [available |-> enum[r], prev_available |-> old.available,
     active |-> FALSE, prev_active |-> old.active, save |-> FALSE]]

(* Mutant: only routes that become available count.                        *)
BecameAvailable(infos, enum, profile) ==
  \E r \in DOMAIN enum \cap DOMAIN infos :
    infos[r].available = "no" /\ enum[r] # "no" /\ profile \in RouteProfiles[r]

AvailabilityChanged(infos, enum, profile) ==
  \E r \in DOMAIN enum \cap DOMAIN infos :
    infos[r].available # enum[r] /\ profile \in RouteProfiles[r]

(* The routes that the device has: one that is new gets its properties      *)
(* back, those of one that the user saved are remembered.                  *)
Noted(params, infos, mem) ==
  LET active == params["Route"]
      ids == {d \in DOMAIN active : active[d].route \in DOMAIN infos}
      on(r) == {d \in ids : active[d].route = r}
      new == {d \in ids : ~infos[active[d].route].prev_active}
      kept == {d \in ids \ new : active[d].save}
      props == [r \in Routes |->
        IF \E d \in kept : active[d].route = r
        THEN active[CHOOSE d \in kept : active[d].route = r].props ELSE mem.props[r]]
  IN [infos |-> [r \in DOMAIN infos |->
        IF on(r) = {} THEN infos[r]
        ELSE [infos[r] EXCEPT !.active = TRUE, !.prev_active = TRUE,
                              !.save = \E d \in on(r) : active[d].save]],
      props |-> props,
      stores |-> kept # {},
      requests |-> [d \in new |-> restoreRoute(d, active[d].route, active[d].save, props)]]

(* The routes that may be restored, for each device id of the profile.     *)
restoreProfileRoutes(infos, name, stored) ==
  {sel \in [ProfileDevices[name] -> Routes \cup {NULL}] :
     \A d \in DOMAIN sel : sel[d] \in Restorable(infos, name, d, stored)}

(* What is restored from the store, or new, is saved again with the routes *)
(* of the profile.                                                         *)
Restored(noted, name, mem, stored, sel) ==
  LET saved(r) ==
        \/ noted.infos[r].save
        \/ \E d \in DOMAIN sel : sel[d] = r
             /\ r \in stored \cup NewlyAvailable(noted.infos, name, d)
      infos == [r \in DOMAIN noted.infos |->
        LET here == {d \in DOMAIN sel : sel[d] = r} IN
        [noted.infos[r] EXCEPT !.active = @ \/ here # {}, !.prev_active = @ \/ here # {},
                               !.save = saved(r)]]
      toSave == {r \in DOMAIN infos : infos[r].save}
      found == {d \in DOMAIN sel : sel[d] # NULL}
  IN [device |-> [active_profile |-> name, route_infos |-> infos],
      memory |-> [mem EXCEPT !.props = noted.props,
                             !.routes[name] = IF toSave = {} THEN @ ELSE toSave],
      stores |-> noted.stores \/ toSave # {},
      requests |-> RequestsFor(noted.requests) \o RequestsFor(
        [d \in found |-> restoreRoute(d, sel[d], saved(sel[d]), noted.props)])]

(* It looks at the parameters that are cached, whatever it is told of: the *)
(* result is the information on the device, the memory, whether that has   *)
(* changed, and the requests.                                              *)
handleDevice(params, old, mem) ==
  LET enum == params["EnumRoute"]
      name == params["Profile"].name
      changed == old.active_profile # name
      stored == IF changed THEN mem.routes[name] ELSE {}
      selections(noted) ==
        IF changed \/ AvailabilityChanged(old.route_infos, enum, name)
        THEN restoreProfileRoutes(noted.infos, name, stored)
        ELSE {<<>>}
  IN UNION {{Restored(noted, name, mem, stored, sel) : sel \in selections(noted)}
            : noted \in {Noted(params, Enumerated(old.route_infos, enum), mem)}}

----------------------------------------------------------------------------
(* The device                                                              *)

Spend(what) == budget[what] > 0 /\ budget' = [budget EXCEPT ![what] = @ - 1]
Calm == Len(requests) + Len(events) <= MaxMessages

(* A profile comes with a route for each of its device ids that has any:   *)
(* one that is available, if there is.                                     *)
RoutesOf(profile, enum) ==
  LET all(d) == {r \in DOMAIN enum : d \in RouteDevices[r] /\ profile \in RouteProfiles[r]}
      available(d) == {r \in all(d) : enum[r] # "no"}
      usable(d) == IF available(d) # {} THEN available(d) ELSE all(d)
      ids == {d \in ProfileDevices[profile] : usable(d) # {}}
  IN {[d \in ids |-> [route |-> sel[d], save |-> FALSE, props |-> DefaultVolume]]
      : sel \in {f \in [ids -> Routes] : \A d \in ids : f[d] \in usable(d)}}

(* One that is already set is not reported.                                *)
ProfileSet(profile, save) ==
  IF profile \in DOMAIN world["EnumProfile"] /\ profile # world["Profile"].name
  THEN \E routes \in RoutesOf(profile, world["EnumRoute"]) :
         /\ world' = [world EXCEPT !["Profile"] = [name |-> profile, save |-> save],
                                   !["Route"] = routes]
         /\ events' = Append(events, Info({"Profile", "Route"}))
  ELSE UNCHANGED <<world, events>>

(* A route is for the device ids and the profiles it lists.                *)
RouteSet(set) ==
  LET d == set.device
      new == [route |-> set.route, save |-> set.save, props |-> set.props]
  IN IF /\ d \in DOMAIN world["Route"] /\ set.route \in DOMAIN world["EnumRoute"]
        /\ world["Route"][d] # new
        /\ d \in RouteDevices[set.route]
        /\ world["Profile"].name \in RouteProfiles[set.route]
     THEN /\ world' = [world EXCEPT !["Route"][d] = new]
          /\ events' = Append(events, Info({"Route"}))
     ELSE UNCHANGED <<world, events>>

(* What the daemon has asked for reaches the device.                       *)
Select ==
  /\ Asked("set")
  /\ requests' = Tail(requests)
  /\ LET set == Head(requests) IN
     IF world = NULL THEN UNCHANGED <<world, events>>
     ELSE IF set.id = "Profile" THEN ProfileSet(set.value, FALSE)
     ELSE RouteSet(set.value)
  /\ chosen' = IF world' # world /\ Head(requests).id = "Profile" THEN chosen \ {"Route"} ELSE chosen
  /\ UNCHANGED <<object, missed, policy, alone, budget>>

(* A device appears, with its profile "off" and what is available.         *)
Plug ==
  /\ world = NULL /\ requests = <<>> /\ events = <<>>
  /\ \E w \in Worlds :
       world' = [id \in Ids |->
         IF id = "EnumProfile" THEN w.profiles
         ELSE IF id = "EnumRoute" THEN w.routes
         ELSE IF id = "Profile" THEN [name |-> "off", save |-> FALSE]
         ELSE <<>>]
  /\ events' = <<Info(Ids)>>
  /\ UNCHANGED <<requests, object, missed, policy, history, budget>>

Unplug ==
  /\ world # NULL /\ Spend("removals")
  /\ world' = NULL /\ chosen' = {} /\ alone' = TRUE
  /\ events' = Append(events, [type |-> "removed"])
  /\ UNCHANGED <<requests, object, missed, policy>>

(* Something is plugged into a jack, or taken out.                         *)
Change ==
  /\ world # NULL /\ Calm /\ Spend("changes") /\ alone' = (alone /\ Quiet)
  /\ \E w \in Worlds :
       LET ids == (IF w.profiles # world["EnumProfile"] THEN {"EnumProfile"} ELSE {})
                  \cup (IF w.routes # world["EnumRoute"] THEN {"EnumRoute"} ELSE {})
       IN /\ ids # {}
          /\ world' = [world EXCEPT !["EnumProfile"] = w.profiles, !["EnumRoute"] = w.routes]
          /\ events' = Append(events, Info(ids))
          /\ chosen' = chosen \ ((IF "EnumProfile" \in ids THEN {"Profile"} ELSE {})
                                 \cup IF "EnumRoute" \in ids THEN {"Route"} ELSE {})
  /\ UNCHANGED <<requests, object, missed, policy>>

(* The user selects a profile, a route or a volume with another client,    *)
(* which asks the device to save it.                                       *)
UserSelects ==
  /\ world # NULL /\ Calm /\ Spend("user") /\ alone' = (alone /\ Quiet)
  /\ \/ \E p \in DOMAIN world["EnumProfile"] :
            ProfileSet(p, TRUE) /\ chosen' = (chosen \ {"Route"}) \cup {"Profile"}
     \/ \E d \in DOMAIN world["Route"], r \in Routes, v \in Volumes :
            /\ r \in DOMAIN world["EnumRoute"] /\ world["EnumRoute"][r] # "no"
            /\ RouteSet([device |-> d, route |-> r, save |-> TRUE, props |-> v])
            /\ chosen' = chosen \cup {"Route"}
  /\ world' # world
  /\ UNCHANGED <<requests, object, missed, policy>>

----------------------------------------------------------------------------
(* The daemon                                                              *)

(* The handlers of "params-changed", in the order in which they connected: *)
(* default-profile, the policy of profiles and the policy of routes.       *)
Notify(params, id) ==
  LET default == IF id = "Profile" THEN update_profile(params, memory.profile)
                 ELSE memory.profile
      asked == IF id = "EnumProfile" THEN handleProfiles(params["EnumProfile"], default)
               ELSE <<>>
  IN \E result \in handleDevice(params, device, memory) :
       /\ device' = result.device
       /\ memory' = [result.memory EXCEPT !.profile = default]
       /\ pending' = pending \cup (IF default # memory.profile THEN {"profile"} ELSE {})
                             \cup IF result.stores THEN {"routes"} ELSE {}
       /\ requests' = requests \o asked \o result.requests

ReceiveInfo ==
  /\ cache_params \/ handle_event_info
  /\ UNCHANGED <<policy, history, budget>>

ReceiveParams ==
  /\ enum_params_for_cache_done
  /\ IF object.active THEN Notify(Cached, Refreshed) ELSE UNCHANGED <<requests, device, memory, pending>>
  /\ UNCHANGED <<files, history, budget>>

(* The device is added to the object managers: object-added, for which     *)
(* both policies handle it as a new one.                                   *)
DeviceAdded ==
  /\ param_cache_features_enabled
  /\ Notify(object.cache, "EnumProfile")
  /\ UNCHANGED <<files, history, budget>>

DeviceRemoved ==
  /\ handle_pw_proxy_destroyed
  /\ device' = NoDevice
  /\ UNCHANGED <<memory, pending, files, history, budget>>

Answer ==
  /\ AnswerEnum \/ AnswerSync
  /\ UNCHANGED <<policy, history, budget>>

(* A timeout saves a part of the memory, or fails to.                      *)
Part(what) == IF what = "profile" THEN {"profile"} ELSE {"routes", "props"}
Save(what) ==
  /\ what \in pending /\ pending' = pending \ {what}
  /\ \/ files' = [k \in DOMAIN files |-> IF k \in Part(what) THEN memory[k] ELSE files[k]]
     \/ files' = files
  /\ UNCHANGED <<cacheVars, device, memory, history, budget>>

(* The daemon stops, or crashes, and starts again.                         *)
Restart ==
  /\ Spend("removals")
  /\ world' = NULL /\ requests' = <<>> /\ events' = <<>> /\ object' = Absent /\ missed' = {}
  /\ device' = NoDevice /\ memory' = files /\ pending' = {}
  /\ chosen' = {} /\ alone' = TRUE
  /\ UNCHANGED files

Init ==
  /\ CacheInit
  /\ device = NoDevice /\ memory = NothingSaved /\ files = NothingSaved /\ pending = {}
  /\ chosen = {} /\ alone = TRUE
  /\ budget = [changes |-> MaxChanges, user |-> MaxUser, removals |-> MaxRemovals]

Daemon == ReceiveInfo \/ ReceiveParams \/ DeviceAdded \/ DeviceRemoved
Server == Answer \/ Select
Saves == \E what \in {"profile", "routes"} : Save(what)

Next == Daemon \/ Server \/ Saves \/ Plug \/ Unplug \/ Change \/ UserSelects \/ Restart

Spec == Init /\ [][Next]_vars
FairSpec == Spec /\ WF_vars(Daemon) /\ WF_vars(Server)

----------------------------------------------------------------------------
(* Properties                                                              *)

(* All is reported and dealt with, and the cache has missed nothing.       *)
Fresh == Quiet /\ object.active /\ missed = {}

(* The device ends on the profile that the user saved, if it is available, *)
(* or else on the available one of the highest priority, unless the user   *)
(* has just chosen another one: handleProfiles, update_profile.            *)
ProfileIsSelected ==
  Fresh /\ "Profile" \notin chosen =>
    LET enum == world["EnumProfile"]
        now == world["Profile"].name
        saved == memory.profile
    IN \/ now = saved
       \/ /\ saved \in DOMAIN enum => enum[saved] = "no"
          /\ \A p \in DOMAIN enum \ {"off", "pro-audio"} :
               enum[p] = "yes" => enum[now] = "yes" /\ ProfilePriority[now] >= ProfilePriority[p]

(* When changes come one at a time, no device id is left on a route that   *)
(* is not available while another one is: handleDevice, findBestRoute.     *)
RouteIsAvailable ==
  Fresh /\ alone /\ "Route" \notin chosen =>
    \A d \in DOMAIN world["Route"] :
      \/ world["EnumRoute"][world["Route"][d].route] # "no"
      \/ \A r \in DOMAIN world["EnumRoute"] :
           d \in RouteDevices[r] /\ world["Profile"].name \in RouteProfiles[r]
             => world["EnumRoute"][r] = "no"

(* When changes come one at a time, a route has the volume that was stored *)
(* for it last, or the default one: restoreRoute, saveRouteProps.          *)
VolumeIsRestored ==
  Fresh /\ alone =>
    \A d \in DOMAIN world["Route"] :
      LET route == world["Route"][d] IN
      route.props = IF memory.props[route.route] = NULL THEN DefaultVolume
                    ELSE memory.props[route.route]

(* As long as nothing changes its availability, a profile gets the routes  *)
(* back that were stored for it (restoreProfileRoutes). It does not: the   *)
(* report of the route it came with is taken for a choice, and is set.     *)
StoredRouteIsRestored ==
  Fresh /\ alone /\ budget.changes = MaxChanges =>
    \A d \in DOMAIN world["Route"] :
      memory.routes[world["Profile"].name] \subseteq {world["Route"][d].route}

(* When changes come one at a time, the device gets active and the policies*)
(* come to an end, although each of their requests is reported to them.    *)
Settles == <>[](~alone \/ (Quiet /\ object.active = (world # NULL)))

(* With overlapping changes they may not: two routes that were requested   *)
(* at the same time are reported, and requested again, for ever.           *)
AlwaysSettles == <>[]Quiet

(* When everything is quiet the device is where the policies and the user   *)
(* want it, whichever of profile and route was reported first.              *)
EndsRight == ProfileIsSelected /\ RouteIsAvailable /\ VolumeIsRestored
=============================================================================
