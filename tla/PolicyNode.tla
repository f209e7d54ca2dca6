----------------------------- MODULE PolicyNode -----------------------------
(***************************************************************************)
(* The linking policy: src/scripts/policy-node.lua, with the items that    *)
(* src/scripts/create-item.lua makes for the nodes of the server and the   *)
(* links that it registers and activates.                                  *)
(*                                                                         *)
(* A scan handles one linkable after the other without returning to the    *)
(* main loop, so that it is one step here: the functions of the script are *)
(* functions of a record with the policy's state (World), named as there.  *)
(* What is between scans is the hard part: items and links take time to    *)
(* activate, fail or vanish meanwhile, and the flags of a stream speak of  *)
(* a link that may not be the one whose callback looks at them.            *)
(*                                                                         *)
(* The flags scanning and pending_rescan are only set while a scan runs;   *)
(* here they are the field again of World, which MarkAgain sets.            *)
(***************************************************************************)
EXTENDS Naturals, Sequences, FiniteSets, SequencesExt

CONSTANTS
  Streams,       \* linkables that the policy links ("stream", autoconnect)
  Devices,       \* linkables that they are linked to
  None,          \* nil
  NoTarget,      \* the metadata value "-1"
  Setups,        \* properties of the items, see Setup
  Direction,     \* item.node.direction of each item
  Priority,      \* priority.session of each device
  Follow,        \* config.follow
  Move,          \* config.move
  MaxFailed,     \* how often a link to one target may fail: 5 in the code
  MaxChanges,    \* bound on changes made by the user
  LinksFail      \* may a link fail although both items are there?

Items == Streams \cup Devices

(* exclusive: node.exclusive; reconnect: not node.dont-reconnect;           *)
(* must_passthrough: item.node.encoded-only; can_passthrough: the pairs     *)
(* with a common encoded format; monitors: devices that can be captured;    *)
(* link_group: node.link-group; target: target.object or node.target.       *)
Setup == [exclusive : SUBSET Streams, reconnect : SUBSET Streams,
          must_passthrough : SUBSET Items, can_passthrough : SUBSET (Streams \X Devices),
          link_group : [Items -> Items \cup {None}],
          target : [Streams -> Devices \cup {None, NoTarget}]]

ASSUME NameAssumption ==
  /\ Streams \cap Devices = {}
  /\ {None, NoTarget} \cap Items = {} /\ None # NoTarget
ASSUME SetupAssumption == Setups \subseteq Setup
ASSUME BoundAssumption ==
  /\ Direction \in [Items -> {"input", "output"}]
  /\ Priority \in [Devices -> Nat]
  /\ {Follow, Move, LinksFail} \subseteq BOOLEAN
  /\ {MaxFailed, MaxChanges} \subseteq Nat

VARIABLES
  setup,     \* the properties, which never change
  phase,     \* per item: no node yet, registered inactive, active, or gone
  linkables, \* linkables_om, in the order of its array
  plugged,   \* item.plugged.usec of the devices
  default,   \* what default-nodes-api says
  target,    \* the "default" metadata: target.object or else target.node
  routes,    \* the devices with available routes
  si_flags,  \* per stream: its flags or None
  links,     \* links_om: the registered links, in the order of its array
  orphans,   \* links that were removed while they were being activated
  skipped,   \* self.events_skipped
  syncs,     \* Core.sync callbacks under way that call scheduleRescan
  destroyed, \* the streams whose node was requested to be destroyed
  changes    \* how many changes the user has made

vars == <<setup, phase, linkables, plugged, default, target, routes, si_flags,
          links, orphans, skipped, syncs, destroyed, changes>>

-----------------------------------------------------------------------------
Flags == [peer : Devices \cup {None}, failed_peer : Devices \cup {None},
          failed_count : Nat, was_handled : BOOLEAN, done_waiting : BOOLEAN]

NoFlags == [peer |-> None, failed_peer |-> None, failed_count |-> 0,
            was_handled |-> FALSE, done_waiting |-> FALSE]

(* exclusive is what isLinked makes of the link: exclusive or passthrough.  *)
Link == [stream : Streams, device : Devices, exclusive : BOOLEAN, active : BOOLEAN]

Joins(l, i) == i \in {l.stream, l.device}

(* g_ptr_array_remove_index_fast: the last element fills the gap.           *)
RemoveFast(s, i) ==
  LET last == Len(s) IN SubSeq([s EXCEPT ![i] = s[last]], 1, last - 1)

World == [phase |-> phase, linkables |-> linkables, default |-> default, target |-> target,
          routes |-> routes, si_flags |-> si_flags, links |-> links, orphans |-> orphans,
          skipped |-> skipped, syncs |-> syncs, destroyed |-> destroyed, again |-> FALSE]

(* The quantifier makes TLC evaluate the scan once and not per variable.    *)
Becomes(world) == \E w \in {world} :
  /\ phase' = w.phase
  /\ linkables' = w.linkables
  /\ default' = w.default
  /\ target' = w.target
  /\ routes' = w.routes
  /\ si_flags' = w.si_flags
  /\ links' = w.links
  /\ orphans' = w.orphans
  /\ skipped' = w.skipped
  /\ syncs' = w.syncs
  /\ destroyed' = w.destroyed
  /\ UNCHANGED setup

(* link:remove() on the k-th link.  A link that is active is collected with *)
(* its last reference; one that is being activated lives on.                *)
RemoveLink(w, k) ==
  [w EXCEPT !.links = RemoveFast(@, k),
            !.orphans = IF w.links[k].active THEN @ ELSE Append(@, w.links[k])]

(* isLinked: only the first link of the device counts.                      *)
LinksOf(w, d) == SelectSeq(w.links, LAMBDA l : Joins(l, d))
isLinked(w, d) == LinksOf(w, d) # <<>>
isExclusive(w, d) == isLinked(w, d) /\ Head(LinksOf(w, d)).exclusive

canPassthrough(s, d) == <<s, d>> \in setup.can_passthrough

CompatiblePassthrough(s, d) ==
  {s, d} \cap setup.must_passthrough # {} => canPassthrough(s, d)

Ready(w, i) == i \in ToSet(w.linkables)

(* Mutant: only the group of the target itself is looked at.                *)
canLinkNextGroup(w, group, device) == setup.link_group[device] # group

(* The inner function of canLink: no link to a device of the own group,     *)
(* nor, over other groups, to one that leads back to it.                    *)
canLinkGroupCheck(w, group, device) ==
  LET check[hops \in 0 .. 8, i \in Items] ==
        /\ hops # 8
        /\ \/ setup.link_group[i] = None
           \/ /\ setup.link_group[i] # group
              /\ \A n \in ToSet(w.linkables) \ {i} :
                   /\ Direction[n] # Direction[i]
                   /\ setup.link_group[n] = setup.link_group[i]
                   => \A l \in ToSet(w.links) :
                        Joins(l, n) =>
                          LET peer == IF l.stream = n THEN l.device ELSE l.stream
                          IN Ready(w, peer) => check[hops + 1, peer]
  IN check[0, device]

(* One media type, no monitors: the directions must differ.                 *)
canLink(w, s, d) ==
  /\ Direction[s] # Direction[d]
  /\ setup.link_group[s] # None => canLinkGroupCheck(w, setup.link_group[s], d)

(* The metadata overrides the properties of the node.  by_node says that    *)
(* the latter named the target.                                             *)
findDefinedTarget(w, s) ==
  LET moved == Move /\ w.target[s] # None
      value == IF moved THEN w.target[s] ELSE setup.target[s]
      found == value \in Devices /\ Ready(w, value) /\ canLink(w, s, value)
  IN [device |-> IF found THEN value ELSE None,
      defined |-> value \notin {None, NoTarget},
      by_node |-> ~moved /\ value # None]

Better(d, e) ==
  \/ Priority[d] > Priority[e]
  \/ Priority[d] = Priority[e] /\ plugged[d] > plugged[e]

findBestLinkable(w, s) ==
  LET Pick(best, d) ==
        IF /\ d \in Devices
           /\ canLink(w, s, d)
           /\ d \in w.routes
           /\ CompatiblePassthrough(s, d)
           /\ best = None \/ Better(d, best)
        THEN d ELSE best
  IN FoldLeft(Pick, None, w.linkables)

findUndefinedTarget(w, s) ==
  IF ~Ready(w, w.default) THEN None
  ELSE IF canLink(w, s, w.default) /\ CompatiblePassthrough(s, w.default) THEN w.default
  ELSE findBestLinkable(w, s)

-----------------------------------------------------------------------------
(* Mutant: a link that failed is tried again forever.                       *)
createLinkAlways(w, s, d, exclusive) ==
  [w EXCEPT
    !.si_flags[s].peer = d,
    !.links = Append(@, [stream |-> s, device |-> d, exclusive |-> exclusive,
                         active |-> FALSE])]

(* createLink.  Configuring the link cannot fail: both items are active.    *)
createLink(w, s, d, exclusive) ==
  LET f == w.si_flags[s]
  IN IF f.failed_peer = d /\ f.failed_count > MaxFailed THEN w
     ELSE [w EXCEPT
       !.si_flags[s].peer = d,
       !.si_flags[s].failed_peer = d,
       !.si_flags[s].failed_count = @ + 1,
       !.links = Append(@, [stream |-> s, device |-> d, exclusive |-> exclusive,
                            active |-> FALSE])]

(* scheduleRescan in the middle of what follows.  It is the last thing that *)
(* these functions do: a scan under way makes a note, and Handle does it.   *)
MarkAgain(w) == [w EXCEPT !.again = TRUE]

(* A stream that got the default as the target that its node asks for       *)
(* follows the default from now on.  The metadata is local: its handler     *)
(* schedules a scan at once.                                                *)
checkFollowDefault(w, s, d, by_node) ==
  IF /\ by_node /\ Follow /\ d = w.default
     /\ s \in setup.reconnect /\ setup.link_group[s] = None
  THEN LET v == [w EXCEPT !.target[s] = NoTarget]
       IN IF Move THEN MarkAgain(v) ELSE v
  ELSE w

(* The end of handleLinkable, for a stream with a target or without.        *)
MayLink(w, s, d) ==
  /\ d # None
  /\ s \in setup.reconnect \/ ~w.si_flags[s].was_handled
  /\ ~isExclusive(w, d)
  /\ isLinked(w, d) => s \notin setup.exclusive \cup setup.must_passthrough

linkTo(w, s, d, by_node) ==
  IF MayLink(w, s, d)
  THEN checkFollowDefault(
         [createLink(w, s, d, \/ s \in setup.exclusive
                              \/ canPassthrough(s, d) /\ ~isLinked(w, d))
            EXCEPT !.si_flags[s].was_handled = TRUE],
         s, d, by_node)
  ELSE IF s \in setup.reconnect THEN w
  ELSE [w EXCEPT !.destroyed = @ \cup {s}]

(* lookupLink: the link of a stream and the peer that its flags name.       *)
lookupLink(w, s) ==
  {k \in DOMAIN w.links :
     w.links[k].stream = s /\ w.links[k].device = w.si_flags[s].peer}

Unlinked(w, s, old) ==
  IF old = {} THEN w ELSE RemoveLink([w EXCEPT !.si_flags[s].peer = None], Min(old))

relink(w, s, d, by_node, old) ==
  IF old # {} /\ (s \notin setup.reconnect \/ ~w.links[Min(old)].active) THEN w
  ELSE linkTo(Unlinked(w, s, old), s, d, by_node)

(* A stream with a target d, after all that could be one.                   *)
handleTarget(w, s, d, by_node) ==
  IF d # None /\ d = w.si_flags[s].peer THEN checkFollowDefault(w, s, d, by_node)
  ELSE relink(w, s, d, by_node, lookupLink(w, s))

(* A stream whose defined target is usable, or None.  When it is not there  *)
(* yet, the stream waits for one more scan.                                 *)
handleDefined(w, s, usable, defined, by_node) ==
  IF /\ defined /\ usable = None
     /\ ~w.si_flags[s].was_handled /\ ~w.si_flags[s].done_waiting
  THEN MarkAgain([w EXCEPT !.si_flags[s].done_waiting = TRUE])
  ELSE handleTarget(w, s,
         IF usable = None /\ (s \in setup.reconnect \/ ~defined)
         THEN findUndefinedTarget(w, s) ELSE usable,
         by_node)

handleFound(w, s, found) ==
  handleDefined(w, s,
    IF s \in setup.must_passthrough /\ ~canPassthrough(s, found.device)
    THEN None ELSE found.device,
    found.defined, found.by_node)

handleStream(w, s) == handleFound(w, s, findDefinedTarget(w, s))

(* handleLinkable, which begins with checkPending.                          *)
handleLinkable(w, i) ==
  IF \E j \in Items : w.phase[j] = "pending" THEN [w EXCEPT !.skipped = TRUE]
  ELSE IF w.skipped THEN MarkAgain([w EXCEPT !.skipped = FALSE])
  ELSE IF i \notin Streams THEN w
  ELSE handleStream(IF w.si_flags[i] = None THEN [w EXCEPT !.si_flags[i] = NoFlags] ELSE w,
                    i)

(* Mutant: what is asked for during a scan is forgotten.                    *)
scheduleOneScan(w) ==
  [FoldLeft(handleLinkable, w, w.linkables)
     EXCEPT !.again = FALSE]

Sync(w) == IF w.again THEN [w EXCEPT !.again = FALSE, !.syncs = @ + 1] ELSE w

scheduleRescan(w) == Sync(FoldLeft(handleLinkable, w, w.linkables))

(* The handler of an item that is added, outside of a scan.                 *)
ScanAgain(w) == IF w.again THEN scheduleRescan([w EXCEPT !.again = FALSE]) ELSE w

Handle(w, i) == ScanAgain(handleLinkable(w, i))

(* The links of an item that is gone are removed, and the streams at the    *)
(* other end forget them.                                                   *)
unhandleLinkable(w, i) ==
  LET Unlink(v, l) ==
        LET k == CHOOSE k \in DOMAIN v.links : v.links[k] = l
            u == RemoveLink(v, k)
        IN IF v.si_flags[l.stream] # None /\ v.si_flags[l.stream].peer = i
           THEN [u EXCEPT !.si_flags[l.stream].peer = None] ELSE u
      v == FoldLeft(Unlink, w, SelectSeq(w.links, LAMBDA l : Joins(l, i)))
  IN IF i \in Streams THEN [v EXCEPT !.si_flags[i] = None] ELSE v

-----------------------------------------------------------------------------
Init ==
  /\ setup \in Setups
  /\ phase = [i \in Items |-> "absent"]
  /\ linkables = <<>>
  /\ plugged = [d \in Devices |-> 0]
  /\ default = None
  /\ target = [s \in Streams |-> None]
  /\ routes = Devices
  /\ si_flags = [s \in Streams |-> None]
  /\ links = <<>>
  /\ orphans = <<>>
  /\ skipped = FALSE
  /\ syncs = 0
  /\ destroyed = {}
  /\ changes = 0

(* create-item.lua: a node appears; its item is registered before it is     *)
(* active, unless it cannot be configured.                                  *)
NodeAdded(i) ==
  /\ phase[i] = "absent"
  /\ \E p \in {"pending", "gone"} : phase' = [phase EXCEPT ![i] = p]
  /\ plugged' = IF i \in Devices
                THEN [plugged EXCEPT ![i] = 1 + Max({plugged[d] : d \in Devices})]
                ELSE plugged
  /\ UNCHANGED <<setup, linkables, default, target, routes, si_flags, links, orphans,
                 skipped, syncs, destroyed, changes>>

(* The item is active: it is registered again, and linkables_om emits       *)
(* object-added.                                                            *)
ItemActivated(i) ==
  LET w == [World EXCEPT !.phase[i] = "active", !.linkables = Append(@, i)]
  IN /\ phase[i] = "pending"
     /\ Becomes(IF i \in Devices THEN scheduleRescan(w) ELSE Handle(w, i))
     /\ UNCHANGED <<plugged, changes>>

(* The activation fails, or the node vanishes before it ends: the item is   *)
(* removed, and no handler listens to pending_linkables_om.                 *)
ItemFailed(i) ==
  /\ phase[i] = "pending"
  /\ phase' = [phase EXCEPT ![i] = "gone"]
  /\ UNCHANGED <<setup, linkables, plugged, default, target, routes, si_flags, links,
                 orphans, skipped, syncs, destroyed, changes>>

(* The node of an active item is gone: linkables_om emits object-removed.   *)
NodeRemoved(i) ==
  LET k == CHOOSE j \in DOMAIN linkables : linkables[j] = i
      w == [World EXCEPT !.phase[i] = "gone", !.linkables = RemoveFast(@, k)]
  IN /\ phase[i] = "active"
     /\ Becomes(scheduleRescan(unhandleLinkable(w, i)))
     /\ UNCHANGED <<plugged, changes>>

(* The callback of a link's activation, with what it finds in the flags of  *)
(* its stream.  A link that was removed meanwhile has a callback as well.   *)
activated(w, s) ==
  IF w.si_flags[s] = None THEN w
  ELSE [w EXCEPT !.si_flags[s].failed_peer = None, !.si_flags[s].failed_count = 0]

failed(w, s) ==
  IF w.si_flags[s] = None THEN w ELSE [w EXCEPT !.si_flags[s].peer = None]

LinkActivated(k) ==
  /\ ~links[k].active
  /\ Becomes(scheduleRescan(
       activated([World EXCEPT !.links[k].active = TRUE], links[k].stream)))
  /\ UNCHANGED <<plugged, changes>>

LinkFailed(k) ==
  /\ LinksFail
  /\ ~links[k].active
  /\ Becomes(scheduleRescan(
       failed([World EXCEPT !.links = RemoveFast(@, k)], links[k].stream)))
  /\ UNCHANGED <<plugged, changes>>

OrphanActivated(k) ==
  /\ Becomes(scheduleRescan(
       activated([World EXCEPT !.orphans = RemoveFast(@, k)], orphans[k].stream)))
  /\ UNCHANGED <<plugged, changes>>

OrphanFailed(k) ==
  /\ Becomes(scheduleRescan(
       failed([World EXCEPT !.orphans = RemoveFast(@, k)], orphans[k].stream)))
  /\ UNCHANGED <<plugged, changes>>

(* The callback of Core.sync.                                               *)
Synced ==
  /\ syncs > 0
  /\ Becomes(scheduleRescan([World EXCEPT !.syncs = @ - 1]))
  /\ UNCHANGED <<plugged, changes>>

(* The user chooses another default, moves a stream, plugs headphones.      *)
Changing(w) ==
  /\ changes < MaxChanges
  /\ changes' = changes + 1
  /\ Becomes(w)
  /\ UNCHANGED plugged

DefaultChanged(d) ==
  /\ d # default
  /\ d # None => phase[d] \in {"pending", "active"}
  /\ LET w == [World EXCEPT !.default = d]
     IN Changing(IF Follow THEN scheduleRescan(w) ELSE w)

TargetChanged(s, d) ==
  /\ d # target[s]
  /\ phase[s] \in {"pending", "active"}
  /\ LET w == [World EXCEPT !.target[s] = d]
     IN Changing(IF Move THEN scheduleRescan(w) ELSE w)

RoutesChanged(d) ==
  /\ phase[d] \in {"pending", "active"}
  /\ Changing(scheduleRescan(
       [World EXCEPT !.routes = IF d \in @ THEN @ \ {d} ELSE @ \cup {d}]))

ItemDone == \E i \in Items : ItemActivated(i) \/ ItemFailed(i)
LinkDone == \E k \in DOMAIN links : LinkActivated(k) \/ LinkFailed(k)
OrphanDone == \E k \in DOMAIN orphans : OrphanActivated(k) \/ OrphanFailed(k)

Next ==
  \/ \E i \in Items : NodeAdded(i) \/ NodeRemoved(i)
  \/ ItemDone
  \/ LinkDone
  \/ OrphanDone
  \/ Synced
  \/ \E d \in Devices \cup {None} : DefaultChanged(d)
  \/ \E s \in Streams, d \in Devices \cup {None, NoTarget} : TargetChanged(s, d)
  \/ \E d \in Devices : RoutesChanged(d)

Spec == Init /\ [][Next]_vars

(* Activations end and the main loop runs; nothing is fair that users do.   *)
(* Each conjunct is the weak fairness of an action whose guard is the       *)
(* negation of its first half, and is written so because TLC would compute  *)
(* a whole scan to see that the action is enabled.                          *)
FairSpec ==
  /\ Spec
  /\ WF_phase(\E i \in Items, p \in {"active", "gone"} :
                phase[i] = "pending" /\ phase' = [phase EXCEPT ![i] = p])
  /\ []<>(\A k \in DOMAIN links : links[k].active) \/ []<><<LinkDone>>_vars
  /\ []<>(orphans = <<>>) \/ []<><<OrphanDone>>_vars
  /\ []<>(syncs = 0) \/ []<><<Synced>>_vars

-----------------------------------------------------------------------------
TypeOK ==
  /\ setup \in Setups
  /\ phase \in [Items -> {"absent", "pending", "active", "gone"}]
  /\ linkables \in Seq(Items) /\ ToSet(linkables) = {i \in Items : phase[i] = "active"}
  /\ plugged \in [Devices -> Nat]
  /\ default \in Devices \cup {None}
  /\ target \in [Streams -> Devices \cup {None, NoTarget}]
  /\ routes \subseteq Devices
  /\ si_flags \in [Streams -> Flags \cup {None}]
  /\ {links, orphans} \subseteq Seq(Link)
  /\ skipped \in BOOLEAN
  /\ syncs \in Nat
  /\ destroyed \subseteq Streams
  /\ changes \in 0 .. MaxChanges

(* No link outlives its items: unhandleLinkable finds all links of an item  *)
(* that is gone, and no scan links a stream to one.                         *)
NoDanglingLink ==
  \A l \in ToSet(links) : {l.stream, l.device} \subseteq ToSet(linkables)

(* A device with an exclusive or a passthrough link has no other link, with *)
(* isLinked looking only at the first one that it finds.                    *)
ExclusiveAlone ==
  \A j, k \in DOMAIN links :
    j # k /\ links[j].device = links[k].device => ~links[j].exclusive

(* Filters: from a device with a link group the sound comes out of the      *)
(* streams of that group.  No chain of links leads back to where it began.  *)
Feeds ==
  [i \in Items |->
     {l.device : l \in {m \in ToSet(links) : m.stream = i}} \cup
     {s \in Streams : i \in Devices /\ setup.link_group[i] # None
                      /\ setup.link_group[s] = setup.link_group[i]}]

NoFeedbackLoop ==
  LET reach[n \in 0 .. Cardinality(Items), i \in Items] ==
        IF n = 0 THEN Feeds[i]
        ELSE UNION {reach[n - 1, j] : j \in Feeds[i]} \cup reach[n - 1, i]
  IN \A i \in Items : i \notin reach[Cardinality(Items), i]

(* The target that the policy promises (docs and comments of the script):   *)
(* the user's, the node's, the default, the best of the others.             *)
Usable(s, d) ==
  d \in Devices /\ Ready(World, d) /\ canLink(World, s, d) /\ CompatiblePassthrough(s, d)

Wanted(s) ==
  LET asked == IF target[s] # None THEN target[s] ELSE setup.target[s]
      others == {d \in routes : Usable(s, d)}
  IN CASE Usable(s, asked) -> asked
       [] ~Usable(s, asked) /\ Usable(s, default) -> default
       [] ~Usable(s, asked) /\ ~Usable(s, default) /\ Ready(World, default) /\ others # {} ->
            CHOOSE d \in others : \A e \in others \ {d} : Better(d, e)
       [] OTHER -> None

Quiet ==
  /\ syncs = 0 /\ orphans = <<>>
  /\ \A l \in ToSet(links) : l.active
  /\ \A i \in Items : phase[i] # "pending"

(* When nothing is under way and no scan was skipped, each stream that may  *)
(* be moved is linked to the target that it should have, however many       *)
(* changes came while links were being activated.                           *)
QuietMeansLinked ==
  Quiet /\ ~skipped /\ setup.exclusive = {} /\ setup.must_passthrough = {} =>
    \A s \in setup.reconnect :
      LET d == Wanted(s)
      IN /\ phase[s] = "active" /\ d # None
         /\ si_flags[s] = None \/ ~(/\ si_flags[s].failed_peer = d
                                    /\ si_flags[s].failed_count > MaxFailed)
         => \E l \in ToSet(links) : l.stream = s /\ l.device = d

(* NEWS.rst on filters "often with two sets of links": a stream has at most *)
(* one.                                                                     *)
OneSetOfLinks ==
  \A j, k \in DOMAIN links : links[j].stream = links[k].stream => j = k

(* No endless rescan: once nothing more happens to nodes, metadata and      *)
(* default, the scans come to an end, although links may fail every time.   *)
Settles == <>[]Quiet

(* "policy-node should never be suspended for 20sec": a policy that skips   *)
(* events resumes.                                                          *)
Resumes == skipped ~> ~skipped

(* The links as a whole: whatever order streams, devices and failures come  *)
(* in, each has both its ends, exclusive ones are alone, and filters form   *)
(* no loop.                                                                 *)
LinksSound == TypeOK /\ NoDanglingLink /\ ExclusiveAlone /\ NoFeedbackLoop
=============================================================================
