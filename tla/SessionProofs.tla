--------------------------- MODULE SessionProofs ---------------------------
(***************************************************************************)
(* The five parts of a session, for any number of cards, devices, nodes,   *)
(* profiles, streams, volumes and restarts.                                *)
(***************************************************************************)
EXTENDS Session, Naturals, Sequences, FiniteSets, FiniteSetTheorems, WellFoundedInduction,
        TLAPS

Vol == Mixer!Volume
Info == [volume : Vol, of : {"node", "device"}]

MixerTypeOK ==
  /\ enabled \in BOOLEAN /\ changed \in BOOLEAN /\ syncs \in BOOLEAN
  /\ present \subseteq MixerNodes \cup {"device"} /\ om \subseteq MixerNodes \cup {"device"}
  /\ props \in [MixerNodes -> Vol] /\ cachedProps \in [MixerNodes -> Vol]
  /\ route \in [MixerNodes -> Vol \cup {None}] /\ cachedRoute \in [MixerNodes -> Vol \cup {None}]
  /\ node_infos \in [MixerNodes -> Info \cup {None}]
  /\ sets \in Seq([node : MixerNodes, of : {"node", "device"}, volume : Vol])
  /\ expected \in [MixerNodes -> Vol] /\ hasty \subseteq MixerNodes

(* What was collected last is what there is to collect, unless it is about *)
(* to be collected again.                                                  *)
Collected ==
  IF enabled
    THEN ~changed /\ ~syncs =>
           \A n \in MixerNodes :
             node_infos[n] = IF n \in om THEN Mixer!collect_node_info(n) ELSE None
    ELSE om = {} /\ \A n \in MixerNodes : node_infos[n] = None

RoutesOfDevice == "device" \notin present => \A n \in MixerNodes : route[n] = None

(* What is on its way to a node is what its clients expect it to have, and *)
(* arrives where the volume of the node is.                                *)
Arriving(n) ==
  \A i \in DOMAIN sets : sets[i].node = n =>
    /\ sets[i].volume = expected[n]
    /\ sets[i].of = "device" => "device" \in present /\ route[n] # None
    /\ sets[i].of = "node" => n \in present /\ route[n] = None

SetsMatch ==
  \A n \in MixerNodes \ hasty :
    /\ Arriving(n)
    /\ (\A i \in DOMAIN sets : sets[i].node # n) => Mixer!Actual(n) = expected[n]

MixerInv == MixerTypeOK /\ Collected /\ RoutesOfDevice /\ SetsMatch

LEMMA MixerConstants == "device" \notin MixerNodes /\ None \notin Vol
BY SessionAssumption DEF Mixer!ConstantsOK, Vol

LEMMA MixerInitInv == Mixer!MixerInit => MixerInv
<1> SUFFICES ASSUME Mixer!MixerInit PROVE MixerInv
  OBVIOUS
<1>1. Mixer!Silence \in Vol
  BY DEF Mixer!Silence, Vol, Mixer!Volume
<1>2. /\ present = {} /\ om = {} /\ sets = <<>> /\ hasty = {}
      /\ props = [n \in MixerNodes |-> Mixer!Silence] /\ cachedProps = props
      /\ route = [n \in MixerNodes |-> None] /\ cachedRoute = route
      /\ node_infos = [n \in MixerNodes |-> None] /\ expected = props
  BY DEF Mixer!MixerInit
<1>3. enabled = FALSE /\ changed = FALSE /\ syncs = FALSE
  BY Zenon DEF Mixer!MixerInit
<1>4. MixerTypeOK
  <2>1. sets \in Seq([node : MixerNodes, of : {"node", "device"}, volume : Vol])
    BY <1>2
  <2> QED BY <1>1, <1>2, <1>3, <2>1 DEF MixerTypeOK
<1>5. Collected /\ RoutesOfDevice
  BY <1>2, <1>3 DEF Collected, RoutesOfDevice
<1>6. SetsMatch
  BY <1>2 DEF SetsMatch, Arriving, Mixer!Actual, Mixer!Of
<1> QED BY <1>4, <1>5, <1>6 DEF MixerInv

(* What is collected of a node is a volume and where it was found.         *)
LEMMA CollectType ==
  ASSUME MixerTypeOK, NEW n \in MixerNodes
  PROVE  Mixer!collect_node_info(n) \in Info
<1>1. cachedProps[n] \in Vol /\ (cachedRoute[n] # None => cachedRoute[n] \in Vol)
  BY DEF MixerTypeOK
<1> QED BY <1>1 DEF Mixer!collect_node_info, Info

(* When nothing of a node is on its way, its info is what the server has.  *)
LEMMA QuietInfo ==
  ASSUME MixerInv, enabled, NEW n \in MixerNodes, Mixer!Quiet(n)
  PROVE  node_infos[n] =
           IF n \in present
             THEN [volume |-> Mixer!Actual(n),
                   of |-> IF "device" \in present /\ route[n] # None THEN "device" ELSE "node"]
             ELSE None
<1>1. /\ ~changed /\ ~syncs /\ om = present
      /\ cachedProps[n] = props[n] /\ cachedRoute[n] = route[n]
  BY DEF Mixer!Quiet
<1>2. node_infos[n] = IF n \in om THEN Mixer!collect_node_info(n) ELSE None
  BY <1>1 DEF MixerInv, Collected
<1>3. "device" \notin present => route[n] = None
  BY DEF MixerInv, RoutesOfDevice
<1> QED BY <1>1, <1>2, <1>3 DEF Mixer!collect_node_info, Mixer!Actual, Mixer!Of

-----------------------------------------------------------------------------
(* Steps that neither the server nor the sets in flight are part of.       *)
LEMMA ServerFrame ==
  ASSUME MixerInv, UNCHANGED <<present, props, route, sets, expected, hasty>>
  PROVE  RoutesOfDevice' /\ SetsMatch'
BY DEF MixerInv, RoutesOfDevice, SetsMatch, Arriving, Mixer!Actual, Mixer!Of

(* The node_infos are made anew.                                           *)
LEMMA ObjectsChangedInfos ==
  ASSUME MixerInv, enabled, enabled', Mixer!on_objects_changed,
         UNCHANGED <<om, cachedProps, cachedRoute>>
  PROVE  Collected' /\ node_infos' \in [MixerNodes -> Info \cup {None}]
<1>1. node_infos' = [n \in MixerNodes |-> IF n \in om THEN Mixer!collect_node_info(n) ELSE None]
  BY DEF Mixer!on_objects_changed
<1>2. \A n \in MixerNodes : Mixer!collect_node_info(n)' = Mixer!collect_node_info(n)
  BY DEF Mixer!collect_node_info
<1>3. Collected'
  BY <1>1, <1>2 DEF Collected
<1> QED BY <1>1, <1>3, CollectType DEF MixerInv

LEMMA ObjectsChangedInv == MixerInv /\ Mixer!ObjectsChanged => MixerInv'
<1> SUFFICES ASSUME MixerInv, Mixer!ObjectsChanged PROVE MixerInv'
  OBVIOUS
<1>1. UNCHANGED <<enabled, present, props, route, om, cachedProps, cachedRoute, syncs, sets,
                  expected, hasty>>
  BY DEF Mixer!ObjectsChanged, Mixer!server, Mixer!cache
<1>2. enabled /\ enabled' /\ changed' = FALSE /\ Mixer!on_objects_changed
  BY <1>1 DEF Mixer!ObjectsChanged
<1>3. Collected' /\ node_infos' \in [MixerNodes -> Info \cup {None}]
  BY <1>1, <1>2, ObjectsChangedInfos
<1>4. MixerTypeOK'
  BY <1>1, <1>2, <1>3 DEF MixerInv, MixerTypeOK
<1> QED BY <1>1, <1>3, <1>4, ServerFrame DEF MixerInv

LEMMA SyncDoneInv == MixerInv /\ Mixer!on_sync_done => MixerInv'
<1> SUFFICES ASSUME MixerInv, Mixer!on_sync_done PROVE MixerInv'
  OBVIOUS
<1>1. /\ UNCHANGED <<enabled, present, props, route, om, cachedProps, cachedRoute, changed, sets,
                     expected, hasty>>
      /\ syncs' = FALSE
  BY DEF Mixer!on_sync_done, Mixer!server, Mixer!cache
<1>2. Collected' /\ node_infos' \in [MixerNodes -> Info \cup {None}]
  <2>1. CASE enabled
    BY <2>1, <1>1, ObjectsChangedInfos DEF Mixer!on_sync_done
  <2>2. CASE ~enabled
    BY <2>2, <1>1 DEF Mixer!on_sync_done, MixerInv, MixerTypeOK, Collected
  <2> QED BY <2>1, <2>2
<1>3. MixerTypeOK'
  BY <1>1, <1>2 DEF MixerInv, MixerTypeOK
<1> QED BY <1>1, <1>2, <1>3, ServerFrame DEF MixerInv

(* Steps that the mixer itself takes no part in.                           *)
LEMMA MixerFrame ==
  ASSUME MixerInv,
         UNCHANGED <<enabled, om, cachedProps, cachedRoute, changed, syncs, node_infos>>
  PROVE  /\ Collected'
         /\ enabled' \in BOOLEAN /\ changed' \in BOOLEAN /\ syncs' \in BOOLEAN
         /\ om' \subseteq MixerNodes \cup {"device"}
         /\ cachedProps' \in [MixerNodes -> Vol]
         /\ cachedRoute' \in [MixerNodes -> Vol \cup {None}]
         /\ node_infos' \in [MixerNodes -> Info \cup {None}]
BY DEF MixerInv, MixerTypeOK, Collected, Mixer!collect_node_info

LEMMA ObjectManagedInv == MixerInv /\ Mixer!ObjectManaged => MixerInv'
<1> SUFFICES ASSUME MixerInv, Mixer!ObjectManaged PROVE MixerInv'
  OBVIOUS
<1>1. /\ UNCHANGED <<enabled, present, props, route, syncs, node_infos, sets, expected, hasty>>
      /\ enabled /\ changed' = TRUE
  BY DEF Mixer!ObjectManaged, Mixer!server
<1>2. PICK o \in (om \ present) \cup (present \ om) :
        /\ om' = IF o \in om THEN om \ {o} ELSE om \cup {o}
        /\ cachedProps' = IF o = "device" THEN cachedProps
                          ELSE [cachedProps EXCEPT ![o] = props[o]]
        /\ cachedRoute' = IF o = "device" THEN route ELSE cachedRoute
  BY DEF Mixer!ObjectManaged
<1>3. MixerTypeOK'
  BY <1>1, <1>2 DEF MixerInv, MixerTypeOK
<1>4. Collected'
  BY <1>1 DEF Collected
<1> QED BY <1>1, <1>3, <1>4, ServerFrame DEF MixerInv

LEMMA ParamsChangedInv == MixerInv /\ Mixer!on_params_changed => MixerInv'
<1> SUFFICES ASSUME MixerInv, Mixer!on_params_changed PROVE MixerInv'
  OBVIOUS
<1>1. /\ UNCHANGED <<enabled, present, props, route, om, changed, node_infos, sets, expected,
                     hasty>>
      /\ syncs' = TRUE /\ om # {}
  BY DEF Mixer!on_params_changed, Mixer!server
<1>2. \/ \E n \in om \ {"device"} : /\ cachedProps' = [cachedProps EXCEPT ![n] = props[n]]
                                    /\ cachedRoute' = cachedRoute
      \/ cachedRoute' = route /\ cachedProps' = cachedProps
  BY DEF Mixer!on_params_changed
<1>3. MixerTypeOK'
  BY <1>1, <1>2 DEF MixerInv, MixerTypeOK
<1>4. enabled
  BY <1>1 DEF MixerInv, Collected
<1>5. Collected'
  BY <1>1, <1>4 DEF Collected
<1> QED BY <1>1, <1>3, <1>5, ServerFrame DEF MixerInv

LEMMA EnableInv == MixerInv /\ (Mixer!Enable \/ Mixer!Disable) => MixerInv'
<1> SUFFICES ASSUME MixerInv, Mixer!Enable \/ Mixer!Disable PROVE MixerInv'
  OBVIOUS
<1>1. UNCHANGED <<present, props, route, cachedProps, cachedRoute, syncs, sets, expected, hasty>>
  BY DEF Mixer!Enable, Mixer!Disable, Mixer!server, Mixer!cache
<1>2. MixerTypeOK' /\ Collected'
  <2>1. CASE Mixer!Enable
    <3>1. ~enabled /\ enabled' = TRUE /\ UNCHANGED <<om, changed, node_infos>>
      BY <2>1 DEF Mixer!Enable, Mixer!cache
    <3> QED BY <1>1, <3>1 DEF MixerInv, MixerTypeOK, Collected
  <2>2. CASE Mixer!Disable
    <3>1. /\ enabled' = FALSE /\ om' = {} /\ changed' = FALSE
          /\ node_infos' = [n \in MixerNodes |-> None]
      BY <2>2 DEF Mixer!Disable
    <3> QED BY <1>1, <3>1 DEF MixerInv, MixerTypeOK, Collected
  <2> QED BY <2>1, <2>2
<1> QED BY <1>1, <1>2, ServerFrame DEF MixerInv

-----------------------------------------------------------------------------
LEMMA AppendElements ==
  ASSUME NEW S, NEW q \in Seq(S), NEW e \in S
  PROVE  /\ Append(q, e) \in Seq(S)
         /\ \A i \in DOMAIN q : i \in DOMAIN Append(q, e) /\ Append(q, e)[i] = q[i]
         /\ \A i \in DOMAIN Append(q, e) : i \in DOMAIN q \/ Append(q, e)[i] = e
         /\ Len(q) + 1 \in DOMAIN Append(q, e) /\ Append(q, e)[Len(q) + 1] = e
OBVIOUS

LEMMA TailElements ==
  ASSUME NEW S, NEW q \in Seq(S), q # <<>>
  PROVE  /\ Tail(q) \in Seq(S) /\ Head(q) = q[1] /\ 1 \in DOMAIN q /\ Head(q) \in S
         /\ \A i \in DOMAIN Tail(q) : i + 1 \in DOMAIN q /\ Tail(q)[i] = q[i + 1]
         /\ \A i \in DOMAIN q : i = 1 \/ (i - 1 \in DOMAIN Tail(q) /\ Tail(q)[i - 1] = q[i])
OBVIOUS

(* A volume that arrives, arrives where the volume of its node is.         *)
LEMMA SetArrivesInv == MixerInv /\ Mixer!SetArrives => MixerInv'
<1> SUFFICES ASSUME MixerInv, Mixer!SetArrives PROVE MixerInv'
  OBVIOUS
<1> DEFINE S == [node : MixerNodes, of : {"node", "device"}, volume : Vol]
           s == Head(sets)
<1>1. /\ UNCHANGED <<enabled, om, cachedProps, cachedRoute, changed, syncs, node_infos, present,
                     expected, hasty>>
      /\ sets # <<>> /\ sets' = Tail(sets)
  BY DEF Mixer!SetArrives, Mixer!cache
<1>2. \/ /\ s.of = "node" /\ s.node \in present
         /\ props' = [props EXCEPT ![s.node] = s.volume] /\ UNCHANGED route
      \/ /\ s.of = "device" /\ "device" \in present /\ route[s.node] # None
         /\ route' = [route EXCEPT ![s.node] = s.volume] /\ UNCHANGED props
      \/ /\ ~(s.of = "node" /\ s.node \in present)
         /\ ~(s.of = "device" /\ "device" \in present /\ route[s.node] # None)
         /\ UNCHANGED <<props, route>>
  BY DEF Mixer!SetArrives
<1>3. sets \in Seq(S) /\ present \subseteq MixerNodes \cup {"device"}
  BY DEF MixerInv, MixerTypeOK
<1> HIDE DEF S
<1>4. /\ sets' \in Seq(S) /\ s = sets[1] /\ 1 \in DOMAIN sets /\ s \in S
      /\ \A i \in DOMAIN sets' : i + 1 \in DOMAIN sets /\ sets'[i] = sets[i + 1]
      /\ \A i \in DOMAIN sets : i = 1 \/ (i - 1 \in DOMAIN sets' /\ sets'[i - 1] = sets[i])
  BY <1>1, <1>3, TailElements
<1>5. s.node \in MixerNodes /\ s.of \in {"node", "device"} /\ s.volume \in Vol
  BY <1>4 DEF S
<1>6. /\ props \in [MixerNodes -> Vol] /\ route \in [MixerNodes -> Vol \cup {None}]
      /\ props' \in [MixerNodes -> Vol] /\ route' \in [MixerNodes -> Vol \cup {None}]
  BY <1>2, <1>5 DEF MixerInv, MixerTypeOK
<1> HIDE DEF s
<1>7. MixerTypeOK'
  BY <1>1, <1>4, <1>6, MixerFrame DEF MixerInv, MixerTypeOK, S
<1>8. \A n \in MixerNodes : route'[n] = None <=> route[n] = None
  BY <1>2, <1>5, <1>6, MixerConstants
<1>9. RoutesOfDevice'
  BY <1>1, <1>8 DEF MixerInv, RoutesOfDevice
<1>10. SetsMatch'
  <2> SUFFICES ASSUME NEW n \in MixerNodes \ hasty
               PROVE  /\ Arriving(n)'
                      /\ (\A i \in DOMAIN sets' : sets'[i].node # n)
                            => Mixer!Actual(n)' = expected[n]
    BY <1>1 DEF SetsMatch
  <2>1. /\ Arriving(n)
        /\ (\A i \in DOMAIN sets : sets[i].node # n) => Mixer!Actual(n) = expected[n]
    BY DEF MixerInv, SetsMatch
  <2>2. Arriving(n)'
    BY <2>1, <1>1, <1>4, <1>8 DEF Arriving
  <2>3. ASSUME \A i \in DOMAIN sets' : sets'[i].node # n PROVE Mixer!Actual(n)' = expected[n]
    <3>1. CASE s.node = n
      <4>1. /\ s.volume = expected[n]
            /\ s.of = "device" => "device" \in present /\ route[n] # None
            /\ s.of = "node" => n \in present /\ route[n] = None
        BY <3>1, <2>1, <1>4 DEF Arriving
      <4> QED BY <4>1, <3>1, <1>2, <1>5, <1>6, MixerConstants DEF Mixer!Actual, Mixer!Of
    <3>2. CASE s.node # n
      <4>1. \A i \in DOMAIN sets : sets[i].node # n
        BY <3>2, <2>3, <1>4
      <4>2. props'[n] = props[n] /\ route'[n] = route[n]
        BY <3>2, <1>2, <1>5, <1>6
      <4> QED BY <4>1, <4>2, <2>1 DEF Mixer!Actual, Mixer!Of
    <3> QED BY <3>1, <3>2
  <2> QED BY <2>2, <2>3
<1> QED BY <1>1, <1>7, <1>9, <1>10, MixerFrame DEF MixerInv

-----------------------------------------------------------------------------
(* What is on its way is what was asked for, in the channels that were     *)
(* given, and what the mixer knew in the others.                           *)
LEMMA SetVolumeInv ==
  ASSUME MixerInv, NEW n \in MixerNodes, Mixer!set_volume(n)
  PROVE  MixerInv'
<1> DEFINE S == [node : MixerNodes, of : {"node", "device"}, volume : Vol]
<1>1. /\ UNCHANGED <<enabled, present, props, route, om, cachedProps, cachedRoute, changed, syncs,
                     node_infos>>
      /\ enabled /\ node_infos[n] # None
      /\ hasty' = IF Mixer!Quiet(n) THEN hasty ELSE hasty \cup {n}
  BY DEF Mixer!set_volume, Mixer!server, Mixer!cache
<1>2. PICK cs \in SUBSET Channels \ {{}}, l \in Levels :
        /\ sets' = Append(sets, [node |-> n, of |-> node_infos[n].of,
                                 volume |-> Mixer!new_volume(n, cs, l)])
        /\ expected' = [expected EXCEPT ![n] =
             IF n \in hasty' THEN Mixer!Silence
             ELSE [c \in Channels |-> IF c \in cs THEN l ELSE @[c]]]
  BY DEF Mixer!set_volume
<1> DEFINE v == Mixer!new_volume(n, cs, l)
           e == [node |-> n, of |-> node_infos[n].of, volume |-> v]
<1>3. node_infos[n] \in Info /\ expected[n] \in Vol /\ sets \in Seq(S)
  BY <1>1 DEF MixerInv, MixerTypeOK
<1>4. node_infos[n].of \in {"node", "device"} /\ node_infos[n].volume \in Vol
  BY <1>3 DEF Info
<1>5. /\ v \in Vol /\ Mixer!Silence \in Vol
      /\ [c \in Channels |-> IF c \in cs THEN l ELSE expected[n][c]] \in Vol
  BY <1>3, <1>4 DEF Mixer!new_volume, Mixer!Silence, Vol, Mixer!Volume
<1>6. e \in S
  BY <1>4, <1>5
<1>7. n \notin hasty' =>
        /\ Mixer!Quiet(n) /\ n \notin hasty /\ sets = <<>>
        /\ v = expected'[n]
        /\ e.of = "device" => "device" \in present /\ route[n] # None
        /\ e.of = "node" => n \in present /\ route[n] = None
  <2> SUFFICES ASSUME n \notin hasty'
               PROVE  /\ Mixer!Quiet(n) /\ n \notin hasty /\ sets = <<>>
                      /\ v = expected'[n]
                      /\ e.of = "device" => "device" \in present /\ route[n] # None
                      /\ e.of = "node" => n \in present /\ route[n] = None
    OBVIOUS
  <2>1. Mixer!Quiet(n) /\ n \notin hasty
    BY <1>1
  <2>2. sets = <<>>
    BY <2>1 DEF Mixer!Quiet
  <2>3. /\ n \in present
        /\ node_infos[n] = [volume |-> Mixer!Actual(n),
             of |-> IF "device" \in present /\ route[n] # None THEN "device" ELSE "node"]
    BY <2>1, <1>1, QuietInfo
  <2>4. Mixer!Actual(n) = expected[n]
    BY <2>1, <2>2 DEF MixerInv, SetsMatch
  <2>5. expected'[n] = [c \in Channels |-> IF c \in cs THEN l ELSE expected[n][c]]
    BY <1>2 DEF MixerInv, MixerTypeOK
  <2>6. v = expected'[n]
    BY <2>3, <2>4, <2>5 DEF Mixer!new_volume
  <2>7. "device" \notin present => route[n] = None
    BY DEF MixerInv, RoutesOfDevice
  <2> QED BY <2>1, <2>2, <2>3, <2>6, <2>7
<1> HIDE DEF S, v
<1>8. /\ sets' \in Seq(S)
      /\ \A i \in DOMAIN sets : i \in DOMAIN sets' /\ sets'[i] = sets[i]
      /\ \A i \in DOMAIN sets' : i \in DOMAIN sets \/ sets'[i] = e
      /\ Len(sets) + 1 \in DOMAIN sets' /\ sets'[Len(sets) + 1] = e
  <2>1. sets' = Append(sets, e)
    BY <1>2 DEF v
  <2> HIDE DEF e
  <2> QED BY <2>1, <1>3, <1>6, AppendElements
<1>9. e.node = n /\ e.volume = v
  OBVIOUS
<1> HIDE DEF e
<1>10. MixerTypeOK'
  <2>1. expected' \in [MixerNodes -> Vol]
    BY <1>2, <1>5 DEF MixerInv, MixerTypeOK
  <2>2. hasty' \subseteq MixerNodes
    BY <1>1 DEF MixerInv, MixerTypeOK
  <2> QED BY <2>1, <2>2, <1>1, <1>8, MixerFrame DEF MixerInv, MixerTypeOK, S
<1>11. RoutesOfDevice'
  BY <1>1 DEF MixerInv, RoutesOfDevice
<1>12. SetsMatch'
  <2> SUFFICES ASSUME NEW m \in MixerNodes, m \notin hasty'
               PROVE  /\ Arriving(m)'
                      /\ (\A i \in DOMAIN sets' : sets'[i].node # m)
                            => Mixer!Actual(m)' = expected'[m]
    BY DEF SetsMatch
  <2>1. CASE m = n
    <3>1. sets = <<>>
      BY <2>1, <1>7
    <3>2. \A i \in DOMAIN sets' : sets'[i] = e
      BY <3>1, <1>8
    <3> QED BY <3>2, <2>1, <1>1, <1>7, <1>8, <1>9 DEF Arriving
  <2>2. CASE m # n
    <3>1. m \notin hasty /\ expected'[m] = expected[m]
      BY <2>2, <1>1, <1>2 DEF MixerInv, MixerTypeOK
    <3>2. /\ Arriving(m)
          /\ (\A i \in DOMAIN sets : sets[i].node # m) => Mixer!Actual(m) = expected[m]
      BY <3>1 DEF MixerInv, SetsMatch
    <3>3. \A i \in DOMAIN sets' : sets'[i].node = m => i \in DOMAIN sets
      BY <2>2, <1>8, <1>9
    <3>4. Arriving(m)'
      BY <3>1, <3>2, <3>3, <1>1, <1>8 DEF Arriving
    <3>5. Mixer!Actual(m)' = Mixer!Actual(m)
      BY <1>1 DEF Mixer!Actual, Mixer!Of
    <3> QED BY <3>1, <3>2, <3>4, <3>5, <1>8
  <2> QED BY <2>1, <2>2
<1> QED BY <1>1, <1>10, <1>11, <1>12, MixerFrame DEF MixerInv

LEMMA OthersChangeInv ==
  ASSUME MixerInv, NEW n \in MixerNodes, Mixer!OthersChange(n)
  PROVE  MixerInv'
<1>1. /\ UNCHANGED <<enabled, present, om, cachedProps, cachedRoute, changed, syncs, node_infos,
                     sets>>
      /\ hasty' = IF sets = <<>> THEN hasty ELSE hasty \cup {n}
      /\ expected' = [expected EXCEPT ![n] =
                        IF n \in hasty' THEN Mixer!Silence ELSE Mixer!Of(props', route', n)]
  BY DEF Mixer!OthersChange, Mixer!cache
<1>2. PICK v \in Mixer!Flat \cup {None} :
        \/ v # None /\ props' = [props EXCEPT ![n] = v] /\ UNCHANGED route
        \/ /\ "device" \in present /\ UNCHANGED props
           /\ route' = [route EXCEPT ![n] = v]
  <2>1. Mixer!Flat \subseteq Vol
    BY DEF Mixer!Flat, Vol, Mixer!Volume
  <2> QED BY <2>1, MixerConstants DEF Mixer!OthersChange
<1>3. v \in Vol \cup {None} /\ Mixer!Silence \in Vol
  BY <1>2 DEF Mixer!Flat, Mixer!Silence, Vol, Mixer!Volume
<1>4. /\ props \in [MixerNodes -> Vol] /\ route \in [MixerNodes -> Vol \cup {None}]
      /\ expected \in [MixerNodes -> Vol]
  BY DEF MixerInv, MixerTypeOK
<1>5. props' \in [MixerNodes -> Vol] /\ route' \in [MixerNodes -> Vol \cup {None}]
  BY <1>2, <1>3, <1>4
<1>6. Mixer!Of(props', route', n) \in Vol
  BY <1>5 DEF Mixer!Of
<1>7. MixerTypeOK'
  BY <1>1, <1>3, <1>4, <1>5, <1>6, MixerFrame DEF MixerInv, MixerTypeOK
<1>8. RoutesOfDevice'
  BY <1>1, <1>2 DEF MixerInv, RoutesOfDevice
<1>9. SetsMatch'
  <2> SUFFICES ASSUME NEW m \in MixerNodes, m \notin hasty'
               PROVE  /\ Arriving(m)'
                      /\ (\A i \in DOMAIN sets' : sets'[i].node # m)
                            => Mixer!Actual(m)' = expected'[m]
    BY DEF SetsMatch
  <2>1. CASE m = n
    <3>1. sets' = <<>>
      BY <2>1, <1>1
    <3>2. expected'[n] = Mixer!Of(props', route', n)
      BY <2>1, <1>1, <1>4
    <3> QED BY <3>1, <3>2, <2>1 DEF Arriving, Mixer!Actual
  <2>2. CASE m # n
    <3>1. /\ m \notin hasty /\ expected'[m] = expected[m]
          /\ props'[m] = props[m] /\ route'[m] = route[m]
      BY <2>2, <1>1, <1>2, <1>4
    <3>2. /\ Arriving(m)
          /\ (\A i \in DOMAIN sets : sets[i].node # m) => Mixer!Actual(m) = expected[m]
      BY <3>1 DEF MixerInv, SetsMatch
    <3> QED BY <3>1, <3>2, <1>1 DEF Arriving, Mixer!Actual, Mixer!Of
  <2> QED BY <2>1, <2>2
<1> QED BY <1>1, <1>7, <1>8, <1>9, MixerFrame DEF MixerInv

LEMMA ObjectComesInv ==
  ASSUME MixerInv, NEW o \in MixerNodes \cup {"device"}, Mixer!ObjectComes(o)
  PROVE  MixerInv'
<1>1. /\ UNCHANGED <<enabled, props, route, om, cachedProps, cachedRoute, changed, syncs,
                     node_infos, sets, expected, hasty>>
      /\ present' = present \cup {o}
  BY DEF Mixer!ObjectComes, Mixer!cache
<1>2. MixerTypeOK'
  BY <1>1 DEF MixerInv, MixerTypeOK
<1>3. RoutesOfDevice' /\ SetsMatch'
  BY <1>1 DEF MixerInv, RoutesOfDevice, SetsMatch, Arriving, Mixer!Actual, Mixer!Of
<1> QED BY <1>1, <1>2, <1>3, MixerFrame DEF MixerInv

LEMMA ObjectGoesInv ==
  ASSUME MixerInv, NEW o \in MixerNodes \cup {"device"}, Mixer!ObjectGoes(o)
  PROVE  MixerInv'
<1>1. /\ UNCHANGED <<enabled, om, cachedProps, cachedRoute, changed, syncs, node_infos, sets>>
      /\ present' = present \ {o}
      /\ IF o = "device"
           THEN route' = [n \in MixerNodes |-> None] /\ UNCHANGED props
           ELSE props' = [props EXCEPT ![o] = Mixer!Silence] /\ UNCHANGED route
      /\ hasty' = IF sets = <<>> THEN hasty ELSE MixerNodes
      /\ expected' = [n \in MixerNodes |->
                        IF n \in hasty' THEN Mixer!Silence ELSE Mixer!Of(props', route', n)]
  BY DEF Mixer!ObjectGoes, Mixer!cache
<1>2. Mixer!Silence \in Vol
  BY DEF Mixer!Silence, Vol, Mixer!Volume
<1>3. props' \in [MixerNodes -> Vol] /\ route' \in [MixerNodes -> Vol \cup {None}]
  BY <1>1, <1>2 DEF MixerInv, MixerTypeOK
<1>4. \A n \in MixerNodes : Mixer!Of(props', route', n) \in Vol
  BY <1>3 DEF Mixer!Of
<1>5. MixerTypeOK'
  BY <1>1, <1>2, <1>3, <1>4, MixerFrame DEF MixerInv, MixerTypeOK
<1>6. RoutesOfDevice'
  BY <1>1 DEF MixerInv, RoutesOfDevice
<1>7. SetsMatch'
  BY <1>1 DEF SetsMatch, Arriving, Mixer!Actual
<1> QED BY <1>1, <1>5, <1>6, <1>7, MixerFrame DEF MixerInv

LEMMA MixerNextInv == MixerInv /\ Mixer!MixerNext => MixerInv'
BY ObjectsChangedInv, SyncDoneInv, SetArrivesInv, ObjectManagedInv, ParamsChangedInv, EnableInv,
   SetVolumeInv, OthersChangeInv, ObjectComesInv, ObjectGoesInv
   DEF Mixer!MixerNext

LEMMA MixerStutter == MixerInv /\ UNCHANGED mixerVars => MixerInv'
<1> SUFFICES ASSUME MixerInv, UNCHANGED mixerVars PROVE MixerInv'
  OBVIOUS
<1>1. UNCHANGED <<enabled, present, props, route, om, cachedProps, cachedRoute, changed, syncs,
                  node_infos, sets, expected, hasty>>
  BY DEF mixerVars
<1>2. MixerTypeOK'
  BY <1>1 DEF MixerInv, MixerTypeOK
<1> QED BY <1>1, <1>2, MixerFrame, ServerFrame DEF MixerInv

LEMMA MixerInvRight == MixerInv => VolumesRight
<1> SUFFICES ASSUME MixerInv PROVE Mixer!VolumesRight
  BY DEF VolumesRight
<1>1. Mixer!InfoIsCurrent
  BY QuietInfo DEF Mixer!InfoIsCurrent
<1>2. Mixer!ChannelsKept
  BY DEF Mixer!ChannelsKept, MixerInv, MixerTypeOK, SetsMatch
<1> QED BY <1>1, <1>2 DEF Mixer!VolumesRight

(* Whatever the clients, the server and the object manager do, and in      *)
(* whatever order it is reported: with nothing on its way the mixer tells  *)
(* of each node what the server has, and each channel of a node has the    *)
(* volume that a client that is not hasty asked for last                   *)
(* (module-mixer-api.c).                                                   *)
THEOREM SessionVolumesRight == Spec => []VolumesRight
<1>1. Init => MixerInv
  BY MixerInitInv DEF Init
<1>2. MixerInv /\ [Next]_vars => MixerInv'
  <2> SUFFICES ASSUME MixerInv, [Next]_vars PROVE MixerInv'
    OBVIOUS
  <2>1. CASE UNCHANGED mixerVars
    BY <2>1, MixerStutter
  <2>2. CASE MixerOnly /\ Mixer!MixerNext
    BY <2>2, MixerNextInv
  <2> QED BY <2>1, <2>2
       DEF Next, vars, AlsaOnly, BluezOnly, BluetoothOnly, StreamsOnly
<1> QED BY <1>1, <1>2, MixerInvRight, PTL DEF Spec

-----------------------------------------------------------------------------
BluezTypeOK ==
  /\ active \in BOOLEAN
  /\ bluez \in [BluezDevices -> {"gone", "connected", "disconnected"}]
  /\ object \in [BluezDevices -> BOOLEAN] /\ activating \in [BluezDevices -> BOOLEAN]
  /\ bluez_enabled \in [BluezDevices -> BOOLEAN]
  /\ nodes \in [BluezDevices -> SUBSET Ids] /\ combine \in [BluezDevices -> SUBSET Ids]
  /\ managed \in [BluezDevices -> [Ids -> {None, "local", "node of the set"}]]
  /\ announced \in [BluezDevices -> [Ids -> Nat]]
  /\ bluez_present \in [BluezDevices -> SUBSET Ids] /\ configured \in [BluezDevices -> SUBSET Ids]

(* MirrorsBlueZ and VolumesReachNodes, of one device; one that is not       *)
(* enabled has nothing on its way either, and only sets are announced.      *)
BluezOf(d) ==
  /\ object[d] <=> active /\ bluez[d] # "gone"
  /\ object[d] /\ bluez[d] = "connected" => bluez_enabled[d] \/ activating[d]
  /\ ~object[d] => ~bluez_enabled[d] /\ ~activating[d]
  /\ combine[d] = nodes[d] \cap Leaders
  /\ \A i \in Ids :
       /\ managed[d][i] = "local" <=> i \in nodes[d] \ Leaders
       /\ ~bluez_enabled[d] => managed[d][i] = None /\ i \notin nodes[d] /\ announced[d][i] = 0
       /\ announced[d][i] # 0 => i \in Leaders
       /\ i \in nodes[d] /\ i \in Leaders /\ i \in bluez_present[d] /\ announced[d][i] = 0
            => i \in configured[d] /\ managed[d][i] = "node of the set"

BluezInv == BluezTypeOK /\ \A d \in BluezDevices : BluezOf(d)

(* What is cleared has nothing left, and the rest is as it was.            *)
LEMMA ClearedType ==
  ASSUME BluezTypeOK, NEW ds, Bluez!Cleared(ds)
  PROVE  /\ bluez_enabled' \in [BluezDevices -> BOOLEAN]
         /\ nodes' \in [BluezDevices -> SUBSET Ids] /\ combine' \in [BluezDevices -> SUBSET Ids]
         /\ managed' \in [BluezDevices -> [Ids -> {None, "local", "node of the set"}]]
         /\ announced' \in [BluezDevices -> [Ids -> Nat]]
         /\ bluez_present' \in [BluezDevices -> SUBSET Ids]
         /\ configured' \in [BluezDevices -> SUBSET Ids]
BY DEF Bluez!Cleared, BluezTypeOK, Bluez!NoObjects

LEMMA BluezConstants == None # "local" /\ None # "node of the set"
BY SessionAssumption DEF Bluez!ConstantsOK

LEMMA ClearedIsOf ==
  ASSUME BluezTypeOK, NEW ds, Bluez!Cleared(ds), NEW d \in BluezDevices, d \in ds,
         object'[d] <=> active' /\ bluez'[d] # "gone",
         object'[d] => bluez'[d] # "connected",
         ~object'[d] => ~activating'[d]
  PROVE  BluezOf(d)'
<1>1. /\ ~bluez_enabled'[d] /\ nodes'[d] = {} /\ combine'[d] = {}
      /\ \A i \in Ids : managed'[d][i] = None /\ announced'[d][i] = 0
  BY DEF Bluez!Cleared, Bluez!NoObjects
<1> QED BY <1>1, BluezConstants DEF BluezOf

LEMMA BluezInitInv == Bluez!BluezInit => BluezInv
<1> SUFFICES ASSUME Bluez!BluezInit PROVE BluezInv
  OBVIOUS
<1>1. BluezTypeOK
  <2>1. active \in BOOLEAN
    BY Zenon DEF Bluez!BluezInit
  <2> QED BY <2>1 DEF Bluez!BluezInit, BluezTypeOK, Bluez!NoObjects
<1>2. ASSUME NEW d \in BluezDevices PROVE BluezOf(d)
  <2>1. /\ bluez[d] = "gone" /\ ~object[d] /\ ~activating[d] /\ ~bluez_enabled[d]
        /\ nodes[d] = {} /\ combine[d] = {}
        /\ \A i \in Ids : managed[d][i] = None /\ announced[d][i] = 0
    BY DEF Bluez!BluezInit, Bluez!NoObjects
  <2> QED BY <2>1, BluezConstants DEF BluezOf
<1> QED BY <1>1, <1>2 DEF BluezInv

(* What is not changed of a device stays right.                            *)
LEMMA BluezOfFrame ==
  ASSUME NEW d \in BluezDevices, BluezOf(d),
         /\ nodes'[d] = nodes[d] /\ combine'[d] = combine[d] /\ managed'[d] = managed[d]
         /\ announced'[d] = announced[d] /\ bluez_present'[d] = bluez_present[d]
         /\ configured'[d] = configured[d],
         bluez_enabled[d] => bluez_enabled'[d],
         object'[d] <=> active' /\ bluez'[d] # "gone",
         object'[d] /\ bluez'[d] = "connected" => bluez_enabled'[d] \/ activating'[d],
         ~object'[d] => ~bluez_enabled'[d] /\ ~activating'[d]
  PROVE  BluezOf(d)'
BY DEF BluezOf

LEMMA ReportedInv ==
  ASSUME BluezInv, NEW d \in BluezDevices, NEW state \in {"connected", "disconnected"},
         Bluez!Reported(d, state)
  PROVE  BluezInv'
<1>1. BluezTypeOK /\ \A b \in BluezDevices : BluezOf(b)
  BY DEF BluezInv
<1>2. active' = active /\ bluez' = [bluez EXCEPT ![d] = state]
  BY DEF Bluez!Reported
<1>3. CASE active
  <2>1. /\ object' = [object EXCEPT ![d] = TRUE]
        /\ activating' = [activating EXCEPT
                            ![d] = @ \/ (state = "connected" /\ ~bluez_enabled[d])]
        /\ Bluez!Cleared(IF state = "connected" THEN {} ELSE {d})
    BY <1>3 DEF Bluez!Reported, Bluez!createDevice
  <2>2. object' \in [BluezDevices -> BOOLEAN] /\ activating' \in [BluezDevices -> BOOLEAN]
    BY <1>1, <2>1 DEF BluezTypeOK
  <2>3. BluezTypeOK'
    BY <1>1, <1>2, <2>1, <2>2, ClearedType DEF BluezTypeOK
  <2>4. ASSUME NEW b \in BluezDevices PROVE BluezOf(b)'
    <3>1. BluezOf(b)
      BY <1>1
    <3>2. CASE b = d /\ state = "disconnected"
      <4>1. /\ object'[b] /\ active' /\ bluez'[b] = "disconnected"
        BY <1>1, <1>2, <1>3, <2>1, <3>2 DEF BluezTypeOK
      <4>2. Bluez!Cleared({d})
        BY <2>1, <3>2
      <4> QED BY <1>1, <3>2, <4>1, <4>2, ClearedIsOf
    <3>3. CASE ~(b = d /\ state = "disconnected")
      <4>1. /\ nodes'[b] = nodes[b] /\ combine'[b] = combine[b] /\ managed'[b] = managed[b]
            /\ announced'[b] = announced[b] /\ bluez_present'[b] = bluez_present[b]
            /\ configured'[b] = configured[b] /\ bluez_enabled'[b] = bluez_enabled[b]
        BY <1>1, <2>1, <3>3 DEF Bluez!Cleared, BluezTypeOK
      <4>2. CASE b = d
        <5>1. /\ object'[b] /\ active' /\ bluez'[b] = "connected"
              /\ bluez_enabled[b] \/ activating'[b]
          BY <1>1, <1>2, <1>3, <2>1, <3>3, <4>2 DEF BluezTypeOK
        <5> QED BY <3>1, <4>1, <5>1, BluezOfFrame
      <4>3. CASE b # d
        <5>1. object'[b] = object[b] /\ activating'[b] = activating[b] /\ bluez'[b] = bluez[b]
          BY <1>1, <1>2, <2>1, <4>3 DEF BluezTypeOK
        <5> QED BY <1>2, <3>1, <4>1, <5>1, BluezOfFrame DEF BluezOf
      <4> QED BY <4>2, <4>3
    <3> QED BY <3>2, <3>3
  <2> QED BY <2>3, <2>4 DEF BluezInv
<1>4. CASE ~active
  <2>1. UNCHANGED <<object, activating, bluez_enabled, nodes, managed, combine, announced,
                    bluez_present, configured>>
    BY <1>4 DEF Bluez!Reported
  <2>2. BluezTypeOK'
    BY <1>1, <1>2, <2>1 DEF BluezTypeOK
  <2>3. ASSUME NEW b \in BluezDevices PROVE BluezOf(b)'
    BY <1>1, <1>2, <1>4, <2>1 DEF BluezTypeOK, BluezOf
  <2> QED BY <2>2, <2>3 DEF BluezInv
<1> QED BY <1>3, <1>4

(* One device is removed, or the monitor stops, and with it all of them.   *)
LEMMA DestroyedInv ==
  ASSUME BluezInv, Bluez!stopMonitor \/ \E d \in BluezDevices : Bluez!Removed(d)
  PROVE  BluezInv'
<1>1. BluezTypeOK /\ \A b \in BluezDevices : BluezOf(b)
  BY DEF BluezInv
<1>2. PICK ds \in SUBSET BluezDevices :
        /\ Bluez!Destroyed(ds)
        /\ \/ active' = FALSE /\ ds = BluezDevices /\ bluez' = bluez
           \/ \E d \in BluezDevices : /\ ds = {d} /\ active' = active
                                      /\ bluez' = [bluez EXCEPT ![d] = "gone"]
  <2>1. CASE Bluez!stopMonitor
    BY <2>1 DEF Bluez!stopMonitor
  <2>2. ASSUME NEW d \in BluezDevices, Bluez!Removed(d)
        PROVE  /\ Bluez!Destroyed({d}) /\ active' = active
               /\ bluez' = [bluez EXCEPT ![d] = "gone"]
    BY <2>2 DEF Bluez!Removed
  <2> QED BY <2>1, <2>2
<1>3. /\ object' = [b \in BluezDevices |-> object[b] /\ b \notin ds]
      /\ activating' = [b \in BluezDevices |-> activating[b] /\ b \notin ds]
      /\ Bluez!Cleared(ds)
  BY <1>2 DEF Bluez!Destroyed
<1>4. BluezTypeOK'
  <2>1. object' \in [BluezDevices -> BOOLEAN] /\ activating' \in [BluezDevices -> BOOLEAN]
    BY <1>3
  <2>2. active' \in BOOLEAN
    BY <1>1, <1>2, Zenon DEF BluezTypeOK
  <2>3. bluez' \in [BluezDevices -> {"gone", "connected", "disconnected"}]
    BY <1>1, <1>2 DEF BluezTypeOK
  <2> QED BY <1>1, <1>3, <2>1, <2>2, <2>3, ClearedType DEF BluezTypeOK
<1>5. ASSUME NEW b \in BluezDevices PROVE BluezOf(b)'
  <2>1. BluezOf(b) /\ b \in BluezDevices
    BY <1>1
  <2>2. CASE b \in ds
    <3>1. ~object'[b] /\ ~activating'[b] /\ ~(active' /\ bluez'[b] # "gone")
      BY <1>1, <1>2, <1>3, <2>2 DEF BluezTypeOK
    <3> QED BY <1>1, <1>3, <2>2, <3>1, ClearedIsOf
  <2>3. CASE b \notin ds
    <3>1. /\ object'[b] = object[b] /\ activating'[b] = activating[b] /\ bluez'[b] = bluez[b]
          /\ active' = active
      BY <1>1, <1>2, <1>3, <2>3 DEF BluezTypeOK
    <3>2. /\ nodes'[b] = nodes[b] /\ combine'[b] = combine[b] /\ managed'[b] = managed[b]
          /\ announced'[b] = announced[b] /\ bluez_present'[b] = bluez_present[b]
          /\ configured'[b] = configured[b] /\ bluez_enabled'[b] = bluez_enabled[b]
      BY <1>1, <1>3, <2>3 DEF Bluez!Cleared, BluezTypeOK
    <3> QED BY <2>1, <3>1, <3>2, BluezOfFrame DEF BluezOf
  <2> QED BY <2>2, <2>3
<1> QED BY <1>4, <1>5 DEF BluezInv

LEMMA MonitorInv ==
  ASSUME BluezInv, Bluez!createMonitor \/ \E d \in BluezDevices : Bluez!Enabled(d)
  PROVE  BluezInv'
<1>1. BluezTypeOK /\ \A b \in BluezDevices : BluezOf(b)
  BY DEF BluezInv
<1>2. UNCHANGED <<bluez, nodes, managed, combine, announced, bluez_present, configured>>
  BY DEF Bluez!createMonitor, Bluez!Enabled
<1>3. CASE Bluez!createMonitor
  <2>1. /\ ~active /\ active' = TRUE /\ bluez_enabled' = bluez_enabled
        /\ object' = [d \in BluezDevices |-> bluez[d] # "gone"]
        /\ activating' = [d \in BluezDevices |-> bluez[d] = "connected"]
    BY <1>3 DEF Bluez!createMonitor
  <2>2. BluezTypeOK'
    BY <1>1, <1>2, <2>1 DEF BluezTypeOK
  <2>3. ASSUME NEW b \in BluezDevices PROVE BluezOf(b)'
    BY <1>1, <1>2, <2>1 DEF BluezTypeOK, BluezOf
  <2> QED BY <2>2, <2>3 DEF BluezInv
<1>4. ASSUME NEW d \in BluezDevices, Bluez!Enabled(d) PROVE BluezInv'
  <2>1. /\ activating[d] /\ UNCHANGED <<active, object>>
        /\ activating' = [activating EXCEPT ![d] = FALSE]
        /\ bluez_enabled' = [bluez_enabled EXCEPT ![d] = TRUE]
    BY <1>4 DEF Bluez!Enabled
  <2>2. BluezTypeOK'
    BY <1>1, <1>2, <2>1 DEF BluezTypeOK
  <2>3. ASSUME NEW b \in BluezDevices PROVE BluezOf(b)'
    <3>1. BluezOf(b) /\ BluezOf(d)
      BY <1>1
    <3>2. /\ bluez_enabled[b] => bluez_enabled'[b]
          /\ bluez_enabled'[b] \/ activating'[b] <=> bluez_enabled[b] \/ activating[b]
      BY <1>1, <2>1 DEF BluezTypeOK
    <3> QED BY <1>2, <2>1, <3>1, <3>2, BluezOfFrame DEF BluezOf
  <2> QED BY <2>2, <2>3 DEF BluezInv
<1> QED BY <1>3, <1>4

LEMMA createNodeInv ==
  ASSUME BluezInv, NEW d \in BluezDevices, NEW i \in Ids, Bluez!createNode(d, i)
  PROVE  BluezInv'
<1>1. BluezTypeOK /\ \A b \in BluezDevices : BluezOf(b)
  BY DEF BluezInv
<1>2. /\ UNCHANGED <<active, bluez, object, activating, bluez_enabled, bluez_present>>
      /\ bluez_enabled[d] /\ i \notin nodes[d] /\ nodes' = [nodes EXCEPT ![d] = @ \cup {i}]
  BY DEF Bluez!createNode
<1>3. IF i \in Leaders
        THEN /\ announced' = [announced EXCEPT ![d][i] = @ + 1]
             /\ combine' = [combine EXCEPT ![d] = @ \cup {i}]
             /\ UNCHANGED <<managed, configured>>
        ELSE /\ managed' = [managed EXCEPT ![d][i] = "local"]
             /\ configured' = [configured EXCEPT ![d] = @ \cup {i}]
             /\ UNCHANGED <<combine, announced>>
  BY DEF Bluez!createNode
<1>4. /\ announced[d] \in [Ids -> Nat]
      /\ managed[d] \in [Ids -> {None, "local", "node of the set"}]
  BY <1>1 DEF BluezTypeOK
<1>5. announced[d][i] \in Nat /\ announced[d][i] + 1 \in Nat /\ announced[d][i] + 1 # 0
  <2>1. announced[d][i] \in Nat
    BY <1>4
  <2> QED BY <2>1
<1>6. nodes' \in [BluezDevices -> SUBSET Ids] /\ nodes'[d] = nodes[d] \cup {i}
  BY <1>1, <1>2 DEF BluezTypeOK
<1>7. CASE i \in Leaders
  <2>1. /\ announced' = [announced EXCEPT ![d] = [announced[d] EXCEPT ![i] = announced[d][i] + 1]]
        /\ combine' = [combine EXCEPT ![d] = @ \cup {i}]
        /\ UNCHANGED <<managed, configured>>
    BY <1>3, <1>7
  <2>2. [announced[d] EXCEPT ![i] = announced[d][i] + 1] \in [Ids -> Nat]
    BY <1>4, <1>5
  <2>3. announced' \in [BluezDevices -> [Ids -> Nat]]
    BY <1>1, <2>1, <2>2 DEF BluezTypeOK
  <2>4. combine' \in [BluezDevices -> SUBSET Ids]
    BY <1>1, <2>1 DEF BluezTypeOK
  <2>5. BluezTypeOK'
    BY <1>1, <1>2, <1>6, <2>1, <2>3, <2>4 DEF BluezTypeOK
  <2>6. ASSUME NEW b \in BluezDevices, b # d PROVE BluezOf(b)'
    <3>1. BluezOf(b)
      BY <1>1
    <3>2. /\ nodes'[b] = nodes[b] /\ combine'[b] = combine[b] /\ announced'[b] = announced[b]
      BY <1>1, <1>2, <2>1, <2>6 DEF BluezTypeOK
    <3> QED BY <1>2, <2>1, <3>1, <3>2, BluezOfFrame DEF BluezOf
  <2>7. BluezOf(d)'
    <3>1. combine'[d] = combine[d] \cup {i}
      BY <1>1, <2>1 DEF BluezTypeOK
    <3>2. announced'[d] = [announced[d] EXCEPT ![i] = announced[d][i] + 1]
      BY <1>1, <2>1 DEF BluezTypeOK
    <3>3. announced'[d][i] # 0 /\ \A j \in Ids : j # i => announced'[d][j] = announced[d][j]
      BY <1>4, <1>5, <3>2
    <3>4. BluezOf(d)
      BY <1>1
    <3>5. combine'[d] = nodes'[d] \cap Leaders
      BY <1>6, <1>7, <3>1, <3>4 DEF BluezOf
    <3>6. ASSUME NEW j \in Ids
          PROVE  /\ managed[d][j] = "local" <=> j \in nodes'[d] \ Leaders
                 /\ announced'[d][j] # 0 => j \in Leaders
                 /\ j \in nodes'[d] \cap Leaders \cap bluez_present[d] /\ announced'[d][j] = 0
                      => j \in configured[d] /\ managed[d][j] = "node of the set"
      BY <1>6, <1>7, <3>3, <3>4 DEF BluezOf
    <3> QED BY <1>2, <2>1, <3>4, <3>5, <3>6 DEF BluezOf
  <2> QED BY <2>5, <2>6, <2>7 DEF BluezInv
<1>8. CASE i \notin Leaders
  <2>1. /\ managed' = [managed EXCEPT ![d] = [managed[d] EXCEPT ![i] = "local"]]
        /\ configured' = [configured EXCEPT ![d] = @ \cup {i}]
        /\ UNCHANGED <<combine, announced>>
    BY <1>3, <1>8
  <2>2. managed' \in [BluezDevices -> [Ids -> {None, "local", "node of the set"}]]
    BY <1>1, <1>4, <2>1 DEF BluezTypeOK
  <2>3. configured' \in [BluezDevices -> SUBSET Ids]
    BY <1>1, <2>1 DEF BluezTypeOK
  <2>4. BluezTypeOK'
    BY <1>1, <1>2, <1>6, <2>1, <2>2, <2>3 DEF BluezTypeOK
  <2>5. ASSUME NEW b \in BluezDevices, b # d PROVE BluezOf(b)'
    <3>1. BluezOf(b)
      BY <1>1
    <3>2. /\ nodes'[b] = nodes[b] /\ managed'[b] = managed[b] /\ configured'[b] = configured[b]
      BY <1>1, <1>2, <2>1, <2>5 DEF BluezTypeOK
    <3> QED BY <1>2, <2>1, <3>1, <3>2, BluezOfFrame DEF BluezOf
  <2>6. BluezOf(d)'
    <3>1. configured[d] \subseteq configured'[d]
      BY <1>1, <2>1 DEF BluezTypeOK
    <3>2. managed'[d] = [managed[d] EXCEPT ![i] = "local"]
      BY <1>1, <2>1 DEF BluezTypeOK
    <3>3. managed'[d][i] = "local" /\ \A j \in Ids : j # i => managed'[d][j] = managed[d][j]
      BY <1>4, <3>2
    <3>4. BluezOf(d)
      BY <1>1
    <3> QED BY <1>2, <1>6, <1>8, <2>1, <3>1, <3>3, <3>4 DEF BluezOf
  <2> QED BY <2>4, <2>5, <2>6 DEF BluezInv
<1> QED BY <1>7, <1>8

LEMMA removeNodeInv ==
  ASSUME BluezInv, NEW d \in BluezDevices, NEW i \in Ids, Bluez!removeNode(d, i)
  PROVE  BluezInv'
<1>1. BluezTypeOK /\ \A b \in BluezDevices : BluezOf(b)
  BY DEF BluezInv
<1>2. /\ UNCHANGED <<active, bluez, object, activating, bluez_enabled, announced, bluez_present>>
      /\ bluez_enabled[d] /\ nodes' = [nodes EXCEPT ![d] = @ \ {i}]
      /\ combine' = [combine EXCEPT ![d] = @ \ {i}]
      /\ managed' = [managed EXCEPT ![d][i] = None]
      /\ configured' = [configured EXCEPT ![d] = @ \ {i}]
  BY DEF Bluez!removeNode
<1>3. managed[d] \in [Ids -> {None, "local", "node of the set"}]
  BY <1>1 DEF BluezTypeOK
<1>4. BluezTypeOK'
  BY <1>1, <1>2, <1>3 DEF BluezTypeOK
<1>5. ASSUME NEW b \in BluezDevices PROVE BluezOf(b)'
  <2>1. BluezOf(b)
    BY <1>1
  <2>2. CASE b # d
    <3>1. /\ nodes'[b] = nodes[b] /\ combine'[b] = combine[b] /\ managed'[b] = managed[b]
          /\ configured'[b] = configured[b]
      BY <1>1, <1>2, <2>2 DEF BluezTypeOK
    <3> QED BY <1>2, <2>1, <3>1, BluezOfFrame DEF BluezOf
  <2>3. CASE b = d
    <3>1. /\ nodes'[b] = nodes[b] \ {i} /\ combine'[b] = combine[b] \ {i}
          /\ managed'[b][i] = None /\ configured'[b] = configured[b] \ {i}
          /\ \A j \in Ids : j # i => managed'[b][j] = managed[b][j]
      BY <1>1, <1>2, <1>3, <2>3 DEF BluezTypeOK
    <3> QED BY <1>2, <2>1, <2>3, <3>1, BluezConstants DEF BluezOf
  <2> QED BY <2>2, <2>3
<1> QED BY <1>4, <1>5 DEF BluezInv

(* The nodes of sets come back through the server, and are told of volumes *)
(* then; the volumes of the others are passed on.                          *)
LEMMA SetNodesInv ==
  ASSUME BluezInv, NEW d \in BluezDevices, NEW i \in Ids,
         Bluez!SetNodeAdded(d, i) \/ Bluez!SetNodeGone(d, i) \/ Bluez!SetRoute(d, i)
  PROVE  BluezInv'
<1>1. BluezTypeOK /\ \A b \in BluezDevices : BluezOf(b)
  BY DEF BluezInv
<1>2. UNCHANGED <<active, bluez, object, activating, bluez_enabled, nodes, combine>>
  BY DEF Bluez!SetNodeAdded, Bluez!SetNodeGone, Bluez!SetRoute
<1>3. /\ announced[d] \in [Ids -> Nat]
      /\ managed[d] \in [Ids -> {None, "local", "node of the set"}]
  BY <1>1 DEF BluezTypeOK
<1>4. CASE Bluez!SetNodeAdded(d, i)
  <2>1. /\ announced[d][i] > 0
        /\ announced' = [announced EXCEPT ![d][i] = @ - 1]
        /\ bluez_present' = [bluez_present EXCEPT ![d] = @ \cup {i}]
        /\ managed' = [managed EXCEPT ![d][i] = "node of the set"]
        /\ configured' = [configured EXCEPT ![d] = @ \cup {i}]
    BY <1>4 DEF Bluez!SetNodeAdded
  <2>2. announced[d][i] - 1 \in Nat /\ announced[d][i] # 0
    <3>1. announced[d][i] \in Nat
      BY <1>3
    <3>2. announced[d][i] > 0
      BY <2>1
    <3>3. \A k \in Nat : k > 0 => k - 1 \in Nat /\ k # 0
      OBVIOUS
    <3> QED BY <3>1, <3>2, <3>3, Zenon
  <2>3. BluezTypeOK'
    BY <1>1, <1>2, <1>3, <2>1, <2>2 DEF BluezTypeOK
  <2>4. bluez_enabled[d] /\ i \in Leaders
    BY <1>1, <2>2 DEF BluezOf
  <2>5. ASSUME NEW b \in BluezDevices PROVE BluezOf(b)'
    <3>1. BluezOf(b)
      BY <1>1
    <3>2. CASE b # d
      <4>1. /\ announced'[b] = announced[b] /\ managed'[b] = managed[b]
            /\ bluez_present'[b] = bluez_present[b] /\ configured'[b] = configured[b]
        BY <1>1, <2>1, <3>2 DEF BluezTypeOK
      <4> QED BY <1>2, <3>1, <4>1, BluezOfFrame DEF BluezOf
    <3>3. CASE b = d
      <4>1. /\ bluez_present'[b] = bluez_present[b] \cup {i}
            /\ configured'[b] = configured[b] \cup {i}
            /\ managed'[b][i] = "node of the set"
            /\ \A j \in Ids : j # i => /\ managed'[b][j] = managed[b][j]
                                       /\ announced'[b][j] = announced[b][j]
        BY <1>1, <1>3, <2>1, <3>3 DEF BluezTypeOK
      <4>2. ASSUME NEW j \in Ids
            PROVE  /\ managed'[b][j] = "local" <=> j \in nodes[b] \ Leaders
                   /\ announced'[b][j] # 0 => j \in Leaders
                   /\ j \in nodes[b] \cap Leaders \cap bluez_present'[b] /\ announced'[b][j] = 0
                        => j \in configured'[b] /\ managed'[b][j] = "node of the set"
        <5>1. CASE j = i
          BY <2>4, <3>1, <4>1, <5>1 DEF BluezOf
        <5>2. CASE j # i
          <6>1. /\ managed'[b][j] = managed[b][j] /\ announced'[b][j] = announced[b][j]
                /\ j \in bluez_present'[b] <=> j \in bluez_present[b]
                /\ j \in configured'[b] <=> j \in configured[b]
            BY <4>1, <5>2
          <6> QED BY <3>1, <6>1 DEF BluezOf
        <5> QED BY <5>1, <5>2
      <4> QED BY <1>2, <2>4, <3>1, <3>3, <4>2 DEF BluezOf
    <3> QED BY <3>2, <3>3
  <2> QED BY <2>3, <2>5 DEF BluezInv
<1>5. CASE Bluez!SetNodeGone(d, i)
  <2>1. /\ bluez_present' = [bluez_present EXCEPT ![d] = @ \ {i}]
        /\ UNCHANGED <<managed, announced, configured>>
    BY <1>5 DEF Bluez!SetNodeGone
  <2>2. BluezTypeOK'
    BY <1>1, <1>2, <2>1 DEF BluezTypeOK
  <2>3. ASSUME NEW b \in BluezDevices PROVE BluezOf(b)'
    <3>1. bluez_present'[b] \subseteq bluez_present[b]
      BY <1>1, <2>1 DEF BluezTypeOK
    <3> QED BY <1>1, <1>2, <2>1, <3>1 DEF BluezOf
  <2> QED BY <2>2, <2>3 DEF BluezInv
<1>6. CASE Bluez!SetRoute(d, i)
  <2>1. /\ configured' = [configured EXCEPT ![d] =
                            IF managed[d][i] # None THEN @ \cup {i} ELSE @ \ {i}]
        /\ UNCHANGED <<managed, announced, bluez_present>>
    BY <1>6 DEF Bluez!SetRoute
  <2>2. BluezTypeOK'
    BY <1>1, <1>2, <2>1 DEF BluezTypeOK
  <2>3. ASSUME NEW b \in BluezDevices PROVE BluezOf(b)'
    <3>1. \A j \in configured[b] : managed[b][j] # None => j \in configured'[b]
      BY <1>1, <2>1 DEF BluezTypeOK
    <3> QED BY <1>1, <1>2, <2>1, <3>1, BluezConstants DEF BluezOf
  <2> QED BY <2>2, <2>3 DEF BluezInv
<1> QED BY <1>4, <1>5, <1>6

LEMMA BluezNextInv == BluezInv /\ [Bluez!BluezNext]_bluezVars => BluezInv'
<1> SUFFICES ASSUME BluezInv, [Bluez!BluezNext]_bluezVars PROVE BluezInv'
  OBVIOUS
<1>1. CASE Bluez!BluezNext
  BY <1>1, ReportedInv, DestroyedInv, MonitorInv, createNodeInv, removeNodeInv, SetNodesInv
     DEF Bluez!BluezNext
<1>2. CASE UNCHANGED bluezVars
  <2>1. BluezTypeOK'
    BY <1>2 DEF bluezVars, BluezInv, BluezTypeOK
  <2>2. ASSUME NEW d \in BluezDevices PROVE BluezOf(d)'
    BY <1>2 DEF bluezVars, BluezInv, BluezOf
  <2> QED BY <2>1, <2>2 DEF BluezInv
<1> QED BY <1>1, <1>2

LEMMA BluezInvRight == BluezInv => BluezRight
<1> SUFFICES ASSUME BluezInv, NEW d \in BluezDevices
             PROVE  /\ object[d] <=> active /\ bluez[d] # "gone"
                    /\ object[d] /\ bluez[d] = "connected" => bluez_enabled[d] \/ activating[d]
                    /\ combine[d] = nodes[d] \cap Leaders
                    /\ {i \in Ids : managed[d][i] = "local"} = nodes[d] \ Leaders
                    /\ ~object[d] => ~bluez_enabled[d] /\ ~activating[d]
                    /\ ~bluez_enabled[d] => managed[d] = Bluez!NoObjects
                    /\ \A i \in nodes[d] :
                         i \in Leaders /\ i \in bluez_present[d] /\ announced[d][i] = 0
                           => i \in configured[d] /\ managed[d][i] = "node of the set"
  BY DEF BluezRight, Bluez!BluezRight, Bluez!MirrorsBlueZ, Bluez!VolumesReachNodes
<1>1. BluezOf(d) /\ nodes[d] \subseteq Ids
  BY DEF BluezInv, BluezTypeOK
<1>2. managed[d] \in [Ids -> {None, "local", "node of the set"}]
  BY DEF BluezInv, BluezTypeOK
<1>3. {i \in Ids : managed[d][i] = "local"} = nodes[d] \ Leaders
  BY <1>1 DEF BluezOf
<1>4. ~bluez_enabled[d] => managed[d] = Bluez!NoObjects
  BY <1>1, <1>2 DEF BluezOf, Bluez!NoObjects
<1> QED BY <1>1, <1>3, <1>4 DEF BluezOf

(* There is an object of each device that BlueZ reports to an active seat, *)
(* enabled or being so while it is connected, with just the nodes that it  *)
(* reported; and these, the nodes of device sets included, have the        *)
(* volumes of their routes: however the devices, the seat, the modules of  *)
(* the sets and the server take turns (monitors/bluez.lua).                *)
THEOREM SessionBluezRight == Spec => []BluezRight
<1>1. Init => BluezInv
  BY BluezInitInv DEF Init
<1>2. BluezInv /\ [Next]_vars => BluezInv'
  <2>1. [Next]_vars => [Bluez!BluezNext]_bluezVars
    BY DEF Next, vars, AlsaOnly, BluezOnly, BluetoothOnly, StreamsOnly, MixerOnly
  <2> QED BY <2>1, BluezNextInv
<1> QED BY <1>1, <1>2, BluezInvRight, PTL DEF Spec

-----------------------------------------------------------------------------
Vols == Volumes \cup {DefaultVolume}
Value == [volume : Vols \cup {None}, target : Targets \cup {None}]
Moves == Targets \cup {"-1", None}
StreamNode == [volume : Vols, cached : Vols, reported : BOOLEAN, sets : Seq(Vols)]

StreamsTypeOK ==
  /\ stream_node \in [Streams -> StreamNode \cup {None}]
  /\ targets \subseteq Targets
  /\ metadata \in [Streams -> Moves]
  /\ changes \in Seq(Streams \X Moves)
  /\ state_table \in Value /\ file \in Value /\ chosen \in Value
  /\ timeout_source \in BOOLEAN

Wanted == "props" \in stream_config /\ chosen.volume # None /\ "volume" \notin blurred
AllQuiet == \A s \in Restored!Present : ~Restored!Restoring(s)

(* The volume that is on its way to a stream, or else the one that it has  *)
(* and that is known of it, is v.                                          *)
Reaching(n, v) ==
  IF n.sets # <<>> THEN n.sets[Len(n.sets)] = v
  ELSE n.volume = v /\ (n.reported => n.cached = v)

VolumeComing ==
  Wanted =>
    /\ \A s \in Restored!Present : Reaching(stream_node[s], chosen.volume)
    /\ AllQuiet => state_table.volume = chosen.volume

(* The last change of the metadata that is on its way is what was chosen.  *)
TargetComing ==
  "target" \notin blurred =>
    IF changes = <<>> THEN state_table.target = chosen.target
    ELSE \E s \in Restored!Present, t \in targets \cup {"-1", None} :
           /\ changes[Len(changes)] = <<s, t>> /\ metadata[s] = t
           /\ chosen.target = IF t \in targets THEN t ELSE None

StreamsInv == StreamsTypeOK /\ VolumeComing /\ TargetComing /\ Restored!SavedSoon

LEMMA StreamConstants ==
  /\ None \notin StreamNode /\ None \notin Vols /\ None \notin Targets /\ "-1" \notin Targets
  /\ IsFiniteSet(Streams)
<1>1. Restored!StreamNode = StreamNode
  BY DEF Restored!StreamNode, StreamNode, Vols
<1>2. IsFiniteSet(Streams)
  <2>1. Restored!IsFiniteSet(Streams)
    BY SessionAssumption DEF Restored!ConstantsOK
  <2> QED BY <2>1, Zenon DEF IsFiniteSet, Restored!IsFiniteSet
<1> QED BY SessionAssumption, <1>1, <1>2 DEF Restored!ConstantsOK, Vols

LEMMA SameCardinality == ASSUME NEW S PROVE Restored!Cardinality(S) = Cardinality(S)
BY Zenon DEF Cardinality, Restored!Cardinality, IsFiniteSet, Restored!IsFiniteSet

LEMMA StreamsInitInv == Restored!StreamsInit => StreamsInv
<1> SUFFICES ASSUME Restored!StreamsInit PROVE StreamsInv
  OBVIOUS
<1>1. /\ stream_node = [s \in Streams |-> None] /\ targets = {}
      /\ metadata = [s \in Streams |-> None] /\ changes = <<>>
      /\ state_table = [volume |-> None, target |-> None] /\ file = state_table
      /\ chosen = state_table /\ blurred = {}
  BY DEF Restored!StreamsInit
<1>2. timeout_source = FALSE
  BY Zenon DEF Restored!StreamsInit
<1>3. StreamsTypeOK
  <2>1. changes \in Seq(Streams \X Moves)
    BY <1>1
  <2>2. state_table \in Value
    BY <1>1 DEF Value
  <2> QED BY <1>1, <1>2, <2>1, <2>2 DEF StreamsTypeOK, Moves
<1>4. VolumeComing /\ TargetComing /\ Restored!SavedSoon
  BY <1>1 DEF VolumeComing, Wanted, TargetComing, Restored!SavedSoon
<1> QED BY <1>3, <1>4 DEF StreamsInv

LEMMA LastOfAppend ==
  ASSUME NEW S, NEW q \in Seq(S), NEW e \in S
  PROVE  /\ Append(q, e) # <<>> /\ Append(q, e)[Len(Append(q, e))] = e
         /\ Append(q, e) \in Seq(S)
OBVIOUS

LEMMA LastOfTail ==
  ASSUME NEW S, NEW q \in Seq(S), q # <<>>
  PROVE  /\ Tail(q) \in Seq(S) /\ Head(q) \in S
         /\ Tail(q) = <<>> => Head(q) = q[Len(q)]
         /\ Tail(q) # <<>> => Tail(q)[Len(Tail(q))] = q[Len(q)]
<1>1. Tail(q) \in Seq(S) /\ Head(q) \in S /\ Head(q) = q[1] /\ Len(q) \in Nat \ {0}
      /\ Len(Tail(q)) = Len(q) - 1
  OBVIOUS
<1>2. \A i \in 1..Len(q) - 1 : Tail(q)[i] = q[i + 1]
  OBVIOUS
<1>3. Tail(q) = <<>> => Len(q) = 1
  BY <1>1
<1>4. ASSUME Tail(q) # <<>> PROVE Tail(q)[Len(Tail(q))] = q[Len(q)]
  <2>1. Len(Tail(q)) # 0
    BY <1>1, <1>4
  <2>2. Len(q) - 1 \in 1..Len(q) - 1 /\ Len(q) - 1 + 1 = Len(q)
    BY <1>1, <2>1
  <2> QED BY <1>1, <1>2, <2>2
<1> QED BY <1>1, <1>3, <1>4

LEMMA PresentNode ==
  ASSUME StreamsTypeOK, NEW s \in Restored!Present
  PROVE  s \in Streams /\ stream_node[s] \in StreamNode /\ stream_node[s] # None
BY DEF StreamsTypeOK, Restored!Present

(* Steps that concern only the target, or only the volume.                 *)
LEMMA VolumeFrame ==
  ASSUME VolumeComing, UNCHANGED <<stream_config, stream_node>>,
         chosen'.volume = chosen.volume, state_table'.volume = state_table.volume,
         "volume" \in blurred => "volume" \in blurred'
  PROVE  VolumeComing'
BY DEF VolumeComing, Wanted, AllQuiet, Restored!Present, Restored!Restoring, Reaching

LEMMA TargetFrame ==
  ASSUME TargetComing, UNCHANGED <<targets, metadata, changes>>,
         Restored!Present \subseteq Restored!Present',
         chosen'.target = chosen.target, state_table'.target = state_table.target,
         "target" \in blurred => "target" \in blurred'
  PROVE  TargetComing'
BY DEF TargetComing

-----------------------------------------------------------------------------
LEMMA StreamAddedInv ==
  ASSUME StreamsInv, NEW s \in Streams, Restored!StreamAdded(s)
  PROVE  StreamsInv'
<1>1. /\ UNCHANGED <<stream_config, targets, state_table, timeout_source, file, chosen>>
      /\ stream_node[s] = None
      /\ blurred' = blurred
           \cup (IF \E r \in Restored!Present : Restored!Restoring(r) THEN {"volume"} ELSE {})
           \cup (IF changes # <<>> THEN {"target"} ELSE {})
  BY DEF Restored!StreamAdded
<1>2. \/ /\ state_table.target \in targets
         /\ metadata' = [metadata EXCEPT ![s] = state_table.target]
         /\ changes' = Append(changes, <<s, state_table.target>>)
      \/ UNCHANGED <<metadata, changes>>
  BY DEF Restored!StreamAdded, Restored!restoreTarget
<1>3. PICK v \in Vols :
        /\ "props" \notin stream_config => v = DefaultVolume
        /\ stream_node' = [stream_node EXCEPT ![s] =
             [volume |-> v, cached |-> v, reported |-> TRUE,
              sets |-> IF "props" \in stream_config THEN <<Restored!RestoredVolume>> ELSE <<>>]]
  BY DEF Restored!StreamAdded, Vols
<1>4. Restored!RestoredVolume \in Vols
  BY DEF StreamsInv, StreamsTypeOK, Value, Vols, Restored!RestoredVolume
<1> DEFINE n == [volume |-> v, cached |-> v, reported |-> TRUE,
                 sets |-> IF "props" \in stream_config THEN <<Restored!RestoredVolume>> ELSE <<>>]
<1>5. n \in StreamNode /\ n # None
  <2>1. <<Restored!RestoredVolume>> \in Seq(Vols) /\ <<>> \in Seq(Vols)
    BY <1>4
  <2>2. n \in StreamNode
    BY <2>1 DEF StreamNode
  <2> QED BY <2>2, StreamConstants
<1>6. "props" \in stream_config =>
        n.sets # <<>> /\ Len(n.sets) = 1 /\ n.sets[1] = Restored!RestoredVolume
  OBVIOUS
<1>7. stream_node' = [stream_node EXCEPT ![s] = n]
  BY <1>3
<1> HIDE DEF n
<1>8. /\ stream_node' \in [Streams -> StreamNode \cup {None}] /\ stream_node'[s] = n
      /\ \A r \in Streams : r # s => stream_node'[r] = stream_node[r]
  BY <1>5, <1>7 DEF StreamsInv, StreamsTypeOK
<1>9. Restored!Present' = Restored!Present \cup {s}
  BY <1>5, <1>8 DEF Restored!Present
<1>10. StreamsTypeOK'
  <2>1. metadata' \in [Streams -> Moves] /\ changes' \in Seq(Streams \X Moves)
    <3>1. metadata \in [Streams -> Moves] /\ changes \in Seq(Streams \X Moves)
      BY DEF StreamsInv, StreamsTypeOK
    <3>2. CASE /\ state_table.target \in targets
               /\ metadata' = [metadata EXCEPT ![s] = state_table.target]
               /\ changes' = Append(changes, <<s, state_table.target>>)
      <4>1. state_table.target \in Moves
        BY <3>2 DEF StreamsInv, StreamsTypeOK, Moves
      <4>2. <<s, state_table.target>> \in Streams \X Moves
        BY <4>1
      <4> QED BY <3>1, <3>2, <4>1, <4>2
    <3> QED BY <1>2, <3>1, <3>2
  <2> QED BY <1>1, <1>8, <2>1 DEF StreamsInv, StreamsTypeOK
<1>11. VolumeComing'
  <2> SUFFICES ASSUME Wanted'
               PROVE  /\ \A r \in Restored!Present' : Reaching(stream_node'[r], chosen.volume)
                      /\ ~AllQuiet'
    BY <1>1 DEF VolumeComing
  <2>1. Wanted /\ AllQuiet /\ "props" \in stream_config
    BY <1>1 DEF Wanted, AllQuiet
  <2>2. Restored!RestoredVolume = chosen.volume
    BY <2>1 DEF StreamsInv, VolumeComing, Wanted, Restored!RestoredVolume
  <2>3. Reaching(n, chosen.volume) /\ n.sets # <<>>
    BY <1>6, <2>1, <2>2 DEF Reaching
  <2>4. s \in Restored!Present' /\ Restored!Restoring(s)'
    BY <1>8, <1>9, <2>3 DEF Restored!Restoring
  <2>5. ASSUME NEW r \in Restored!Present' PROVE Reaching(stream_node'[r], chosen.volume)
    <3>1. CASE r = s
      BY <1>8, <2>3, <3>1
    <3>2. CASE r # s
      <4>1. r \in Restored!Present /\ stream_node'[r] = stream_node[r]
        BY <1>8, <1>9, <2>5, <3>2 DEF Restored!Present
      <4> QED BY <2>1, <4>1 DEF StreamsInv, VolumeComing
    <3> QED BY <3>1, <3>2
  <2> QED BY <2>4, <2>5 DEF AllQuiet
<1>12. TargetComing'
  <2>1. CASE UNCHANGED <<metadata, changes>>
    <3>1. Restored!Present \subseteq Restored!Present'
      BY <1>9
    <3> QED BY <1>1, <2>1, <3>1, TargetFrame DEF StreamsInv
  <2>2. CASE /\ state_table.target \in targets
             /\ metadata' = [metadata EXCEPT ![s] = state_table.target]
             /\ changes' = Append(changes, <<s, state_table.target>>)
    <3> DEFINE t == state_table.target
    <3> SUFFICES ASSUME "target" \notin blurred'
                 PROVE  /\ changes' # <<>> /\ changes'[Len(changes')] = <<s, t>>
                        /\ s \in Restored!Present' /\ metadata'[s] = t
                        /\ t \in targets' \cup {"-1", None}
                        /\ chosen'.target = IF t \in targets' THEN t ELSE None
      BY DEF TargetComing
    <3>1. "target" \notin blurred /\ changes = <<>>
      BY <1>1
    <3>2. chosen.target = t
      BY <3>1 DEF StreamsInv, TargetComing
    <3>3. <<s, t>> \in Streams \X Moves /\ changes \in Seq(Streams \X Moves)
      BY <2>2 DEF StreamsInv, StreamsTypeOK, Moves
    <3>4. changes' # <<>> /\ changes'[Len(changes')] = <<s, t>>
      BY <2>2, <3>3, LastOfAppend
    <3>5. metadata'[s] = t
      BY <2>2 DEF StreamsInv, StreamsTypeOK
    <3> QED BY <1>1, <1>9, <2>2, <3>2, <3>4, <3>5
  <2> QED BY <1>2, <2>1, <2>2
<1> QED BY <1>1, <1>10, <1>11, <1>12 DEF StreamsInv, Restored!SavedSoon

LEMMA StreamRemovedInv ==
  ASSUME StreamsInv, NEW s \in Streams, Restored!StreamRemoved(s)
  PROVE  StreamsInv'
<1>1. /\ UNCHANGED <<stream_config, targets, changes, state_table, timeout_source, file, chosen>>
      /\ stream_node' = [stream_node EXCEPT ![s] = None]
      /\ metadata' = [metadata EXCEPT ![s] = None]
      /\ blurred' = blurred \cup (IF Restored!Restoring(s) THEN {"volume"} ELSE {})
                      \cup (IF changes # <<>> THEN {"target"} ELSE {})
  BY DEF Restored!StreamRemoved
<1>2. /\ stream_node' \in [Streams -> StreamNode \cup {None}] /\ stream_node'[s] = None
      /\ \A r \in Streams : r # s => stream_node'[r] = stream_node[r]
  BY <1>1 DEF StreamsInv, StreamsTypeOK
<1>3. StreamsTypeOK'
  BY <1>1, <1>2 DEF StreamsInv, StreamsTypeOK, Moves
<1>4. /\ Restored!Present' = Restored!Present \ {s}
      /\ \A r \in Restored!Present' : stream_node'[r] = stream_node[r]
  BY <1>2 DEF Restored!Present
<1>5. VolumeComing'
  <2> SUFFICES ASSUME Wanted'
               PROVE  /\ \A r \in Restored!Present' : Reaching(stream_node'[r], chosen.volume)
                      /\ AllQuiet' => state_table.volume = chosen.volume
    BY <1>1 DEF VolumeComing
  <2>1. Wanted /\ ~Restored!Restoring(s)
    BY <1>1 DEF Wanted
  <2>2. AllQuiet' => AllQuiet
    BY <1>4, <2>1 DEF AllQuiet, Restored!Restoring
  <2> QED BY <1>4, <2>1, <2>2 DEF StreamsInv, VolumeComing
<1>6. TargetComing'
  BY <1>1 DEF StreamsInv, TargetComing
<1> QED BY <1>1, <1>3, <1>5, <1>6 DEF StreamsInv, Restored!SavedSoon

LEMMA VolumeReachesInv ==
  ASSUME StreamsInv, NEW s \in Streams, Restored!VolumeReaches(s)
  PROVE  StreamsInv'
<1> DEFINE q == stream_node[s].sets
           n == [stream_node[s] EXCEPT !.volume = Head(q), !.sets = Tail(q), !.reported = FALSE]
<1>1. /\ UNCHANGED <<stream_config, targets, metadata, changes, state_table, timeout_source, file,
                     chosen, blurred>>
      /\ stream_node[s] # None /\ q # <<>> /\ stream_node' = [stream_node EXCEPT ![s] = n]
  BY DEF Restored!VolumeReaches, StreamsInv, StreamsTypeOK
<1>2. stream_node[s] \in StreamNode
  BY <1>1 DEF StreamsInv, StreamsTypeOK
<1>3. /\ q \in Seq(Vols) /\ Tail(q) \in Seq(Vols) /\ Head(q) \in Vols
      /\ Tail(q) = <<>> => Head(q) = q[Len(q)]
      /\ Tail(q) # <<>> => Tail(q)[Len(Tail(q))] = q[Len(q)]
  <2>1. q \in Seq(Vols)
    BY <1>2 DEF StreamNode
  <2> HIDE DEF q
  <2> QED BY <1>1, <2>1, LastOfTail
<1>4. /\ n \in StreamNode /\ n # None
      /\ n.volume = Head(q) /\ n.sets = Tail(q) /\ n.reported = FALSE
  <2>1. /\ n \in StreamNode
        /\ n.volume = Head(q) /\ n.sets = Tail(q) /\ n.reported = FALSE
    BY <1>2, <1>3 DEF StreamNode
  <2> QED BY <2>1, StreamConstants
<1> HIDE DEF n
<1>5. /\ stream_node' \in [Streams -> StreamNode \cup {None}] /\ stream_node'[s] = n
      /\ \A r \in Streams : r # s => stream_node'[r] = stream_node[r]
  BY <1>1, <1>4 DEF StreamsInv, StreamsTypeOK
<1>6. StreamsTypeOK'
  BY <1>1, <1>5 DEF StreamsInv, StreamsTypeOK
<1>7. Restored!Present' = Restored!Present /\ s \in Restored!Present
  BY <1>1, <1>4, <1>5 DEF Restored!Present
<1>8. VolumeComing'
  <2> SUFFICES ASSUME Wanted
               PROVE  /\ \A r \in Restored!Present : Reaching(stream_node'[r], chosen.volume)
                      /\ ~AllQuiet'
    BY <1>1, <1>7 DEF VolumeComing, Wanted
  <2>1. \A r \in Restored!Present : Reaching(stream_node[r], chosen.volume)
    BY DEF StreamsInv, VolumeComing
  <2>2. q[Len(q)] = chosen.volume
    BY <1>1, <1>7, <2>1 DEF Reaching
  <2>3. Reaching(n, chosen.volume)
    BY <1>3, <1>4, <2>2 DEF Reaching
  <2>4. \A r \in Restored!Present : Reaching(stream_node'[r], chosen.volume)
    BY <1>5, <2>1, <2>3 DEF Restored!Present
  <2>5. ~AllQuiet'
    BY <1>4, <1>5, <1>7 DEF AllQuiet, Restored!Restoring
  <2> QED BY <2>4, <2>5
<1>9. TargetComing'
  BY <1>1, <1>7, TargetFrame DEF StreamsInv
<1> QED BY <1>1, <1>6, <1>8, <1>9 DEF StreamsInv, Restored!SavedSoon

LEMMA ParamsChangedVolumeInv ==
  ASSUME StreamsInv, NEW s \in Streams, Restored!ParamsChanged(s)
  PROVE  StreamsInv'
<1>1. /\ UNCHANGED <<stream_config, targets, metadata, changes, file, chosen, blurred>>
      /\ stream_node[s] # None /\ timeout_source' = TRUE
  BY DEF Restored!ParamsChanged
<1> DEFINE told == [stream_node[s] EXCEPT !.cached = stream_node[s].volume, !.reported = TRUE]
<1>2. PICK n \in {stream_node[s], told} :
        /\ stream_node' = [stream_node EXCEPT ![s] = n]
        /\ state_table' = [state_table EXCEPT !.volume = n.cached]
  <2>1. PICK reports \in BOOLEAN :
          /\ stream_node' = IF reports THEN [stream_node EXCEPT ![s].cached = stream_node[s].volume,
                                                                ![s].reported = TRUE]
                            ELSE stream_node
          /\ state_table' = [state_table EXCEPT !.volume = stream_node'[s].cached]
    BY DEF Restored!ParamsChanged
  <2>2. CASE reports
    <3>1. stream_node' = [stream_node EXCEPT ![s] = told]
      BY <2>1, <2>2 DEF StreamsInv, StreamsTypeOK
    <3>2. stream_node'[s] = told
      BY <3>1 DEF StreamsInv, StreamsTypeOK
    <3> QED BY <2>1, <3>1, <3>2
  <2>3. CASE ~reports
    <3>1. stream_node' = stream_node /\ stream_node' = [stream_node EXCEPT ![s] = stream_node[s]]
      BY <2>1, <2>3 DEF StreamsInv, StreamsTypeOK
    <3> QED BY <2>1, <3>1
  <2> QED BY <2>2, <2>3
<1>3. stream_node[s] \in StreamNode
  BY <1>1 DEF StreamsInv, StreamsTypeOK
<1>4. /\ n \in StreamNode /\ n # None
      /\ n.volume = stream_node[s].volume /\ n.sets = stream_node[s].sets
      /\ n.reported => \/ n.cached = stream_node[s].cached /\ stream_node[s].reported
                       \/ n.cached = stream_node[s].volume
  <2>1. CASE n = stream_node[s]
    BY <2>1, <1>1, <1>3
  <2>2. CASE n = told
    <3>1. /\ n \in StreamNode /\ n.volume = stream_node[s].volume
          /\ n.sets = stream_node[s].sets /\ n.cached = stream_node[s].volume
      BY <2>2, <1>3 DEF StreamNode
    <3> QED BY <3>1, StreamConstants
  <2> QED BY <1>2, <2>1, <2>2
<1>5. /\ stream_node' \in [Streams -> StreamNode \cup {None}] /\ stream_node'[s] = n
      /\ \A r \in Streams : r # s => stream_node'[r] = stream_node[r]
  BY <1>2, <1>4 DEF StreamsInv, StreamsTypeOK
<1>6. /\ state_table' \in Value /\ state_table'.volume = n.cached
      /\ state_table'.target = state_table.target
  <2>1. n.cached \in Vols
    BY <1>4 DEF StreamNode
  <2> QED BY <1>2, <2>1 DEF StreamsInv, StreamsTypeOK, Value
<1> HIDE DEF told
<1>7. StreamsTypeOK'
  BY <1>1, <1>5, <1>6 DEF StreamsInv, StreamsTypeOK
<1>8. Restored!Present' = Restored!Present /\ s \in Restored!Present
  BY <1>1, <1>4, <1>5 DEF Restored!Present
<1>9. VolumeComing'
  <2> SUFFICES ASSUME Wanted
               PROVE  /\ \A r \in Restored!Present : Reaching(stream_node'[r], chosen.volume)
                      /\ AllQuiet' => state_table'.volume = chosen.volume
    BY <1>1, <1>8 DEF VolumeComing, Wanted
  <2>1. \A r \in Restored!Present : Reaching(stream_node[r], chosen.volume)
    BY DEF StreamsInv, VolumeComing
  <2>2. Reaching(stream_node[s], chosen.volume)
    BY <1>8, <2>1
  <2>3. Reaching(n, chosen.volume)
    BY <1>4, <2>2 DEF Reaching
  <2>4. \A r \in Restored!Present : Reaching(stream_node'[r], chosen.volume)
    BY <1>5, <2>1, <2>3 DEF Restored!Present
  <2>5. AllQuiet' => n.cached = chosen.volume
    BY <1>5, <1>8, <2>3 DEF AllQuiet, Restored!Restoring, Reaching
  <2> QED BY <1>6, <2>4, <2>5
<1>10. TargetComing'
  BY <1>1, <1>6, <1>8, TargetFrame DEF StreamsInv
<1> QED BY <1>1, <1>7, <1>9, <1>10 DEF StreamsInv, Restored!SavedSoon

LEMMA UserSetsVolumeInv ==
  ASSUME StreamsInv, NEW s \in Streams, NEW v \in Volumes, Restored!UserSetsVolume(s, v)
  PROVE  StreamsInv'
<1> DEFINE n == [stream_node[s] EXCEPT !.volume = v, !.reported = FALSE]
<1>1. /\ UNCHANGED <<stream_config, targets, metadata, changes, state_table, timeout_source, file>>
      /\ stream_node[s] # None /\ stream_node' = [stream_node EXCEPT ![s] = n]
      /\ chosen' = [chosen EXCEPT !.volume = v]
      /\ blurred' = IF stream_node[s].sets # <<>> \/ Restored!Present # {s}
                      THEN blurred \cup {"volume"} ELSE blurred
  BY DEF Restored!UserSetsVolume, Restored!Blurring, StreamsInv, StreamsTypeOK
<1>2. stream_node[s] \in StreamNode
  BY <1>1 DEF StreamsInv, StreamsTypeOK
<1>3. /\ n \in StreamNode /\ n # None
      /\ n.volume = v /\ n.sets = stream_node[s].sets /\ n.reported = FALSE
  <2>1. /\ n \in StreamNode
        /\ n.volume = v /\ n.sets = stream_node[s].sets /\ n.reported = FALSE
    BY <1>2 DEF StreamNode, Vols
  <2> QED BY <2>1, StreamConstants
<1> HIDE DEF n
<1>4. /\ stream_node' \in [Streams -> StreamNode \cup {None}] /\ stream_node'[s] = n
      /\ \A r \in Streams : r # s => stream_node'[r] = stream_node[r]
  BY <1>1, <1>3 DEF StreamsInv, StreamsTypeOK
<1>5. /\ chosen' \in Value /\ chosen'.volume = v /\ chosen'.target = chosen.target
  BY <1>1 DEF StreamsInv, StreamsTypeOK, Value, Vols
<1>6. StreamsTypeOK'
  BY <1>1, <1>4, <1>5 DEF StreamsInv, StreamsTypeOK
<1>7. Restored!Present' = Restored!Present /\ s \in Restored!Present
  BY <1>1, <1>3, <1>4 DEF Restored!Present
<1>8. VolumeComing'
  <2> SUFFICES ASSUME Wanted'
               PROVE  /\ \A r \in Restored!Present' : Reaching(stream_node'[r], v)
                      /\ ~AllQuiet'
    BY <1>5 DEF VolumeComing
  <2>1. stream_node[s].sets = <<>> /\ Restored!Present = {s}
    BY <1>1 DEF Wanted
  <2> QED BY <1>3, <1>4, <1>7, <2>1 DEF AllQuiet, Restored!Restoring, Reaching
<1>9. TargetComing'
  BY <1>1, <1>5, <1>7, TargetFrame DEF StreamsInv
<1> QED BY <1>1, <1>6, <1>8, <1>9 DEF StreamsInv, Restored!SavedSoon

LEMMA RouteSettingsInv ==
  ASSUME StreamsInv, NEW v \in Volumes, Restored!handleRouteSettings(v)
  PROVE  StreamsInv'
<1>1. /\ UNCHANGED <<stream_config, stream_node, targets, metadata, changes, file>>
      /\ state_table' = [state_table EXCEPT !.volume = v] /\ timeout_source' = TRUE
      /\ chosen' = [chosen EXCEPT !.volume = v]
      /\ blurred' = IF Restored!Present # {} THEN blurred \cup {"volume"} ELSE blurred
  BY DEF Restored!handleRouteSettings, Restored!Blurring
<1>2. /\ chosen' \in Value /\ chosen'.volume = v /\ chosen'.target = chosen.target
      /\ state_table' \in Value /\ state_table'.volume = v
      /\ state_table'.target = state_table.target
  BY <1>1 DEF StreamsInv, StreamsTypeOK, Value, Vols
<1>3. StreamsTypeOK'
  BY <1>1, <1>2 DEF StreamsInv, StreamsTypeOK
<1>4. Restored!Present' = Restored!Present
  BY <1>1 DEF Restored!Present
<1>5. VolumeComing'
  BY <1>1, <1>2, <1>4 DEF VolumeComing, Wanted
<1>6. TargetComing'
  BY <1>1, <1>2, <1>4, TargetFrame DEF StreamsInv
<1> QED BY <1>1, <1>3, <1>5, <1>6 DEF StreamsInv, Restored!SavedSoon

LEMMA UserMovesInv ==
  ASSUME StreamsInv, NEW s \in Streams, NEW t \in Moves, Restored!UserMoves(s, t)
  PROVE  StreamsInv'
<1>1. /\ UNCHANGED <<stream_config, stream_node, targets, state_table, timeout_source, file,
                     blurred>>
      /\ stream_node[s] # None /\ t \in targets \cup {"-1", None}
      /\ metadata' = [metadata EXCEPT ![s] = t] /\ changes' = Append(changes, <<s, t>>)
      /\ chosen' = [chosen EXCEPT !.target = IF t \in targets THEN t ELSE None]
  BY DEF Restored!UserMoves
<1>2. /\ chosen' \in Value /\ chosen'.volume = chosen.volume
      /\ chosen'.target = IF t \in targets THEN t ELSE None
  BY <1>1 DEF StreamsInv, StreamsTypeOK, Value
<1>3. /\ changes' \in Seq(Streams \X Moves) /\ changes' # <<>>
      /\ changes'[Len(changes')] = <<s, t>>
  <2>1. <<s, t>> \in Streams \X Moves /\ changes \in Seq(Streams \X Moves)
    BY DEF StreamsInv, StreamsTypeOK
  <2> QED BY <1>1, <2>1, LastOfAppend
<1>4. metadata' \in [Streams -> Moves] /\ metadata'[s] = t
  BY <1>1 DEF StreamsInv, StreamsTypeOK
<1>5. StreamsTypeOK'
  BY <1>1, <1>2, <1>3, <1>4 DEF StreamsInv, StreamsTypeOK
<1>6. s \in Restored!Present'
  BY <1>1 DEF Restored!Present
<1>7. TargetComing'
  BY <1>1, <1>2, <1>3, <1>4, <1>6 DEF TargetComing
<1>8. VolumeComing'
  BY <1>1, <1>2, VolumeFrame DEF StreamsInv
<1> QED BY <1>1, <1>5, <1>7, <1>8 DEF StreamsInv, Restored!SavedSoon

LEMMA saveTargetInv == StreamsInv /\ Restored!saveTarget => StreamsInv'
<1> SUFFICES ASSUME StreamsInv, Restored!saveTarget PROVE StreamsInv'
  OBVIOUS
<1> DEFINE s == Head(changes)[1]
           t == Head(changes)[2]
           value == IF t = None THEN metadata[s] ELSE t
<1>1. /\ UNCHANGED <<stream_config, stream_node, targets, metadata, file, chosen, blurred>>
      /\ changes # <<>> /\ changes' = Tail(changes)
      /\ IF stream_node[s] = None THEN UNCHANGED <<state_table, timeout_source>>
         ELSE /\ state_table' = [state_table EXCEPT
                                   !.target = IF value \in targets THEN value ELSE None]
              /\ timeout_source' = TRUE
  BY DEF Restored!saveTarget
<1>2. /\ changes' \in Seq(Streams \X Moves) /\ Head(changes) \in Streams \X Moves
      /\ changes' = <<>> => Head(changes) = changes[Len(changes)]
      /\ changes' # <<>> => changes'[Len(changes')] = changes[Len(changes)]
  <2>1. changes \in Seq(Streams \X Moves)
    BY DEF StreamsInv, StreamsTypeOK
  <2> QED BY <1>1, <2>1, LastOfTail
<1>3. s \in Streams /\ t \in Moves /\ Head(changes) = <<s, t>>
  BY <1>2
<1> HIDE DEF s, t
<1>4. /\ state_table' \in Value /\ state_table'.volume = state_table.volume
      /\ stream_node[s] # None =>
           state_table'.target = IF value \in targets THEN value ELSE None
  BY <1>1 DEF StreamsInv, StreamsTypeOK, Value
<1>5. timeout_source' \in BOOLEAN
  BY <1>1, Zenon DEF StreamsInv, StreamsTypeOK
<1>6. StreamsTypeOK'
  BY <1>1, <1>2, <1>4, <1>5 DEF StreamsInv, StreamsTypeOK
<1>7. Restored!Present' = Restored!Present
  BY <1>1 DEF Restored!Present
<1>8. TargetComing'
  <2> SUFFICES ASSUME "target" \notin blurred
               PROVE  IF changes' = <<>> THEN state_table'.target = chosen.target
                      ELSE \E r \in Restored!Present, m \in targets \cup {"-1", None} :
                             /\ changes'[Len(changes')] = <<r, m>> /\ metadata[r] = m
                             /\ chosen.target = IF m \in targets THEN m ELSE None
    BY <1>1, <1>7 DEF TargetComing
  <2>1. PICK r \in Restored!Present, m \in targets \cup {"-1", None} :
          /\ changes[Len(changes)] = <<r, m>> /\ metadata[r] = m
          /\ chosen.target = IF m \in targets THEN m ELSE None
    BY <1>1 DEF StreamsInv, TargetComing
  <2>2. CASE changes' = <<>>
    <3>1. s = r /\ t = m
      BY <1>2, <1>3, <2>1, <2>2
    <3>2. value = m /\ stream_node[s] # None
      BY <2>1, <3>1 DEF Restored!Present
    <3> QED BY <1>4, <2>1, <2>2, <3>2
  <2>3. CASE changes' # <<>>
    BY <1>2, <2>1, <2>3
  <2> QED BY <2>2, <2>3
<1>9. VolumeComing'
  BY <1>1, <1>4, VolumeFrame DEF StreamsInv
<1>10. Restored!SavedSoon'
  BY <1>1 DEF StreamsInv, Restored!SavedSoon
<1> QED BY <1>6, <1>8, <1>9, <1>10 DEF StreamsInv

LEMMA TargetsInv ==
  ASSUME StreamsInv, NEW t \in Targets, Restored!TargetAdded(t) \/ Restored!TargetRemoved(t)
  PROVE  StreamsInv'
<1>1. UNCHANGED <<stream_config, stream_node, metadata, changes, state_table, timeout_source, file,
                  chosen>>
  BY DEF Restored!TargetAdded, Restored!TargetRemoved
<1>2. \/ t \notin targets /\ targets' = targets \cup {t} /\ blurred' = blurred
      \/ /\ targets' = targets \ {t}
         /\ blurred' = IF changes # <<>> THEN blurred \cup {"target"} ELSE blurred
  BY DEF Restored!TargetAdded, Restored!TargetRemoved, Restored!Blurring
<1>3. StreamsTypeOK'
  BY <1>1, <1>2 DEF StreamsInv, StreamsTypeOK
<1>4. Restored!Present' = Restored!Present
  BY <1>1 DEF Restored!Present
<1>5. TargetComing'
  <2> SUFFICES ASSUME "target" \notin blurred', changes # <<>>
               PROVE  \E s \in Restored!Present, m \in targets' \cup {"-1", None} :
                        /\ changes[Len(changes)] = <<s, m>> /\ metadata[s] = m
                        /\ chosen.target = IF m \in targets' THEN m ELSE None
    BY <1>1, <1>2, <1>4 DEF StreamsInv, TargetComing
  <2>1. t \notin targets /\ targets' = targets \cup {t} /\ "target" \notin blurred
    BY <1>2
  <2>2. PICK s \in Restored!Present, m \in targets \cup {"-1", None} :
          /\ changes[Len(changes)] = <<s, m>> /\ metadata[s] = m
          /\ chosen.target = IF m \in targets THEN m ELSE None
    BY <2>1 DEF StreamsInv, TargetComing
  <2>3. m # t
    BY <2>1, StreamConstants
  <2> QED BY <2>1, <2>2, <2>3
<1>6. VolumeComing'
  BY <1>1, <1>2, VolumeFrame DEF StreamsInv
<1> QED BY <1>1, <1>3, <1>5, <1>6 DEF StreamsInv, Restored!SavedSoon

LEMMA SaveTimeoutInv == StreamsInv /\ Restored!SaveTimeout => StreamsInv'
<1> SUFFICES ASSUME StreamsInv, Restored!SaveTimeout PROVE StreamsInv'
  OBVIOUS
<1>1. /\ UNCHANGED <<stream_config, stream_node, targets, metadata, changes, state_table, chosen,
                     blurred>>
      /\ file' = state_table /\ timeout_source' = FALSE
  BY DEF Restored!SaveTimeout
<1>2. StreamsTypeOK'
  BY <1>1 DEF StreamsInv, StreamsTypeOK
<1>3. Restored!Present' = Restored!Present
  BY <1>1 DEF Restored!Present
<1> QED BY <1>1, <1>2, <1>3, VolumeFrame, TargetFrame DEF StreamsInv, Restored!SavedSoon

(* What is in the file is taken for what was chosen, and set again.        *)
LEMMA RestartInv == StreamsInv /\ Restored!Restart => StreamsInv'
<1> SUFFICES ASSUME StreamsInv, Restored!Restart PROVE StreamsInv'
  OBVIOUS
<1> DEFINE volume == IF file.volume = None THEN DefaultVolume ELSE file.volume
           n(s) == [stream_node[s] EXCEPT !.cached = stream_node[s].volume, !.reported = TRUE,
                      !.sets = IF "props" \in stream_config THEN Append(@, volume) ELSE @]
<1>1. /\ UNCHANGED <<stream_config, targets, file>>
      /\ state_table' = file /\ timeout_source' = FALSE /\ blurred' = {}
      /\ chosen' = [volume |-> IF Restored!Unsaved("volume") THEN file.volume ELSE chosen.volume,
                    target |-> IF Restored!Unsaved("target") THEN file.target ELSE chosen.target]
      /\ metadata' = [s \in Streams |->
           IF stream_node[s] # None /\ file.target \in targets THEN file.target ELSE None]
  BY DEF Restored!Restart
<1>2. stream_node' = [s \in Streams |-> IF stream_node[s] = None THEN None ELSE n(s)]
  BY DEF Restored!Restart
<1>3. PICK order \in [1..Cardinality(Restored!Present) -> Restored!Present] :
        changes' = IF file.target \in targets
                     THEN [i \in DOMAIN order |-> <<order[i], file.target>>] ELSE <<>>
  BY SameCardinality DEF Restored!Restart
<1>4. volume \in Vols
  BY DEF StreamsInv, StreamsTypeOK, Value, Vols
<1> HIDE DEF volume
<1>5. ASSUME NEW s \in Restored!Present
      PROVE  /\ n(s) \in StreamNode /\ n(s) # None
             /\ "props" \in stream_config =>
                  n(s).sets # <<>> /\ n(s).sets[Len(n(s).sets)] = volume
  <2>1. stream_node[s] \in StreamNode
    BY PresentNode DEF StreamsInv
  <2>2. stream_node[s].sets \in Seq(Vols) /\ stream_node[s].volume \in Vols
    BY <2>1 DEF StreamNode
  <2> DEFINE q == IF "props" \in stream_config THEN Append(stream_node[s].sets, volume)
                  ELSE stream_node[s].sets
  <2>3. /\ q \in Seq(Vols)
        /\ "props" \in stream_config => q # <<>> /\ q[Len(q)] = volume
    BY <2>2, <1>4, LastOfAppend
  <2>4. n(s) = [stream_node[s] EXCEPT !.cached = stream_node[s].volume, !.reported = TRUE,
                                      !.sets = q]
    BY <2>1 DEF StreamNode
  <2> HIDE DEF q, n
  <2>5. n(s) \in StreamNode /\ n(s).sets = q
    BY <2>1, <2>2, <2>3, <2>4 DEF StreamNode
  <2> QED BY <2>3, <2>5, StreamConstants
<1> HIDE DEF n
<1>6. /\ stream_node' \in [Streams -> StreamNode \cup {None}]
      /\ Restored!Present' = Restored!Present
      /\ \A s \in Restored!Present : stream_node'[s] = n(s)
  <2>1. \A s \in Streams : stream_node'[s] = IF s \in Restored!Present THEN n(s) ELSE None
    BY <1>2 DEF Restored!Present
  <2>2. \A s \in Restored!Present : s \in Streams
    BY DEF Restored!Present
  <2>3. stream_node' \in [Streams -> StreamNode \cup {None}]
    BY <1>2, <1>5, <2>1
  <2>4. Restored!Present' = {s \in Streams : stream_node'[s] # None}
    BY DEF Restored!Present
  <2> QED BY <1>5, <2>1, <2>2, <2>3, <2>4
<1>7. /\ Cardinality(Restored!Present) \in Nat
      /\ Restored!Present = {} <=> Cardinality(Restored!Present) = 0
  <2>1. Restored!Present \subseteq Streams
    BY DEF Restored!Present
  <2>2. IsFiniteSet(Restored!Present)
    BY <2>1, StreamConstants, FS_Subset
  <2> QED BY <2>2, FS_CardinalityType, FS_EmptySet
<1> DEFINE c == Cardinality(Restored!Present)
<1>8. /\ changes' \in Seq(Streams \X Moves)
      /\ file.target \in targets => Len(changes') = c
                                    /\ \A i \in 1..c : changes'[i] = <<order[i], file.target>>
      /\ file.target \notin targets => changes' = <<>>
  <2>1. CASE file.target \in targets
    <3>1. changes' = [i \in 1..c |-> <<order[i], file.target>>]
      BY <1>3, <2>1
    <3>2. file.target \in Moves
      BY <2>1 DEF StreamsInv, StreamsTypeOK, Moves
    <3>3. \A i \in 1..c : order[i] \in Streams
      BY DEF Restored!Present
    <3>4. \A i \in 1..c : <<order[i], file.target>> \in Streams \X Moves
      BY <3>2, <3>3
    <3> HIDE DEF c
    <3>5. c \in Nat
      BY <1>7 DEF c
    <3> QED BY <2>1, <3>1, <3>4, <3>5
  <2>2. CASE file.target \notin targets
    <3>1. changes' = <<>>
      BY <1>3, <2>2
    <3> QED BY <2>2, <3>1
  <2> QED BY <2>1, <2>2
<1>9. chosen'.target = file.target
  BY <1>1 DEF StreamsInv, TargetComing, Restored!Unsaved
<1>10. "props" \in stream_config /\ chosen'.volume # None => chosen'.volume = file.volume
  <2> SUFFICES ASSUME "props" \in stream_config, chosen.volume # None,
                      ~Restored!Unsaved("volume")
               PROVE  chosen.volume = file.volume
    BY <1>1
  <2>1. Wanted /\ AllQuiet /\ file.volume = state_table.volume
    BY DEF Wanted, AllQuiet, Restored!Unsaved
  <2> QED BY <2>1 DEF StreamsInv, VolumeComing
<1>11. StreamsTypeOK'
  <2>1. metadata' \in [Streams -> Moves]
    BY <1>1 DEF StreamsInv, StreamsTypeOK, Moves
  <2>2. chosen' \in Value
    BY <1>1 DEF StreamsInv, StreamsTypeOK, Value
  <2> QED BY <1>1, <1>6, <1>8, <2>1, <2>2 DEF StreamsInv, StreamsTypeOK
<1>12. VolumeComing'
  <2> SUFFICES ASSUME "props" \in stream_config, file.volume # None
               PROVE  /\ \A s \in Restored!Present : Reaching(n(s), file.volume)
                      /\ AllQuiet' => state_table'.volume = file.volume
    BY <1>1, <1>6, <1>10 DEF VolumeComing, Wanted
  <2>1. volume = file.volume
    BY DEF volume
  <2> QED BY <1>1, <1>5, <2>1 DEF Reaching
<1>13. TargetComing'
  <2>1. CASE file.target \in targets /\ c # 0
    <3>1. c \in 1..c /\ changes' # <<>> /\ Len(changes') = c
      BY <1>7, <1>8, <2>1
    <3>2. changes'[c] = <<order[c], file.target>> /\ order[c] \in Restored!Present
      BY <1>8, <2>1, <3>1
    <3>3. metadata'[order[c]] = file.target
      BY <1>1, <2>1, <3>2 DEF Restored!Present
    <3> QED BY <1>1, <1>6, <1>9, <2>1, <3>1, <3>2, <3>3 DEF TargetComing
  <2>2. CASE ~(file.target \in targets /\ c # 0)
    <3>1. changes' = <<>>
      BY <1>8, <2>2
    <3> QED BY <1>1, <1>9, <3>1 DEF TargetComing
  <2> QED BY <2>1, <2>2
<1> QED BY <1>1, <1>11, <1>12, <1>13 DEF StreamsInv, Restored!SavedSoon

LEMMA StreamsNextInv == StreamsInv /\ [Restored!StreamsNext]_streamVars => StreamsInv'
<1> SUFFICES ASSUME StreamsInv, [Restored!StreamsNext]_streamVars PROVE StreamsInv'
  OBVIOUS
<1>1. CASE Restored!StreamsNext
  BY <1>1, StreamAddedInv, StreamRemovedInv, VolumeReachesInv, ParamsChangedVolumeInv,
     UserSetsVolumeInv, RouteSettingsInv, UserMovesInv, saveTargetInv, TargetsInv,
     SaveTimeoutInv, RestartInv
     DEF Restored!StreamsNext, Moves
<1>2. CASE UNCHANGED streamVars
  <2>1. StreamsTypeOK'
    BY <1>2 DEF streamVars, StreamsInv, StreamsTypeOK
  <2>2. Restored!Present' = Restored!Present
    BY <1>2 DEF streamVars, Restored!Present
  <2> QED BY <1>2, <2>1, <2>2, VolumeFrame, TargetFrame
       DEF streamVars, StreamsInv, Restored!SavedSoon
<1> QED BY <1>1, <1>2

LEMMA StreamsInvRight == StreamsInv => StreamsKept
<1> SUFFICES ASSUME StreamsInv PROVE Restored!StreamsKept
  BY DEF StreamsKept
<1>1. Restored!VolumeKept
  BY DEF StreamsInv, VolumeComing, Wanted, AllQuiet, Reaching, Restored!Restoring,
         Restored!VolumeKept
<1>2. Restored!TargetKept
  BY DEF StreamsInv, TargetComing, Restored!TargetKept
<1> QED BY <1>1, <1>2 DEF StreamsInv, Restored!StreamsKept

(* With nothing on its way, every stream has the volume that the user      *)
(* chose last, and this and the target that was chosen last are what is    *)
(* kept for the next stream; and what is kept and not in the file is about *)
(* to be saved: across any number of streams, moves and restarts           *)
(* (restore-stream.lua).                                                   *)
THEOREM SessionStreamsKept == Spec => []StreamsKept
<1>1. Init => StreamsInv
  BY StreamsInitInv DEF Init
<1>2. StreamsInv /\ [Next]_vars => StreamsInv'
  <2>1. [Next]_vars => [Restored!StreamsNext]_streamVars
    BY DEF Next, vars, AlsaOnly, BluezOnly, BluetoothOnly, StreamsOnly, MixerOnly
  <2> QED BY <2>1, StreamsNextInv
<1> QED BY <1>1, <1>2, StreamsInvRight, PTL DEF Spec

-----------------------------------------------------------------------------
(* The ALSA monitor.  The invariant is about a world: a record of what the *)
(* script, its SpaDevices and the plugin for reservations have.            *)
AlsaWorld ==
  [monitor : BOOLEAN,
   rd : [Cards -> {"none", "acquiring", "acquired", "released", "busy"}],
   name : [Cards -> Alsa!DeviceNames \cup {None}],
   device : [Cards -> {"none", "created", "enabled"}],
   profile : [Cards -> SUBSET Alsa!NodeSet],
   node : [Cards -> [Alsa!NodeSet -> Alsa!NodeNames \cup {None}]],
   info : [Cards -> SUBSET Alsa!NodeSet],
   device_names_table : SUBSET Alsa!DeviceNames,
   node_names_table : SUBSET Alsa!NodeNames,
   lost : SUBSET (Alsa!DeviceNames \cup Alsa!NodeNames \cup {None})]

(* The cards P are there.  A card that went keeps a name only if the name  *)
(* is lost, and only a device has a profile.                               *)
CardOK(cfg, P, w, c) ==
  /\ w.rd[c] # "none" =>
       cfg.reserving /\ w.monitor /\ c \notin cfg.disabled /\ w.name[c] # None
  /\ w.device[c] # "none" <=>
       /\ w.monitor /\ c \in P \ (cfg.disabled \cup cfg.broken)
       /\ cfg.reserving => w.rd[c] = "acquired"
  /\ w.device[c] # "none" => w.name[c] # None
  /\ w.device[c] # "enabled" => w.profile[c] = {}
  /\ c \in cfg.disabled \/ ~w.monitor => w.name[c] = None
  /\ w.monitor /\ c \notin P /\ w.name[c] # None => w.name[c] \in w.lost

(* A name that can be taken is in the table for as long as its owner has   *)
(* it, and the table has no others but those that are lost.                *)
DeviceNamesOK(w) ==
  /\ \A c \in Cards : w.name[c] # None =>
       w.name[c][2] = LastCounter \/ w.name[c] \in w.device_names_table
  /\ \A c, d \in Cards : w.name[c] # None /\ w.name[c] = w.name[d] =>
       c = d \/ w.name[c][2] = LastCounter
  /\ w.monitor => \A x \in w.device_names_table : x \in w.lost \/ \E c \in Cards : w.name[c] = x

NodesDistinct(w) ==
  \A c, d \in Cards : \A n, m \in Alsa!NodeSet :
    w.node[c][n] # None /\ w.node[c][n] = w.node[d][m] =>
      (c = d /\ n = m) \/ w.node[c][n][2] = LastCounter

NodeNamesOK(w) ==
  /\ \A c \in Cards, n \in Alsa!NodeSet : w.node[c][n] # None =>
       w.node[c][n][2] = LastCounter \/ w.node[c][n] \in w.node_names_table
  /\ NodesDistinct(w)
  /\ w.monitor => \A x \in w.node_names_table :
       x \in w.lost \/ \E c \in Cards, n \in Alsa!NodeSet : w.node[c][n] = x

Shown(w, c) == {n \in Alsa!NodeSet : w.node[c][n] # None}

(* While the nodes of a card are made, only some are there yet.            *)
Making(cfg, P, w, c, ns) ==
  /\ w \in AlsaWorld /\ DeviceNamesOK(w) /\ NodeNamesOK(w)
  /\ \A d \in Cards : CardOK(cfg, P, w, d)
  /\ \A d \in Cards \ {c} : Shown(w, d) = w.profile[d] \ cfg.disabled
  /\ Shown(w, c) = ns

AlsaWorldInv(cfg, P, w) ==
  /\ w \in AlsaWorld /\ DeviceNamesOK(w) /\ NodeNamesOK(w)
  /\ \A d \in Cards : CardOK(cfg, P, w, d) /\ Shown(w, d) = w.profile[d] \ cfg.disabled

AlsaInv ==
  /\ card_config \in CardConfigs /\ plugged \subseteq Cards
  /\ AlsaWorldInv(card_config, plugged, Alsa!World)

LEMMA AlsaConstants ==
  /\ LastCounter \in Nat \ {0} /\ None \notin Alsa!DeviceNames \cup Alsa!NodeNames
  /\ CardNodes \in Seq(Alsa!NodeSet) /\ IsFiniteSet(Cards)
  /\ \A i, j \in DOMAIN CardNodes : CardNodes[i] = CardNodes[j] => i = j
  /\ CardConfigs \subseteq [reserving : BOOLEAN, broken : SUBSET Cards,
                            disabled : SUBSET (Cards \cup Alsa!NodeSet)]
<1>1. Alsa!ConstantsOK
  BY SessionAssumption
<1>2. IsFiniteSet(Cards) = Alsa!IsFiniteSet(Cards)
  BY DEF IsFiniteSet, Alsa!IsFiniteSet
<1> QED BY <1>1, <1>2 DEF Alsa!ConstantsOK, Alsa!IsInjective

(* A name that was free is taken, or it is the last one.                   *)
LEMMA DeduplicatedName ==
  ASSUME NEW base, NEW table
  PROVE  LET d == Alsa!Deduplicated(base, table)
         IN  /\ \E k \in 1..LastCounter : d.name = <<base, k>>
             /\ \/ d.name[2] = LastCounter /\ d.table = table
                \/ d.name \notin table /\ d.table = table \cup {d.name}
<1> DEFINE free == {k \in 1..(LastCounter - 1) : <<base, k>> \notin table}
           d == Alsa!Deduplicated(base, table)
<1>1. CASE free = {}
  <2>1. d = [name |-> <<base, LastCounter>>, table |-> table]
    BY <1>1 DEF Alsa!Deduplicated
  <2>2. LastCounter \in 1..LastCounter
    BY AlsaConstants
  <2> QED BY <2>1, <2>2
<1>2. CASE free # {}
  <2>1. d = [name |-> <<base, Alsa!Min(free)>>, table |-> table \cup {<<base, Alsa!Min(free)>>}]
    BY <1>2 DEF Alsa!Deduplicated
  <2>2. Alsa!Min(free) \in free
    <3>1. free \in SUBSET Nat
      BY AlsaConstants
    <3>2. \E x \in free : \A y \in free : x <= y
      <4> HIDE DEF free
      <4>1. \E x \in free : \A y \in free : ~(<<y, x>> \in OpToRel(<, Nat))
        BY <1>2, <3>1, NatLessThanWellFounded, WFMin
      <4>2. PICK x \in free : \A y \in free : ~(<<y, x>> \in OpToRel(<, Nat))
        BY <4>1
      <4>3. \A a, b \in Nat : <<a, b>> \in OpToRel(<, Nat) <=> a < b
        BY DEF OpToRel
      <4>4. \A y \in free : x \in Nat /\ y \in Nat /\ ~(y < x)
        BY <4>2, <4>3, <3>1
      <4> QED BY <4>4
    <3> QED BY <3>2 DEF Alsa!Min
  <2>3. Alsa!Min(free) \in 1..LastCounter /\ <<base, Alsa!Min(free)>> \notin table
    BY <2>2, AlsaConstants
  <2> QED BY <2>1, <2>3
<1> QED BY <1>1, <1>2

NodeMade(P, w, c, ns) ==
  w.device[c] # "none" /\ Making(card_config, P, w, c, ns) =>
    \A n \in Alsa!NodeSet \ ns : \A v : v = Alsa!createNode(w, c, n) =>
      /\ Making(card_config, P, v, c, ns \cup ({n} \ card_config.disabled))
      /\ v.device = w.device /\ v.profile = w.profile

LEMMA CreateNodeMade ==
  ASSUME NEW P, NEW w, NEW c \in Cards, NEW ns
  PROVE  NodeMade(P, w, c, ns)
<1> SUFFICES ASSUME w.device[c] # "none", Making(card_config, P, w, c, ns),
                    NEW n \in Alsa!NodeSet, n \notin ns, NEW v, v = Alsa!createNode(w, c, n)
             PROVE  /\ Making(card_config, P, v, c, ns \cup ({n} \ card_config.disabled))
                    /\ v.device = w.device /\ v.profile = w.profile
  BY DEF NodeMade
<1> DEFINE d == Alsa!Deduplicated(<<w.name[c], Profile[n]>>, w.node_names_table)
<1>1. CASE n \in card_config.disabled
  <2>1. v = w
    BY <1>1 DEF Alsa!createNode
  <2>2. ns \cup ({n} \ card_config.disabled) = ns
    BY <1>1
  <2> QED BY <2>1, <2>2
<1>2. CASE n \notin card_config.disabled
  <2> HIDE DEF d
  <2>0. /\ w \in AlsaWorld /\ DeviceNamesOK(w) /\ NodeNamesOK(w)
        /\ \A b \in Cards : CardOK(card_config, P, w, b)
        /\ \A b \in Cards \ {c} : Shown(w, b) = w.profile[b] \ card_config.disabled
        /\ Shown(w, c) = ns
    BY DEF Making
  <2>1. v = [[w EXCEPT !.node_names_table = d.table] EXCEPT
               !.node[c][n] = d.name, !.info[c] = @ \ {n}]
    BY <1>2 DEF Alsa!createNode, Alsa!store_managed_object, d
  <2>2. /\ v.node = [w.node EXCEPT ![c][n] = d.name] /\ v.info = [w.info EXCEPT ![c] = @ \ {n}]
        /\ v.node_names_table = d.table /\ v.device_names_table = w.device_names_table
        /\ v.monitor = w.monitor /\ v.rd = w.rd /\ v.name = w.name /\ v.device = w.device
        /\ v.profile = w.profile /\ v.lost = w.lost
    BY <2>0, <2>1 DEF AlsaWorld
  <2>3. PICK k \in 1..LastCounter : d.name = <<<<w.name[c], Profile[n]>>, k>>
    BY DeduplicatedName DEF d
  <2>4. \/ d.name[2] = LastCounter /\ d.table = w.node_names_table
        \/ d.name \notin w.node_names_table /\ d.table = w.node_names_table \cup {d.name}
    BY DeduplicatedName DEF d
  <2>5. d.name \in Alsa!NodeNames /\ d.name # None
    <3>1. w.name[c] \in Alsa!DeviceNames
      BY <2>0 DEF CardOK, AlsaWorld
    <3>2. <<w.name[c], Profile[n]>> \in Alsa!DeviceNames \X {Profile[m] : m \in Alsa!NodeSet}
      BY <3>1
    <3>3. d.name \in Alsa!NodeNames
      BY <2>3, <3>2 DEF Alsa!NodeNames
    <3> QED BY <3>3, AlsaConstants
  <2>6. v \in AlsaWorld
    <3>1. v.node \in [Cards -> [Alsa!NodeSet -> Alsa!NodeNames \cup {None}]]
      BY <2>0, <2>2, <2>5 DEF AlsaWorld
    <3>2. v.info \in [Cards -> SUBSET Alsa!NodeSet]
      BY <2>0, <2>2 DEF AlsaWorld
    <3>3. v.node_names_table \subseteq Alsa!NodeNames
      BY <2>0, <2>2, <2>4, <2>5 DEF AlsaWorld
    <3> QED BY <2>0, <2>1, <2>2, <3>1, <3>2, <3>3 DEF AlsaWorld
  <2>7. w.node \in [Cards -> [Alsa!NodeSet -> Alsa!NodeNames \cup {None}]] /\ w.node[c][n] = None
    BY <2>0 DEF AlsaWorld, Shown
  <2>8. /\ v.node[c][n] = d.name
        /\ \A b \in Cards, m \in Alsa!NodeSet : b # c \/ m # n => v.node[b][m] = w.node[b][m]
    BY <2>2, <2>7
  <2>9. DeviceNamesOK(v) /\ \A b \in Cards : CardOK(card_config, P, v, b)
    BY <2>0, <2>2 DEF DeviceNamesOK, CardOK
  <2>10. NodeNamesOK(v)
    <3>1. ASSUME NEW b \in Cards, NEW m \in Alsa!NodeSet, v.node[b][m] # None
          PROVE  v.node[b][m][2] = LastCounter \/ v.node[b][m] \in v.node_names_table
      BY <3>1, <2>0, <2>2, <2>4, <2>8 DEF NodeNamesOK
    <3>2. ASSUME NEW b \in Cards, NEW m \in Alsa!NodeSet, v.node[b][m] = d.name
          PROVE  (b = c /\ m = n) \/ d.name[2] = LastCounter
      BY <3>2, <2>0, <2>4, <2>5, <2>8 DEF NodeNamesOK
    <3>3. ASSUME NEW b \in Cards, NEW b2 \in Cards, NEW m \in Alsa!NodeSet,
                 NEW m2 \in Alsa!NodeSet, v.node[b][m] # None, v.node[b][m] = v.node[b2][m2]
          PROVE  (b = b2 /\ m = m2) \/ v.node[b][m][2] = LastCounter
      <4>1. CASE b = c /\ m = n
        BY <4>1, <3>2, <3>3, <2>8
      <4>2. CASE b2 = c /\ m2 = n
        BY <4>2, <3>2, <3>3, <2>8
      <4>3. CASE ~(b = c /\ m = n) /\ ~(b2 = c /\ m2 = n)
        <5>1. v.node[b][m] = w.node[b][m] /\ v.node[b2][m2] = w.node[b2][m2]
          BY <4>3, <2>8
        <5>2. w.node[b][m] # None /\ w.node[b][m] = w.node[b2][m2]
          BY <5>1, <3>3
        <5>3. NodesDistinct(w)
          BY <2>0 DEF NodeNamesOK
        <5>4. (b = b2 /\ m = m2) \/ w.node[b][m][2] = LastCounter
          BY <5>2, <5>3 DEF NodesDistinct
        <5> QED BY <5>1, <5>4
      <4> QED BY <4>1, <4>2, <4>3
    <3>4. ASSUME v.monitor, NEW x \in v.node_names_table
          PROVE  x \in v.lost \/ \E b \in Cards, m \in Alsa!NodeSet : v.node[b][m] = x
      <4>1. CASE x = d.name
        BY <4>1, <2>8
      <4>2. CASE x # d.name
        <5>1. x \in w.lost \/ \E b \in Cards, m \in Alsa!NodeSet : w.node[b][m] = x
          BY <4>2, <3>4, <2>0, <2>2, <2>4 DEF NodeNamesOK
        <5>2. x # None
          BY <3>4, <2>6, AlsaConstants DEF AlsaWorld
        <5> QED BY <5>1, <5>2, <2>2, <2>7, <2>8
      <4> QED BY <4>1, <4>2
    <3> QED BY <3>1, <3>3, <3>4 DEF NodeNamesOK, NodesDistinct
  <2>11. Shown(v, c) = ns \cup ({n} \ card_config.disabled)
    BY <2>0, <2>5, <2>8, <1>2 DEF Shown
  <2>12. \A b \in Cards \ {c} : Shown(v, b) = Shown(w, b)
    BY <2>8 DEF Shown
  <2> QED BY <2>0, <2>2, <2>6, <2>9, <2>10, <2>11, <2>12 DEF Making
<1> QED BY <1>1, <1>2

MakeBody(p, w, n) == IF n \in p.ns THEN Alsa!createNode(w, p.card, n) ELSE w

Make == INSTANCE FoldInduction WITH op <- MakeBody

(* The nodes of a profile are made one after the other.                    *)
LEMMA MakeNodesMade ==
  ASSUME NEW P, NEW w, NEW c \in Cards, NEW ns \in SUBSET Alsa!NodeSet,
         w.device[c] # "none", Making(card_config, P, w, c, {}),
         NEW v, v = Make!Folded([card |-> c, ns |-> ns], w, CardNodes)
  PROVE  /\ Making(card_config, P, v, c, ns \ card_config.disabled)
         /\ v.device = w.device /\ v.profile = w.profile
<1> DEFINE Done(k) == ({CardNodes[i] : i \in 1..k} \cap ns) \ card_config.disabled
           Good(k, u) == /\ Making(card_config, P, u, c, Done(k))
                         /\ u.device = w.device /\ u.profile = w.profile
           I == [k \in 0..Len(CardNodes) |-> {u \in AlsaWorld : Good(k, u)}]
           p == [card |-> c, ns |-> ns]
<1>1. CardNodes \in Seq(Alsa!NodeSet) /\ \A i, j \in DOMAIN CardNodes : CardNodes[i] = CardNodes[j] => i = j
  BY AlsaConstants
<1>2. ASSUME NEW k \in 1..Len(CardNodes), NEW u \in I[k-1]
      PROVE  MakeBody(p, u, CardNodes[k]) \in I[k]
  <2> DEFINE n == CardNodes[k]
  <2>1. k - 1 \in 0..Len(CardNodes) /\ k \in 0..Len(CardNodes) /\ k \in DOMAIN CardNodes
    BY <1>1
  <2>2. Good(k - 1, u) /\ n \in Alsa!NodeSet
    BY <2>1, <1>1
  <2>3. n \notin {CardNodes[i] : i \in 1..(k-1)}
    BY <2>1, <1>1
  <2>4. {CardNodes[i] : i \in 1..k} = {CardNodes[i] : i \in 1..(k-1)} \cup {n}
    BY <2>1
  <2>5. PICK x : x = MakeBody(p, u, n)
    OBVIOUS
  <2>6. Good(k, x)
    <3>1. CASE n \in ns
      <4>1. x = Alsa!createNode(u, c, n)
        BY <3>1, <2>5 DEF MakeBody
      <4>2. n \notin Done(k - 1) /\ u.device[c] # "none"
        BY <2>2, <2>3
      <4>3. Making(card_config, P, u, c, Done(k - 1))
        BY <2>2
      <4> HIDE DEF Done, n, I
      <4>4. /\ Making(card_config, P, x, c, Done(k - 1) \cup ({n} \ card_config.disabled))
            /\ x.device = u.device /\ x.profile = u.profile
        <5>1. n \in Alsa!NodeSet
          BY <2>2
        <5>2. n \notin Done(k - 1) /\ u.device[c] # "none"
          BY <4>2 DEF n
        <5>3. PICK done : done = Done(k - 1)
          OBVIOUS
        <5>4. n \notin done /\ Making(card_config, P, u, c, done)
          BY <5>2, <5>3, <4>3
        <5>6. NodeMade(P, u, c, done)
          BY CreateNodeMade
        <5>7. n \in Alsa!NodeSet \ done
          BY <5>1, <5>4
        <5>8. Making(card_config, P, u, c, done)
          BY <5>4
        <5>5. /\ Making(card_config, P, x, c, done \cup ({n} \ card_config.disabled))
              /\ x.device = u.device /\ x.profile = u.profile
          <6> HIDE DEF n
          <6> QED BY ONLY <4>1, <5>2, <5>6, <5>7, <5>8, Zenon DEF NodeMade
        <5> QED BY <5>3, <5>5
      <4>5. Done(k) = Done(k - 1) \cup ({n} \ card_config.disabled)
        BY <2>4, <3>1 DEF Done
      <4> QED BY <4>4, <4>5, <2>2
    <3>2. CASE n \notin ns
      <4>1. x = u
        BY <3>2, <2>5 DEF MakeBody
      <4>2. Done(k) = Done(k - 1)
        BY <2>4, <3>2
      <4> HIDE DEF Done
      <4> QED BY <4>1, <4>2, <2>2
    <3> QED BY <3>1, <3>2
  <2>7. x \in AlsaWorld
    BY <2>6 DEF Making
  <2> HIDE DEF Good
  <2> QED BY <2>1, <2>5, <2>6, <2>7
<1>3. w \in I[0]
  <2>1. Done(0) = {}
    OBVIOUS
  <2>2. Good(0, w)
    BY <2>1
  <2>3. w \in AlsaWorld
    BY DEF Making
  <2> HIDE DEF Good
  <2> QED BY <2>2, <2>3, <1>1
<1>4. v \in I[Len(CardNodes)]
  <2> HIDE DEF I, p
  <2> QED BY <1>1, <1>2, <1>3, Make!FoldSteps DEF p
<1>5. Good(Len(CardNodes), v)
  <2> HIDE DEF Good
  <2> QED BY <1>1, <1>4
<1>6. Done(Len(CardNodes)) = ns \ card_config.disabled
  <2>1. {CardNodes[i] : i \in 1..Len(CardNodes)} = Alsa!NodeSet
    BY <1>1 DEF Alsa!NodeSet, Alsa!Range
  <2> QED BY <2>1
<1> HIDE DEF Done
<1> QED BY <1>5, <1>6

-----------------------------------------------------------------------------
(* Nodes go, and each takes its name with it or leaves it behind as lost.  *)
Dropped(w, v) ==
  \A b \in Cards, m \in Alsa!NodeSet :
    \/ v.node[b][m] = w.node[b][m]
    \/ v.node[b][m] = None /\ (w.node[b][m] \in v.node_names_table => w.node[b][m] \in v.lost)

Kept(v) ==
  \A b \in Cards, m \in Alsa!NodeSet : v.node[b][m] # None =>
    v.node[b][m][2] = LastCounter \/ v.node[b][m] \in v.node_names_table

LEMMA NodesDropped ==
  ASSUME NEW w \in AlsaWorld, NEW v, NodeNamesOK(w), v.monitor => w.monitor,
         w.lost \subseteq v.lost, v.node_names_table \subseteq w.node_names_table,
         Dropped(w, v), Kept(v)
  PROVE  NodeNamesOK(v)
<1>1. ASSUME NEW b \in Cards, NEW d \in Cards, NEW m \in Alsa!NodeSet, NEW n \in Alsa!NodeSet,
             v.node[b][m] # None, v.node[b][m] = v.node[d][n]
      PROVE  (b = d /\ m = n) \/ v.node[b][m][2] = LastCounter
  <2>1. v.node[b][m] = w.node[b][m] /\ v.node[d][n] = w.node[d][n]
    BY <1>1 DEF Dropped
  <2>2. w.node[b][m] # None /\ w.node[b][m] = w.node[d][n]
    BY <1>1, <2>1
  <2>3. NodesDistinct(w)
    BY DEF NodeNamesOK
  <2>4. (b = d /\ m = n) \/ w.node[b][m][2] = LastCounter
    BY <2>2, <2>3 DEF NodesDistinct
  <2> QED BY <2>1, <2>4
<1>2. ASSUME v.monitor, NEW x \in v.node_names_table
      PROVE  x \in v.lost \/ \E b \in Cards, m \in Alsa!NodeSet : v.node[b][m] = x
  <2>1. x \in w.lost \/ \E b \in Cards, m \in Alsa!NodeSet : w.node[b][m] = x
    BY <1>2 DEF NodeNamesOK
  <2>2. CASE x \in w.lost
    BY <2>2
  <2>3. CASE \E b \in Cards, m \in Alsa!NodeSet : w.node[b][m] = x
    <3>1. PICK b \in Cards, m \in Alsa!NodeSet : w.node[b][m] = x
      BY <2>3
    <3>2. v.node[b][m] = x \/ (x \in v.node_names_table => x \in v.lost)
      BY <3>1 DEF Dropped
    <3> QED BY <3>2, <1>2
  <2> QED BY <2>1, <2>2, <2>3
<1> QED BY <1>1, <1>2 DEF NodeNamesOK, NodesDistinct, Kept

LEMMA RemoveNodeInv ==
  ASSUME NEW w, NEW c \in Cards, NEW n \in Alsa!NodeSet,
         Making(card_config, plugged, w, c, Shown(w, c)),
         Shown(w, c) \ {n} = w.profile[c] \ card_config.disabled,
         NEW v, v = Alsa!removeNode(w, c, n)
  PROVE  AlsaWorldInv(card_config, plugged, v)
<1> DEFINE x == w.node[c][n]
           freed == IF x = None THEN w
                    ELSE IF n \notin w.info[c] THEN Alsa!Lose(w, {x})
                    ELSE [w EXCEPT !.node_names_table = @ \ {x}]
<1>0. /\ w \in AlsaWorld /\ DeviceNamesOK(w) /\ NodeNamesOK(w)
      /\ \A b \in Cards : CardOK(card_config, plugged, w, b)
      /\ \A b \in Cards \ {c} : Shown(w, b) = w.profile[b] \ card_config.disabled
  BY DEF Making
<1>1. /\ x \in Alsa!NodeNames \cup {None}
      /\ w.node \in [Cards -> [Alsa!NodeSet -> Alsa!NodeNames \cup {None}]]
  BY <1>0 DEF AlsaWorld
<1>2. v = [freed EXCEPT !.node[c][n] = None, !.info[c] = @ \ {n}]
  BY DEF Alsa!removeNode, Alsa!store_managed_object
<1>3. \/ x = None /\ freed = w
      \/ x # None /\ freed = [w EXCEPT !.lost = @ \cup {x}]
      \/ x # None /\ freed = [w EXCEPT !.node_names_table = @ \ {x}]
  BY DEF Alsa!Lose
<1> HIDE DEF freed, x
<1>4. /\ v.node = [w.node EXCEPT ![c][n] = None] /\ v.info = [w.info EXCEPT ![c] = @ \ {n}]
      /\ v.device_names_table = w.device_names_table
      /\ v.monitor = w.monitor /\ v.rd = w.rd /\ v.name = w.name /\ v.device = w.device
      /\ v.profile = w.profile
      /\ \/ x = None /\ v.lost = w.lost /\ v.node_names_table = w.node_names_table
         \/ v.lost = w.lost \cup {x} /\ v.node_names_table = w.node_names_table
         \/ v.lost = w.lost /\ v.node_names_table = w.node_names_table \ {x}
  <2>1. /\ freed.node = w.node /\ freed.info = w.info
        /\ freed.device_names_table = w.device_names_table
        /\ freed.monitor = w.monitor /\ freed.rd = w.rd /\ freed.name = w.name
        /\ freed.device = w.device /\ freed.profile = w.profile
        /\ \/ x = None /\ freed.lost = w.lost /\ freed.node_names_table = w.node_names_table
           \/ freed.lost = w.lost \cup {x} /\ freed.node_names_table = w.node_names_table
           \/ freed.lost = w.lost /\ freed.node_names_table = w.node_names_table \ {x}
    BY <1>0, <1>3 DEF AlsaWorld
  <2>2. \E m, i, d, o, r, a, e, q, l, k :
          freed = [monitor |-> o, rd |-> r, name |-> a, device |-> e, profile |-> q, node |-> m,
                   info |-> i, device_names_table |-> d, node_names_table |-> k, lost |-> l]
    BY <1>0, <1>3 DEF AlsaWorld
  <2>3. /\ v.node = [freed.node EXCEPT ![c][n] = None] /\ v.info = [freed.info EXCEPT ![c] = @ \ {n}]
        /\ v.device_names_table = freed.device_names_table /\ v.node_names_table = freed.node_names_table
        /\ v.monitor = freed.monitor /\ v.rd = freed.rd /\ v.name = freed.name /\ v.device = freed.device
        /\ v.profile = freed.profile /\ v.lost = freed.lost
    BY <1>2, <2>2
  <2> QED BY <2>1, <2>3
<1>5. /\ v.node[c][n] = None
      /\ \A b \in Cards, m \in Alsa!NodeSet : b # c \/ m # n => v.node[b][m] = w.node[b][m]
  BY <1>1, <1>4
<1>6. v \in AlsaWorld
  <2>1. v.node \in [Cards -> [Alsa!NodeSet -> Alsa!NodeNames \cup {None}]]
    BY <1>1, <1>4
  <2>2. v.info \in [Cards -> SUBSET Alsa!NodeSet]
    BY <1>0, <1>4 DEF AlsaWorld
  <2>3. /\ v.node_names_table \subseteq Alsa!NodeNames
        /\ v.lost \subseteq Alsa!DeviceNames \cup Alsa!NodeNames \cup {None}
    BY <1>0, <1>1, <1>4 DEF AlsaWorld
  <2>4. DOMAIN v = DOMAIN w
    BY <1>2, <1>3
  <2> QED BY <1>0, <1>2, <1>3, <1>4, <2>1, <2>2, <2>3 DEF AlsaWorld
<1>7. Dropped(w, v)
  BY <1>4, <1>5 DEF Dropped, x
<1>8. Kept(v)
  <2> SUFFICES ASSUME NEW b \in Cards, NEW m \in Alsa!NodeSet, v.node[b][m] # None,
                      v.node[b][m][2] # LastCounter
               PROVE  v.node[b][m] \in v.node_names_table
    BY DEF Kept
  <2>1. ~(b = c /\ m = n) /\ v.node[b][m] = w.node[b][m]
    BY <1>5
  <2>2. w.node[b][m] \in w.node_names_table
    BY <1>0, <2>1 DEF NodeNamesOK
  <2>3. NodesDistinct(w)
    BY <1>0 DEF NodeNamesOK
  <2>4. w.node[b][m] # w.node[c][n]
    BY <2>1, <2>3 DEF NodesDistinct
  <2> QED BY <2>1, <2>2, <2>4, <1>4 DEF x
<1>9. NodeNamesOK(v)
  BY <1>0, <1>4, <1>7, <1>8, NodesDropped
<1>10. DeviceNamesOK(v) /\ \A b \in Cards : CardOK(card_config, plugged, v, b)
  BY <1>0, <1>4 DEF DeviceNamesOK, CardOK
<1>11. \A b \in Cards : Shown(v, b) = v.profile[b] \ card_config.disabled
  <2>1. Shown(v, c) = Shown(w, c) \ {n}
    BY <1>5 DEF Shown
  <2>2. \A b \in Cards \ {c} : Shown(v, b) = Shown(w, b)
    BY <1>5 DEF Shown
  <2> QED BY <2>1, <2>2, <1>0, <1>4
<1> QED BY <1>6, <1>9, <1>10, <1>11 DEF AlsaWorldInv

(* The device of a card goes with its nodes, and only the script's own     *)
(* tables differ by why it goes.                                           *)
LEMMA DeviceGone ==
  ASSUME NEW P, NEW w, AlsaWorldInv(card_config, plugged, w), NEW c \in Cards,
         P \in {plugged, plugged \ {c}},
         NEW v \in AlsaWorld,
         v.node = [w.node EXCEPT ![c] = Alsa!NoNodes],
         v.device = [w.device EXCEPT ![c] = "none"],
         v.profile = [w.profile EXCEPT ![c] = {}],
         v.monitor = w.monitor, w.lost \subseteq v.lost,
         v.node_names_table \subseteq w.node_names_table,
         \A m \in Alsa!NodeSet : w.node[c][m] \in v.node_names_table => w.node[c][m] \in v.lost,
         \A x \in w.node_names_table \ v.node_names_table : \E m \in Alsa!NodeSet : w.node[c][m] = x,
         DeviceNamesOK(v), CardOK(card_config, P, v, c),
         \A b \in Cards \ {c} : v.rd[b] = w.rd[b] /\ v.name[b] = w.name[b]
  PROVE  AlsaWorldInv(card_config, P, v)
<1>0. /\ w \in AlsaWorld /\ DeviceNamesOK(w) /\ NodeNamesOK(w)
      /\ \A b \in Cards : CardOK(card_config, plugged, w, b)
      /\ \A b \in Cards : Shown(w, b) = w.profile[b] \ card_config.disabled
  BY DEF AlsaWorldInv
<1>1. /\ w.node \in [Cards -> [Alsa!NodeSet -> Alsa!NodeNames \cup {None}]]
      /\ w.device \in [Cards -> {"none", "created", "enabled"}]
      /\ w.profile \in [Cards -> SUBSET Alsa!NodeSet]
  BY <1>0 DEF AlsaWorld
<1>2. /\ \A m \in Alsa!NodeSet : v.node[c][m] = None
      /\ \A b \in Cards \ {c} : v.node[b] = w.node[b]
  BY <1>1 DEF Alsa!NoNodes
<1>3. Dropped(w, v)
  BY <1>2 DEF Dropped
<1>4. Kept(v)
  <2> SUFFICES ASSUME NEW b \in Cards, NEW m \in Alsa!NodeSet, v.node[b][m] # None,
                      v.node[b][m][2] # LastCounter, v.node[b][m] \notin v.node_names_table
               PROVE  FALSE
    BY DEF Kept
  <2>1. b # c /\ v.node[b][m] = w.node[b][m]
    BY <1>2
  <2>2. w.node[b][m] \in w.node_names_table
    BY <1>0, <2>1 DEF NodeNamesOK
  <2>3. PICK n \in Alsa!NodeSet : w.node[c][n] = w.node[b][m]
    BY <2>1, <2>2
  <2>4. NodesDistinct(w)
    BY <1>0 DEF NodeNamesOK
  <2> QED BY <2>1, <2>3, <2>4 DEF NodesDistinct
<1>5. NodeNamesOK(v)
  BY <1>0, <1>3, <1>4, NodesDropped
<1>6. \A b \in Cards : CardOK(card_config, P, v, b)
  <2> SUFFICES ASSUME NEW b \in Cards \ {c} PROVE CardOK(card_config, P, v, b)
    OBVIOUS
  <2>1. b \in P <=> b \in plugged
    OBVIOUS
  <2>2. /\ v.rd[b] = w.rd[b] /\ v.name[b] = w.name[b] /\ v.device[b] = w.device[b]
        /\ v.profile[b] = w.profile[b]
    BY <1>1
  <2>3. CardOK(card_config, plugged, w, b)
    BY <1>0
  <2> QED BY <2>1, <2>2, <2>3 DEF CardOK
<1>7. \A b \in Cards : Shown(v, b) = v.profile[b] \ card_config.disabled
  <2>1. Shown(v, c) = {} /\ v.profile[c] = {}
    BY <1>1, <1>2 DEF Shown
  <2>2. ASSUME NEW b \in Cards \ {c} PROVE Shown(v, b) = v.profile[b] \ card_config.disabled
    <3>1. Shown(v, b) = Shown(w, b) /\ v.profile[b] = w.profile[b]
      BY <1>1, <1>2 DEF Shown
    <3> QED BY <3>1, <1>0
  <2> QED BY <2>1, <2>2
<1> QED BY <1>5, <1>6, <1>7 DEF AlsaWorldInv

(* A world has just these fields.                                          *)
LEMMA WorldFields ==
  ASSUME NEW w \in AlsaWorld
  PROVE  w = [monitor |-> w.monitor, rd |-> w.rd, name |-> w.name, device |-> w.device,
              profile |-> w.profile, node |-> w.node, info |-> w.info,
              device_names_table |-> w.device_names_table,
              node_names_table |-> w.node_names_table, lost |-> w.lost]
BY DEF AlsaWorld

LEMMA RemoveDeviceInv ==
  ASSUME NEW w, NEW c \in plugged, plugged \subseteq Cards, w.monitor,
         AlsaWorldInv(card_config, plugged, w), NEW v, v = Alsa!removeDevice(w, c)
  PROVE  AlsaWorldInv(card_config, plugged \ {c}, v)
<1>0. /\ w \in AlsaWorld /\ DeviceNamesOK(w) /\ NodeNamesOK(w)
      /\ \A b \in Cards : CardOK(card_config, plugged, w, b)
      /\ \A b \in Cards : Shown(w, b) = w.profile[b] \ card_config.disabled
  BY DEF AlsaWorldInv
<1>1. /\ w.node \in [Cards -> [Alsa!NodeSet -> Alsa!NodeNames \cup {None}]]
      /\ w.device \in [Cards -> {"none", "created", "enabled"}]
      /\ w.profile \in [Cards -> SUBSET Alsa!NodeSet]
      /\ w.name \in [Cards -> Alsa!DeviceNames \cup {None}]
      /\ w.info \in [Cards -> SUBSET Alsa!NodeSet]
      /\ w.rd \in [Cards -> {"none", "acquiring", "acquired", "released", "busy"}]
      /\ w.lost \subseteq Alsa!DeviceNames \cup Alsa!NodeNames \cup {None}
      /\ w.monitor \in BOOLEAN
      /\ w.device_names_table \subseteq Alsa!DeviceNames
      /\ w.node_names_table \subseteq Alsa!NodeNames
  BY <1>0 DEF AlsaWorld
<1>2. CASE w.device[c] = "none" /\ c \in card_config.disabled
  <2>1. v = w
    BY <1>2 DEF Alsa!removeDevice
  <2>2. \A b \in Cards : CardOK(card_config, plugged \ {c}, w, b)
    BY <1>0, <1>2 DEF CardOK
  <2> QED BY <1>0, <2>1, <2>2 DEF AlsaWorldInv
<1>3. CASE w.device[c] = "none" /\ c \notin card_config.disabled
  <2>1. v = [w EXCEPT !.lost = @ \cup {w.name[c]}]
    BY <1>3 DEF Alsa!removeDevice, Alsa!Lose
  <2>2. v = [monitor |-> w.monitor, rd |-> w.rd, name |-> w.name, device |-> w.device,
             profile |-> w.profile, node |-> w.node, info |-> w.info,
             device_names_table |-> w.device_names_table,
             node_names_table |-> w.node_names_table, lost |-> w.lost \cup {w.name[c]}]
    <3>1. w = [monitor |-> w.monitor, rd |-> w.rd, name |-> w.name, device |-> w.device,
               profile |-> w.profile, node |-> w.node, info |-> w.info,
               device_names_table |-> w.device_names_table,
               node_names_table |-> w.node_names_table, lost |-> w.lost]
      BY <1>0, WorldFields
    <3> QED BY ONLY <2>1, <3>1
  <2>5. v \in AlsaWorld
    <3>1. w.lost \cup {w.name[c]} \subseteq Alsa!DeviceNames \cup Alsa!NodeNames \cup {None}
      BY <1>1
    <3> QED BY <1>1, <2>2, <3>1 DEF AlsaWorld
  <2>3. \A b \in Cards : CardOK(card_config, plugged \ {c}, v, b)
    BY <1>0, <1>3, <2>2 DEF CardOK
  <2>4. DeviceNamesOK(v) /\ NodeNamesOK(v) /\ \A b \in Cards : Shown(v, b) = v.profile[b] \ card_config.disabled
    BY <1>0, <2>2 DEF DeviceNamesOK, NodeNamesOK, NodesDistinct, Shown
  <2> QED BY <2>5, <2>3, <2>4 DEF AlsaWorldInv
<1>4. CASE w.device[c] # "none"
  <2> DEFINE shown == Alsa!managed_objects(w, c)
             freed == {i \in shown : \A j \in shown : j <= i => CardNodes[j] \in w.info[c]}
             gone == Alsa!NamesOf(w, c, {CardNodes[i] : i \in freed})
             left == Alsa!NamesOf(w, c, {CardNodes[i] : i \in shown \ freed})
  <2>1. v = [[[w EXCEPT !.rd[c] = "none", !.name[c] = None,
                        !.device_names_table = @ \ {w.name[c]},
                        !.node_names_table = @ \ gone] EXCEPT !.lost = @ \cup left]
             EXCEPT !.device[c] = "none", !.profile[c] = {}, !.node[c] = Alsa!NoNodes,
                    !.info[c] = {}]
    BY <1>4 DEF Alsa!removeDevice, Alsa!finalize, Alsa!Lose
  <2> HIDE DEF gone, left
  <2>2. /\ v = [monitor |-> w.monitor, rd |-> [w.rd EXCEPT ![c] = "none"],
                name |-> [w.name EXCEPT ![c] = None],
                device |-> [w.device EXCEPT ![c] = "none"],
                profile |-> [w.profile EXCEPT ![c] = {}],
                node |-> [w.node EXCEPT ![c] = Alsa!NoNodes],
                info |-> [w.info EXCEPT ![c] = {}],
                device_names_table |-> w.device_names_table \ {w.name[c]},
                node_names_table |-> w.node_names_table \ gone, lost |-> w.lost \cup left]
    <3>1. PICK a : a = [w EXCEPT !.rd[c] = "none", !.name[c] = None,
                                 !.device_names_table = @ \ {w.name[c]},
                                 !.node_names_table = @ \ gone]
      OBVIOUS
    <3>2. w = [monitor |-> w.monitor, rd |-> w.rd, name |-> w.name, device |-> w.device,
               profile |-> w.profile, node |-> w.node, info |-> w.info,
               device_names_table |-> w.device_names_table,
               node_names_table |-> w.node_names_table, lost |-> w.lost]
      BY <1>0, WorldFields
    <3>3. a = [monitor |-> w.monitor, rd |-> [w.rd EXCEPT ![c] = "none"],
               name |-> [w.name EXCEPT ![c] = None], device |-> w.device,
               profile |-> w.profile, node |-> w.node, info |-> w.info,
               device_names_table |-> w.device_names_table \ {w.name[c]},
               node_names_table |-> w.node_names_table \ gone, lost |-> w.lost]
      BY ONLY <3>1, <3>2
    <3>4. PICK b : b = [a EXCEPT !.lost = @ \cup left]
      OBVIOUS
    <3>5. b = [monitor |-> w.monitor, rd |-> [w.rd EXCEPT ![c] = "none"],
               name |-> [w.name EXCEPT ![c] = None], device |-> w.device,
               profile |-> w.profile, node |-> w.node, info |-> w.info,
               device_names_table |-> w.device_names_table \ {w.name[c]},
               node_names_table |-> w.node_names_table \ gone, lost |-> w.lost \cup left]
      BY ONLY <3>3, <3>4
    <3>6. v = [b EXCEPT !.device[c] = "none", !.profile[c] = {}, !.node[c] = Alsa!NoNodes,
                        !.info[c] = {}]
      BY ONLY <2>1, <3>1, <3>4
    <3> QED BY ONLY <3>5, <3>6
  <2>3. left \subseteq Alsa!NodeNames /\ gone \subseteq {w.node[c][m] : m \in Alsa!NodeSet}
    <3>1. \A i \in DOMAIN CardNodes : CardNodes[i] \in Alsa!NodeSet
      BY AlsaConstants
    <3>2. freed \subseteq shown /\ shown \subseteq DOMAIN CardNodes
      BY DEF Alsa!managed_objects
    <3> HIDE DEF freed, shown
    <3> QED BY <3>1, <3>2, <1>1 DEF left, gone, Alsa!NamesOf
  <2>4. \A m \in Alsa!NodeSet : w.node[c][m] \in gone \cup left \cup {None}
    <3> SUFFICES ASSUME NEW m \in Alsa!NodeSet, w.node[c][m] # None
                 PROVE  w.node[c][m] \in gone \cup left
      OBVIOUS
    <3>1. PICK i \in DOMAIN CardNodes : m = CardNodes[i]
      BY DEF Alsa!NodeSet, Alsa!Range
    <3>2. i \in shown
      BY <3>1 DEF Alsa!managed_objects
    <3> HIDE DEF freed, shown
    <3>3. m \in {CardNodes[j] : j \in freed} \/ m \in {CardNodes[j] : j \in shown \ freed}
      BY <3>1, <3>2
    <3> QED BY <3>3 DEF gone, left, Alsa!NamesOf
  <2>5. v \in AlsaWorld
    <3>1. Alsa!NoNodes \in [Alsa!NodeSet -> Alsa!NodeNames \cup {None}]
      BY DEF Alsa!NoNodes
    <3> QED BY <2>2, <2>3, <1>1, <3>1 DEF AlsaWorld
  <2>6. c \in Cards /\ CardOK(card_config, plugged, w, c)
    BY <1>0
  <2>7. DeviceNamesOK(v)
    <3>1. v.name[c] = None /\ \A b \in Cards \ {c} : v.name[b] = w.name[b]
      BY <2>2, <2>6, <1>1
    <3>2. v.device_names_table = w.device_names_table \ {w.name[c]} /\ v.monitor = w.monitor
          /\ w.lost \subseteq v.lost
      BY <2>2
    <3>3. ASSUME NEW b \in Cards, v.name[b] # None
          PROVE  v.name[b][2] = LastCounter \/ v.name[b] \in v.device_names_table
      <4>1. b # c /\ v.name[b] = w.name[b]
        BY <3>1, <3>3
      <4>2. w.name[b][2] = LastCounter \/ w.name[b] \in w.device_names_table
        BY <4>1, <3>3, <1>0 DEF DeviceNamesOK
      <4>3. w.name[b] = w.name[c] => w.name[b][2] = LastCounter
        BY <4>1, <3>3, <2>6, <1>0 DEF DeviceNamesOK
      <4> QED BY <4>1, <4>2, <4>3, <3>2
    <3>4. \A b, d \in Cards : v.name[b] # None /\ v.name[b] = v.name[d] =>
            b = d \/ v.name[b][2] = LastCounter
      BY <3>1, <1>0 DEF DeviceNamesOK
    <3>5. ASSUME v.monitor, NEW x \in v.device_names_table
          PROVE  x \in v.lost \/ \E b \in Cards : v.name[b] = x
      <4>1. x # w.name[c] /\ (x \in w.lost \/ \E b \in Cards : w.name[b] = x)
        BY <3>2, <3>5, <1>0 DEF DeviceNamesOK
      <4> QED BY <4>1, <3>1, <3>2
    <3> QED BY <3>3, <3>4, <3>5 DEF DeviceNamesOK
  <2>8. CardOK(card_config, plugged \ {c}, v, c)
    <3>1. v.rd[c] = "none" /\ v.name[c] = None /\ v.device[c] = "none" /\ v.profile[c] = {}
      BY <2>2, <2>6, <1>1
    <3> QED BY <3>1 DEF CardOK
  <2>9. \A b \in Cards \ {c} : v.rd[b] = w.rd[b] /\ v.name[b] = w.name[b]
    BY <2>2, <1>1
  <2>10. /\ v.node = [w.node EXCEPT ![c] = Alsa!NoNodes]
         /\ v.device = [w.device EXCEPT ![c] = "none"]
         /\ v.profile = [w.profile EXCEPT ![c] = {}]
         /\ v.monitor = w.monitor /\ w.lost \subseteq v.lost
         /\ v.node_names_table \subseteq w.node_names_table
    BY <2>2
  <2>11. \A m \in Alsa!NodeSet : w.node[c][m] \in v.node_names_table => w.node[c][m] \in v.lost
    <3>1. None \notin w.node_names_table
      BY <1>1, AlsaConstants
    <3> QED BY <3>1, <2>2, <2>4
  <2>12. \A x \in w.node_names_table \ v.node_names_table : \E m \in Alsa!NodeSet : w.node[c][m] = x
    BY <2>2, <2>3
  <2> QED BY <2>5, <2>6, <2>7, <2>8, <2>9, <2>10, <2>11, <2>12, DeviceGone
<1> QED BY <1>2, <1>3, <1>4

LEMMA FinalizeFields ==
  ASSUME NEW w \in AlsaWorld, NEW c \in Cards, NEW v, v = Alsa!finalize(w, c)
  PROVE  /\ v \in AlsaWorld
         /\ v = [monitor |-> w.monitor, rd |-> w.rd, name |-> w.name,
                 device |-> [w.device EXCEPT ![c] = "none"],
                 profile |-> [w.profile EXCEPT ![c] = {}],
                 node |-> [w.node EXCEPT ![c] = Alsa!NoNodes],
                 info |-> [w.info EXCEPT ![c] = {}],
                 device_names_table |-> w.device_names_table,
                 node_names_table |-> w.node_names_table, lost |-> w.lost]
<1>1. v = [w EXCEPT !.device[c] = "none", !.profile[c] = {}, !.node[c] = Alsa!NoNodes,
                    !.info[c] = {}]
  BY DEF Alsa!finalize
<1>2. w = [monitor |-> w.monitor, rd |-> w.rd, name |-> w.name, device |-> w.device,
           profile |-> w.profile, node |-> w.node, info |-> w.info,
           device_names_table |-> w.device_names_table,
           node_names_table |-> w.node_names_table, lost |-> w.lost]
  BY WorldFields
<1>3. v = [monitor |-> w.monitor, rd |-> w.rd, name |-> w.name,
           device |-> [w.device EXCEPT ![c] = "none"],
           profile |-> [w.profile EXCEPT ![c] = {}],
           node |-> [w.node EXCEPT ![c] = Alsa!NoNodes],
           info |-> [w.info EXCEPT ![c] = {}],
           device_names_table |-> w.device_names_table,
           node_names_table |-> w.node_names_table, lost |-> w.lost]
  BY ONLY <1>1, <1>2
<1>4. Alsa!NoNodes \in [Alsa!NodeSet -> Alsa!NodeNames \cup {None}]
  BY DEF Alsa!NoNodes
<1>5. v \in AlsaWorld
  BY <1>3, <1>4 DEF AlsaWorld
<1> QED BY <1>3, <1>5

(* Of a card without nodes, only the properties go.                        *)
LEMMA NothingToFinalize ==
  ASSUME NEW w \in AlsaWorld, NEW c \in Cards, Shown(w, c) = {}, w.profile[c] = {}
  PROVE  /\ [w.node EXCEPT ![c] = Alsa!NoNodes] = w.node
         /\ [w.profile EXCEPT ![c] = {}] = w.profile
<1>1. /\ w.node \in [Cards -> [Alsa!NodeSet -> Alsa!NodeNames \cup {None}]]
      /\ w.profile \in [Cards -> SUBSET Alsa!NodeSet]
  BY DEF AlsaWorld
<1>2. w.node[c] \in [Alsa!NodeSet -> Alsa!NodeNames \cup {None}]
      /\ \A n \in Alsa!NodeSet : w.node[c][n] = None
  BY <1>1 DEF Shown
<1>3. w.node[c] = Alsa!NoNodes
  BY <1>2 DEF Alsa!NoNodes
<1> QED BY <1>1, <1>3

CreatedDevice(w, c, there, v) ==
  /\ v \in AlsaWorld /\ v.node = w.node /\ v.profile = w.profile
  /\ v.monitor = w.monitor /\ v.rd = w.rd /\ v.name = w.name /\ v.lost = w.lost
  /\ v.device_names_table = w.device_names_table
  /\ v.node_names_table = w.node_names_table
  /\ v.device = IF c \in card_config.broken \/ c \notin there THEN w.device
                ELSE [w.device EXCEPT ![c] = "created"]

LEMMA CreateDeviceFields ==
  ASSUME NEW w \in AlsaWorld, NEW c \in Cards, Shown(w, c) = {}, w.profile[c] = {}, NEW there
  PROVE  CreatedDevice(w, c, there, Alsa!createDevice(w, c, there))
<1> DEFINE v == Alsa!createDevice(w, c, there)
<1> SUFFICES CreatedDevice(w, c, there, v)
  OBVIOUS
<1>1. CASE c \in card_config.broken \/ c \notin there
  BY <1>1 DEF Alsa!createDevice, CreatedDevice
<1>2. CASE ~(c \in card_config.broken \/ c \notin there)
  <2>1. PICK f : f = Alsa!finalize(w, c)
    OBVIOUS
  <2>2. /\ f \in AlsaWorld
        /\ f = [monitor |-> w.monitor, rd |-> w.rd, name |-> w.name,
                device |-> [w.device EXCEPT ![c] = "none"],
                profile |-> w.profile, node |-> w.node,
                info |-> [w.info EXCEPT ![c] = {}],
                device_names_table |-> w.device_names_table,
                node_names_table |-> w.node_names_table, lost |-> w.lost]
    <3>1. /\ f \in AlsaWorld
          /\ f = [monitor |-> w.monitor, rd |-> w.rd, name |-> w.name,
                  device |-> [w.device EXCEPT ![c] = "none"],
                  profile |-> [w.profile EXCEPT ![c] = {}],
                  node |-> [w.node EXCEPT ![c] = Alsa!NoNodes],
                  info |-> [w.info EXCEPT ![c] = {}],
                  device_names_table |-> w.device_names_table,
                  node_names_table |-> w.node_names_table, lost |-> w.lost]
      BY <2>1, FinalizeFields
    <3>2. /\ [w.node EXCEPT ![c] = Alsa!NoNodes] = w.node
          /\ [w.profile EXCEPT ![c] = {}] = w.profile
      BY NothingToFinalize
    <3> QED BY ONLY <3>1, <3>2
  <2>3. v = [f EXCEPT !.device[c] = "created"]
    BY <1>2, <2>1 DEF Alsa!createDevice
  <2> HIDE DEF v
  <2>4. w.device \in [Cards -> {"none", "created", "enabled"}]
    BY DEF AlsaWorld
  <2>5. /\ v.node = w.node /\ v.profile = w.profile
        /\ v.monitor = w.monitor /\ v.rd = w.rd /\ v.name = w.name /\ v.lost = w.lost
        /\ v.device_names_table = w.device_names_table
        /\ v.node_names_table = w.node_names_table
        /\ v.device = [w.device EXCEPT ![c] = "created"]
    BY <2>2, <2>3, <2>4
  <2>6. v \in AlsaWorld
    <3>1. v = [monitor |-> f.monitor, rd |-> f.rd, name |-> f.name,
               device |-> [w.device EXCEPT ![c] = "created"],
               profile |-> f.profile, node |-> f.node, info |-> f.info,
               device_names_table |-> f.device_names_table,
               node_names_table |-> f.node_names_table, lost |-> f.lost]
      BY <2>2, <2>3, <2>4
    <3> QED BY <3>1, <2>2, <2>4 DEF AlsaWorld
  <2> QED BY <1>2, <2>5, <2>6 DEF CreatedDevice
<1> QED BY <1>1, <1>2

(* A card that is plugged in, with a name of its own.                      *)
LEMMA PrepareInv ==
  ASSUME NEW P \in SUBSET Cards, NEW w, NEW c \in Cards \ P, w.monitor,
         AlsaWorldInv(card_config, P, w), NEW there, c \in there,
         NEW v, v = Alsa!prepareDevice(w, c, there)
  PROVE  AlsaWorldInv(card_config, P \cup {c}, v) /\ v.monitor
<1> DEFINE d == Alsa!Deduplicated(<<CardName[c]>>, w.device_names_table)
           u == [w EXCEPT !.name[c] = d.name, !.device_names_table = d.table]
<1> HIDE DEF d
<1>0. /\ w \in AlsaWorld /\ DeviceNamesOK(w) /\ NodeNamesOK(w)
      /\ \A b \in Cards : CardOK(card_config, P, w, b)
      /\ \A b \in Cards : Shown(w, b) = w.profile[b] \ card_config.disabled
  BY DEF AlsaWorldInv
<1>1. /\ w.node \in [Cards -> [Alsa!NodeSet -> Alsa!NodeNames \cup {None}]]
      /\ w.device \in [Cards -> {"none", "created", "enabled"}]
      /\ w.profile \in [Cards -> SUBSET Alsa!NodeSet]
      /\ w.name \in [Cards -> Alsa!DeviceNames \cup {None}]
      /\ w.rd \in [Cards -> {"none", "acquiring", "acquired", "released", "busy"}]
      /\ w.device_names_table \subseteq Alsa!DeviceNames
  BY <1>0 DEF AlsaWorld
<1>2. CASE c \in card_config.disabled
  <2>1. v = w
    BY <1>2 DEF Alsa!prepareDevice
  <2>2. \A b \in Cards : CardOK(card_config, P \cup {c}, w, b)
    BY <1>0, <1>2 DEF CardOK
  <2> QED BY <1>0, <2>1, <2>2 DEF AlsaWorldInv
<1>3. CASE c \notin card_config.disabled
  <2>1. PICK k \in 1..LastCounter : d.name = <<<<CardName[c]>>, k>>
    BY DeduplicatedName DEF d
  <2>2. \/ d.name[2] = LastCounter /\ d.table = w.device_names_table
        \/ d.name \notin w.device_names_table /\ d.table = w.device_names_table \cup {d.name}
    BY DeduplicatedName DEF d
  <2>3. d.name \in Alsa!DeviceNames /\ d.name # None
    BY <2>1, AlsaConstants DEF Alsa!DeviceNames
  <2>4. u = [monitor |-> w.monitor, rd |-> w.rd, name |-> [w.name EXCEPT ![c] = d.name],
             device |-> w.device, profile |-> w.profile, node |-> w.node, info |-> w.info,
             device_names_table |-> d.table,
             node_names_table |-> w.node_names_table, lost |-> w.lost]
    <3>1. w = [monitor |-> w.monitor, rd |-> w.rd, name |-> w.name, device |-> w.device,
               profile |-> w.profile, node |-> w.node, info |-> w.info,
               device_names_table |-> w.device_names_table,
               node_names_table |-> w.node_names_table, lost |-> w.lost]
      BY <1>0, WorldFields
    <3>2. u = [w EXCEPT !.name[c] = d.name, !.device_names_table = d.table]
      OBVIOUS
    <3> HIDE DEF u
    <3> QED BY ONLY <3>1, <3>2
  <2>5. u \in AlsaWorld
    BY <1>0, <1>1, <2>2, <2>3, <2>4 DEF AlsaWorld
  <2>6. w.device[c] = "none" /\ w.profile[c] = {} /\ Shown(w, c) = {}
    BY <1>0, <1>1 DEF CardOK
  <2>7. Shown(u, c) = {} /\ u.profile[c] = {}
    BY <2>4, <2>6 DEF Shown
  <2>8. v = IF card_config.reserving THEN [u EXCEPT !.rd[c] = "acquiring"]
            ELSE Alsa!createDevice(u, c, there)
    BY <1>3 DEF Alsa!prepareDevice, d
  <2> HIDE DEF u
  <2>9. /\ v \in AlsaWorld /\ v.node = w.node /\ v.profile = w.profile
        /\ v.monitor = w.monitor /\ v.name = [w.name EXCEPT ![c] = d.name] /\ v.lost = w.lost
        /\ v.device_names_table = d.table
        /\ v.node_names_table = w.node_names_table
        /\ v.rd = IF card_config.reserving THEN [w.rd EXCEPT ![c] = "acquiring"] ELSE w.rd
        /\ v.device = IF card_config.reserving \/ c \in card_config.broken THEN w.device
                      ELSE [w.device EXCEPT ![c] = "created"]
    <3>1. CASE card_config.reserving
      <4>1. v = [monitor |-> w.monitor, rd |-> [w.rd EXCEPT ![c] = "acquiring"],
                 name |-> [w.name EXCEPT ![c] = d.name],
                 device |-> w.device, profile |-> w.profile, node |-> w.node, info |-> w.info,
                 device_names_table |-> d.table,
                 node_names_table |-> w.node_names_table, lost |-> w.lost]
        BY <3>1, <2>4, <2>8
      <4>2. v \in AlsaWorld
        BY <2>4, <2>5, <4>1, <1>1 DEF AlsaWorld
      <4> QED BY <4>1, <4>2, <3>1
    <3>2. CASE ~card_config.reserving
      <4>1. v = Alsa!createDevice(u, c, there)
        BY <3>2, <2>8
      <4>2. CreatedDevice(u, c, there, v)
        <5>1. Shown(u, c) = {}
          BY <2>7
        <5>2. u.profile[c] = {}
          BY <2>7
        <5>3. c \in Cards
          OBVIOUS
        <5> HIDE DEF u
        <5> QED BY <4>1, <2>5, <5>1, <5>2, <5>3, CreateDeviceFields
      <4> QED BY <4>2, <3>2, <2>4 DEF CreatedDevice
    <3> QED BY <3>1, <3>2
  <2>10. /\ v.name[c] = d.name /\ \A b \in Cards \ {c} : v.name[b] = w.name[b]
         /\ \A b \in Cards \ {c} : v.rd[b] = w.rd[b] /\ v.device[b] = w.device[b]
    BY <2>9, <1>1
  <2>11. DeviceNamesOK(v)
    <3>1. ASSUME NEW b \in Cards, v.name[b] # None
          PROVE  v.name[b][2] = LastCounter \/ v.name[b] \in v.device_names_table
      BY <3>1, <2>2, <2>9, <2>10, <1>0 DEF DeviceNamesOK
    <3>2. ASSUME NEW b \in Cards \ {c}, v.name[b] = d.name PROVE d.name[2] = LastCounter
      BY <3>2, <2>2, <2>3, <2>10, <1>0 DEF DeviceNamesOK
    <3>3. ASSUME NEW b \in Cards, NEW e \in Cards, v.name[b] # None, v.name[b] = v.name[e]
          PROVE  b = e \/ v.name[b][2] = LastCounter
      BY <3>2, <3>3, <2>10, <1>0 DEF DeviceNamesOK
    <3>4. ASSUME NEW x \in v.device_names_table
          PROVE  x \in v.lost \/ \E b \in Cards : v.name[b] = x
      <4>1. CASE x = d.name
        BY <4>1, <2>10
      <4>2. CASE x # d.name
        <5>1. x \in w.device_names_table /\ x # None
          BY <3>4, <4>2, <2>2, <2>9, <1>1, AlsaConstants
        <5>2. x \in w.lost \/ \E b \in Cards : w.name[b] = x
          BY <5>1, <1>0 DEF DeviceNamesOK
        <5>3. w.name[c] # None => w.name[c] \in w.lost
          BY <1>0 DEF CardOK
        <5> QED BY <5>1, <5>2, <5>3, <2>9, <2>10
      <4> QED BY <4>1, <4>2
    <3> QED BY <3>1, <3>3, <3>4 DEF DeviceNamesOK
  <2>12. NodeNamesOK(v) /\ \A b \in Cards : Shown(v, b) = v.profile[b] \ card_config.disabled
    BY <1>0, <2>9 DEF NodeNamesOK, NodesDistinct, Shown
  <2>13. ASSUME NEW b \in Cards PROVE CardOK(card_config, P \cup {c}, v, b)
    <3>1. CASE b # c
      <4>1. /\ v.rd[b] = w.rd[b] /\ v.device[b] = w.device[b] /\ v.name[b] = w.name[b]
            /\ v.profile[b] = w.profile[b] /\ v.monitor = w.monitor /\ v.lost = w.lost
        BY <3>1, <2>9, <2>10
      <4>2. CardOK(card_config, P, w, b)
        BY <1>0
      <4> QED BY <3>1, <4>1, <4>2 DEF CardOK
    <3>2. CASE b = c
      <4>1. CASE card_config.reserving
        <5>1. v.rd[c] = "acquiring" /\ v.device[c] = "none" /\ v.profile[c] = {} /\ v.monitor
          BY <4>1, <2>6, <2>9, <1>1
        <5> QED BY <3>2, <4>1, <5>1, <1>3, <2>3, <2>10 DEF CardOK
      <4>2. CASE ~card_config.reserving
        <5>1. /\ v.rd[c] = w.rd[c] /\ v.profile[c] = {} /\ v.monitor
              /\ v.device[c] = IF c \in card_config.broken THEN "none" ELSE "created"
          BY <4>2, <2>6, <2>9, <1>1
        <5>2. w.rd[c] = "none"
          BY <4>2, <1>0 DEF CardOK
        <5> QED BY <3>2, <4>2, <5>1, <5>2, <1>3, <2>3, <2>10 DEF CardOK
      <4> QED BY <4>1, <4>2
    <3> QED BY <3>1, <3>2
  <2> QED BY <2>9, <2>11, <2>12, <2>13 DEF AlsaWorldInv
<1> QED BY <1>2, <1>3

-----------------------------------------------------------------------------
(* The steps.                                                              *)
LEMMA WorldIs ==
  /\ Alsa!World.monitor = monitor /\ Alsa!World.rd = rd /\ Alsa!World.name = name
  /\ Alsa!World.device = device /\ Alsa!World.profile = profile
  /\ Alsa!World.node = card_node /\ Alsa!World.info = info
  /\ Alsa!World.device_names_table = device_names_table
  /\ Alsa!World.node_names_table = node_names_table /\ Alsa!World.lost = lost
BY DEF Alsa!World

LEMMA StepInv ==
  ASSUME AlsaInv, UNCHANGED card_config, plugged' \subseteq Cards,
         NEW v, Alsa!Becomes(v), AlsaWorldInv(card_config, plugged', v)
  PROVE  AlsaInv'
<1>1. v \in AlsaWorld
  BY DEF AlsaWorldInv
<1>2. v = [monitor |-> v.monitor, rd |-> v.rd, name |-> v.name, device |-> v.device,
           profile |-> v.profile, node |-> v.node, info |-> v.info,
           device_names_table |-> v.device_names_table,
           node_names_table |-> v.node_names_table, lost |-> v.lost]
  BY <1>1, WorldFields
<1>3. /\ monitor' = v.monitor /\ rd' = v.rd /\ name' = v.name
      /\ device' = v.device /\ profile' = v.profile
      /\ card_node' = v.node /\ info' = v.info /\ lost' = v.lost
      /\ device_names_table' = v.device_names_table
      /\ node_names_table' = v.node_names_table
  BY DEF Alsa!Becomes
<1>4. Alsa!World' = v
  BY <1>2, <1>3 DEF Alsa!World
<1>5. AlsaWorldInv(card_config', plugged', Alsa!World')
  BY <1>4
<1> QED BY <1>5 DEF AlsaInv

(* The reservation and the device of one card change.                      *)
LEMMA CardChanged ==
  ASSUME NEW w, AlsaWorldInv(card_config, plugged, w), NEW c \in Cards,
         NEW v \in AlsaWorld,
         v.node = w.node, v.profile = w.profile, v.monitor = w.monitor, v.name = w.name,
         v.lost = w.lost, v.device_names_table = w.device_names_table,
         v.node_names_table = w.node_names_table,
         \A b \in Cards \ {c} : v.rd[b] = w.rd[b] /\ v.device[b] = w.device[b],
         CardOK(card_config, plugged, v, c)
  PROVE  AlsaWorldInv(card_config, plugged, v)
<1>0. /\ w \in AlsaWorld /\ DeviceNamesOK(w) /\ NodeNamesOK(w)
      /\ \A b \in Cards : CardOK(card_config, plugged, w, b)
      /\ \A b \in Cards : Shown(w, b) = w.profile[b] \ card_config.disabled
  BY DEF AlsaWorldInv
<1>1. DeviceNamesOK(v) /\ NodeNamesOK(v)
      /\ \A b \in Cards : Shown(v, b) = v.profile[b] \ card_config.disabled
  BY <1>0 DEF DeviceNamesOK, NodeNamesOK, NodesDistinct, Shown
<1>2. \A b \in Cards : CardOK(card_config, plugged, v, b)
  BY <1>0 DEF CardOK
<1> QED BY <1>1, <1>2 DEF AlsaWorldInv

LEMMA PlugInv ==
  ASSUME AlsaInv, NEW c \in Cards, Alsa!Plug(c)
  PROVE  AlsaInv'
<1>1. /\ plugged \subseteq Cards /\ AlsaWorldInv(card_config, plugged, Alsa!World)
      /\ c \notin plugged /\ plugged' = plugged \cup {c} /\ UNCHANGED card_config
  BY DEF AlsaInv, Alsa!Plug
<1>2. CASE monitor
  <2>1. PICK v : v = Alsa!prepareDevice(Alsa!World, c, plugged')
    OBVIOUS
  <2>2. Alsa!Becomes(v)
    BY <1>2, <2>1 DEF Alsa!Plug
  <2>3. Alsa!World.monitor
    BY <1>2, WorldIs
  <2>4. c \in Cards \ plugged /\ c \in plugged' /\ plugged \in SUBSET Cards
    BY <1>1
  <2>5. AlsaWorldInv(card_config, plugged \cup {c}, v)
    BY <1>1, <2>1, <2>3, <2>4, PrepareInv
  <2> QED BY <1>1, <2>2, <2>5, StepInv
<1>3. CASE ~monitor
  <2>1. Alsa!Becomes(Alsa!World)
    BY <1>3 DEF Alsa!Plug
  <2>2. \A b \in Cards : CardOK(card_config, plugged', Alsa!World, b)
    BY <1>1, <1>3, WorldIs DEF CardOK, AlsaWorldInv
  <2>3. AlsaWorldInv(card_config, plugged', Alsa!World)
    BY <1>1, <2>2 DEF AlsaWorldInv
  <2> QED BY <1>1, <2>1, <2>3, StepInv
<1> QED BY <1>2, <1>3

LEMMA UnplugInv ==
  ASSUME AlsaInv, NEW c \in Cards, Alsa!Unplug(c)
  PROVE  AlsaInv'
<1>1. /\ plugged \subseteq Cards /\ AlsaWorldInv(card_config, plugged, Alsa!World)
      /\ c \in plugged /\ plugged' = plugged \ {c} /\ UNCHANGED card_config
  BY DEF AlsaInv, Alsa!Unplug
<1>2. CASE monitor
  <2>1. PICK v : v = Alsa!removeDevice(Alsa!World, c)
    OBVIOUS
  <2>2. Alsa!Becomes(v)
    BY <1>2, <2>1 DEF Alsa!Unplug
  <2>3. Alsa!World.monitor
    BY <1>2, WorldIs
  <2>4. AlsaWorldInv(card_config, plugged \ {c}, v)
    BY <1>1, <2>1, <2>3, RemoveDeviceInv
  <2> QED BY <1>1, <2>2, <2>4, StepInv
<1>3. CASE ~monitor
  <2>1. Alsa!Becomes(Alsa!World)
    BY <1>3 DEF Alsa!Unplug
  <2>2. \A b \in Cards : CardOK(card_config, plugged', Alsa!World, b)
    BY <1>1, <1>3, WorldIs DEF CardOK, AlsaWorldInv
  <2>3. AlsaWorldInv(card_config, plugged', Alsa!World)
    BY <1>1, <2>2 DEF AlsaWorldInv
  <2> QED BY <1>1, <2>1, <2>3, StepInv
<1> QED BY <1>2, <1>3

(* What the reservation of a card tells.                                   *)
LEMMA ReservedInv ==
  ASSUME AlsaInv, NEW c \in Cards, Alsa!Acquired(c) \/ Alsa!Busy(c) \/ Alsa!Available(c)
  PROVE  AlsaInv'
<1> DEFINE w == Alsa!World
<1>1. /\ plugged \subseteq Cards /\ AlsaWorldInv(card_config, plugged, w)
      /\ plugged' = plugged /\ UNCHANGED card_config
      /\ rd[c] \in {"acquiring", "released", "busy"}
  BY DEF AlsaInv, Alsa!Acquired, Alsa!Busy, Alsa!Available
<1>2. w.rd[c] = rd[c] /\ w.rd[c] \notin {"none", "acquired"}
  BY <1>1, WorldIs
<1> HIDE DEF w
<1>3. w \in AlsaWorld /\ CardOK(card_config, plugged, w, c)
      /\ Shown(w, c) = w.profile[c] \ card_config.disabled
  BY <1>1 DEF AlsaWorldInv
<1>4. /\ card_config.reserving /\ w.monitor /\ c \notin card_config.disabled /\ w.name[c] # None
      /\ w.device[c] = "none" /\ w.profile[c] = {} /\ Shown(w, c) = {}
      /\ c \notin plugged => w.name[c] \in w.lost
  BY <1>2, <1>3 DEF CardOK
<1>5. /\ w.device \in [Cards -> {"none", "created", "enabled"}]
      /\ w.rd \in [Cards -> {"none", "acquiring", "acquired", "released", "busy"}]
  BY <1>3 DEF AlsaWorld
<1>6. ASSUME NEW s \in {"acquiring", "acquired", "busy"}, NEW u, u = [w EXCEPT !.rd[c] = s]
      PROVE  /\ u \in AlsaWorld
             /\ u = [monitor |-> w.monitor, rd |-> [w.rd EXCEPT ![c] = s], name |-> w.name,
                     device |-> w.device, profile |-> w.profile, node |-> w.node, info |-> w.info,
                     device_names_table |-> w.device_names_table,
                     node_names_table |-> w.node_names_table, lost |-> w.lost]
             /\ u.rd[c] = s /\ \A b \in Cards \ {c} : u.rd[b] = w.rd[b]
             /\ Shown(u, c) = {} /\ u.profile[c] = {}
  <2>1. w = [monitor |-> w.monitor, rd |-> w.rd, name |-> w.name, device |-> w.device,
             profile |-> w.profile, node |-> w.node, info |-> w.info,
             device_names_table |-> w.device_names_table,
             node_names_table |-> w.node_names_table, lost |-> w.lost]
    BY <1>3, WorldFields
  <2>2. u = [monitor |-> w.monitor, rd |-> [w.rd EXCEPT ![c] = s], name |-> w.name,
             device |-> w.device, profile |-> w.profile, node |-> w.node, info |-> w.info,
             device_names_table |-> w.device_names_table,
             node_names_table |-> w.node_names_table, lost |-> w.lost]
    BY ONLY <1>6, <2>1
  <2>3. u \in AlsaWorld
    BY <1>3, <1>5, <2>2 DEF AlsaWorld
  <2>4. u.rd[c] = s /\ \A b \in Cards \ {c} : u.rd[b] = w.rd[b]
    BY <1>5, <2>2
  <2>5. Shown(u, c) = {} /\ u.profile[c] = {}
    BY <1>4, <2>2 DEF Shown
  <2> QED BY <2>2, <2>3, <2>4, <2>5
<1>7. CASE Alsa!Acquired(c)
  <2>1. PICK u : u = [w EXCEPT !.rd[c] = "acquired"]
    OBVIOUS
  <2>2. PICK v : v = Alsa!createDevice(u, c, plugged)
    OBVIOUS
  <2>3. Alsa!Becomes(v)
    BY <1>7, <2>1, <2>2 DEF Alsa!Acquired, w
  <2>4. /\ u \in AlsaWorld
        /\ u = [monitor |-> w.monitor, rd |-> [w.rd EXCEPT ![c] = "acquired"], name |-> w.name,
                device |-> w.device, profile |-> w.profile, node |-> w.node, info |-> w.info,
                device_names_table |-> w.device_names_table,
                node_names_table |-> w.node_names_table, lost |-> w.lost]
        /\ u.rd[c] = "acquired" /\ \A b \in Cards \ {c} : u.rd[b] = w.rd[b]
    BY <1>6, <2>1
  <2>5. Shown(u, c) = {}
    BY <1>6, <2>1
  <2>6. u.profile[c] = {}
    BY <1>6, <2>1
  <2>7. CreatedDevice(u, c, plugged, v)
    BY <2>2, <2>4, <2>5, <2>6, CreateDeviceFields
  <2>8. /\ v \in AlsaWorld /\ v.node = w.node /\ v.profile = w.profile
        /\ v.monitor = w.monitor /\ v.name = w.name /\ v.lost = w.lost
        /\ v.device_names_table = w.device_names_table
        /\ v.node_names_table = w.node_names_table
        /\ v.rd[c] = "acquired"
        /\ v.device[c] = IF c \in card_config.broken \/ c \notin plugged THEN "none" ELSE "created"
        /\ \A b \in Cards \ {c} : v.rd[b] = w.rd[b] /\ v.device[b] = w.device[b]
    BY <2>4, <2>7, <1>4, <1>5 DEF CreatedDevice
  <2>9. CardOK(card_config, plugged, v, c)
    BY <1>4, <2>8 DEF CardOK
  <2>10. AlsaWorldInv(card_config, plugged, v)
    BY <1>1, <2>8, <2>9, CardChanged
  <2> QED BY <1>1, <2>3, <2>10, StepInv
<1>8. CASE Alsa!Busy(c)
  <2>1. PICK u : u = [w EXCEPT !.rd[c] = "busy"]
    OBVIOUS
  <2>2. PICK v : v = Alsa!finalize(u, c)
    OBVIOUS
  <2>3. Alsa!Becomes(v)
    BY <1>8, <2>1, <2>2 DEF Alsa!Busy, w
  <2>4. /\ u \in AlsaWorld
        /\ u = [monitor |-> w.monitor, rd |-> [w.rd EXCEPT ![c] = "busy"], name |-> w.name,
                device |-> w.device, profile |-> w.profile, node |-> w.node, info |-> w.info,
                device_names_table |-> w.device_names_table,
                node_names_table |-> w.node_names_table, lost |-> w.lost]
        /\ u.rd[c] = "busy" /\ \A b \in Cards \ {c} : u.rd[b] = w.rd[b]
    BY <1>6, <2>1
  <2>5. Shown(u, c) = {}
    BY <1>6, <2>1
  <2>6. u.profile[c] = {}
    BY <1>6, <2>1
  <2>7. /\ v \in AlsaWorld
        /\ v = [monitor |-> u.monitor, rd |-> u.rd, name |-> u.name,
                device |-> [u.device EXCEPT ![c] = "none"],
                profile |-> [u.profile EXCEPT ![c] = {}],
                node |-> [u.node EXCEPT ![c] = Alsa!NoNodes],
                info |-> [u.info EXCEPT ![c] = {}],
                device_names_table |-> u.device_names_table,
                node_names_table |-> u.node_names_table, lost |-> u.lost]
    BY <2>2, <2>4, FinalizeFields
  <2>8. /\ [u.node EXCEPT ![c] = Alsa!NoNodes] = u.node
        /\ [u.profile EXCEPT ![c] = {}] = u.profile
    BY <2>4, <2>5, <2>6, NothingToFinalize
  <2>9. /\ v.node = w.node /\ v.profile = w.profile
        /\ v.monitor = w.monitor /\ v.name = w.name /\ v.lost = w.lost
        /\ v.device_names_table = w.device_names_table
        /\ v.node_names_table = w.node_names_table
        /\ v.rd[c] = "busy" /\ v.device[c] = "none"
        /\ \A b \in Cards \ {c} : v.rd[b] = w.rd[b] /\ v.device[b] = w.device[b]
    BY <2>4, <2>7, <2>8, <1>5
  <2>10. CardOK(card_config, plugged, v, c)
    BY <1>4, <2>9 DEF CardOK
  <2>11. AlsaWorldInv(card_config, plugged, v)
    <3>1. v \in AlsaWorld
      BY <2>7
    <3> QED BY <1>1, <2>9, <2>10, <3>1, CardChanged
  <2> QED BY <1>1, <2>3, <2>11, StepInv
<1>9. CASE Alsa!Available(c)
  <2>1. PICK v : v = [w EXCEPT !.rd[c] = "acquiring"]
    OBVIOUS
  <2>2. Alsa!Becomes(v)
    BY <1>9, <2>1 DEF Alsa!Available, w
  <2>3. /\ v \in AlsaWorld
        /\ v = [monitor |-> w.monitor, rd |-> [w.rd EXCEPT ![c] = "acquiring"], name |-> w.name,
                device |-> w.device, profile |-> w.profile, node |-> w.node, info |-> w.info,
                device_names_table |-> w.device_names_table,
                node_names_table |-> w.node_names_table, lost |-> w.lost]
        /\ v.rd[c] = "acquiring" /\ \A b \in Cards \ {c} : v.rd[b] = w.rd[b]
    BY <1>6, <2>1
  <2>4. CardOK(card_config, plugged, v, c)
    BY <1>4, <2>3 DEF CardOK
  <2>5. AlsaWorldInv(card_config, plugged, v)
    BY <1>1, <2>3, <2>4, CardChanged
  <2> QED BY <1>1, <2>2, <2>5, StepInv
<1> QED BY <1>7, <1>8, <1>9

LEMMA ReleaseRequestedInv ==
  ASSUME AlsaInv, NEW c \in Cards, Alsa!ReleaseRequested(c)
  PROVE  AlsaInv'
<1> DEFINE w == Alsa!World
           names == Alsa!NamesOf(w, c, Alsa!NodeSet)
<1>1. /\ plugged \subseteq Cards /\ AlsaWorldInv(card_config, plugged, w)
      /\ plugged' = plugged /\ UNCHANGED card_config /\ rd[c] = "acquired"
  BY DEF AlsaInv, Alsa!ReleaseRequested
<1>2. w.rd[c] = "acquired"
  BY <1>1, WorldIs
<1>3. PICK u : u = [w EXCEPT !.rd[c] = "released", !.lost = @ \cup names]
  OBVIOUS
<1>4. PICK v : v = Alsa!finalize(u, c)
  OBVIOUS
<1>5. Alsa!Becomes(v)
  <2>1. Alsa!Becomes(Alsa!finalize(Alsa!Lose([w EXCEPT !.rd[c] = "released"], names), c))
    BY DEF Alsa!ReleaseRequested
  <2>2. Alsa!Lose([w EXCEPT !.rd[c] = "released"], names) = u
    <3> HIDE DEF w, names
    <3> QED BY <1>3 DEF Alsa!Lose
  <2> QED BY <2>1, <2>2, <1>4
<1>6. names = {w.node[c][n] : n \in Alsa!NodeSet} \ {None}
  BY DEF Alsa!NamesOf
<1> HIDE DEF w, names
<1>7. w \in AlsaWorld /\ CardOK(card_config, plugged, w, c)
      /\ DeviceNamesOK(w) /\ NodeNamesOK(w)
  BY <1>1 DEF AlsaWorldInv
<1>8. /\ w.node \in [Cards -> [Alsa!NodeSet -> Alsa!NodeNames \cup {None}]]
      /\ w.device \in [Cards -> {"none", "created", "enabled"}]
      /\ w.profile \in [Cards -> SUBSET Alsa!NodeSet]
      /\ w.rd \in [Cards -> {"none", "acquiring", "acquired", "released", "busy"}]
      /\ w.lost \subseteq Alsa!DeviceNames \cup Alsa!NodeNames \cup {None}
  BY <1>7 DEF AlsaWorld
<1>9. u = [monitor |-> w.monitor, rd |-> [w.rd EXCEPT ![c] = "released"], name |-> w.name,
           device |-> w.device, profile |-> w.profile, node |-> w.node, info |-> w.info,
           device_names_table |-> w.device_names_table,
           node_names_table |-> w.node_names_table, lost |-> w.lost \cup names]
  <2>1. w = [monitor |-> w.monitor, rd |-> w.rd, name |-> w.name, device |-> w.device,
             profile |-> w.profile, node |-> w.node, info |-> w.info,
             device_names_table |-> w.device_names_table,
             node_names_table |-> w.node_names_table, lost |-> w.lost]
    BY <1>7, WorldFields
  <2> QED BY ONLY <1>3, <2>1
<1>10. u \in AlsaWorld
  <2>1. w.lost \cup names \subseteq Alsa!DeviceNames \cup Alsa!NodeNames \cup {None}
    BY <1>6, <1>8
  <2> QED BY <1>7, <1>8, <1>9, <2>1 DEF AlsaWorld
<1>11. /\ v \in AlsaWorld
       /\ v = [monitor |-> u.monitor, rd |-> u.rd, name |-> u.name,
               device |-> [u.device EXCEPT ![c] = "none"],
               profile |-> [u.profile EXCEPT ![c] = {}],
               node |-> [u.node EXCEPT ![c] = Alsa!NoNodes],
               info |-> [u.info EXCEPT ![c] = {}],
               device_names_table |-> u.device_names_table,
               node_names_table |-> u.node_names_table, lost |-> u.lost]
  BY <1>4, <1>10, FinalizeFields
<1>12. v \in AlsaWorld
  BY <1>11
<1>13. /\ v.node = [w.node EXCEPT ![c] = Alsa!NoNodes]
       /\ v.device = [w.device EXCEPT ![c] = "none"]
       /\ v.profile = [w.profile EXCEPT ![c] = {}]
       /\ v.monitor = w.monitor /\ w.lost \subseteq v.lost
       /\ v.node_names_table \subseteq w.node_names_table
  BY <1>9, <1>11
<1>14. /\ v.node_names_table = w.node_names_table /\ v.lost = w.lost \cup names
       /\ v.device_names_table = w.device_names_table /\ v.name = w.name
       /\ v.rd = [w.rd EXCEPT ![c] = "released"]
  BY <1>9, <1>11
<1>15. \A m \in Alsa!NodeSet : w.node[c][m] \in v.node_names_table => w.node[c][m] \in v.lost
  <2>1. None \notin v.node_names_table
    BY <1>12, AlsaConstants DEF AlsaWorld
  <2> QED BY <2>1, <1>6, <1>14
<1>16. \A x \in w.node_names_table \ v.node_names_table : \E m \in Alsa!NodeSet : w.node[c][m] = x
  BY <1>14
<1>17. DeviceNamesOK(v)
  BY <1>7, <1>13, <1>14 DEF DeviceNamesOK
<1>18. CardOK(card_config, plugged, v, c)
  <2>1. v.rd[c] = "released" /\ v.device[c] = "none" /\ v.profile[c] = {} /\ v.name[c] = w.name[c]
    BY <1>8, <1>13, <1>14
  <2> QED BY <1>2, <1>7, <1>13, <2>1 DEF CardOK
<1>19. \A b \in Cards \ {c} : v.rd[b] = w.rd[b] /\ v.name[b] = w.name[b]
  BY <1>8, <1>14
<1>20. plugged \in {plugged, plugged \ {c}}
  OBVIOUS
<1>21. AlsaWorldInv(card_config, plugged, v)
  BY <1>1, <1>12, <1>13, <1>15, <1>16, <1>17, <1>18, <1>19, <1>20, DeviceGone
<1> QED BY <1>1, <1>5, <1>21, StepInv

LEMMA NodeInfoInv ==
  ASSUME AlsaInv, NEW c \in Cards, NEW n \in Alsa!NodeSet, Alsa!NodeInfo(c, n)
  PROVE  AlsaInv'
<1> DEFINE w == Alsa!World
           v == [w EXCEPT !.info[c] = @ \cup {n}]
<1>1. /\ plugged \subseteq Cards /\ AlsaWorldInv(card_config, plugged, w)
      /\ plugged' = plugged /\ UNCHANGED card_config
  BY DEF AlsaInv, Alsa!NodeInfo
<1>2. Alsa!Becomes(v)
  BY DEF Alsa!Becomes, Alsa!NodeInfo, Alsa!World
<1> HIDE DEF w
<1>3. /\ w \in AlsaWorld /\ DeviceNamesOK(w) /\ NodeNamesOK(w)
      /\ \A b \in Cards : CardOK(card_config, plugged, w, b)
                          /\ Shown(w, b) = w.profile[b] \ card_config.disabled
  BY <1>1 DEF AlsaWorldInv
<1>4. w.info \in [Cards -> SUBSET Alsa!NodeSet]
  BY <1>3 DEF AlsaWorld
<1>5. v = [monitor |-> w.monitor, rd |-> w.rd, name |-> w.name, device |-> w.device,
           profile |-> w.profile, node |-> w.node, info |-> [w.info EXCEPT ![c] = @ \cup {n}],
           device_names_table |-> w.device_names_table,
           node_names_table |-> w.node_names_table, lost |-> w.lost]
  <2>1. w = [monitor |-> w.monitor, rd |-> w.rd, name |-> w.name, device |-> w.device,
             profile |-> w.profile, node |-> w.node, info |-> w.info,
             device_names_table |-> w.device_names_table,
             node_names_table |-> w.node_names_table, lost |-> w.lost]
    BY <1>3, WorldFields
  <2>2. v = [w EXCEPT !.info[c] = @ \cup {n}]
    OBVIOUS
  <2> HIDE DEF v
  <2> QED BY ONLY <2>1, <2>2
<1> HIDE DEF v
<1>6. v \in AlsaWorld
  BY <1>3, <1>4, <1>5 DEF AlsaWorld
<1>7. AlsaWorldInv(card_config, plugged, v)
  BY <1>3, <1>5, <1>6 DEF AlsaWorldInv, DeviceNamesOK, NodeNamesOK, NodesDistinct, CardOK, Shown
<1> QED BY <1>1, <1>2, <1>7, StepInv

(* The nodes of a device that its profile gets and loses.                  *)
WithProfile(w, c, ns) == [w EXCEPT !.device[c] = "enabled", !.profile[c] = ns]

ProfileSet(w, c, ns, u) ==
  /\ Making(card_config, plugged, u, c, w.profile[c] \ card_config.disabled)
  /\ u.device[c] = "enabled" /\ u.profile[c] = ns

LEMMA ProfileWorld ==
  ASSUME NEW w, AlsaWorldInv(card_config, plugged, w), NEW c \in Cards, w.device[c] # "none",
         NEW ns \in SUBSET Alsa!NodeSet
  PROVE  ProfileSet(w, c, ns, WithProfile(w, c, ns))
<1> DEFINE u == WithProfile(w, c, ns)
<1> SUFFICES ProfileSet(w, c, ns, u)
  OBVIOUS
<1>0. /\ w \in AlsaWorld /\ DeviceNamesOK(w) /\ NodeNamesOK(w)
      /\ \A b \in Cards : CardOK(card_config, plugged, w, b)
      /\ \A b \in Cards : Shown(w, b) = w.profile[b] \ card_config.disabled
  BY DEF AlsaWorldInv
<1>1. /\ w.device \in [Cards -> {"none", "created", "enabled"}]
      /\ w.profile \in [Cards -> SUBSET Alsa!NodeSet]
  BY <1>0 DEF AlsaWorld
<1>2. w = [monitor |-> w.monitor, rd |-> w.rd, name |-> w.name, device |-> w.device,
           profile |-> w.profile, node |-> w.node, info |-> w.info,
           device_names_table |-> w.device_names_table,
           node_names_table |-> w.node_names_table, lost |-> w.lost]
  BY <1>0, WorldFields
<1>3. u = [w EXCEPT !.device[c] = "enabled", !.profile[c] = ns]
  BY DEF WithProfile
<1> HIDE DEF u
<1>4. u = [monitor |-> w.monitor, rd |-> w.rd, name |-> w.name,
           device |-> [w.device EXCEPT ![c] = "enabled"],
           profile |-> [w.profile EXCEPT ![c] = ns], node |-> w.node, info |-> w.info,
           device_names_table |-> w.device_names_table,
           node_names_table |-> w.node_names_table, lost |-> w.lost]
  BY ONLY <1>2, <1>3
<1>5. u \in AlsaWorld
  <2>1. [w.device EXCEPT ![c] = "enabled"] \in [Cards -> {"none", "created", "enabled"}]
    BY <1>1
  <2>2. [w.profile EXCEPT ![c] = ns] \in [Cards -> SUBSET Alsa!NodeSet]
    BY <1>1
  <2> QED BY <1>0, <1>4, <2>1, <2>2 DEF AlsaWorld
<1>6. /\ u.device[c] = "enabled" /\ u.profile[c] = ns /\ u.node = w.node /\ u.name = w.name /\ u.rd = w.rd
      /\ u.monitor = w.monitor /\ u.lost = w.lost /\ u.node_names_table = w.node_names_table
      /\ u.device_names_table = w.device_names_table
      /\ \A b \in Cards \ {c} : u.device[b] = w.device[b] /\ u.profile[b] = w.profile[b]
  BY <1>1, <1>4
<1>7. \A b \in Cards : CardOK(card_config, plugged, u, b)
  BY <1>0, <1>6 DEF CardOK
<1>8. DeviceNamesOK(u) /\ NodeNamesOK(u) /\ \A b \in Cards : Shown(u, b) = Shown(w, b)
  BY <1>0, <1>6 DEF DeviceNamesOK, NodeNamesOK, NodesDistinct, Shown
<1> QED BY <1>0, <1>5, <1>6, <1>7, <1>8 DEF Making, ProfileSet

(* When all nodes of a card are made, the invariant holds again.           *)
LEMMA AllMade ==
  ASSUME NEW P, NEW v, NEW c \in Cards,
         Making(card_config, P, v, c, v.profile[c] \ card_config.disabled)
  PROVE  AlsaWorldInv(card_config, P, v)
BY DEF Making, AlsaWorldInv

(* The world of an update of a part that stays what it was.                *)
LEMMA SameDevice ==
  ASSUME NEW w \in AlsaWorld, NEW c \in Cards, w.device[c] = "enabled", NEW ns
  PROVE  [w EXCEPT !.profile[c] = ns] = WithProfile(w, c, ns)
<1>1. [w.device EXCEPT ![c] = "enabled"] = w.device
  BY DEF AlsaWorld
<1>2. w = [monitor |-> w.monitor, rd |-> w.rd, name |-> w.name, device |-> w.device,
           profile |-> w.profile, node |-> w.node, info |-> w.info,
           device_names_table |-> w.device_names_table,
           node_names_table |-> w.node_names_table, lost |-> w.lost]
  BY WorldFields
<1>3. PICK a : a = [w EXCEPT !.profile[c] = ns]
  OBVIOUS
<1>4. PICK b : b = [w EXCEPT !.device[c] = "enabled", !.profile[c] = ns]
  OBVIOUS
<1>5. a = [monitor |-> w.monitor, rd |-> w.rd, name |-> w.name, device |-> w.device,
           profile |-> [w.profile EXCEPT ![c] = ns], node |-> w.node, info |-> w.info,
           device_names_table |-> w.device_names_table,
           node_names_table |-> w.node_names_table, lost |-> w.lost]
  BY ONLY <1>2, <1>3
<1>6. b = [monitor |-> w.monitor, rd |-> w.rd, name |-> w.name,
           device |-> [w.device EXCEPT ![c] = "enabled"],
           profile |-> [w.profile EXCEPT ![c] = ns], node |-> w.node, info |-> w.info,
           device_names_table |-> w.device_names_table,
           node_names_table |-> w.node_names_table, lost |-> w.lost]
  BY ONLY <1>2, <1>4
<1>7. a = b
  BY <1>1, <1>5, <1>6
<1> QED BY <1>3, <1>4, <1>7 DEF WithProfile

LEMMA NodeAppearsInv ==
  ASSUME AlsaInv, NEW c \in Cards, NEW n \in Alsa!NodeSet, Alsa!NodeAppears(c, n)
  PROVE  AlsaInv'
<1> DEFINE w == Alsa!World
           ns == w.profile[c] \cup {n}
<1>1. /\ plugged \subseteq Cards /\ AlsaWorldInv(card_config, plugged, w)
      /\ plugged' = plugged /\ UNCHANGED card_config
      /\ device[c] = "enabled" /\ n \notin profile[c]
  BY DEF AlsaInv, Alsa!NodeAppears
<1>2. w.device[c] = "enabled" /\ n \notin w.profile[c]
  BY <1>1, WorldIs
<1>3. PICK u : u = [w EXCEPT !.profile[c] = ns]
  OBVIOUS
<1>4. PICK v : v = Alsa!createNode(u, c, n)
  OBVIOUS
<1>5. Alsa!Becomes(v)
  BY <1>3, <1>4 DEF Alsa!NodeAppears
<1> HIDE DEF w
<1>6. w \in AlsaWorld
  BY <1>1 DEF AlsaWorldInv
<1>7. ns \in SUBSET Alsa!NodeSet
  BY <1>6 DEF AlsaWorld
<1> HIDE DEF ns
<1>8. u = WithProfile(w, c, ns)
  BY <1>2, <1>3, <1>6, SameDevice
<1>9. /\ Making(card_config, plugged, u, c, w.profile[c] \ card_config.disabled)
      /\ u.device[c] = "enabled" /\ u.profile[c] = ns
  <2>1. ProfileSet(w, c, ns, u)
    BY <1>1, <1>2, <1>7, <1>8, ProfileWorld
  <2> QED BY <2>1 DEF ProfileSet
<1>10. PICK done : done = w.profile[c] \ card_config.disabled
  OBVIOUS
<1>11. NodeMade(plugged, u, c, done)
  BY CreateNodeMade
<1>12. n \in Alsa!NodeSet \ done
  BY <1>2, <1>10
<1>13. Making(card_config, plugged, u, c, done) /\ u.device[c] # "none"
  BY <1>9, <1>10
<1>14. /\ Making(card_config, plugged, v, c, done \cup ({n} \ card_config.disabled))
       /\ v.device = u.device /\ v.profile = u.profile
  BY ONLY <1>4, <1>11, <1>12, <1>13, Zenon DEF NodeMade
<1>15. done \cup ({n} \ card_config.disabled) = v.profile[c] \ card_config.disabled
  BY <1>9, <1>10, <1>14 DEF ns
<1>16. Making(card_config, plugged, v, c, v.profile[c] \ card_config.disabled)
  BY <1>14, <1>15
<1>17. AlsaWorldInv(card_config, plugged, v)
  BY <1>16, AllMade
<1> QED BY <1>1, <1>5, <1>17, StepInv

LEMMA NodeVanishesInv ==
  ASSUME AlsaInv, NEW c \in Cards, NEW n \in Alsa!NodeSet, Alsa!NodeVanishes(c, n)
  PROVE  AlsaInv'
<1> DEFINE w == Alsa!World
           ns == w.profile[c] \ {n}
<1>1. /\ plugged \subseteq Cards /\ AlsaWorldInv(card_config, plugged, w)
      /\ plugged' = plugged /\ UNCHANGED card_config /\ device[c] = "enabled"
  BY DEF AlsaInv, Alsa!NodeVanishes
<1>2. w.device[c] = "enabled"
  BY <1>1, WorldIs
<1>3. PICK u : u = [w EXCEPT !.profile[c] = ns]
  OBVIOUS
<1>4. PICK v : v = Alsa!removeNode(u, c, n)
  OBVIOUS
<1>5. Alsa!Becomes(v)
  BY <1>3, <1>4 DEF Alsa!NodeVanishes
<1> HIDE DEF w
<1>6. w \in AlsaWorld
  BY <1>1 DEF AlsaWorldInv
<1>7. ns \in SUBSET Alsa!NodeSet
  BY <1>6 DEF AlsaWorld
<1> HIDE DEF ns
<1>8. u = WithProfile(w, c, ns)
  BY <1>2, <1>3, <1>6, SameDevice
<1>9. /\ Making(card_config, plugged, u, c, w.profile[c] \ card_config.disabled)
      /\ u.device[c] = "enabled" /\ u.profile[c] = ns
  <2>1. ProfileSet(w, c, ns, u)
    BY <1>1, <1>2, <1>7, <1>8, ProfileWorld
  <2> QED BY <2>1 DEF ProfileSet
<1>10. Shown(u, c) = w.profile[c] \ card_config.disabled
  BY <1>9 DEF Making
<1>11. Making(card_config, plugged, u, c, Shown(u, c))
  BY <1>9, <1>10
<1>12. Shown(u, c) \ {n} = u.profile[c] \ card_config.disabled
  BY <1>9, <1>10 DEF ns
<1>13. AlsaWorldInv(card_config, plugged, v)
  BY <1>4, <1>11, <1>12, RemoveNodeInv
<1> QED BY <1>1, <1>5, <1>13, StepInv

LEMMA CardEnabledInv ==
  ASSUME AlsaInv, NEW c \in Cards, Alsa!Enable(c)
  PROVE  AlsaInv'
<1> DEFINE w == Alsa!World
<1>1. /\ plugged \subseteq Cards /\ AlsaWorldInv(card_config, plugged, w)
      /\ plugged' = plugged /\ UNCHANGED card_config /\ device[c] = "created"
  BY DEF AlsaInv, Alsa!Enable
<1>2. PICK ns \in SUBSET Alsa!NodeSet :
        Alsa!Becomes(Alsa!FoldLeft(LAMBDA x, n : IF n \in ns THEN Alsa!createNode(x, c, n) ELSE x,
                                   [w EXCEPT !.device[c] = "enabled", !.profile[c] = ns],
                                   CardNodes))
  BY DEF Alsa!Enable
<1> DEFINE p == [card |-> c, ns |-> ns]
<1>3. PICK u : u = [w EXCEPT !.device[c] = "enabled", !.profile[c] = ns]
  OBVIOUS
<1>4. PICK v : v = Make!Folded(p, u, CardNodes)
  OBVIOUS
<1>5. Make!Folded(p, u, CardNodes)
      = Alsa!FoldLeft(LAMBDA x, n : IF n \in ns THEN Alsa!createNode(x, c, n) ELSE x, u, CardNodes)
  BY DEF Make!Folded, Make!FoldLeft, Make!MapThenFoldSet, Make!Max,
         Alsa!FoldLeft, Alsa!MapThenFoldSet, Alsa!Max, MakeBody
<1>6. Alsa!Becomes(v)
  BY <1>2, <1>3, <1>4, <1>5
<1>7. w.device[c] = "created"
  BY <1>1, WorldIs
<1> HIDE DEF w
<1>8. w.profile[c] = {}
  BY <1>1, <1>7 DEF AlsaWorldInv, CardOK
<1>9. /\ Making(card_config, plugged, u, c, {})
      /\ u.device[c] = "enabled" /\ u.profile[c] = ns
  <2>1. Making(card_config, plugged, u, c, w.profile[c] \ card_config.disabled)
        /\ u.device[c] = "enabled" /\ u.profile[c] = ns
    <3>1. u = WithProfile(w, c, ns)
      BY <1>3 DEF WithProfile
    <3>2. ProfileSet(w, c, ns, u)
      BY <1>1, <1>7, <3>1, ProfileWorld
    <3> QED BY <3>2 DEF ProfileSet
  <2> QED BY <2>1, <1>8
<1>10. /\ Making(card_config, plugged, v, c, ns \ card_config.disabled)
       /\ v.device = u.device /\ v.profile = u.profile
  BY <1>4, <1>9, MakeNodesMade
<1>11. Making(card_config, plugged, v, c, v.profile[c] \ card_config.disabled)
  BY <1>9, <1>10
<1>12. AlsaWorldInv(card_config, plugged, v)
  BY <1>11, AllMade
<1> QED BY <1>1, <1>6, <1>12, StepInv

LEMMA DBusClosesInv ==
  ASSUME AlsaInv, Alsa!DBusCloses
  PROVE  AlsaInv'
<1> DEFINE w == Alsa!World
           none == Alsa!NoCards
<1>1. /\ plugged \subseteq Cards /\ AlsaWorldInv(card_config, plugged, w)
      /\ plugged' = plugged /\ UNCHANGED card_config
  BY DEF AlsaInv, Alsa!DBusCloses
<1>2. PICK v : v = [w EXCEPT !.monitor = FALSE, !.rd = none.rd, !.name = none.name,
                             !.device = none.device, !.profile = none.profile,
                             !.node = none.node, !.info = none.info]
  OBVIOUS
<1>3. Alsa!Becomes(v)
  BY <1>2 DEF Alsa!DBusCloses
<1> HIDE DEF w, none
<1>4. /\ w \in AlsaWorld /\ DeviceNamesOK(w) /\ NodeNamesOK(w)
  BY <1>1 DEF AlsaWorldInv
<1>5. v = [monitor |-> FALSE, rd |-> none.rd, name |-> none.name, device |-> none.device,
           profile |-> none.profile, node |-> none.node, info |-> none.info,
           device_names_table |-> w.device_names_table,
           node_names_table |-> w.node_names_table, lost |-> w.lost]
  <2>1. w = [monitor |-> w.monitor, rd |-> w.rd, name |-> w.name, device |-> w.device,
             profile |-> w.profile, node |-> w.node, info |-> w.info,
             device_names_table |-> w.device_names_table,
             node_names_table |-> w.node_names_table, lost |-> w.lost]
    BY <1>4, WorldFields
  <2> QED BY ONLY <1>2, <2>1
<1>6. /\ none.rd = [c \in Cards |-> "none"] /\ none.name = [c \in Cards |-> None]
      /\ none.device = [c \in Cards |-> "none"] /\ none.profile = [c \in Cards |-> {}]
      /\ none.node = [c \in Cards |-> [n \in Alsa!NodeSet |-> None]]
      /\ none.info = [c \in Cards |-> {}]
  BY DEF none, Alsa!NoCards, Alsa!NoNodes
<1>7. v \in AlsaWorld
  <2>1. none.node \in [Cards -> [Alsa!NodeSet -> Alsa!NodeNames \cup {None}]]
    BY <1>6
  <2> QED BY <1>4, <1>5, <1>6, <2>1 DEF AlsaWorld
<1>8. AlsaWorldInv(card_config, plugged, v)
  <2>1. \A c \in Cards : /\ v.rd[c] = "none" /\ v.name[c] = None /\ v.device[c] = "none"
                         /\ v.profile[c] = {} /\ \A n \in Alsa!NodeSet : v.node[c][n] = None
    BY <1>5, <1>6
  <2>2. ~v.monitor
    BY <1>5
  <2>3. DeviceNamesOK(v)
    BY <2>1, <2>2 DEF DeviceNamesOK
  <2>4. NodeNamesOK(v)
    BY <2>1, <2>2 DEF NodeNamesOK, NodesDistinct
  <2>5. \A c \in Cards : CardOK(card_config, plugged, v, c)
    BY <2>1, <2>2 DEF CardOK
  <2>6. \A c \in Cards : Shown(v, c) = v.profile[c] \ card_config.disabled
    BY <2>1 DEF Shown
  <2> QED BY <1>7, <2>3, <2>4, <2>5, <2>6 DEF AlsaWorldInv
<1> QED BY <1>1, <1>3, <1>8, StepInv

(* The cards that are there are reported one after the other.              *)
PrepareBody(there, w, c) == Alsa!prepareDevice(w, c, there)

Prep == INSTANCE FoldInduction WITH op <- PrepareBody

LEMMA CardsReported ==
  ASSUME NEW w, w.monitor, AlsaWorldInv(card_config, {}, w), plugged \subseteq Cards,
         NEW order \in Seq(plugged),
         \A i, j \in DOMAIN order : order[i] = order[j] => i = j,
         \A c \in plugged : \E i \in DOMAIN order : order[i] = c,
         NEW there, plugged \subseteq there,
         NEW v, v = Prep!Folded(there, w, order)
  PROVE  AlsaWorldInv(card_config, plugged, v)
<1> DEFINE Of(k) == {order[i] : i \in 1..k}
           I == [k \in 0..Len(order) |->
                   {u \in AlsaWorld : AlsaWorldInv(card_config, Of(k), u) /\ u.monitor}]
<1>1. ASSUME NEW k \in 1..Len(order), NEW u \in I[k-1]
      PROVE  PrepareBody(there, u, order[k]) \in I[k]
  <2>1. k - 1 \in 0..Len(order) /\ k \in 0..Len(order) /\ k \in DOMAIN order
        /\ \A i \in 1..k : i \in DOMAIN order
    OBVIOUS
  <2>2. PICK c : c = order[k]
    OBVIOUS
  <2>3. c \in plugged /\ c \notin Of(k - 1) /\ Of(k) = Of(k - 1) \cup {c}
    BY <2>1, <2>2
  <2>4. PICK x : x = Alsa!prepareDevice(u, c, there)
    OBVIOUS
  <2>5. Of(k - 1) \in SUBSET Cards
    BY <2>1
  <2>6. AlsaWorldInv(card_config, Of(k - 1), u) /\ u.monitor
    BY <2>1
  <2> HIDE DEF Of
  <2>7. PICK P \in SUBSET Cards : P = Of(k - 1)
    BY <2>5
  <2>8. AlsaWorldInv(card_config, P, u) /\ c \in Cards \ P /\ c \in there
    BY <2>3, <2>6, <2>7
  <2>9. AlsaWorldInv(card_config, P \cup {c}, x) /\ x.monitor
    BY <2>4, <2>6, <2>8, PrepareInv
  <2>10. AlsaWorldInv(card_config, Of(k), x) /\ x.monitor /\ x \in AlsaWorld
    <3>1. x \in AlsaWorld
      BY <2>9 DEF AlsaWorldInv
    <3> QED BY <2>3, <2>7, <2>9, <3>1
  <2>11. x = PrepareBody(there, u, order[k])
    BY <2>2, <2>4 DEF PrepareBody
  <2> QED BY <2>1, <2>10, <2>11
<1>2. w \in I[0]
  <2>1. Of(0) = {}
    OBVIOUS
  <2>2. w \in AlsaWorld
    BY DEF AlsaWorldInv
  <2> QED BY <2>1, <2>2
<1>3. v \in I[Len(order)]
  <2> HIDE DEF I
  <2> QED BY <1>1, <1>2, Prep!FoldSteps
<1>4. AlsaWorldInv(card_config, Of(Len(order)), v)
  BY <1>3
<1>5. Of(Len(order)) = plugged
  <2>1. DOMAIN order = 1..Len(order)
    OBVIOUS
  <2> QED BY <2>1
<1> HIDE DEF Of
<1> QED BY <1>4, <1>5

LEMMA DBusConnectsInv ==
  ASSUME AlsaInv, Alsa!DBusConnects
  PROVE  AlsaInv'
<1> DEFINE w == Alsa!World
<1>1. /\ plugged \subseteq Cards /\ AlsaWorldInv(card_config, plugged, w)
      /\ plugged' = plugged /\ UNCHANGED card_config /\ ~monitor
  BY DEF AlsaInv, Alsa!DBusConnects
<1>2. PICK order \in Alsa!Bijection(1..Alsa!Cardinality(plugged), plugged) :
        Alsa!Becomes(Alsa!createMonitor(w, order))
  BY DEF Alsa!DBusConnects
<1>3. Alsa!Cardinality(plugged) \in Nat
  <2>1. IsFiniteSet(plugged)
    BY <1>1, AlsaConstants, FS_Subset
  <2>2. Cardinality(plugged) \in Nat
    BY <2>1, FS_CardinalityType
  <2>3. Cardinality(plugged) = Alsa!Cardinality(plugged)
    BY DEF Cardinality, Alsa!Cardinality
  <2> QED BY <2>2, <2>3
<1>4. /\ order \in Seq(plugged)
      /\ \A i, j \in DOMAIN order : order[i] = order[j] => i = j
      /\ \A c \in plugged : \E i \in DOMAIN order : order[i] = c
  <2>1. order \in [1..Alsa!Cardinality(plugged) -> plugged]
    BY <1>2 DEF Alsa!Bijection, Alsa!Injection, Alsa!Surjection
  <2>2. order \in Seq(plugged)
    BY <1>3, <2>1
  <2> QED BY <1>2, <2>1, <2>2 DEF Alsa!Bijection, Alsa!Injection, Alsa!Surjection, Alsa!IsInjective
<1>5. PICK u : u = [w EXCEPT !.monitor = TRUE, !.device_names_table = {},
                             !.node_names_table = {}, !.lost = {}]
  OBVIOUS
<1> DEFINE there == Alsa!Range(order)
<1>7. PICK v : v = Prep!Folded(there, u, order)
  OBVIOUS
<1>8. Prep!Folded(there, u, order)
      = Alsa!FoldLeft(LAMBDA x, c : Alsa!prepareDevice(x, c, Alsa!Range(order)), u, order)
  BY DEF Prep!Folded, Prep!FoldLeft, Prep!MapThenFoldSet, Prep!Max,
         Alsa!FoldLeft, Alsa!MapThenFoldSet, Alsa!Max, PrepareBody
<1>9. Alsa!Becomes(v)
  <2>1. Alsa!Becomes(Alsa!FoldLeft(LAMBDA x, c : Alsa!prepareDevice(x, c, Alsa!Range(order)),
                                   [w EXCEPT !.monitor = TRUE, !.device_names_table = {},
                                             !.node_names_table = {}, !.lost = {}], order))
    BY <1>2 DEF Alsa!createMonitor
  <2> HIDE DEF there, w
  <2> QED BY <2>1, <1>5, <1>7, <1>8
<1>10. ~w.monitor
  BY <1>1, WorldIs
<1> HIDE DEF w
<1>11. /\ w \in AlsaWorld /\ \A c \in Cards : CardOK(card_config, plugged, w, c)
       /\ \A c \in Cards : Shown(w, c) = w.profile[c] \ card_config.disabled
  BY <1>1 DEF AlsaWorldInv
<1>12. u = [monitor |-> TRUE, rd |-> w.rd, name |-> w.name, device |-> w.device,
            profile |-> w.profile, node |-> w.node, info |-> w.info,
            device_names_table |-> {}, node_names_table |-> {}, lost |-> {}]
  <2>1. w = [monitor |-> w.monitor, rd |-> w.rd, name |-> w.name, device |-> w.device,
             profile |-> w.profile, node |-> w.node, info |-> w.info,
             device_names_table |-> w.device_names_table,
             node_names_table |-> w.node_names_table, lost |-> w.lost]
    BY <1>11, WorldFields
  <2> QED BY ONLY <1>5, <2>1
<1>13. \A c \in Cards : /\ u.rd[c] = "none" /\ u.name[c] = None /\ u.device[c] = "none"
                        /\ u.profile[c] = {} /\ Shown(w, c) = {}
  BY <1>10, <1>11, <1>12 DEF CardOK
<1>14. \A c \in Cards, n \in Alsa!NodeSet : u.node[c][n] = None
  BY <1>12, <1>13 DEF Shown
<1>15. u.monitor /\ AlsaWorldInv(card_config, {}, u)
  <2>1. u \in AlsaWorld
    BY <1>11, <1>12 DEF AlsaWorld
  <2>2. u.monitor /\ u.device_names_table = {} /\ u.node_names_table = {}
    BY <1>12
  <2>3. DeviceNamesOK(u)
    BY <1>13, <2>2 DEF DeviceNamesOK
  <2>4. NodeNamesOK(u)
    BY <1>14, <2>2 DEF NodeNamesOK, NodesDistinct
  <2>5. \A c \in Cards : CardOK(card_config, {}, u, c)
    BY <1>13 DEF CardOK
  <2>6. \A c \in Cards : Shown(u, c) = u.profile[c] \ card_config.disabled
    BY <1>13, <1>14 DEF Shown
  <2> QED BY <2>1, <2>2, <2>3, <2>4, <2>5, <2>6 DEF AlsaWorldInv
<1>16. plugged \subseteq there
  BY <1>4 DEF Alsa!Range
<1> HIDE DEF there
<1>17. AlsaWorldInv(card_config, plugged, v)
  BY <1>1, <1>4, <1>7, <1>15, <1>16, CardsReported
<1> QED BY <1>1, <1>9, <1>17, StepInv

LEMMA AlsaInitInv ==
  ASSUME Alsa!AlsaInit
  PROVE  AlsaInv
<1> DEFINE w == Alsa!World
<1>1. /\ card_config \in CardConfigs /\ monitor = TRUE /\ plugged = {}
      /\ rd = [c \in Cards |-> "none"] /\ name = [c \in Cards |-> None]
      /\ device = [c \in Cards |-> "none"] /\ profile = [c \in Cards |-> {}]
      /\ card_node = [c \in Cards |-> [n \in Alsa!NodeSet |-> None]]
      /\ info = [c \in Cards |-> {}]
      /\ device_names_table = {} /\ node_names_table = {} /\ lost = {}
  BY DEF Alsa!AlsaInit, Alsa!NoCards, Alsa!NoNodes
<1>2. w \in AlsaWorld
  <2>1. card_node \in [Cards -> [Alsa!NodeSet -> Alsa!NodeNames \cup {None}]]
    BY <1>1
  <2> QED BY <1>1, <2>1 DEF AlsaWorld, Alsa!World
<1>3. \A c \in Cards : /\ w.rd[c] = "none" /\ w.name[c] = None /\ w.device[c] = "none"
                       /\ w.profile[c] = {} /\ \A n \in Alsa!NodeSet : w.node[c][n] = None
  BY <1>1, WorldIs
<1>4. w.monitor /\ w.device_names_table = {} /\ w.node_names_table = {}
  BY <1>1, WorldIs
<1> HIDE DEF w
<1>5. DeviceNamesOK(w)
  BY <1>3, <1>4 DEF DeviceNamesOK
<1>6. NodeNamesOK(w)
  BY <1>3, <1>4 DEF NodeNamesOK, NodesDistinct
<1>7. \A c \in Cards : CardOK(card_config, plugged, w, c)
  BY <1>1, <1>3 DEF CardOK
<1>8. \A c \in Cards : Shown(w, c) = w.profile[c] \ card_config.disabled
  BY <1>3 DEF Shown
<1>9. AlsaWorldInv(card_config, plugged, w)
  BY <1>2, <1>5, <1>6, <1>7, <1>8 DEF AlsaWorldInv
<1> QED BY <1>1, <1>9 DEF AlsaInv, w

LEMMA AlsaNextInv ==
  ASSUME AlsaInv, [Alsa!AlsaNext]_alsaVars
  PROVE  AlsaInv'
<1>1. CASE UNCHANGED alsaVars
  <2>1. /\ card_config' = card_config /\ plugged' = plugged /\ Alsa!World' = Alsa!World
    BY <1>1 DEF alsaVars, Alsa!World
  <2>2. AlsaWorldInv(card_config', plugged', Alsa!World')
    BY <2>1 DEF AlsaInv
  <2> QED BY <2>1, <2>2 DEF AlsaInv
<1>2. CASE \E c \in Cards : Alsa!Plug(c)
  BY <1>2, PlugInv
<1>3. CASE \E c \in Cards : Alsa!Unplug(c)
  BY <1>3, UnplugInv
<1>4. CASE \E c \in Cards : Alsa!Enable(c)
  BY <1>4, CardEnabledInv
<1>5. CASE \E c \in Cards : Alsa!Acquired(c) \/ Alsa!Busy(c) \/ Alsa!Available(c)
  BY <1>5, ReservedInv
<1>6. CASE \E c \in Cards : Alsa!ReleaseRequested(c)
  BY <1>6, ReleaseRequestedInv
<1>7. CASE \E c \in Cards : \E n \in Alsa!NodeSet : Alsa!NodeAppears(c, n)
  BY <1>7, NodeAppearsInv
<1>8. CASE \E c \in Cards : \E n \in Alsa!NodeSet : Alsa!NodeVanishes(c, n)
  BY <1>8, NodeVanishesInv
<1>9. CASE \E c \in Cards : \E n \in Alsa!NodeSet : Alsa!NodeInfo(c, n)
  BY <1>9, NodeInfoInv
<1>10. CASE Alsa!DBusCloses
  BY <1>10, DBusClosesInv
<1>11. CASE Alsa!DBusConnects
  BY <1>11, DBusConnectsInv
<1> QED BY <1>1, <1>2, <1>3, <1>4, <1>5, <1>6, <1>7, <1>8, <1>9, <1>10, <1>11 DEF Alsa!AlsaNext

LEMMA AlsaInvNamed ==
  ASSUME AlsaInv
  PROVE  Alsa!DevicesNamed
<1> DEFINE w == Alsa!World
<1>1. /\ w \in AlsaWorld /\ DeviceNamesOK(w) /\ NodeNamesOK(w)
      /\ \A d \in Cards : CardOK(card_config, plugged, w, d)
                          /\ Shown(w, d) = w.profile[d] \ card_config.disabled
      /\ plugged \subseteq Cards
  BY DEF AlsaInv, AlsaWorldInv
<1>2. /\ w.monitor = monitor /\ w.rd = rd /\ w.name = name
      /\ w.device = device /\ w.profile = profile
      /\ w.node = card_node /\ w.info = info
      /\ w.device_names_table = device_names_table
      /\ w.node_names_table = node_names_table /\ w.lost = lost
  BY WorldIs
<1>3. Alsa!NamesDistinct
  <2>1. \A c, d \in Cards : name[c] # None /\ name[c] = name[d] =>
          c = d \/ name[c][2] = LastCounter
    BY <1>1, <1>2 DEF DeviceNamesOK
  <2>2. ASSUME NEW x \in Alsa!Named, NEW y \in Alsa!Named,
               card_node[x[1]][x[2]] = card_node[y[1]][y[2]]
        PROVE  x = y \/ card_node[x[1]][x[2]][2] = LastCounter
    <3>1. /\ x[1] \in Cards /\ x[2] \in Alsa!NodeSet /\ y[1] \in Cards /\ y[2] \in Alsa!NodeSet
          /\ card_node[x[1]][x[2]] # None /\ x = <<x[1], x[2]>> /\ y = <<y[1], y[2]>>
      BY DEF Alsa!Named
    <3>2. NodesDistinct(w)
      BY <1>1 DEF NodeNamesOK
    <3> HIDE DEF w
    <3>3. w.node[x[1]][x[2]] # None /\ w.node[x[1]][x[2]] = w.node[y[1]][y[2]]
      BY <1>2, <2>2, <3>1
    <3>4. (x[1] = y[1] /\ x[2] = y[2]) \/ w.node[x[1]][x[2]][2] = LastCounter
      BY <3>1, <3>2, <3>3 DEF NodesDistinct
    <3> QED BY <1>2, <3>1, <3>4
  <2> QED BY <2>1, <2>2 DEF Alsa!NamesDistinct
<1>4. Alsa!NamesRecycled
  <2> SUFFICES ASSUME monitor
               PROVE  /\ device_names_table \subseteq lost \cup {name[c] : c \in Cards}
                      /\ node_names_table \subseteq
                           lost \cup UNION {Alsa!NamesOf(w, c, Alsa!NodeSet) : c \in Cards}
    BY DEF Alsa!NamesRecycled
  <2>1. \A x \in device_names_table : x \in lost \/ \E c \in Cards : name[c] = x
    BY <1>1, <1>2 DEF DeviceNamesOK
  <2>2. ASSUME NEW x \in node_names_table
        PROVE  x \in lost \/ \E c \in Cards : x \in Alsa!NamesOf(w, c, Alsa!NodeSet)
    <3>1. x \in lost \/ \E c \in Cards, n \in Alsa!NodeSet : w.node[c][n] = x
      BY <1>1, <1>2, <2>2 DEF NodeNamesOK
    <3>2. x # None
      BY <1>1, <1>2, AlsaConstants DEF AlsaWorld
    <3> HIDE DEF w
    <3> QED BY <3>1, <3>2 DEF Alsa!NamesOf
  <2> HIDE DEF w
  <2> QED BY <2>1, <2>2
<1>5. Alsa!MirrorsHardware
  <2> SUFFICES ASSUME monitor
               PROVE  /\ Alsa!Existing = {c \in plugged \ (card_config.disabled \cup card_config.broken) :
                                            card_config.reserving => rd[c] = "acquired"}
                      /\ \A c \in Cards : {n \in Alsa!NodeSet : card_node[c][n] # None} =
                           IF device[c] = "enabled" THEN profile[c] \ card_config.disabled ELSE {}
    BY DEF Alsa!MirrorsHardware
  <2> HIDE DEF w
  <2>1. \A c \in Cards : device[c] # "none" <=>
          /\ c \in plugged \ (card_config.disabled \cup card_config.broken)
          /\ card_config.reserving => rd[c] = "acquired"
    BY <1>1, <1>2 DEF CardOK
  <2>2. Alsa!Existing = {c \in plugged \ (card_config.disabled \cup card_config.broken) :
                           card_config.reserving => rd[c] = "acquired"}
    BY <1>1, <2>1 DEF Alsa!Existing
  <2>3. \A c \in Cards : device[c] # "enabled" => profile[c] = {}
    BY <1>1, <1>2 DEF CardOK
  <2>4. \A c \in Cards : {n \in Alsa!NodeSet : card_node[c][n] # None} = profile[c] \ card_config.disabled
    BY <1>1, <1>2 DEF Shown
  <2> QED BY <2>2, <2>3, <2>4
<1> QED BY <1>3, <1>4, <1>5 DEF Alsa!DevicesNamed

(* Whichever cards come, go or are taken by other applications, and        *)
(* however often D-Bus restarts: no two devices and no two nodes have the  *)
(* same name, the last one of a base aside, a name is free again when its  *)
(* owner is gone unless the script lost it, and there are just the devices *)
(* and the nodes that the hardware has (monitors/alsa.lua).                *)
THEOREM SessionDevicesNamed == Spec => []DevicesNamed
<1>1. Init => AlsaInv
  BY AlsaInitInv DEF Init
<1>2. AlsaInv /\ [Next]_vars => AlsaInv'
  <2>1. [Next]_vars => [Alsa!AlsaNext]_alsaVars
    BY DEF Next, vars, AlsaOnly, BluezOnly, BluetoothOnly, StreamsOnly, MixerOnly
  <2> QED BY <2>1, AlsaNextInv
<1>3. AlsaInv => DevicesNamed
  BY AlsaInvNamed DEF DevicesNamed
<1> QED BY <1>1, <1>2, <1>3, PTL DEF Spec
-----------------------------------------------------------------------------
(* Bluetooth.  A device ends up with the profile that is the last on its   *)
(* way to it.                                                              *)
Eventual(w, d) ==
  IF w.toDevice[d] = <<>> THEN actual[d] ELSE w.toDevice[d][Len(w.toDevice[d])]

BtWorld ==
  [last : [BtDevices -> Profiles \cup {None}], headset : [BtDevices -> Profiles \cup {None}],
   toDevice : [BtDevices -> Seq(Profiles)], active : SUBSET Streams,
   previous : SUBSET Streams, restore : BOOLEAN, save : BOOLEAN,
   blurred : SUBSET BtDevices]

(* It has the profile of before, or that one is remembered and can be set. *)
ProfileRight(w, d, off) ==
  /\ before[d] \in off[d]
  /\ w.last[d] = None => Eventual(w, d) = before[d]
  /\ w.last[d] # None => w.last[d] = before[d]

WorldRight(w, devices, off, streams) ==
  /\ w \in BtWorld
  /\ \A d \in BtDevices \ devices : w.toDevice[d] = <<>>
  /\ \A d \in devices \ w.blurred : ProfileRight(w, d, off)
  /\ w.active \subseteq w.previous
  /\ \A s \in w.previous : streams[s] # None
  /\ bt_file = w.headset \/ w.save = TRUE

(* No device is switched unless a stream or the timeout keeps it so.       *)
SwitchedFor(w, devices) ==
  (\A d \in devices : w.last[d] = None) \/ w.active # {} \/ w.restore = TRUE

ProfilesOK ==
  /\ actual \in [BtDevices -> Profiles] /\ cached \in [BtDevices -> Profiles]
  /\ before \in [BtDevices -> Profiles]

BtTypeOK ==
  /\ bt_present \subseteq BtDevices /\ offered \in [BtDevices -> SUBSET Profiles]
  /\ stream \in [Streams -> Bluetooth!StreamState \cup {None}]
  /\ ProfilesOK

BluetoothInv ==
  /\ BtTypeOK
  /\ \A d \in BtDevices \ bt_present : actual[d] = First /\ before[d] = First
  /\ WorldRight(Bluetooth!World, bt_present, offered, stream)
  /\ SwitchedFor(Bluetooth!World, bt_present)

(* The rest of the state, where a step of the script leaves it.            *)
Given ==
  /\ ProfilesOK
  /\ bt_present' \subseteq BtDevices /\ offered' \in [BtDevices -> SUBSET Profiles]

Reached(w) == WorldRight(w, bt_present', offered', stream')

LEMMA BluetoothConstants ==
  /\ IsFiniteSet(BtDevices) /\ IsFiniteSet(Streams) /\ First \in Profiles
  /\ None \notin Profiles /\ None \notin Bluetooth!StreamState
  /\ \A ps \in SUBSET Profiles : ps # {} =>
       \E p \in ps : \A q \in ps : Priority[p] >= Priority[q]
<1>1. Bluetooth!ConstantsOK
  BY SessionAssumption
<1>2. IsFiniteSet(BtDevices) /\ IsFiniteSet(Streams)
  <2>1. Bluetooth!IsFiniteSet(BtDevices) /\ Bluetooth!IsFiniteSet(Streams)
    BY <1>1 DEF Bluetooth!ConstantsOK
  <2> QED BY <2>1, Zenon DEF IsFiniteSet, Bluetooth!IsFiniteSet
<1> QED BY <1>1, <1>2 DEF Bluetooth!ConstantsOK

LEMMA HeadsetProfile ==
  ASSUME Given, NEW w \in BtWorld, NEW d \in BtDevices
  PROVE  Bluetooth!Headset(w, d) \in Profiles \cup {None}
<1>1. offered'[d] \subseteq Profiles
  BY DEF Given
<1>2. Bluetooth!highestPrioProfileWithInputRoute(d) \in Profiles \cup {None}
  <2> DEFINE ps == offered'[d] \cap Input
  <2>1. ps # {} => (CHOOSE p \in ps : \A q \in ps : Priority[p] >= Priority[q]) \in ps
    <3>1. ps \in SUBSET Profiles
      BY <1>1
    <3> HIDE DEF ps
    <3> QED BY <3>1, BluetoothConstants
  <2>2. ps \subseteq Profiles
    BY <1>1
  <2> QED BY <2>1, <2>2 DEF Bluetooth!highestPrioProfileWithInputRoute
<1>3. w.headset[d] \in offered'[d] => w.headset[d] \in Profiles
  BY <1>1
<1> QED BY <1>2, <1>3 DEF Bluetooth!Headset

(* Blur spares a device only if its profile is what the script knows.      *)
LEMMA Blurs ==
  ASSUME NEW w \in BtWorld, NEW d \in BtDevices, NEW v, v = Bluetooth!Blur(w, d)
  PROVE  /\ v \in BtWorld
         /\ v.last = w.last /\ v.headset = w.headset /\ v.toDevice = w.toDevice
         /\ v.active = w.active /\ v.previous = w.previous /\ v.restore = w.restore
         /\ v.save = w.save /\ w.blurred \subseteq v.blurred
         /\ d \notin v.blurred => w.toDevice[d] = <<>> /\ cached[d] = actual[d]
<1> DEFINE b == IF w.toDevice[d] # <<>> \/ cached[d] # actual[d]
                  THEN w.blurred \cup {d} ELSE w.blurred
<1>1. v = [w EXCEPT !.blurred = b]
  BY DEF Bluetooth!Blur
<1>2. b \in SUBSET BtDevices /\ w.blurred \subseteq b
      /\ (d \notin b => w.toDevice[d] = <<>> /\ cached[d] = actual[d])
  BY DEF BtWorld
<1> HIDE DEF b
<1> QED BY <1>1, <1>2 DEF BtWorld

(* A step that concerns one device.                                        *)
OneDevice(w, v, d) ==
  /\ v \in BtWorld
  /\ \A e \in BtDevices \ {d} : v.last[e] = w.last[e] /\ v.toDevice[e] = w.toDevice[e]
  /\ v.active = w.active /\ v.previous = w.previous /\ w.blurred \subseteq v.blurred
  /\ bt_file = v.headset \/ v.save = TRUE
  /\ d \notin v.blurred => ProfileRight(v, d, offered')

LEMMA OneDeviceReached ==
  ASSUME Given, NEW w, Reached(w), NEW d \in bt_present', NEW v, OneDevice(w, v, d)
  PROVE  Reached(v)
<1>1. w \in BtWorld /\ WorldRight(w, bt_present', offered', stream')
  BY DEF Reached, WorldRight
<1>2. \A e \in BtDevices \ {d} : v.last[e] = w.last[e] /\ v.toDevice[e] = w.toDevice[e]
  BY DEF OneDevice
<1>3. ASSUME NEW e \in bt_present' \ v.blurred PROVE ProfileRight(v, e, offered')
  <2>1. CASE e = d
    BY <2>1, <1>3 DEF OneDevice
  <2>2. CASE e # d
    <3>1. e \in BtDevices \ {d} /\ e \in bt_present' \ w.blurred
      BY <2>2, <1>3 DEF Given, OneDevice
    <3>2. ProfileRight(w, e, offered')
      BY <3>1, <1>1 DEF WorldRight
    <3>3. v.last[e] = w.last[e] /\ v.toDevice[e] = w.toDevice[e]
      BY <3>1, <1>2
    <3> QED BY <3>2, <3>3 DEF ProfileRight, Eventual
  <2> QED BY <2>1, <2>2
<1>4. \A e \in BtDevices \ bt_present' : v.toDevice[e] = <<>>
  BY <1>1 DEF WorldRight, OneDevice
<1>5. v.active \subseteq v.previous /\ \A s \in v.previous : stream'[s] # None
  BY <1>1 DEF WorldRight, OneDevice
<1> QED BY <1>3, <1>4, <1>5 DEF Reached, WorldRight, OneDevice

LEMMA ProfileAsked ==
  ASSUME NEW x \in BtWorld, NEW d \in BtDevices, NEW p \in Profiles,
         NEW v, v = Bluetooth!set_params(x, d, p)
  PROVE  /\ v \in BtWorld /\ v.last = x.last /\ v.headset = x.headset
         /\ v.active = x.active /\ v.previous = x.previous /\ v.restore = x.restore
         /\ v.save = x.save /\ v.blurred = x.blurred
         /\ v.toDevice[d] = Append(x.toDevice[d], p)
         /\ \A e \in BtDevices \ {d} : v.toDevice[e] = x.toDevice[e]
<1>1. x.toDevice \in [BtDevices -> Seq(Profiles)]
  BY DEF BtWorld
<1>2. PICK q : q = [x.toDevice EXCEPT ![d] = Append(x.toDevice[d], p)]
  OBVIOUS
<1>3. /\ q \in [BtDevices -> Seq(Profiles)] /\ q[d] = Append(x.toDevice[d], p)
      /\ \A e \in BtDevices \ {d} : q[e] = x.toDevice[e]
  BY <1>1, <1>2, LastOfAppend
<1>4. v = [x EXCEPT !.toDevice = q]
  BY <1>2 DEF Bluetooth!set_params, BtWorld
<1> QED BY <1>3, <1>4 DEF BtWorld

(* A device that is not switched is switched, and what is remembered is    *)
(* the profile that it has.                                                *)
LEMMA DeviceSwitched ==
  ASSUME Given, NEW w, Reached(w), NEW d \in bt_present', w.last[d] = None,
         NEW v, v = Bluetooth!switchDevice(w, d)
  PROVE  /\ Reached(v) /\ v.last = [w.last EXCEPT ![d] = cached[d]]
         /\ v.active = w.active /\ v.previous = w.previous
<1> DEFINE p == Bluetooth!Headset(w, d)
<1>1. w \in BtWorld /\ d \in BtDevices
  BY DEF Reached, WorldRight, Given
<1>2. PICK u : u = Bluetooth!Blur(w, d)
  OBVIOUS
<1>3. /\ u \in BtWorld
      /\ u.last = w.last /\ u.headset = w.headset /\ u.toDevice = w.toDevice
      /\ u.active = w.active /\ u.previous = w.previous /\ u.restore = w.restore
      /\ u.save = w.save /\ w.blurred \subseteq u.blurred
      /\ d \notin u.blurred => w.toDevice[d] = <<>> /\ cached[d] = actual[d]
  BY <1>1, <1>2, Blurs
<1>4. PICK x : x = [u EXCEPT !.last[d] = cached[d]]
  OBVIOUS
<1>5. /\ x \in BtWorld /\ x.last = [w.last EXCEPT ![d] = cached[d]]
      /\ x.headset = w.headset /\ x.toDevice = w.toDevice /\ x.active = w.active
      /\ x.previous = w.previous /\ x.save = w.save /\ x.blurred = u.blurred
  BY <1>1, <1>3, <1>4 DEF BtWorld, Given, ProfilesOK
<1>6. v = IF p = None THEN x ELSE Bluetooth!set_params(x, d, p)
  BY <1>2, <1>4 DEF Bluetooth!switchDevice
<1>7. p \in Profiles \cup {None}
  BY <1>1, HeadsetProfile
<1> HIDE DEF p
<1>8. /\ v \in BtWorld /\ v.last = x.last /\ v.headset = x.headset
      /\ v.active = x.active /\ v.previous = x.previous /\ v.save = x.save
      /\ v.blurred = x.blurred /\ \A e \in BtDevices \ {d} : v.toDevice[e] = x.toDevice[e]
  <2>1. CASE p = None
    BY <2>1, <1>5, <1>6
  <2>2. CASE p # None
    <3>1. p \in Profiles
      BY <2>2, <1>7
    <3>2. v = Bluetooth!set_params(x, d, p)
      BY <2>2, <1>6
    <3> QED BY <3>1, <3>2, <1>1, <1>5, ProfileAsked
  <2> QED BY <2>1, <2>2
<1>9. ASSUME d \notin v.blurred PROVE ProfileRight(v, d, offered')
  <2>1. d \in bt_present' \ w.blurred
    BY <1>3, <1>5, <1>8, <1>9
  <2>2. ProfileRight(w, d, offered')
    BY <2>1 DEF Reached, WorldRight
  <2>3. before[d] = cached[d]
    BY <2>2, <1>3, <1>5, <1>8, <1>9 DEF ProfileRight, Eventual
  <2>4. v.last[d] = cached[d] /\ cached[d] # None
    BY <1>1, <1>5, <1>8, BluetoothConstants DEF Given, ProfilesOK, BtWorld
  <2> QED BY <2>2, <2>3, <2>4 DEF ProfileRight
<1>10. bt_file = v.headset \/ v.save = TRUE
  BY <1>5, <1>8 DEF Reached, WorldRight
<1>11. Reached(v)
  <2>1. v \in BtWorld /\ v.last = [w.last EXCEPT ![d] = cached[d]]
    BY <1>5, <1>8
  <2>2. \A e \in BtDevices \ {d} : v.last[e] = w.last[e] /\ v.toDevice[e] = w.toDevice[e]
    BY <1>1, <1>5, <1>8 DEF BtWorld
  <2>3. v.active = w.active /\ v.previous = w.previous /\ w.blurred \subseteq v.blurred
    BY <1>3, <1>5, <1>8
  <2>4. OneDevice(w, v, d)
    BY <2>1, <2>2, <2>3, <1>9, <1>10 DEF OneDevice
  <2> QED BY <2>4, OneDeviceReached
<1> QED BY <1>5, <1>8, <1>11

(* A device that is switched is switched back, if it still has the profile *)
(* that is remembered.                                                     *)
LEMMA DeviceRestored ==
  ASSUME Given, NEW w, Reached(w), NEW d \in bt_present', w.last[d] # None,
         NEW v, v = Bluetooth!restoreDevice(w, d)
  PROVE  /\ Reached(v) /\ v.last = [w.last EXCEPT ![d] = None]
<1> DEFINE p == w.last[d]
<1>1. w \in BtWorld /\ d \in BtDevices
  BY DEF Reached, WorldRight, Given
<1>2. PICK u : u = Bluetooth!Blur(w, d)
  OBVIOUS
<1>3. /\ u \in BtWorld
      /\ u.last = w.last /\ u.headset = w.headset /\ u.toDevice = w.toDevice
      /\ u.active = w.active /\ u.previous = w.previous /\ u.restore = w.restore
      /\ u.save = w.save /\ w.blurred \subseteq u.blurred
      /\ d \notin u.blurred => w.toDevice[d] = <<>> /\ cached[d] = actual[d]
  BY <1>1, <1>2, Blurs
<1>4. PICK x : x = [u EXCEPT !.last[d] = None, !.headset[d] = cached[d], !.save = TRUE]
  OBVIOUS
<1>5. /\ x \in BtWorld /\ x.last = [w.last EXCEPT ![d] = None]
      /\ x.toDevice = w.toDevice /\ x.active = w.active
      /\ x.previous = w.previous /\ x.save = TRUE /\ x.blurred = u.blurred
  BY <1>1, <1>3, <1>4 DEF BtWorld, Given, ProfilesOK
<1>6. v = IF p \in offered'[d] THEN Bluetooth!set_params(x, d, p) ELSE x
  BY <1>2, <1>4 DEF Bluetooth!restoreDevice
<1>7. p \in Profiles
  BY <1>1 DEF BtWorld
<1>8. /\ v \in BtWorld /\ v.last = x.last /\ v.active = x.active
      /\ v.previous = x.previous /\ v.save = x.save /\ v.blurred = x.blurred
      /\ \A e \in BtDevices \ {d} : v.toDevice[e] = x.toDevice[e]
      /\ p \in offered'[d] => v.toDevice[d] = Append(w.toDevice[d], p)
  <2>1. CASE p \notin offered'[d]
    BY <2>1, <1>5, <1>6
  <2>2. CASE p \in offered'[d]
    <3> HIDE DEF p
    <3>1. v = Bluetooth!set_params(x, d, p)
      BY <2>2, <1>6
    <3>2. /\ v \in BtWorld /\ v.last = x.last /\ v.active = x.active
          /\ v.previous = x.previous /\ v.save = x.save /\ v.blurred = x.blurred
          /\ v.toDevice[d] = Append(x.toDevice[d], p)
          /\ \A e \in BtDevices \ {d} : v.toDevice[e] = x.toDevice[e]
      BY ONLY <3>1, <1>1, <1>5, <1>7, ProfileAsked
    <3> QED BY <3>2, <1>5
  <2> QED BY <2>1, <2>2
<1>9. ASSUME d \notin v.blurred PROVE ProfileRight(v, d, offered')
  <2>1. d \in bt_present' \ w.blurred
    BY <1>3, <1>5, <1>8, <1>9
  <2>2. ProfileRight(w, d, offered')
    BY <2>1 DEF Reached, WorldRight
  <2>3. before[d] = p /\ p \in offered'[d]
    BY <2>2 DEF ProfileRight
  <2>4. v.last[d] = None
    BY <1>1, <1>5, <1>8 DEF BtWorld
  <2>5. v.toDevice[d] = <<p>>
    BY <2>3, <1>3, <1>5, <1>8, <1>9
  <2>6. Eventual(v, d) = p
    BY <2>5 DEF Eventual
  <2> QED BY <2>2, <2>3, <2>4, <2>6 DEF ProfileRight
<1> HIDE DEF p
<1>10. Reached(v)
  <2>1. v \in BtWorld /\ v.last = [w.last EXCEPT ![d] = None]
    BY <1>5, <1>8
  <2>2. \A e \in BtDevices \ {d} : v.last[e] = w.last[e] /\ v.toDevice[e] = w.toDevice[e]
    BY <1>1, <1>5, <1>8 DEF BtWorld
  <2>3. v.active = w.active /\ v.previous = w.previous /\ w.blurred \subseteq v.blurred
    BY <1>3, <1>5, <1>8
  <2>4. v.save = TRUE
    BY <1>5, <1>8
  <2>5. OneDevice(w, v, d)
    BY <2>1, <2>2, <2>3, <2>4, <1>9 DEF OneDevice
  <2> QED BY <2>5, OneDeviceReached
<1> QED BY <1>5, <1>8, <1>10

SwitchBody(p, w, d) == Bluetooth!switchDevice(w, d)
Switch == INSTANCE FoldInduction WITH op <- SwitchBody

LEMMA ProfilesSwitched ==
  ASSUME Given, NEW w, Reached(w), NEW v, v = Bluetooth!switchProfile(w, bt_present')
  PROVE  Reached(v) /\ v.active = w.active /\ v.previous = w.previous
<1> DEFINE S == {d \in bt_present' : ~Bluetooth!isSwitched(w, d)}
           Good(T, u) == /\ Reached(u) /\ u.active = w.active /\ u.previous = w.previous
                         /\ \A e \in S \ T : u.last[e] = None
           I == [T \in SUBSET S |-> {u \in BtWorld : Good(T, u)}]
<1>1. w \in BtWorld
  BY DEF Reached, WorldRight
<1>2. PICK b : b = [w EXCEPT !.restore = FALSE]
  OBVIOUS
<1>3. /\ b \in BtWorld /\ b.last = w.last /\ b.headset = w.headset
      /\ b.toDevice = w.toDevice /\ b.active = w.active /\ b.previous = w.previous
      /\ b.save = w.save /\ b.blurred = w.blurred
  BY <1>1, <1>2 DEF BtWorld
<1>4. Reached(b)
  BY <1>3 DEF Reached, WorldRight, ProfileRight, Eventual
<1>5. v = Switch!FoldedSet(None, b, S)
  BY <1>2 DEF Bluetooth!switchProfile, Switch!FoldedSet, SwitchBody,
              Switch!FoldSet, Switch!MapThenFoldSet, Bluetooth!FoldSet, Bluetooth!MapThenFoldSet
<1>6. Switch!IsFiniteSet(S)
  <2>1. IsFiniteSet(S)
    BY BluetoothConstants, FS_Subset DEF Given
  <2> QED BY <2>1, Zenon DEF IsFiniteSet, Switch!IsFiniteSet
<1>7. b \in I[{}]
  <2>1. \A e \in S : b.last[e] = None
    BY <1>3 DEF Bluetooth!isSwitched
  <2> QED BY <2>1, <1>3, <1>4
<1>8. ASSUME NEW T \in SUBSET S, NEW d \in T, NEW u \in I[T \ {d}]
      PROVE  SwitchBody(None, u, d) \in I[T]
  <2>1. Good(T \ {d}, u) /\ d \in bt_present' /\ T \ {d} \in SUBSET S
    OBVIOUS
  <2>2. u.last[d] = None
    BY <2>1
  <2>3. PICK x : x = Bluetooth!switchDevice(u, d)
    OBVIOUS
  <2>4. /\ Reached(x) /\ x.last = [u.last EXCEPT ![d] = cached[d]]
        /\ x.active = u.active /\ x.previous = u.previous
    BY <2>1, <2>2, <2>3, DeviceSwitched
  <2>5. \A e \in S \ T : x.last[e] = u.last[e] /\ e \in S \ (T \ {d})
    <3>1. u \in BtWorld
      BY <2>1 DEF Reached, WorldRight
    <3> QED BY <2>4, <3>1 DEF BtWorld, Given
  <2>6. Good(T, x)
    BY <2>1, <2>4, <2>5
  <2>7. x \in BtWorld
    BY <2>4 DEF Reached, WorldRight
  <2> HIDE DEF Good
  <2> QED BY <2>3, <2>6, <2>7 DEF SwitchBody
<1>9. v \in I[S]
  <2> HIDE DEF I, S
  <2>1. Switch!FoldedSet(None, b, S) \in I[S]
    BY ONLY <1>6, <1>7, <1>8, Switch!FoldSetSteps, Zenon
  <2> QED BY <2>1, <1>5
<1> QED BY <1>9

RestoreBody(p, w, d) == Bluetooth!restoreDevice(w, d)
Restore == INSTANCE FoldInduction WITH op <- RestoreBody

LEMMA ProfilesRestored ==
  ASSUME Given, bt_present \subseteq bt_present', NEW w, Reached(w),
         NEW v, v = Bluetooth!restoreProfile(w)
  PROVE  Reached(v) /\ \A d \in bt_present : v.last[d] = None
<1> DEFINE S == {d \in bt_present : Bluetooth!isSwitched(w, d)}
           Good(T, u) == /\ Reached(u)
                         /\ \A e \in bt_present : u.last[e] = IF e \in T THEN None ELSE w.last[e]
           I == [T \in SUBSET S |-> {u \in BtWorld : Good(T, u)}]
<1>1. w \in BtWorld
  BY DEF Reached, WorldRight
<1>2. v = Restore!FoldedSet(None, w, S)
  BY DEF Bluetooth!restoreProfile, Restore!FoldedSet, RestoreBody, Restore!FoldSet,
         Restore!MapThenFoldSet, Bluetooth!FoldSet, Bluetooth!MapThenFoldSet
<1>3. Restore!IsFiniteSet(S)
  <2>1. IsFiniteSet(S)
    BY BluetoothConstants, FS_Subset DEF Given
  <2> QED BY <2>1, Zenon DEF IsFiniteSet, Restore!IsFiniteSet
<1>4. w \in I[{}]
  BY <1>1
<1>5. ASSUME NEW T \in SUBSET S, NEW d \in T, NEW u \in I[T \ {d}]
      PROVE  RestoreBody(None, u, d) \in I[T]
  <2>1. Good(T \ {d}, u) /\ d \in bt_present' /\ d \in bt_present
    OBVIOUS
  <2>2. u.last[d] # None
    BY <2>1 DEF Bluetooth!isSwitched
  <2>3. PICK x : x = Bluetooth!restoreDevice(u, d)
    OBVIOUS
  <2>4. Reached(x) /\ x.last = [u.last EXCEPT ![d] = None]
    BY <2>1, <2>2, <2>3, DeviceRestored
  <2>5. u \in BtWorld /\ x \in BtWorld
    BY <2>1, <2>4 DEF Reached, WorldRight
  <2>6. \A e \in bt_present : x.last[e] = IF e = d THEN None ELSE u.last[e]
    BY <2>4, <2>5 DEF BtWorld, Given
  <2>7. Good(T, x)
    BY <2>1, <2>4, <2>6
  <2> HIDE DEF Good
  <2> QED BY <2>3, <2>5, <2>7 DEF RestoreBody
<1>6. v \in I[S]
  <2> HIDE DEF I, S
  <2>1. Restore!FoldedSet(None, w, S) \in I[S]
    BY ONLY <1>3, <1>4, <1>5, Restore!FoldSetSteps, Zenon
  <2> QED BY <2>1, <1>2
<1>7. Good(S, v)
  BY <1>6
<1> QED BY <1>7 DEF Bluetooth!isSwitched

LEMMA RestoreTriggered ==
  ASSUME NEW w \in BtWorld, NEW v, v = Bluetooth!triggerRestoreProfile(w)
  PROVE  /\ v \in BtWorld /\ v.last = w.last /\ v.headset = w.headset
         /\ v.toDevice = w.toDevice /\ v.active = w.active /\ v.previous = w.previous
         /\ v.save = w.save /\ v.blurred = w.blurred
         /\ v.active # {} \/ v.restore = TRUE
<1>1. PICK r : r = (w.restore \/ w.active = {})
  OBVIOUS
<1>2. r \in BOOLEAN
  BY <1>1, Zenon
<1>3. w.active = {} => r = TRUE
  BY <1>1, Zenon
<1>4. v = [w EXCEPT !.restore = r]
  BY <1>1, Zenon DEF Bluetooth!triggerRestoreProfile
<1> QED BY <1>2, <1>3, <1>4 DEF BtWorld

(* Whatever a stream does, nothing stays switched for it.                  *)
LEMMA StreamHandled ==
  ASSUME Given, NEW w, Reached(w), NEW s \in Streams, stream'[s] # None,
         NEW v, v = Bluetooth!handleStream(w, s, bt_present')
  PROVE  Reached(v) /\ SwitchedFor(v, bt_present')
<1>1. w \in BtWorld
  BY DEF Reached, WorldRight
<1>2. CASE Bluetooth!checkStreamStatus(w, s, stream'[s])
  <2>1. PICK u : u = [w EXCEPT !.active = @ \cup {s}, !.previous = @ \cup {s}]
    OBVIOUS
  <2>2. /\ u \in BtWorld /\ u.last = w.last /\ u.headset = w.headset
        /\ u.toDevice = w.toDevice /\ u.active = w.active \cup {s}
        /\ u.previous = w.previous \cup {s} /\ u.save = w.save /\ u.blurred = w.blurred
    BY <1>1, <2>1 DEF BtWorld
  <2>3. Reached(u)
    BY <2>2 DEF Reached, WorldRight, ProfileRight, Eventual
  <2>4. v = Bluetooth!switchProfile(u, bt_present')
    BY <1>2, <2>1 DEF Bluetooth!handleStream
  <2>5. Reached(v) /\ v.active = u.active
    BY <2>3, <2>4, ProfilesSwitched
  <2> QED BY <2>2, <2>5 DEF SwitchedFor
<1>3. CASE ~Bluetooth!checkStreamStatus(w, s, stream'[s])
  <2>1. PICK u : u = [w EXCEPT !.active = @ \ {s}]
    OBVIOUS
  <2>2. /\ u \in BtWorld /\ u.last = w.last /\ u.headset = w.headset
        /\ u.toDevice = w.toDevice /\ u.active = w.active \ {s}
        /\ u.previous = w.previous /\ u.save = w.save /\ u.blurred = w.blurred
    BY <1>1, <2>1 DEF BtWorld
  <2>3. v = Bluetooth!triggerRestoreProfile(u)
    BY <1>3, <2>1 DEF Bluetooth!handleStream
  <2>4. /\ v \in BtWorld /\ v.last = u.last /\ v.headset = u.headset
        /\ v.toDevice = u.toDevice /\ v.active = u.active /\ v.previous = u.previous
        /\ v.save = u.save /\ v.blurred = u.blurred
        /\ v.active # {} \/ v.restore = TRUE
    BY <2>2, <2>3, RestoreTriggered
  <2>5. Reached(v)
    BY <2>2, <2>4 DEF Reached, WorldRight, ProfileRight, Eventual
  <2> QED BY <2>4, <2>5 DEF SwitchedFor
<1> QED BY <1>2, <1>3

HandleBody(devices, w, s) == Bluetooth!handleStream(w, s, devices)
Handle == INSTANCE FoldInduction WITH op <- HandleBody

LEMMA StreamsHandled ==
  ASSUME Given, NEW w, Reached(w), SwitchedFor(w, bt_present'),
         NEW v, v = Bluetooth!handleAllStreams(w, bt_present')
  PROVE  Reached(v) /\ SwitchedFor(v, bt_present')
<1> DEFINE S == {s \in Streams : stream'[s] # None}
           Good(u) == Reached(u) /\ SwitchedFor(u, bt_present')
           I == [T \in SUBSET S |-> {u \in BtWorld : Good(u)}]
<1>1. \A u : Reached(u) => u \in BtWorld
  BY DEF Reached, WorldRight
<1>2. v = Handle!FoldedSet(bt_present', w, S)
  BY DEF Bluetooth!handleAllStreams, Handle!FoldedSet, HandleBody, Handle!FoldSet,
         Handle!MapThenFoldSet, Bluetooth!FoldSet, Bluetooth!MapThenFoldSet
<1>3. Handle!IsFiniteSet(S)
  <2>1. IsFiniteSet(S)
    BY BluetoothConstants, FS_Subset
  <2> QED BY <2>1, Zenon DEF IsFiniteSet, Handle!IsFiniteSet
<1>4. w \in I[{}]
  BY <1>1
<1>5. ASSUME NEW T \in SUBSET S, NEW s \in T, NEW u \in I[T \ {s}]
      PROVE  HandleBody(bt_present', u, s) \in I[T]
  <2>1. Good(u) /\ s \in Streams /\ stream'[s] # None
    OBVIOUS
  <2>2. PICK x : x = Bluetooth!handleStream(u, s, bt_present')
    OBVIOUS
  <2>3. Good(x)
    BY <2>1, <2>2, StreamHandled
  <2>4. x \in BtWorld
    BY <2>3, <1>1
  <2> HIDE DEF Good
  <2> QED BY <2>2, <2>3, <2>4 DEF HandleBody
<1>6. v \in I[S]
  <2> HIDE DEF I, S
  <2>1. Handle!FoldedSet(bt_present', w, S) \in I[S]
    BY ONLY <1>3, <1>4, <1>5, Handle!FoldSetSteps, Zenon
  <2> QED BY <2>1, <1>2
<1> QED BY <1>6

LEMMA WorldBecomes ==
  ASSUME NEW w, Bluetooth!Becomes(w), Reached(w), SwitchedFor(w, bt_present'),
         BtTypeOK', UNCHANGED <<actual, before, bt_file>>,
         \A d \in BtDevices \ bt_present' : actual[d] = First /\ before[d] = First
  PROVE  BluetoothInv'
<1>1. w \in BtWorld
  BY DEF Reached, WorldRight
<1>2. PICK v : v = Bluetooth!World'
  OBVIOUS
<1>3. v = w
  <2>1. /\ v.last = w.last /\ v.headset = w.headset /\ v.toDevice = w.toDevice
        /\ v.active = w.active /\ v.previous = w.previous /\ v.blurred = w.blurred
    BY <1>2 DEF Bluetooth!World, Bluetooth!Becomes
  <2>2. v.restore = w.restore /\ v.save = w.save
    BY <1>2, Zenon DEF Bluetooth!World, Bluetooth!Becomes
  <2>3. v = [last |-> v.last, headset |-> v.headset, toDevice |-> v.toDevice,
             active |-> v.active, previous |-> v.previous, restore |-> v.restore,
             save |-> v.save, blurred |-> v.blurred]
    BY <1>2 DEF Bluetooth!World
  <2>4. w = [last |-> w.last, headset |-> w.headset, toDevice |-> w.toDevice,
             active |-> w.active, previous |-> w.previous, restore |-> w.restore,
             save |-> w.save, blurred |-> w.blurred]
    BY <1>1 DEF BtWorld
  <2> QED BY ONLY <2>1, <2>2, <2>3, <2>4
<1>4. WorldRight(Bluetooth!World, bt_present, offered, stream)'
  <2>1. Bluetooth!World' = w
    BY <1>2, <1>3
  <2>2. \A d \in BtDevices : ProfileRight(w, d, offered') => ProfileRight(Bluetooth!World, d, offered)'
    BY <2>1 DEF ProfileRight, Eventual
  <2>3. bt_present' \subseteq BtDevices
    BY DEF BtTypeOK
  <2>4. WorldRight(w, bt_present', offered', stream') /\ bt_file' = bt_file
    BY DEF Reached
  <2> HIDE DEF Reached
  <2> QED BY <2>1, <2>2, <2>3, <2>4 DEF WorldRight
<1>5. SwitchedFor(Bluetooth!World, bt_present)'
  BY <1>2, <1>3 DEF SwitchedFor
<1>6. (\A d \in BtDevices \ bt_present : actual[d] = First /\ before[d] = First)'
  OBVIOUS
<1> QED BY <1>4, <1>5, <1>6 DEF BluetoothInv

LEMMA WorldReached ==
  ASSUME BluetoothInv, UNCHANGED <<bt_present, offered>>,
         \A s \in previous_streams : stream'[s] # None
  PROVE  /\ Given /\ Reached(Bluetooth!World) /\ Bluetooth!World \in BtWorld
         /\ SwitchedFor(Bluetooth!World, bt_present')
<1>1. PICK w : w = Bluetooth!World
  OBVIOUS
<1>2. w.previous = previous_streams
  BY <1>1 DEF Bluetooth!World
<1>3. WorldRight(w, bt_present, offered, stream) /\ SwitchedFor(w, bt_present)
  BY <1>1 DEF BluetoothInv
<1>4. Reached(w) /\ w \in BtWorld
  BY <1>2, <1>3 DEF Reached, WorldRight
<1>5. Given
  BY DEF BluetoothInv, BtTypeOK, Given
<1>6. SwitchedFor(w, bt_present')
  BY <1>3
<1> QED BY <1>1, <1>4, <1>5, <1>6

(* Steps that leave the devices alone.                                     *)
LEMMA DevicesLeft ==
  ASSUME BluetoothInv, UNCHANGED <<bt_present, offered, actual, cached, before, bt_file>>,
         stream' \in [Streams -> Bluetooth!StreamState \cup {None}],
         NEW w, Bluetooth!Becomes(w), Reached(w), SwitchedFor(w, bt_present')
  PROVE  BluetoothInv'
<1>1. BtTypeOK'
  BY DEF BluetoothInv, BtTypeOK, ProfilesOK
<1>2. \A d \in BtDevices \ bt_present' : actual[d] = First /\ before[d] = First
  BY DEF BluetoothInv
<1> QED BY <1>1, <1>2, WorldBecomes

LEMMA BtStreamAddedInv ==
  ASSUME BluetoothInv, NEW s \in Streams,
         Bluetooth!StreamAdded(s) \/ Bluetooth!StreamChanged(s)
  PROVE  BluetoothInv'
<1>1. /\ UNCHANGED <<bt_present, offered, actual, cached, before, bt_file>>
      /\ Bluetooth!Becomes(Bluetooth!handleStream(Bluetooth!World, s, bt_present))
  BY DEF Bluetooth!StreamAdded, Bluetooth!StreamChanged
<1>2. stream \in [Streams -> Bluetooth!StreamState \cup {None}]
  BY DEF BluetoothInv, BtTypeOK
<1>3. \E x \in Bluetooth!StreamState : stream' = [stream EXCEPT ![s] = x]
  <2>1. CASE Bluetooth!StreamAdded(s)
    BY <2>1 DEF Bluetooth!StreamAdded, Bluetooth!StreamState
  <2>2. CASE Bluetooth!StreamChanged(s)
    <3>1. PICK r \in BOOLEAN : stream' = [stream EXCEPT ![s].running = r]
      BY <2>2 DEF Bluetooth!StreamChanged
    <3>2. stream[s] \in Bluetooth!StreamState
      BY <2>2, <1>2 DEF Bluetooth!StreamChanged
    <3>3. [stream[s] EXCEPT !.running = r] \in Bluetooth!StreamState
      BY <3>2 DEF Bluetooth!StreamState
    <3>4. stream' = [stream EXCEPT ![s] = [stream[s] EXCEPT !.running = r]]
      BY <3>1, <1>2
    <3> QED BY <3>3, <3>4
  <2> QED BY <2>1, <2>2
<1>4. /\ stream' \in [Streams -> Bluetooth!StreamState \cup {None}] /\ stream'[s] # None
      /\ \A t \in Streams : stream[t] # None => stream'[t] # None
  BY <1>2, <1>3, BluetoothConstants
<1>5. \A t \in previous_streams : stream'[t] # None
  <2>1. Bluetooth!World.previous = previous_streams
    BY DEF Bluetooth!World
  <2>2. \A t \in previous_streams : t \in Streams /\ stream[t] # None
    BY <2>1 DEF BluetoothInv, WorldRight, BtWorld
  <2> QED BY <2>2, <1>4
<1>6. PICK v : v = Bluetooth!handleStream(Bluetooth!World, s, bt_present')
  OBVIOUS
<1>7. Reached(v) /\ SwitchedFor(v, bt_present')
  <2>1. PICK w : w = Bluetooth!World
    OBVIOUS
  <2>2. Given /\ Reached(w)
    BY <1>1, <1>5, <2>1, WorldReached
  <2>3. v = Bluetooth!handleStream(w, s, bt_present')
    BY <1>6, <2>1
  <2> QED BY ONLY <1>4, <2>2, <2>3, s \in Streams, StreamHandled
<1>8. Bluetooth!Becomes(v)
  BY <1>1, <1>6
<1> QED BY <1>1, <1>4, <1>7, <1>8, DevicesLeft

LEMMA BtStreamRemovedInv ==
  ASSUME BluetoothInv, NEW s \in Streams, Bluetooth!StreamRemoved(s)
  PROVE  BluetoothInv'
<1>1. PICK w : w = Bluetooth!World
  OBVIOUS
<1>2. PICK u : u = [w EXCEPT !.active = @ \ {s}, !.previous = @ \ {s}]
  OBVIOUS
<1>3. PICK v : v = Bluetooth!triggerRestoreProfile(u)
  OBVIOUS
<1>4. /\ UNCHANGED <<bt_present, offered, actual, cached, before, bt_file>>
      /\ stream' = [stream EXCEPT ![s] = None] /\ Bluetooth!Becomes(v)
  BY <1>1, <1>2, <1>3 DEF Bluetooth!StreamRemoved
<1>5. WorldRight(w, bt_present, offered, stream) /\ w \in BtWorld
  BY <1>1 DEF BluetoothInv, WorldRight
<1>6. /\ u \in BtWorld /\ u.last = w.last /\ u.headset = w.headset
      /\ u.toDevice = w.toDevice /\ u.active = w.active \ {s}
      /\ u.previous = w.previous \ {s} /\ u.save = w.save /\ u.blurred = w.blurred
  BY <1>2, <1>5 DEF BtWorld
<1>7. /\ v \in BtWorld /\ v.last = u.last /\ v.headset = u.headset
      /\ v.toDevice = u.toDevice /\ v.active = u.active /\ v.previous = u.previous
      /\ v.save = u.save /\ v.blurred = u.blurred
      /\ v.active # {} \/ v.restore = TRUE
  BY <1>3, <1>6, RestoreTriggered
<1>8. stream' \in [Streams -> Bluetooth!StreamState \cup {None}]
      /\ \A t \in Streams \ {s} : stream'[t] = stream[t]
  BY <1>4 DEF BluetoothInv, BtTypeOK
<1>9. \A t \in v.previous : stream'[t] # None
  BY <1>5, <1>6, <1>7, <1>8 DEF WorldRight, BtWorld
<1>10. Reached(v)
  BY <1>4, <1>5, <1>6, <1>7, <1>9 DEF Reached, WorldRight, ProfileRight, Eventual
<1>11. SwitchedFor(v, bt_present')
  BY <1>7 DEF SwitchedFor
<1> QED BY <1>4, <1>8, <1>10, <1>11, DevicesLeft

LEMMA DefaultSinkChangedInv ==
  ASSUME BluetoothInv, Bluetooth!DefaultSinkChanged
  PROVE  BluetoothInv'
<1>1. PICK w : w = Bluetooth!World
  OBVIOUS
<1>2. PICK v : v = IF bluez_sink' THEN Bluetooth!handleAllStreams(w, bt_present') ELSE w
  OBVIOUS
<1>3. /\ UNCHANGED <<bt_present, offered, actual, cached, before, bt_file, stream>>
  BY DEF Bluetooth!DefaultSinkChanged
<1>4. Bluetooth!Becomes(v)
  BY <1>1, <1>2, <1>3 DEF Bluetooth!DefaultSinkChanged
<1>5. \A t \in previous_streams : stream'[t] # None
  <2>1. Bluetooth!World.previous = previous_streams
    BY DEF Bluetooth!World
  <2> QED BY <2>1, <1>3 DEF BluetoothInv, WorldRight
<1>6. Given /\ Reached(w) /\ SwitchedFor(w, bt_present')
  BY <1>1, <1>3, <1>5, WorldReached
<1>7. Reached(v) /\ SwitchedFor(v, bt_present')
  <2>1. CASE v = w
    BY <2>1, <1>6
  <2>2. CASE v = Bluetooth!handleAllStreams(w, bt_present')
    BY ONLY <2>2, <1>6, StreamsHandled
  <2> QED BY <2>1, <2>2, <1>2
<1>8. stream' \in [Streams -> Bluetooth!StreamState \cup {None}]
  BY <1>3 DEF BluetoothInv, BtTypeOK
<1> QED BY <1>3, <1>4, <1>7, <1>8, DevicesLeft

LEMMA RestoreTimeoutInv ==
  ASSUME BluetoothInv, Bluetooth!RestoreTimeout
  PROVE  BluetoothInv'
<1>1. PICK w : w = Bluetooth!World
  OBVIOUS
<1>2. PICK u : u = [w EXCEPT !.restore = FALSE]
  OBVIOUS
<1>3. PICK v : v = Bluetooth!restoreProfile(u)
  OBVIOUS
<1>4. UNCHANGED <<bt_present, offered, actual, cached, before, bt_file, stream>>
  BY DEF Bluetooth!RestoreTimeout, Bluetooth!environment
<1>5. Bluetooth!Becomes(v)
  BY <1>1, <1>2, <1>3 DEF Bluetooth!RestoreTimeout
<1>6. \A t \in previous_streams : stream'[t] # None
  <2>1. Bluetooth!World.previous = previous_streams
    BY DEF Bluetooth!World
  <2> QED BY <2>1, <1>4 DEF BluetoothInv, WorldRight
<1>7. Given /\ Reached(w) /\ w \in BtWorld
  BY <1>1, <1>4, <1>6, WorldReached
<1>8. /\ u \in BtWorld /\ u.last = w.last /\ u.headset = w.headset
      /\ u.toDevice = w.toDevice /\ u.active = w.active /\ u.previous = w.previous
      /\ u.save = w.save /\ u.blurred = w.blurred
  BY <1>2, <1>7 DEF BtWorld
<1>9. Reached(u)
  BY <1>7, <1>8 DEF Reached, WorldRight, ProfileRight, Eventual
<1>10. Reached(v) /\ \A d \in bt_present : v.last[d] = None
  BY <1>3, <1>4, <1>7, <1>9, ProfilesRestored
<1>11. SwitchedFor(v, bt_present')
  BY <1>4, <1>10 DEF SwitchedFor
<1>12. stream' \in [Streams -> Bluetooth!StreamState \cup {None}]
  BY <1>4 DEF BluetoothInv, BtTypeOK
<1> QED BY <1>4, <1>5, <1>10, <1>11, <1>12, DevicesLeft

LEMMA BtDeviceAddedInv ==
  ASSUME BluetoothInv, NEW d \in BtDevices, Bluetooth!DeviceAdded(d)
  PROVE  BluetoothInv'
<1>1. PICK w : w = Bluetooth!World
  OBVIOUS
<1>2. PICK u : u = [w EXCEPT !.last[d] = None]
  OBVIOUS
<1>3. PICK v : v = Bluetooth!handleAllStreams(u, bt_present')
  OBVIOUS
<1>4. /\ UNCHANGED <<actual, cached, before, bt_file, stream>>
      /\ d \notin bt_present /\ bt_present' = bt_present \cup {d}
      /\ \E ps \in SUBSET Profiles : First \in ps /\ offered' = [offered EXCEPT ![d] = ps]
      /\ Bluetooth!Becomes(v)
  BY <1>1, <1>2, <1>3 DEF Bluetooth!DeviceAdded
<1>5. WorldRight(w, bt_present, offered, stream) /\ SwitchedFor(w, bt_present) /\ w \in BtWorld
  BY <1>1 DEF BluetoothInv, WorldRight
<1>6. PICK l : l = [w.last EXCEPT ![d] = None]
  OBVIOUS
<1>7. /\ l \in [BtDevices -> Profiles \cup {None}] /\ l[d] = None
      /\ \A e \in BtDevices \ {d} : l[e] = w.last[e]
  BY <1>5, <1>6 DEF BtWorld
<1>8. /\ u \in BtWorld /\ u.last = l /\ u.headset = w.headset
      /\ u.toDevice = w.toDevice /\ u.active = w.active /\ u.previous = w.previous
      /\ u.restore = w.restore /\ u.save = w.save /\ u.blurred = w.blurred
  <2>1. u = [w EXCEPT !.last = l]
    BY <1>2, <1>5, <1>6 DEF BtWorld
  <2> QED BY <2>1, <1>5, <1>7 DEF BtWorld
<1>9. /\ offered' \in [BtDevices -> SUBSET Profiles] /\ First \in offered'[d]
      /\ \A e \in BtDevices \ {d} : offered'[e] = offered[e]
  BY <1>4 DEF BluetoothInv, BtTypeOK
<1>10. bt_present' \subseteq BtDevices /\ bt_present \subseteq BtDevices
  BY <1>4 DEF BluetoothInv, BtTypeOK
<1>11. Given
  BY <1>9, <1>10 DEF Given, BluetoothInv, BtTypeOK
<1>12. Reached(u)
  <2>1. ASSUME NEW e \in bt_present' \ u.blurred PROVE ProfileRight(u, e, offered')
    <3>1. CASE e = d
      <4>1. actual[d] = First /\ before[d] = First /\ w.toDevice[d] = <<>>
        BY <1>4, <1>5 DEF BluetoothInv, WorldRight
      <4> QED BY <3>1, <4>1, <1>7, <1>8, <1>9 DEF ProfileRight, Eventual
    <3>2. CASE e # d
      <4>1. e \in bt_present \ w.blurred /\ e \in BtDevices \ {d}
        BY <3>2, <2>1, <1>4, <1>8, <1>10
      <4>2. ProfileRight(w, e, offered)
        BY <4>1, <1>5 DEF WorldRight
      <4> QED BY <4>1, <4>2, <1>7, <1>8, <1>9 DEF ProfileRight, Eventual
    <3> QED BY <3>1, <3>2
  <2>2. \A e \in BtDevices \ bt_present' : u.toDevice[e] = <<>>
    BY <1>4, <1>5, <1>8 DEF WorldRight
  <2>3. /\ u.active \subseteq u.previous /\ \A s \in u.previous : stream'[s] # None
        /\ bt_file = u.headset \/ u.save = TRUE
    BY <1>4, <1>5, <1>8 DEF WorldRight
  <2> QED BY <2>1, <2>2, <2>3, <1>8 DEF Reached, WorldRight
<1>13. SwitchedFor(u, bt_present')
  BY <1>4, <1>5, <1>7, <1>8, <1>10 DEF SwitchedFor
<1>14. Reached(v) /\ SwitchedFor(v, bt_present')
  BY ONLY <1>3, <1>11, <1>12, <1>13, StreamsHandled
<1>15. BtTypeOK'
  BY <1>4, <1>9, <1>10 DEF BluetoothInv, BtTypeOK, ProfilesOK
<1>16. \A e \in BtDevices \ bt_present' : actual[e] = First /\ before[e] = First
  BY <1>4 DEF BluetoothInv
<1> QED BY <1>4, <1>14, <1>15, <1>16, WorldBecomes

(* A device takes all that is known of it along.                           *)
LEMMA BtDeviceRemovedInv ==
  ASSUME BluetoothInv, NEW d \in BtDevices, Bluetooth!DeviceRemoved(d)
  PROVE  BluetoothInv'
<1>1. PICK w : w = Bluetooth!World
  OBVIOUS
<1>2. PICK v : v = Bluetooth!World'
  OBVIOUS
<1>3. /\ UNCHANGED <<stream, bt_file>> /\ bt_present' = bt_present \ {d}
      /\ offered' = [offered EXCEPT ![d] = {}]
      /\ actual' = [actual EXCEPT ![d] = First] /\ cached' = [cached EXCEPT ![d] = First]
      /\ before' = [before EXCEPT ![d] = First]
      /\ Bluetooth!Becomes([w EXCEPT !.toDevice[d] = <<>>, !.blurred = @ \ {d}])
  BY <1>1 DEF Bluetooth!DeviceRemoved
<1>4. WorldRight(w, bt_present, offered, stream) /\ SwitchedFor(w, bt_present)
      /\ w \in BtWorld /\ BtTypeOK
  BY <1>1 DEF BluetoothInv, WorldRight
<1>5. PICK q : q = [w.toDevice EXCEPT ![d] = <<>>]
  OBVIOUS
<1>6. /\ q \in [BtDevices -> Seq(Profiles)] /\ q[d] = <<>>
      /\ \A e \in BtDevices \ {d} : q[e] = w.toDevice[e]
  BY <1>4, <1>5 DEF BtWorld
<1>7. PICK u : u = [w EXCEPT !.toDevice[d] = <<>>, !.blurred = @ \ {d}]
  OBVIOUS
<1>8. /\ u \in BtWorld /\ u.last = w.last /\ u.headset = w.headset
      /\ u.toDevice = q /\ u.active = w.active /\ u.previous = w.previous
      /\ u.restore = w.restore /\ u.save = w.save /\ u.blurred = w.blurred \ {d}
  <2>1. u = [[w EXCEPT !.toDevice = q] EXCEPT !.blurred = w.blurred \ {d}]
    BY <1>4, <1>5, <1>7 DEF BtWorld
  <2> QED BY <2>1, <1>4, <1>6 DEF BtWorld
<1>9. v = u
  <2>1. /\ v.last = u.last /\ v.headset = u.headset /\ v.toDevice = u.toDevice
        /\ v.active = u.active /\ v.previous = u.previous /\ v.blurred = u.blurred
    BY <1>2, <1>3, <1>7 DEF Bluetooth!World, Bluetooth!Becomes
  <2>2. v.restore = u.restore /\ v.save = u.save
    BY <1>2, <1>3, <1>7, Zenon DEF Bluetooth!World, Bluetooth!Becomes
  <2>3. v = [last |-> v.last, headset |-> v.headset, toDevice |-> v.toDevice,
             active |-> v.active, previous |-> v.previous, restore |-> v.restore,
             save |-> v.save, blurred |-> v.blurred]
    BY <1>2 DEF Bluetooth!World
  <2>4. u = [last |-> u.last, headset |-> u.headset, toDevice |-> u.toDevice,
             active |-> u.active, previous |-> u.previous, restore |-> u.restore,
             save |-> u.save, blurred |-> u.blurred]
    BY <1>8 DEF BtWorld
  <2> QED BY ONLY <2>1, <2>2, <2>3, <2>4
<1>10. \A e \in BtDevices \ {d} : /\ offered'[e] = offered[e] /\ actual'[e] = actual[e]
                                  /\ before'[e] = before[e]
  BY <1>3, <1>4 DEF BtTypeOK, ProfilesOK
<1>11. BtTypeOK'
  BY <1>3, <1>4, BluetoothConstants DEF BtTypeOK, ProfilesOK
<1>12. (\A e \in BtDevices \ bt_present : actual[e] = First /\ before[e] = First)'
  <2>1. actual'[d] = First /\ before'[d] = First
    BY <1>3, <1>4 DEF BtTypeOK, ProfilesOK
  <2>2. \A e \in BtDevices \ {d} : e \notin bt_present' => e \notin bt_present
    BY <1>3
  <2> QED BY <2>1, <2>2, <1>10 DEF BluetoothInv
<1>13. WorldRight(v, bt_present, offered, stream)'
  <2>1. ASSUME NEW e \in bt_present' \ v.blurred PROVE ProfileRight(v, e, offered)'
    <3>1. e \in bt_present \ w.blurred /\ e \in BtDevices \ {d}
      BY <2>1, <1>3, <1>4, <1>8, <1>9 DEF BtTypeOK
    <3>2. ProfileRight(w, e, offered)
      BY <3>1, <1>4 DEF WorldRight
    <3> QED BY <3>1, <3>2, <1>6, <1>8, <1>9, <1>10 DEF ProfileRight, Eventual
  <2>2. \A e \in BtDevices \ bt_present' : v.toDevice[e] = <<>>
    BY <1>3, <1>4, <1>6, <1>8, <1>9 DEF WorldRight
  <2>3. /\ v.active \subseteq v.previous /\ \A s \in v.previous : stream'[s] # None
        /\ bt_file' = v.headset \/ v.save = TRUE
    BY <1>3, <1>4, <1>8, <1>9 DEF WorldRight
  <2> QED BY <2>1, <2>2, <2>3, <1>8, <1>9 DEF WorldRight
<1>14. SwitchedFor(v, bt_present')
  BY <1>3, <1>4, <1>8, <1>9 DEF SwitchedFor
<1>15. /\ WorldRight(Bluetooth!World, bt_present, offered, stream)'
       /\ SwitchedFor(Bluetooth!World, bt_present)'
  BY <1>2, <1>13, <1>14 DEF WorldRight, SwitchedFor, ProfileRight, Eventual
<1> QED BY <1>11, <1>12, <1>15 DEF BluetoothInv

LEMMA BtSaveTimeoutInv ==
  ASSUME BluetoothInv, Bluetooth!SaveTimeout
  PROVE  BluetoothInv'
<1>1. /\ UNCHANGED <<bt_present, offered, actual, toDevice, cached, stream,
                     active_streams, previous_streams, last_profiles, headset_profiles,
                     restore_timeout_source, before, bt_blurred>>
      /\ bt_file' = headset_profiles
  BY DEF Bluetooth!SaveTimeout
<1>2. bt_timeout_source' = FALSE
  BY Zenon DEF Bluetooth!SaveTimeout
<1>3. PICK w : w = Bluetooth!World
  OBVIOUS
<1>4. PICK v : v = Bluetooth!World'
  OBVIOUS
<1>5. /\ w \in BtWorld /\ WorldRight(w, bt_present, offered, stream)
      /\ SwitchedFor(w, bt_present) /\ BtTypeOK
  BY <1>3 DEF BluetoothInv, WorldRight
<1>6. /\ v.last = w.last /\ v.headset = w.headset /\ v.toDevice = w.toDevice
      /\ v.active = w.active /\ v.previous = w.previous /\ v.blurred = w.blurred
      /\ bt_file' = v.headset
  BY <1>1, <1>3, <1>4 DEF Bluetooth!World
<1>7. v.restore = w.restore /\ v.save = FALSE
  BY <1>1, <1>2, <1>3, <1>4, Zenon DEF Bluetooth!World
<1>8. v \in BtWorld
  <2>1. v = [last |-> v.last, headset |-> v.headset, toDevice |-> v.toDevice,
             active |-> v.active, previous |-> v.previous, restore |-> v.restore,
             save |-> v.save, blurred |-> v.blurred]
    BY <1>4 DEF Bluetooth!World
  <2> QED BY ONLY <2>1, <1>5, <1>6, <1>7 DEF BtWorld
<1>9. WorldRight(v, bt_present, offered, stream)'
  <2>1. \A d \in bt_present' \ v.blurred : ProfileRight(v, d, offered)'
    BY <1>1, <1>5, <1>6 DEF WorldRight, ProfileRight, Eventual
  <2> QED BY <2>1, <1>1, <1>5, <1>6, <1>8 DEF WorldRight
<1>10. SwitchedFor(v, bt_present')
  BY <1>1, <1>5, <1>6, <1>7 DEF SwitchedFor
<1>11. /\ WorldRight(Bluetooth!World, bt_present, offered, stream)'
       /\ SwitchedFor(Bluetooth!World, bt_present)'
  BY <1>4, <1>9, <1>10 DEF WorldRight, SwitchedFor, ProfileRight, Eventual
<1>12. BtTypeOK'
  BY <1>1, <1>5 DEF BtTypeOK, ProfilesOK
<1>13. (\A d \in BtDevices \ bt_present : actual[d] = First /\ before[d] = First)'
  BY <1>1 DEF BluetoothInv
<1> QED BY <1>11, <1>12, <1>13 DEF BluetoothInv

(* Steps of the devices, which the script sees later or not at all.        *)
LEMMA OutsideScript ==
  ASSUME BluetoothInv,
         UNCHANGED <<bt_present, offered, stream, active_streams, previous_streams,
                     last_profiles, headset_profiles, bt_file, bt_blurred>>,
         restore_timeout_source' = restore_timeout_source,
         bt_timeout_source' = bt_timeout_source,
         toDevice' \in [BtDevices -> Seq(Profiles)], ProfilesOK',
         \A d \in BtDevices \ bt_present : /\ toDevice'[d] = <<>>
                                           /\ actual'[d] = First /\ before'[d] = First,
         NEW v, v = Bluetooth!World',
         \A d \in bt_present \ bt_blurred : ProfileRight(v, d, offered)'
  PROVE  BluetoothInv'
<1>1. PICK w : w = Bluetooth!World
  OBVIOUS
<1>2. /\ w \in BtWorld /\ WorldRight(w, bt_present, offered, stream)
      /\ SwitchedFor(w, bt_present) /\ BtTypeOK
  BY <1>1 DEF BluetoothInv, WorldRight
<1>3. /\ v.last = w.last /\ v.headset = w.headset /\ v.toDevice = toDevice'
      /\ v.active = w.active /\ v.previous = w.previous /\ v.blurred = w.blurred
      /\ v.blurred = bt_blurred
  BY <1>1 DEF Bluetooth!World
<1>4. v.restore = w.restore /\ v.save = w.save
  BY <1>1, Zenon DEF Bluetooth!World
<1>5. v \in BtWorld
  <2>1. v = [last |-> v.last, headset |-> v.headset, toDevice |-> v.toDevice,
             active |-> v.active, previous |-> v.previous, restore |-> v.restore,
             save |-> v.save, blurred |-> v.blurred]
    BY DEF Bluetooth!World
  <2>2. toDevice' \in [BtDevices -> Seq(Profiles)]
    OBVIOUS
  <2> QED BY ONLY <2>1, <2>2, <1>2, <1>3, <1>4 DEF BtWorld
<1>6. WorldRight(v, bt_present, offered, stream)'
  BY <1>2, <1>3, <1>4, <1>5 DEF WorldRight
<1>7. SwitchedFor(v, bt_present')
  BY <1>2, <1>3, <1>4 DEF SwitchedFor
<1>8. /\ WorldRight(Bluetooth!World, bt_present, offered, stream)'
      /\ SwitchedFor(Bluetooth!World, bt_present)'
  BY <1>6, <1>7 DEF WorldRight, SwitchedFor, ProfileRight, Eventual
<1>9. BtTypeOK'
  BY <1>2 DEF BtTypeOK
<1> QED BY <1>8, <1>9 DEF BluetoothInv

LEMMA PlainState ==
  ASSUME BluetoothInv
  PROVE  /\ BtTypeOK /\ ProfilesOK /\ toDevice \in [BtDevices -> Seq(Profiles)]
         /\ last_profiles \in [BtDevices -> Profiles \cup {None}]
         /\ \A d \in BtDevices \ bt_present : /\ toDevice[d] = <<>>
                                              /\ actual[d] = First /\ before[d] = First
         /\ \A d \in bt_present \ bt_blurred : ProfileRight(Bluetooth!World, d, offered)
<1>1. PICK w : w = Bluetooth!World
  OBVIOUS
<1>2. w \in BtWorld /\ WorldRight(w, bt_present, offered, stream)
  BY <1>1 DEF BluetoothInv, WorldRight
<1>3. w.toDevice = toDevice /\ w.blurred = bt_blurred /\ w.last = last_profiles
  BY <1>1 DEF Bluetooth!World
<1> QED BY <1>1, <1>2, <1>3 DEF BluetoothInv, WorldRight, BtTypeOK, BtWorld

LEMMA BtProfileReportedInv ==
  ASSUME BluetoothInv, NEW d \in BtDevices, Bluetooth!ProfileReported(d)
  PROVE  BluetoothInv'
<1>1. /\ UNCHANGED <<bt_present, offered, actual, toDevice, stream, active_streams,
                     previous_streams, last_profiles, headset_profiles, bt_file, before,
                     bt_blurred>>
      /\ cached' = [cached EXCEPT ![d] = actual[d]]
  BY DEF Bluetooth!ProfileReported
<1>2. /\ restore_timeout_source' = restore_timeout_source
      /\ bt_timeout_source' = bt_timeout_source
  BY Zenon DEF Bluetooth!ProfileReported
<1>3. ProfilesOK'
  BY <1>1, PlainState DEF ProfilesOK
<1>4. PICK v : v = Bluetooth!World'
  OBVIOUS
<1>5. v.last = last_profiles /\ v.toDevice = toDevice
      /\ Bluetooth!World.last = last_profiles /\ Bluetooth!World.toDevice = toDevice
  BY <1>1, <1>4 DEF Bluetooth!World
<1>6. \A e \in bt_present \ bt_blurred : ProfileRight(v, e, offered)'
  BY <1>1, <1>5, PlainState DEF ProfileRight, Eventual
<1> QED BY <1>1, <1>2, <1>3, <1>4, <1>6, PlainState, OutsideScript

LEMMA BtDeviceSwitchesInv ==
  ASSUME BluetoothInv, NEW d \in BtDevices, Bluetooth!DeviceSwitches(d)
  PROVE  BluetoothInv'
<1>1. /\ UNCHANGED <<bt_present, offered, cached, stream, active_streams,
                     previous_streams, last_profiles, headset_profiles, bt_file, before,
                     bt_blurred>>
      /\ toDevice[d] # <<>>
      /\ toDevice' = [toDevice EXCEPT ![d] = Tail(@)]
      /\ actual' = [actual EXCEPT ![d] = Head(toDevice[d])]
  BY DEF Bluetooth!DeviceSwitches
<1>2. /\ restore_timeout_source' = restore_timeout_source
      /\ bt_timeout_source' = bt_timeout_source
  BY Zenon DEF Bluetooth!DeviceSwitches
<1>3. toDevice \in [BtDevices -> Seq(Profiles)] /\ actual \in [BtDevices -> Profiles]
  BY PlainState DEF ProfilesOK
<1>4. PICK t : t = Tail(toDevice[d])
  OBVIOUS
<1>5. PICK h : h = Head(toDevice[d])
  OBVIOUS
<1>6. PICK last : last = toDevice[d][Len(toDevice[d])]
  OBVIOUS
<1>7. /\ t \in Seq(Profiles) /\ h \in Profiles
      /\ t = <<>> => h = last
      /\ t # <<>> => t[Len(t)] = last
  BY <1>1, <1>3, <1>4, <1>5, <1>6, LastOfTail
<1>8. /\ toDevice' = [toDevice EXCEPT ![d] = t] /\ actual' = [actual EXCEPT ![d] = h]
  BY <1>1, <1>3, <1>4, <1>5
<1>9. /\ toDevice' \in [BtDevices -> Seq(Profiles)] /\ toDevice'[d] = t /\ actual'[d] = h
      /\ \A e \in BtDevices \ {d} : toDevice'[e] = toDevice[e] /\ actual'[e] = actual[e]
      /\ actual' \in [BtDevices -> Profiles]
  BY <1>3, <1>7, <1>8
<1>10. ProfilesOK'
  BY <1>1, <1>9, PlainState DEF ProfilesOK
<1>11. PICK v : v = Bluetooth!World'
  OBVIOUS
<1>12. v.last = last_profiles /\ v.toDevice = toDevice'
       /\ Bluetooth!World.last = last_profiles /\ Bluetooth!World.toDevice = toDevice
  BY <1>1, <1>11 DEF Bluetooth!World
<1>13. \A e \in BtDevices : Eventual(v, e)' = Eventual(Bluetooth!World, e)
  BY <1>1, <1>6, <1>7, <1>9, <1>12 DEF Eventual
<1>14. bt_present \subseteq BtDevices
  BY PlainState DEF BtTypeOK
<1>15. \A e \in bt_present \ bt_blurred : ProfileRight(v, e, offered)'
  BY <1>1, <1>12, <1>13, <1>14, PlainState DEF ProfileRight
<1>16. \A e \in BtDevices \ bt_present : /\ toDevice'[e] = <<>>
                                         /\ actual'[e] = First /\ before'[e] = First
  BY <1>1, <1>9, PlainState
<1> QED BY <1>1, <1>2, <1>9, <1>10, <1>11, <1>15, <1>16, OutsideScript

LEMMA BtUserSwitchesInv ==
  ASSUME BluetoothInv, NEW d \in BtDevices, Bluetooth!UserSwitches(d)
  PROVE  BluetoothInv'
<1>1. /\ UNCHANGED <<bt_present, offered, cached, stream, active_streams, toDevice,
                     previous_streams, last_profiles, headset_profiles, bt_file,
                     bt_blurred>>
      /\ d \in bt_present /\ toDevice[d] = <<>>
      /\ \E p \in offered[d] \ {actual[d]} :
           /\ actual' = [actual EXCEPT ![d] = p]
           /\ before' = [before EXCEPT ![d] = IF last_profiles[d] = None THEN p ELSE @]
  BY DEF Bluetooth!UserSwitches
<1>2. /\ restore_timeout_source' = restore_timeout_source
      /\ bt_timeout_source' = bt_timeout_source
  BY Zenon DEF Bluetooth!UserSwitches
<1>3. PICK p \in offered[d] :
           /\ actual' = [actual EXCEPT ![d] = p]
           /\ before' = [before EXCEPT ![d] = IF last_profiles[d] = None THEN p ELSE @]
  BY <1>1
<1>4. p \in Profiles /\ bt_present \subseteq BtDevices
  BY PlainState DEF BtTypeOK
<1>5. /\ actual'[d] = p /\ before'[d] = IF last_profiles[d] = None THEN p ELSE before[d]
      /\ \A e \in BtDevices \ {d} : actual'[e] = actual[e] /\ before'[e] = before[e]
      /\ ProfilesOK'
  BY <1>1, <1>3, <1>4, PlainState DEF ProfilesOK
<1>6. PICK v : v = Bluetooth!World'
  OBVIOUS
<1>7. v.last = last_profiles /\ v.toDevice = toDevice
      /\ Bluetooth!World.last = last_profiles /\ Bluetooth!World.toDevice = toDevice
  BY <1>1, <1>6 DEF Bluetooth!World
<1>8. ASSUME NEW e \in bt_present \ bt_blurred PROVE ProfileRight(v, e, offered)'
  <2>1. ProfileRight(Bluetooth!World, e, offered)
    BY PlainState
  <2>2. CASE e = d
    BY <2>1, <2>2, <1>1, <1>5, <1>7 DEF ProfileRight, Eventual
  <2>3. CASE e # d
    BY <2>1, <2>3, <1>1, <1>4, <1>5, <1>7 DEF ProfileRight, Eventual
  <2> QED BY <2>2, <2>3
<1>9. \A e \in BtDevices \ bt_present : /\ toDevice'[e] = <<>>
                                        /\ actual'[e] = First /\ before'[e] = First
  BY <1>1, <1>5, PlainState
<1>10. toDevice' \in [BtDevices -> Seq(Profiles)]
  BY <1>1, PlainState
<1> QED BY <1>1, <1>2, <1>5, <1>6, <1>8, <1>9, <1>10, OutsideScript

LEMMA BluetoothInitInv ==
  ASSUME Bluetooth!BluetoothInit
  PROVE  BluetoothInv
<1>1. /\ bt_present = {} /\ offered = [d \in BtDevices |-> {}]
      /\ actual = [d \in BtDevices |-> First] /\ cached = actual /\ before = actual
      /\ toDevice = [d \in BtDevices |-> <<>>] /\ stream = [s \in Streams |-> None]
      /\ active_streams = {} /\ previous_streams = {}
      /\ last_profiles = [d \in BtDevices |-> None]
      /\ headset_profiles = last_profiles /\ bt_file = headset_profiles /\ bt_blurred = {}
  BY DEF Bluetooth!BluetoothInit
<1>2. bt_timeout_source = FALSE /\ restore_timeout_source = FALSE
  BY Zenon DEF Bluetooth!BluetoothInit
<1>3. PICK w : w = Bluetooth!World
  OBVIOUS
<1>4. /\ w.last = last_profiles /\ w.headset = headset_profiles /\ w.toDevice = toDevice
      /\ w.active = {} /\ w.previous = {} /\ w.blurred = {}
  BY <1>1, <1>3 DEF Bluetooth!World
<1>5. w.restore = FALSE /\ w.save = FALSE
  BY <1>2, <1>3, Zenon DEF Bluetooth!World
<1>6. w \in BtWorld
  <2>1. w = [last |-> w.last, headset |-> w.headset, toDevice |-> w.toDevice,
             active |-> w.active, previous |-> w.previous, restore |-> w.restore,
             save |-> w.save, blurred |-> w.blurred]
    BY <1>3 DEF Bluetooth!World
  <2>2. w.last \in [BtDevices -> Profiles \cup {None}] /\ w.headset = w.last
    BY <1>1, <1>4
  <2>3. w.toDevice \in [BtDevices -> Seq(Profiles)]
    BY <1>1, <1>4
  <2> QED BY ONLY <2>1, <2>2, <2>3, <1>4, <1>5 DEF BtWorld
<1>7. WorldRight(w, bt_present, offered, stream) /\ SwitchedFor(w, bt_present)
  BY <1>1, <1>4, <1>6 DEF WorldRight, SwitchedFor
<1>8. BtTypeOK
  BY <1>1, BluetoothConstants DEF BtTypeOK, ProfilesOK
<1> QED BY <1>1, <1>3, <1>7, <1>8 DEF BluetoothInv

LEMMA BluetoothNextInv ==
  ASSUME BluetoothInv, [Bluetooth!BluetoothNext]_bluetoothVars
  PROVE  BluetoothInv'
<1>1. CASE Bluetooth!Called
  <2>1. PICK s \in Streams : \/ Bluetooth!StreamAdded(s) \/ Bluetooth!StreamChanged(s)
                             \/ Bluetooth!StreamRemoved(s)
    BY <1>1 DEF Bluetooth!Called
  <2> QED BY <2>1, BtStreamAddedInv, BtStreamRemovedInv
<1>2. CASE Bluetooth!DefaultSinkChanged
  BY <1>2, DefaultSinkChangedInv
<1>3. CASE Bluetooth!Script
  BY <1>3, RestoreTimeoutInv, BtSaveTimeoutInv DEF Bluetooth!Script
<1>4. CASE Bluetooth!Device
  <2>1. PICK d \in BtDevices : Bluetooth!DeviceSwitches(d) \/ Bluetooth!ProfileReported(d)
    BY <1>4 DEF Bluetooth!Device
  <2> QED BY <2>1, BtDeviceSwitchesInv, BtProfileReportedInv
<1>5. CASE \E d \in BtDevices : \/ Bluetooth!DeviceAdded(d) \/ Bluetooth!DeviceRemoved(d)
                                \/ Bluetooth!UserSwitches(d)
  BY <1>5, BtDeviceAddedInv, BtDeviceRemovedInv, BtUserSwitchesInv
<1>6. CASE UNCHANGED bluetoothVars
  <2>1. UNCHANGED <<bt_present, offered, actual, cached, before, stream, bt_file,
                    toDevice, bt_blurred, active_streams, previous_streams,
                    last_profiles, headset_profiles>>
    BY <1>6 DEF bluetoothVars
  <2>2. /\ restore_timeout_source' = restore_timeout_source
        /\ bt_timeout_source' = bt_timeout_source
    BY <1>6, Zenon DEF bluetoothVars
  <2>3. PICK v : v = Bluetooth!World'
    OBVIOUS
  <2>4. v = Bluetooth!World
    BY <2>1, <2>2, <2>3, Zenon DEF Bluetooth!World
  <2>5. ProfilesOK' /\ toDevice' \in [BtDevices -> Seq(Profiles)]
    BY <2>1, PlainState DEF ProfilesOK
  <2>6. \A d \in bt_present \ bt_blurred : ProfileRight(v, d, offered)'
    BY <2>1, <2>4, PlainState DEF ProfileRight, Eventual
  <2>7. \A d \in BtDevices \ bt_present : /\ toDevice'[d] = <<>>
                                          /\ actual'[d] = First /\ before'[d] = First
    BY <2>1, PlainState
  <2> QED BY <2>1, <2>2, <2>3, <2>5, <2>6, <2>7, OutsideScript
<1> QED BY <1>1, <1>2, <1>3, <1>4, <1>5, <1>6 DEF Bluetooth!BluetoothNext

LEMMA BluetoothInvRight ==
  ASSUME BluetoothInv
  PROVE  Bluetooth!ProfileComesBack /\ Bluetooth!NothingStaysSwitched
<1>1. PICK w : w = Bluetooth!World
  OBVIOUS
<1>2. WorldRight(w, bt_present, offered, stream) /\ SwitchedFor(w, bt_present) /\ w \in BtWorld
  BY <1>1 DEF BluetoothInv, WorldRight
<1>3. /\ w.last = last_profiles /\ w.headset = headset_profiles /\ w.toDevice = toDevice
      /\ w.active = active_streams /\ w.previous = previous_streams
      /\ w.blurred = bt_blurred
  BY <1>1 DEF Bluetooth!World
<1>4. w.restore = restore_timeout_source /\ w.save = bt_timeout_source
  BY <1>1, Zenon DEF Bluetooth!World
<1>5. Bluetooth!ProfileComesBack
  BY <1>2, <1>3 DEF WorldRight, ProfileRight, Eventual, Bluetooth!ProfileComesBack
<1>6. bt_file = headset_profiles \/ bt_timeout_source
  <2>1. bt_file = headset_profiles \/ w.save = TRUE
    BY <1>2, <1>3 DEF WorldRight
  <2> QED BY <2>1, <1>4, Zenon
<1>7. Bluetooth!Switched # {} => active_streams # {} \/ restore_timeout_source
  <2>1. Bluetooth!Switched # {} => active_streams # {} \/ w.restore = TRUE
    BY <1>2, <1>3 DEF SwitchedFor, Bluetooth!Switched
  <2> QED BY <2>1, <1>4, Zenon
<1>8. /\ active_streams \subseteq previous_streams
      /\ previous_streams \subseteq {s \in Streams : stream[s] # None}
  BY <1>2, <1>3 DEF WorldRight, BtWorld
<1> QED BY <1>5, <1>6, <1>7, <1>8, Zenon DEF Bluetooth!NothingStaysSwitched

(* Whichever streams call, stop and go, and whatever becomes of the        *)
(* devices and their profiles in the meantime: a device that is not        *)
(* switched has, when all that it was asked for has arrived, the profile   *)
(* that it had before the call, unless a decision was made while its       *)
(* profile was being changed; no device is switched without a stream that  *)
(* calls or a timeout that switches it back, and the headset profiles are  *)
(* saved or about to be (policy-bluetooth.lua).                            *)
THEOREM SessionProfileComesBack == Spec => []ProfileComesBack
<1>1. Init => BluetoothInv
  BY BluetoothInitInv DEF Init
<1>2. BluetoothInv /\ [Next]_vars => BluetoothInv'
  <2>1. [Next]_vars => [Bluetooth!BluetoothNext]_bluetoothVars
    BY DEF Next, vars, AlsaOnly, BluezOnly, BluetoothOnly, StreamsOnly, MixerOnly
  <2> QED BY <2>1, BluetoothNextInv
<1>3. BluetoothInv => ProfileComesBack
  BY BluetoothInvRight DEF ProfileComesBack
<1> QED BY <1>1, <1>2, <1>3, PTL DEF Spec
=============================================================================
