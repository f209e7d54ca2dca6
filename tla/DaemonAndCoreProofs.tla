------------------------ MODULE DaemonAndCoreProofs ------------------------
(***************************************************************************)
(* The start-up of the daemon, for any configuration, and the answers of   *)
(* the core, for any number of syncs and connections.                      *)
(***************************************************************************)
EXTENDS DaemonAndCore, FiniteSets, FiniteSetTheorems, TLAPS

Elems(list) == {list[i] : i \in DOMAIN list}

Sources == [type : {"start", "disconnect", "installed", "advance"},
            of : Components \cup {"plugins", None}]

Worlds ==
  [transition : Transition, registered : Seq(Components), scripts : Seq(Scripts),
   phase : [Components -> Phases], idle : Seq(Sources),
   pw_core : {"NULL", "connecting", "connected", "broken"}, running : BOOLEAN,
   exit_code : ExitCodes, misused : SUBSET {"transition", "om"}]

-----------------------------------------------------------------------------
(* A component is underway from its activation to its end.                 *)
Underway == {"queued", "enabling", "finishing"}
Pending(w) == {p \in Components : w.phase[p] \in Underway}

(* The transition is finalized when it fails, and the daemon quits then.   *)
FailureTold(w) ==
  /\ w.transition.step = "ERROR" <=> w.transition.gone
  /\ w.transition.gone => w.transition.om = None /\ w.exit_code # "OK" /\ ~w.running

(* A component that is queued or finishing has one idle source.            *)
Advances(w, i) == w.idle[i].type = "advance"

SourcesMatch(w) ==
  /\ \A i \in DOMAIN w.idle :
       Advances(w, i) => /\ w.idle[i].of \in Components
                         /\ w.phase[w.idle[i].of] \in {"queued", "finishing"}
  /\ \A i, j \in DOMAIN w.idle :
       Advances(w, i) /\ Advances(w, j) /\ w.idle[i].of = w.idle[j].of => i = j

(* Nothing happens before init_start, which runs once.                     *)
StartFirst(w) ==
  /\ w.transition.step = "NONE" =>
       /\ w.registered = <<>> /\ w.scripts = <<>> /\ w.pw_core = "NULL"
       /\ w.idle = <<Source("start", None)>>
  /\ w.transition.step # "NONE" => \A i \in DOMAIN w.idle : w.idle[i].type # "start"
  /\ w.pw_core = "connecting" => w.transition.step \in {"CONNECT", "ERROR"}

(* What is registered, or waits for the engine to be, was listed.          *)
Listed(w, c) ==
  /\ Distinct(w.registered) /\ Distinct(w.scripts)
  /\ Elems(w.registered) \cap Elems(w.scripts) = {}
  /\ Elems(w.registered) \cup Elems(w.scripts) \subseteq Elems(c.components)
  /\ \A p \in Components : w.phase[p] # "inactive" => p \in Elems(w.registered)
  /\ w.scripts # <<>> => Engine \in Elems(w.registered)

(* The scripts are registered by the engine while it is enabled.           *)
EngineRegisters(w) ==
  /\ w.phase[Engine] \in {"inactive", "queued"} => Elems(w.registered) \cap Scripts = {}
  /\ w.phase[Engine] \in {"finishing", "enabled"} => w.scripts = <<>>
  /\ w.phase[Engine] \notin {"enabling", "failed"}

(* After the first step everything that was listed is in one or the other. *)
Loaded(w, c) ==
  w.transition.step \notin {"NONE", "LOAD_COMPONENTS", "ERROR"} =>
    Elems(c.components) \subseteq Elems(w.registered) \cup Elems(w.scripts)

(* pending_plugins is the number of the components that are underway, and  *)
(* of those that are about to be.                                          *)
Counted(w, more) ==
  /\ IsFiniteSet(Pending(w))
  /\ ~w.transition.gone => w.transition.pending_plugins = Cardinality(Pending(w)) + more

(* How far the start-up is tells what is inactive, underway and enabled.   *)
Early == {"NONE", "LOAD_COMPONENTS", "CONNECT", "CHECK_MEDIA_SESSION"}

BeforePlugins(w) ==
  w.transition.step \in Early =>
    /\ \A p \in Components : w.phase[p] = "inactive"
    /\ w.transition.om = IF w.transition.step = "CHECK_MEDIA_SESSION" THEN "check" ELSE None

PluginsUnderway(w, c) ==
  w.transition.step = "ACTIVATE_PLUGINS" =>
    /\ w.transition.om = "plugins"
    /\ \A p \in Elems(w.registered) :
         IF p # Engine \/ c.engine = None THEN w.phase[p] \in Underway \cup {"enabled"}
         ELSE w.phase[p] = "inactive"

ScriptsUnderway(w, c) ==
  w.transition.step = "ACTIVATE_SCRIPTS" =>
    /\ w.transition.om = "scripts" /\ c.engine = Engine
    /\ Engine \in Elems(w.registered)
    /\ \A p \in Elems(w.registered) :
         w.phase[p] \in Underway \cup {"enabled"} /\ (p \in Plugins => w.phase[p] = "enabled")

AllEnabled(w, c) ==
  w.transition.step = "CLEANUP" =>
    /\ w.transition.om = None
    /\ \A e \in Elems(c.components) : w.phase[e] = "enabled"
    /\ Elems(w.registered) = Elems(c.components)

ScriptsLast(w, c) ==
  \A s \in Scripts, p \in Plugins :
    c.engine = Engine /\ w.phase[s] # "inactive" /\ p \in Elems(c.components)
      => w.phase[p] = "enabled"

(* What holds in every state.                                              *)
DInv(w, c) ==
  /\ FailureTold(w) /\ SourcesMatch(w) /\ StartFirst(w)
  /\ Listed(w, c) /\ EngineRegisters(w) /\ Loaded(w, c) /\ Counted(w, 0)
  /\ BeforePlugins(w) /\ PluginsUnderway(w, c) /\ ScriptsUnderway(w, c) /\ AllEnabled(w, c)
  /\ ScriptsLast(w, c)

(* More sources may be attached while one runs, but not another init_start;*)
(* and adding plugins to an object manager changes nothing else than what  *)
(* is underway.                                                            *)
Attached(w, a) ==
  /\ Len(a.idle) >= Len(w.idle)
  /\ (\A i \in DOMAIN w.idle : w.idle[i].type # "start")
       => \A i \in DOMAIN a.idle : a.idle[i].type # "start"

(* Whether a component has no source that advances it.                     *)
NoSource(w, p) == \A i \in DOMAIN w.idle : Advances(w, i) => w.idle[i].of # p

Same(w, a) ==
  /\ a.scripts = w.scripts /\ a.pw_core = w.pw_core
  /\ a.running = w.running /\ a.exit_code = w.exit_code /\ a.misused = w.misused
  /\ a.transition = [w.transition EXCEPT !.pending_plugins = a.transition.pending_plugins]

-----------------------------------------------------------------------------
(* What the configuration and the names are.                               *)
LEMMA ConfigFacts ==
  ASSUME config \in Configs
  PROVE  /\ config.components \in Seq(Components) /\ Distinct(config.components)
         /\ config.engine \in {Engine, None}
BY ConfigAssumption DEF Config

LEMMA NameFacts ==
  /\ Engine \in Components /\ None \notin Components \cup {"check", "plugins", "scripts"}
  /\ Engine \notin Plugins /\ Engine \notin Scripts /\ Plugins \cap Scripts = {}
  /\ Plugins \subseteq Components /\ Scripts \subseteq Components
BY NameAssumption DEF Components

(* The fields of a world.                                                  *)
LEMMA WorldFacts ==
  ASSUME NEW w \in Worlds
  PROVE  /\ w.transition \in Transition
         /\ w.transition.pending_plugins \in Nat /\ w.transition.step \in Steps
         /\ w.registered \in Seq(Components) /\ w.scripts \in Seq(Scripts)
         /\ w.phase \in [Components -> Phases] /\ w.idle \in Seq(Sources)
BY DEF Worlds, Transition

LEMMA SelfFacts ==
  ASSUME NEW w \in Worlds
  PROVE  /\ Len(w.idle) \in Nat
         /\ w.transition = [w.transition EXCEPT !.pending_plugins = w.transition.pending_plugins]
BY WorldFacts DEF Transition

(* A source that does not advance a component is attached.                 *)
LEMMA AttachOther ==
  ASSUME NEW w \in Worlds, NEW s \in Sources, SourcesMatch(w), s.type # "advance",
         NEW a, a = [w EXCEPT !.idle = Append(@, s)]
  PROVE  a \in Worlds /\ SourcesMatch(a) /\ (s.type # "start" => Attached(w, a))
<1>1. a.idle = Append(w.idle, s) /\ a.phase = w.phase
  BY DEF Worlds
<1>2. a \in Worlds
  <2>1. Append(w.idle, s) \in Seq(Sources)
    BY WorldFacts
  <2> QED BY <2>1 DEF Worlds
<1>3. \A i \in DOMAIN a.idle :
        \/ i \in DOMAIN w.idle /\ a.idle[i] = w.idle[i]
        \/ a.idle[i] = s
  BY <1>1, WorldFacts
<1>4. Len(a.idle) >= Len(w.idle)
  BY <1>1, WorldFacts
<1>5. SourcesMatch(a)
  BY <1>1, <1>3 DEF SourcesMatch, Advances
<1> QED BY <1>2, <1>3, <1>4, <1>5 DEF Attached

(* One that advances a component is attached when the component has none.  *)
LEMMA AttachAdvance ==
  ASSUME NEW w \in Worlds, NEW p \in Components, NEW ph \in {"queued", "finishing"}, SourcesMatch(w),
         NoSource(w, p),
         NEW a, a = [w EXCEPT !.idle = Append(@, Source("advance", p)), !.phase[p] = ph]
  PROVE  /\ a \in Worlds /\ SourcesMatch(a) /\ Attached(w, a)
         /\ \A q : q # p /\ NoSource(w, q) => NoSource(a, q)
<1> DEFINE s == Source("advance", p)
<1>1. a.idle = Append(w.idle, s) /\ a.phase = [w.phase EXCEPT ![p] = ph]
  BY DEF Worlds
<1>2. s \in Sources /\ s.type = "advance" /\ s.of = p
  BY DEF Source, Sources
<1>3. a \in Worlds
  <2>1. Append(w.idle, s) \in Seq(Sources) /\ [w.phase EXCEPT ![p] = ph] \in [Components -> Phases]
    BY <1>2, WorldFacts DEF Phases
  <2> QED BY <2>1 DEF Worlds
<1> HIDE DEF s
<1>4. \A i \in DOMAIN a.idle :
        \/ i \in DOMAIN w.idle /\ a.idle[i] = w.idle[i]
        \/ i = Len(w.idle) + 1 /\ a.idle[i] = s
  BY <1>1, WorldFacts
<1>5. Len(a.idle) >= Len(w.idle)
  BY <1>1, WorldFacts
<1>6. \A i \in DOMAIN a.idle : Advances(a, i) =>
        a.idle[i].of \in Components /\ a.phase[a.idle[i].of] \in {"queued", "finishing"}
  <2> SUFFICES ASSUME NEW i \in DOMAIN a.idle, Advances(a, i)
               PROVE  a.idle[i].of \in Components /\ a.phase[a.idle[i].of] \in {"queued", "finishing"}
    OBVIOUS
  <2>1. CASE i \in DOMAIN w.idle /\ a.idle[i] = w.idle[i]
    BY <2>1, <1>1, WorldFacts DEF SourcesMatch, Advances
  <2>2. CASE a.idle[i] = s
    BY <2>2, <1>1, <1>2, WorldFacts
  <2> QED BY <2>1, <2>2, <1>4
<1>7. \A i, j \in DOMAIN a.idle :
        Advances(a, i) /\ Advances(a, j) /\ a.idle[i].of = a.idle[j].of => i = j
  BY <1>2, <1>4 DEF SourcesMatch, Advances, NoSource
<1>8. SourcesMatch(a)
  BY <1>6, <1>7 DEF SourcesMatch
<1>9. \A q : q # p /\ NoSource(w, q) => NoSource(a, q)
  BY <1>2, <1>4 DEF NoSource, Advances
<1> QED BY <1>2, <1>3, <1>4, <1>5, <1>8, <1>9 DEF Attached

(* A component that was not underway is.                                   *)
LEMMA OneMoreUnderway ==
  ASSUME NEW w \in Worlds, NEW a \in Worlds, NEW p \in Components, NEW more \in Nat,
         IsFiniteSet(Pending(w)), w.phase[p] \notin Underway,
         a.phase = [w.phase EXCEPT ![p] = "queued"]
  PROVE  IsFiniteSet(Pending(a)) /\ Cardinality(Pending(a)) = Cardinality(Pending(w)) + 1
<1>1. Pending(a) = Pending(w) \cup {p} /\ p \notin Pending(w)
  BY WorldFacts DEF Pending, Underway
<1> QED BY <1>1, FS_AddElement

-----------------------------------------------------------------------------
(* A plugin is registered or met, and activated if the object manager of   *)
(* the transition is interested in it.                                     *)
LEMMA AddOne ==
  ASSUME NEW v \in Worlds, NEW p \in Components, NEW more \in Nat,
         SourcesMatch(v), Counted(v, more), Interested(v, p) => v.phase[p] = "inactive",
         NEW a, a = AddIfInterested(v, p)
  PROVE  /\ a \in Worlds /\ SourcesMatch(a) /\ Counted(a, more) /\ Attached(v, a) /\ Same(v, a)
         /\ a.phase = IF Interested(v, p) THEN [v.phase EXCEPT ![p] = "queued"] ELSE v.phase
         /\ a.registered = v.registered
         /\ \A q : q # p /\ NoSource(v, q) => NoSource(a, q)
<1>1. CASE ~Interested(v, p)
  <2>1. a = v
    BY <1>1 DEF AddIfInterested
  <2>2. v.transition = [v.transition EXCEPT !.pending_plugins = v.transition.pending_plugins]
    BY WorldFacts DEF Transition
  <2> QED BY <1>1, <2>1, <2>2, WorldFacts DEF Attached, Same
<1>2. CASE Interested(v, p)
  <2> DEFINE t == [v.transition EXCEPT !.pending_plugins = @ + 1]
             u == [v EXCEPT !.transition = t]
  <2>1. t \in Transition /\ t.pending_plugins = v.transition.pending_plugins + 1 /\ t.gone = v.transition.gone
        /\ t = [v.transition EXCEPT !.pending_plugins = t.pending_plugins]
    BY WorldFacts DEF Transition
  <2>2. u \in Worlds /\ u.transition = t /\ u.phase = v.phase /\ u.idle = v.idle
    BY <2>1 DEF Worlds
  <2>3. a = [u EXCEPT !.idle = Append(@, Source("advance", p)), !.phase[p] = "queued"]
    BY <1>2, <2>1 DEF AddIfInterested, OnPluginAdded, Activate, Attach, Worlds
  <2>4. NoSource(u, p)
    BY <1>2, <2>2 DEF SourcesMatch, Advances, NoSource
  <2>5. SourcesMatch(u)
    BY <2>2 DEF SourcesMatch, Advances
  <2>6. /\ a \in Worlds /\ SourcesMatch(a) /\ Attached(u, a)
        /\ \A q : q # p /\ NoSource(u, q) => NoSource(a, q)
    BY <2>2, <2>3, <2>4, <2>5, AttachAdvance
  <2>7. a.phase = [v.phase EXCEPT ![p] = "queued"]
    BY <2>2, <2>3 DEF Worlds
  <2>8. a.transition = t /\ Same(v, a) /\ a.registered = v.registered
    BY <2>1, <2>2, <2>3 DEF Worlds, Same
  <2>9. IsFiniteSet(Pending(a)) /\ Cardinality(Pending(a)) = Cardinality(Pending(v)) + 1
    BY <1>2, <2>6, <2>7, OneMoreUnderway DEF Counted, Underway
  <2>10. Cardinality(Pending(v)) \in Nat
    BY FS_CardinalityType DEF Counted
  <2>11. Counted(a, more)
    BY <2>1, <2>8, <2>9, <2>10 DEF Counted
  <2>12. Attached(v, a)
    BY <2>2, <2>6 DEF Attached
  <2>13. \A q : q # p /\ NoSource(v, q) => NoSource(a, q)
    BY <2>2, <2>6 DEF NoSource, Advances
  <2> QED BY <1>2, <2>6, <2>7, <2>8, <2>11, <2>12, <2>13
<1> QED BY <1>1, <1>2

-----------------------------------------------------------------------------
(* The loop over the plugins that are registered when an object manager is *)
(* installed activates those that match.                                   *)
AddBody(none, w, p) == AddIfInterested(w, p)

Add == INSTANCE FoldInduction WITH op <- AddBody

LEMMA SameTrans ==
  ASSUME NEW u, NEW v \in Worlds, NEW w \in Worlds, Same(u, v), Same(v, w)
  PROVE  Same(u, w)
<1>1. w.transition = [[u.transition EXCEPT !.pending_plugins = v.transition.pending_plugins]
                        EXCEPT !.pending_plugins = w.transition.pending_plugins]
  BY DEF Same
<1>2. w.transition = [u.transition EXCEPT !.pending_plugins = w.transition.pending_plugins]
  BY <1>1, Zenon
<1> QED BY <1>2 DEF Same

LEMMA SameInterest ==
  ASSUME NEW u \in Worlds, NEW v \in Worlds, Same(u, v), NEW p
  PROVE  Interested(v, p) <=> Interested(u, p)
<1>1. v.transition.om = u.transition.om
  BY WorldFacts DEF Same, Transition
<1> QED BY <1>1 DEF Interested

LEMMA InstallAdds ==
  ASSUME NEW n \in Worlds, NEW more \in Nat, SourcesMatch(n), Counted(n, more), Distinct(n.registered),
         \A p \in Elems(n.registered) : Interested(n, p) => n.phase[p] = "inactive",
         NEW r, r = FoldLeft(AddIfInterested, n, n.registered)
  PROVE  /\ r \in Worlds /\ SourcesMatch(r) /\ Counted(r, more) /\ Attached(n, r) /\ Same(n, r)
         /\ r.phase = [p \in Components |->
              IF p \in Elems(n.registered) /\ Interested(n, p) THEN "queued" ELSE n.phase[p]]
         /\ r.registered = n.registered
<1> DEFINE list == n.registered
           Turned(k) == [p \in Components |->
              IF p \in {list[i] : i \in 1..k} /\ Interested(n, p) THEN "queued" ELSE n.phase[p]]
           After(k) == {v \in Worlds : /\ SourcesMatch(v) /\ Counted(v, more)
                                       /\ Attached(n, v) /\ Same(n, v) /\ v.phase = Turned(k)
                                       /\ v.registered = list}
           I == [k \in Nat |-> After(k)]
<1>1. list \in Seq(Components) /\ Len(list) \in Nat /\ DOMAIN list = 1..Len(list)
  BY WorldFacts
<1>2. n \in I[0]
  <2>1. n.phase = Turned(0)
    BY WorldFacts
  <2>2. Attached(n, n) /\ Same(n, n)
    BY WorldFacts DEF Attached, Same, Transition
  <2> QED BY <2>1, <2>2
<1>3. ASSUME NEW k \in 1..Len(list), NEW w \in I[k-1]
      PROVE  AddBody(None, w, list[k]) \in I[k]
  <2> DEFINE p == list[k]
             a == AddIfInterested(w, p)
  <2>1. k - 1 \in Nat /\ k \in Nat /\ k \in DOMAIN list /\ p \in Components
    BY <1>1
  <2>2. w \in After(k - 1)
    BY <2>1
  <2>3. p \notin {list[i] : i \in 1..(k-1)}
    <3>1. \A i \in 1..(k-1) : i \in DOMAIN list /\ i # k
      BY <1>1
    <3> QED BY <3>1, <2>1 DEF Distinct
  <2>4. Interested(w, p) <=> Interested(n, p)
    BY <2>2, SameInterest
  <2>5. w.phase[p] = n.phase[p]
    BY <2>1, <2>2, <2>3
  <2>6. Interested(w, p) => w.phase[p] = "inactive"
    BY <2>1, <2>4, <2>5 DEF Elems
  <2> HIDE DEF p
  <2>7. /\ a \in Worlds /\ SourcesMatch(a) /\ Counted(a, more) /\ Attached(w, a) /\ Same(w, a)
        /\ a.phase = IF Interested(w, p) THEN [w.phase EXCEPT ![p] = "queued"] ELSE w.phase
        /\ a.registered = w.registered
    BY <2>1, <2>2, <2>6, AddOne
  <2> HIDE DEF a
  <2>8. Attached(n, a) /\ Same(n, a)
    <3>1. Attached(n, a)
      BY <2>2, <2>7, WorldFacts DEF Attached
    <3> QED BY <3>1, <2>2, <2>7, SameTrans
  <2>9. {list[i] : i \in 1..k} = {list[i] : i \in 1..(k-1)} \cup {p}
    <3>1. 1..k = 1..(k-1) \cup {k}
      BY <2>1
    <3> QED BY <3>1 DEF p
  <2>10. a.phase = Turned(k)
    <3>1. w.phase = Turned(k - 1)
      BY <2>2
    <3>2. CASE Interested(w, p)
      <4>1. a.phase = [w.phase EXCEPT ![p] = "queued"]
        BY <3>2, <2>7
      <4>2. Interested(n, p)
        BY <3>2, <2>4
      <4> QED BY <4>1, <4>2, <3>1, <2>1, <2>9
    <3>3. CASE ~Interested(w, p)
      <4>1. a.phase = w.phase /\ ~Interested(n, p)
        BY <3>3, <2>4, <2>7
      <4> QED BY <4>1, <3>1, <2>9
    <3> QED BY <3>2, <3>3
  <2>11. a \in After(k)
    BY <2>2, <2>7, <2>8, <2>10
  <2> QED BY <2>1, <2>11 DEF AddBody, a, p
<1>4. Add!Folded(None, n, list) = r
  BY DEF Add!Folded, Add!FoldLeft, Add!MapThenFoldSet, Add!Max, FoldLeft, MapThenFoldSet, Max, AddBody
<1>5. r \in I[Len(list)]
  <2> HIDE DEF I, list
  <2>1. \A k \in 1..Len(list) : \A w \in I[k-1] : AddBody(None, w, list[k]) \in I[k]
    BY <1>3
  <2>2. Add!Folded(None, n, list) \in I[Len(list)]
    BY <1>1, <1>2, <2>1, Add!FoldSteps
  <2> QED BY <1>4, <2>2
<1>6. r \in After(Len(list))
  BY <1>1, <1>5
<1>7. {list[i] : i \in 1..Len(list)} = Elems(list)
  BY <1>1 DEF Elems
<1> QED BY <1>6, <1>7

-----------------------------------------------------------------------------
(* The loop over the scripts that were loaded, when the engine is enabled, *)
(* registers each and activates those that match.                          *)
RegisterBody(none, w, p) == Register(w, p)

Reg == INSTANCE FoldInduction WITH op <- RegisterBody

LEMMA RegisterAdds ==
  ASSUME NEW n \in Worlds, NEW list \in Seq(Scripts), SourcesMatch(n), Counted(n, 0),
         Distinct(n.registered), Distinct(list), Elems(n.registered) \cap Elems(list) = {},
         \A p \in Elems(list) : n.phase[p] = "inactive",
         NEW r, r = FoldLeft(Register, n, list)
  PROVE  /\ r \in Worlds /\ SourcesMatch(r) /\ Counted(r, 0) /\ Attached(n, r) /\ Same(n, r)
         /\ Distinct(r.registered) /\ Elems(r.registered) = Elems(n.registered) \cup Elems(list)
         /\ r.phase = [p \in Components |->
              IF p \in Elems(list) /\ Interested(n, p) THEN "queued" ELSE n.phase[p]]
         /\ \A q : q \notin Elems(list) /\ NoSource(n, q) => NoSource(r, q)
<1> DEFINE First(k) == {list[i] : i \in 1..k}
           Turned(k) == [p \in Components |->
              IF p \in First(k) /\ Interested(n, p) THEN "queued" ELSE n.phase[p]]
           After(k) == {v \in Worlds :
              /\ SourcesMatch(v) /\ Counted(v, 0) /\ Attached(n, v) /\ Same(n, v)
              /\ v.phase = Turned(k) /\ Distinct(v.registered)
              /\ Elems(v.registered) = Elems(n.registered) \cup First(k)
              /\ \A q : q \notin Elems(list) /\ NoSource(n, q) => NoSource(v, q)}
           I == [k \in Nat |-> After(k)]
<1>1. Len(list) \in Nat /\ DOMAIN list = 1..Len(list)
  OBVIOUS
<1>2. n \in I[0]
  <2>1. First(0) = {}
    OBVIOUS
  <2>2. n.phase = Turned(0)
    BY <2>1, WorldFacts
  <2>3. Attached(n, n) /\ Same(n, n)
    BY WorldFacts DEF Attached, Same, Transition
  <2> QED BY <2>1, <2>2, <2>3
<1>3. ASSUME NEW k \in 1..Len(list), NEW w \in I[k-1]
      PROVE  RegisterBody(None, w, list[k]) \in I[k]
  <2>1. k - 1 \in Nat /\ k \in Nat /\ k \in DOMAIN list
    BY <1>1
  <2>2. PICK p \in Scripts : p = list[k]
    BY <2>1
  <2> DEFINE u == [w EXCEPT !.registered = Append(@, p)]
             a == AddIfInterested(u, p)
  <2>3. p \in Components
    BY NameFacts
  <2>4. w \in After(k - 1)
    BY <2>1
  <2>5. First(k) = First(k - 1) \cup {p}
    <3>1. 1..k = 1..(k-1) \cup {k}
      BY <2>1
    <3> QED BY <3>1, <2>2
  <2>6. p \notin First(k - 1) /\ p \in Elems(list)
    <3>1. \A i \in 1..(k-1) : i \in DOMAIN list /\ i # k
      BY <1>1
    <3> QED BY <3>1, <2>1, <2>2 DEF Distinct, Elems
  <2>7. p \notin Elems(w.registered) /\ w.phase[p] = "inactive"
    BY <2>3, <2>4, <2>6
  <2> HIDE DEF First
  <2>8. /\ u \in Worlds /\ u.registered = Append(w.registered, p) /\ u.phase = w.phase
        /\ u.transition = w.transition /\ u.idle = w.idle /\ Same(w, u) /\ Attached(w, u)
    <3>1. Append(w.registered, p) \in Seq(Components)
      BY <2>3, <2>4, WorldFacts
    <3>2. u \in Worlds
      BY <2>4, <3>1 DEF Worlds
    <3>3. w \in Worlds
      BY <2>4
    <3>4. Len(w.idle) \in Nat /\ w.transition = [w.transition EXCEPT !.pending_plugins = w.transition.pending_plugins]
      BY <3>3, SelfFacts
    <3>5. /\ u.registered = Append(w.registered, p) /\ u.phase = w.phase /\ u.transition = w.transition
          /\ u.idle = w.idle /\ u.scripts = w.scripts /\ u.pw_core = w.pw_core /\ u.running = w.running
          /\ u.exit_code = w.exit_code /\ u.misused = w.misused
      BY <3>3 DEF Worlds
    <3> QED BY <3>2, <3>4, <3>5 DEF Same, Attached
  <2>9. Distinct(u.registered) /\ Elems(u.registered) = Elems(n.registered) \cup First(k)
    <3>1. w.registered \in Seq(Components) /\ Distinct(w.registered)
      BY <2>4, WorldFacts
    <3>2. \A i \in DOMAIN u.registered :
            \/ i \in DOMAIN w.registered /\ u.registered[i] = w.registered[i]
            \/ i = Len(w.registered) + 1 /\ u.registered[i] = p
      BY <2>3, <2>8, <3>1
    <3>3. \A i \in DOMAIN w.registered : i \in DOMAIN u.registered /\ u.registered[i] = w.registered[i]
      BY <2>3, <2>8, <3>1
    <3>4. Len(w.registered) + 1 \in DOMAIN u.registered /\ u.registered[Len(w.registered) + 1] = p
      BY <2>3, <2>8, <3>1
    <3>5. Distinct(u.registered)
      BY <2>7, <3>1, <3>2 DEF Distinct, Elems
    <3>6. Elems(u.registered) = Elems(w.registered) \cup {p}
      BY <3>2, <3>3, <3>4 DEF Elems
    <3> QED BY <2>4, <2>5, <3>5, <3>6
  <2>10. SourcesMatch(u) /\ Counted(u, 0)
    BY <2>4, <2>8 DEF SourcesMatch, Advances, Counted, Pending
  <2> HIDE DEF u
  <2>11. /\ a \in Worlds /\ SourcesMatch(a) /\ Counted(a, 0) /\ Attached(u, a) /\ Same(u, a)
         /\ a.phase = IF Interested(u, p) THEN [u.phase EXCEPT ![p] = "queued"] ELSE u.phase
         /\ a.registered = u.registered
         /\ \A q : q # p /\ NoSource(u, q) => NoSource(a, q)
    BY <2>3, <2>7, <2>8, <2>10, AddOne
  <2> HIDE DEF a
  <2>12. Attached(n, a) /\ Same(n, a)
    <3>1. Attached(n, a)
      BY <2>4, <2>8, <2>11, WorldFacts DEF Attached
    <3>2. Same(n, u)
      BY <2>4, <2>8, SameTrans
    <3> QED BY <3>1, <3>2, <2>8, <2>11, SameTrans
  <2>13. Interested(u, p) <=> Interested(n, p)
    BY <2>4, <2>8, SameInterest, SameTrans
  <2>14. a.phase = Turned(k)
    <3>1. u.phase = Turned(k - 1)
      BY <2>4, <2>8
    <3>2. CASE Interested(u, p)
      BY <3>1, <3>2, <2>3, <2>5, <2>11, <2>13
    <3>3. CASE ~Interested(u, p)
      BY <3>1, <3>3, <2>5, <2>11, <2>13
    <3> QED BY <3>2, <3>3
  <2>15. \A q : q \notin Elems(list) /\ NoSource(n, q) => NoSource(a, q)
    <3>1. \A q : NoSource(w, q) => NoSource(u, q)
      BY <2>8 DEF NoSource, Advances
    <3> QED BY <3>1, <2>4, <2>6, <2>11
  <2>16. a \in After(k)
    BY <2>9, <2>11, <2>12, <2>14, <2>15
  <2> QED BY <2>1, <2>2, <2>16 DEF RegisterBody, Register, a, u
<1>4. Reg!Folded(None, n, list) = r
  BY DEF Reg!Folded, Reg!FoldLeft, Reg!MapThenFoldSet, Reg!Max, FoldLeft, MapThenFoldSet, Max, RegisterBody
<1>5. r \in I[Len(list)]
  <2> HIDE DEF I
  <2>1. \A k \in 1..Len(list) : \A w \in I[k-1] : RegisterBody(None, w, list[k]) \in I[k]
    BY <1>3
  <2>2. Reg!Folded(None, n, list) \in I[Len(list)]
    BY <1>2, <2>1, Reg!FoldSteps
  <2> QED BY <1>4, <2>2
<1>6. r \in After(Len(list))
  BY <1>1, <1>5
<1>7. First(Len(list)) = Elems(list)
  BY <1>1 DEF Elems
<1> QED BY <1>6, <1>7

-----------------------------------------------------------------------------
(* The parts of the invariant that do not tell where the start-up is: they *)
(* are all there is when it has failed.                                    *)
Steady(w, c) ==
  /\ SourcesMatch(w) /\ Listed(w, c) /\ EngineRegisters(w) /\ ScriptsLast(w, c)
  /\ IsFiniteSet(Pending(w)) /\ \A i \in DOMAIN w.idle : w.idle[i].type # "start"

LEMMA SteadyFacts ==
  ASSUME NEW w \in Worlds, DInv(w, config), w.transition.step # "NONE"
  PROVE  Steady(w, config)
BY DEF DInv, Steady, StartFirst, Counted

LEMMA GoneInv ==
  ASSUME NEW w \in Worlds, Steady(w, config), w.transition.step = "ERROR", FailureTold(w)
  PROVE  DInv(w, config)
BY DEF Steady, DInv, FailureTold, StartFirst, Loaded, Counted, BeforePlugins, PluginsUnderway,
       ScriptsUnderway, AllEnabled, Early

LEMMA ReturnErrorInv ==
  ASSUME NEW w \in Worlds, Steady(w, config), ~w.transition.gone,
         NEW code \in ExitCodes \ {"OK"}, NEW r, r = ReturnError(w, code)
  PROVE  r \in Worlds /\ DInv(r, config) /\ Attached(w, r) /\ r.transition.gone
<1> DEFINE t == [w.transition EXCEPT !.step = "ERROR", !.om = None, !.gone = TRUE]
<1>1. t \in Transition /\ t.step = "ERROR" /\ t.om = None /\ t.gone
  BY WorldFacts DEF Transition, Steps
<1>2. /\ r.transition = t /\ r.registered = w.registered /\ r.scripts = w.scripts
      /\ r.phase = w.phase /\ r.idle = w.idle /\ r.pw_core = w.pw_core /\ r.running = FALSE
      /\ r.exit_code = (IF w.exit_code = "OK" THEN code ELSE w.exit_code) /\ r.misused = w.misused
  BY DEF ReturnError, DaemonExit, Worlds
<1>3. r \in Worlds
  <2>1. r.exit_code \in ExitCodes
    BY <1>2 DEF Worlds
  <2>2. r = [w EXCEPT !.transition = t, !.running = FALSE, !.exit_code = r.exit_code]
    BY <1>2 DEF ReturnError, DaemonExit, Worlds
  <2> QED BY <1>1, <2>1, <2>2 DEF Worlds
<1>4. Steady(r, config)
  BY <1>2 DEF Steady, SourcesMatch, Advances, Listed, EngineRegisters, ScriptsLast, Pending
<1>5. FailureTold(r)
  BY <1>1, <1>2 DEF FailureTold
<1>6. Attached(w, r)
  BY <1>2, SelfFacts DEF Attached
<1> QED BY <1>1, <1>2, <1>3, <1>4, <1>5, <1>6, GoneInv

-----------------------------------------------------------------------------
(* The components are loaded one after the other, until one does not load. *)
LoadBody(bad, w, e) == LoadComponent(w, e, bad)

Load == INSTANCE FoldInduction WITH op <- LoadBody

(* Nothing is activated while the components of done are loaded.           *)
Loading(w, done) ==
  /\ w.transition.step = "LOAD_COMPONENTS" /\ ~w.transition.gone
  /\ w.transition.om = None /\ w.transition.pending_plugins = 0
  /\ w.phase = [p \in Components |-> "inactive"] /\ w.idle = <<>> /\ w.pw_core = "NULL"
  /\ Distinct(w.registered) /\ Distinct(w.scripts)
  /\ Elems(w.registered) \cup Elems(w.scripts) = done
  /\ Elems(w.registered) \cap Scripts = {}
  /\ w.scripts # <<>> => Engine \in Elems(w.registered)

LEMMA LoadingSteady ==
  ASSUME NEW w \in Worlds, NEW done \in SUBSET Elems(config.components), Loading(w, done)
  PROVE  Steady(w, config)
<1>1. Pending(w) = {}
  BY DEF Loading, Pending, Underway
<1>2. IsFiniteSet(Pending(w))
  BY <1>1, FS_EmptySet
<1>3. SourcesMatch(w) /\ \A i \in DOMAIN w.idle : w.idle[i].type # "start"
  BY DEF Loading, SourcesMatch
<1>4. Elems(w.registered) \cap Elems(w.scripts) = {}
  BY WorldFacts DEF Loading, Elems
<1>5. Listed(w, config)
  BY <1>4 DEF Loading, Listed
<1>6. EngineRegisters(w) /\ ScriptsLast(w, config)
  BY NameFacts DEF Loading, EngineRegisters, ScriptsLast
<1> QED BY <1>2, <1>3, <1>5, <1>6 DEF Steady

(* An element is appended that was not in the list.                        *)
LEMMA AppendDistinct ==
  ASSUME NEW S, NEW list \in Seq(S), NEW e \in S, Distinct(list), e \notin Elems(list)
  PROVE  /\ Append(list, e) \in Seq(S) /\ Distinct(Append(list, e))
         /\ Elems(Append(list, e)) = Elems(list) \cup {e} /\ Append(list, e) # <<>>
<1> DEFINE b == Append(list, e)
<1>1. b \in Seq(S) /\ Len(b) # 0
  OBVIOUS
<1>2. \A i \in DOMAIN b :
        \/ i \in DOMAIN list /\ b[i] = list[i]
        \/ i = Len(list) + 1 /\ b[i] = e
  OBVIOUS
<1>3. \A i \in DOMAIN list : i \in DOMAIN b /\ b[i] = list[i]
  OBVIOUS
<1>4. Len(list) + 1 \in DOMAIN b /\ b[Len(list) + 1] = e
  OBVIOUS
<1> HIDE DEF b
<1>5. Distinct(b)
  BY <1>2 DEF Distinct, Elems
<1>6. Elems(b) = Elems(list) \cup {e}
  BY <1>2, <1>3, <1>4 DEF Elems
<1>7. b # <<>>
  BY <1>1
<1> QED BY <1>1, <1>5, <1>6, <1>7 DEF b

LEMMA LoadOne ==
  ASSUME NEW w \in Worlds, NEW done \in SUBSET Elems(config.components), Loading(w, done),
         NEW e \in Elems(config.components) \ done, e \in Components, NEW bad,
         NEW r, r = LoadComponent(w, e, bad)
  PROVE  \/ r \in Worlds /\ Loading(r, done \cup {e})
         \/ r \in Worlds /\ DInv(r, config) /\ Attached(w, r) /\ r.transition.gone
<1>1. CASE e = bad \/ (e \in Scripts /\ Engine \notin ToSet(w.registered))
  <2>1. r = ReturnError(w, "SOFTWARE")
    BY <1>1 DEF LoadComponent, Loading
  <2>2. "SOFTWARE" \in ExitCodes \ {"OK"} /\ ~w.transition.gone
    BY DEF ExitCodes, Loading
  <2> QED BY <2>1, <2>2, LoadingSteady, ReturnErrorInv
<1>2. CASE ~(e = bad \/ (e \in Scripts /\ Engine \notin ToSet(w.registered))) /\ e \in Scripts
  <2>1. r = [w EXCEPT !.scripts = Append(@, e)]
    BY <1>2 DEF LoadComponent, Loading
  <2>2. w.scripts \in Seq(Scripts) /\ e \notin Elems(w.scripts) /\ Distinct(w.scripts)
    BY WorldFacts DEF Loading
  <2>3. /\ Append(w.scripts, e) \in Seq(Scripts) /\ Distinct(Append(w.scripts, e))
        /\ Elems(Append(w.scripts, e)) = Elems(w.scripts) \cup {e}
    BY <1>2, <2>2, AppendDistinct
  <2>4. r \in Worlds
    BY <2>1, <2>3 DEF Worlds
  <2>5. /\ r.transition = w.transition /\ r.registered = w.registered /\ r.scripts = Append(w.scripts, e)
        /\ r.phase = w.phase /\ r.idle = w.idle /\ r.pw_core = w.pw_core
    BY <2>1 DEF Worlds
  <2>6. Engine \in Elems(w.registered)
    BY <1>2 DEF ToSet, Elems
  <2>7. Loading(r, done \cup {e})
    BY <2>3, <2>5, <2>6 DEF Loading
  <2> QED BY <2>4, <2>7
<1>3. CASE e # bad /\ e \notin Scripts
  <2> DEFINE u == [w EXCEPT !.registered = Append(@, e)]
  <2>1. r = AddIfInterested(u, e)
    BY <1>3 DEF LoadComponent, Loading, Register
  <2>2. w.registered \in Seq(Components) /\ e \notin Elems(w.registered) /\ Distinct(w.registered)
    BY WorldFacts DEF Loading
  <2>3. /\ Append(w.registered, e) \in Seq(Components) /\ Distinct(Append(w.registered, e))
        /\ Elems(Append(w.registered, e)) = Elems(w.registered) \cup {e}
    BY <2>2, AppendDistinct
  <2>4. u \in Worlds
    BY <2>3 DEF Worlds
  <2>5. /\ u.transition = w.transition /\ u.registered = Append(w.registered, e) /\ u.scripts = w.scripts
        /\ u.phase = w.phase /\ u.idle = w.idle /\ u.pw_core = w.pw_core
    BY DEF Worlds
  <2> HIDE DEF u
  <2>6. ~Interested(u, e)
    BY <2>5, NameFacts DEF Interested, Loading
  <2>7. r = u
    BY <2>1, <2>6 DEF AddIfInterested
  <2>8. Loading(u, done \cup {e})
    BY <1>3, <2>3, <2>5 DEF Loading
  <2> QED BY <2>4, <2>7, <2>8
<1> QED BY <1>1, <1>2, <1>3

LEMMA LoadAll ==
  ASSUME config \in Configs, NEW n \in Worlds, Loading(n, {}), NEW bad,
         NEW r, r = LoadComponents(n, bad)
  PROVE  \/ r \in Worlds /\ Loading(r, Elems(config.components))
         \/ r \in Worlds /\ DInv(r, config) /\ Attached(n, r) /\ r.transition.gone
<1> DEFINE list == config.components
           First(k) == {list[i] : i \in 1..k}
           After(k) == {v \in Worlds :
              \/ Loading(v, First(k))
              \/ DInv(v, config) /\ Attached(n, v) /\ v.transition.gone}
           I == [k \in Nat |-> After(k)]
<1>1. CASE ~config.valid \/ config.components = <<>>
  <2>1. r = ReturnError(n, "CONFIG") /\ "CONFIG" \in ExitCodes \ {"OK"} /\ ~n.transition.gone
    BY <1>1 DEF LoadComponents, ExitCodes, Loading
  <2>2. Steady(n, config)
    BY LoadingSteady
  <2> QED BY <2>1, <2>2, ReturnErrorInv
<1>2. CASE ~(~config.valid \/ config.components = <<>>)
  <2>1. list \in Seq(Components) /\ Len(list) \in Nat /\ DOMAIN list = 1..Len(list) /\ Distinct(list)
    BY ConfigFacts
  <2> HIDE DEF list
  <2>2. n \in I[0]
    <3>1. First(0) = {}
      OBVIOUS
    <3> HIDE DEF First
    <3> QED BY <3>1
  <2>3. ASSUME NEW k \in 1..Len(list), NEW w \in I[k-1]
        PROVE  LoadBody(bad, w, list[k]) \in I[k]
    <3>1. k - 1 \in Nat /\ k \in Nat /\ k \in DOMAIN list
      BY <2>1
    <3>2. PICK e \in Components : e = list[k]
      BY <2>1, <3>1
    <3>3. w \in After(k - 1)
      BY <3>1
    <3>4. First(k) = First(k - 1) \cup {e}
      <4>1. 1..k = 1..(k-1) \cup {k}
        BY <3>1
      <4> QED BY <4>1, <3>2
    <3>5. e \in Elems(list) \ First(k - 1) /\ First(k - 1) \subseteq Elems(list)
      <4>1. \A i \in 1..(k-1) : i \in DOMAIN list /\ i # k
        BY <2>1
      <4> QED BY <4>1, <3>1, <3>2, <2>1 DEF Distinct, Elems
    <3> HIDE DEF First
    <3>6. CASE Loading(w, First(k - 1))
      <4>1. \/ LoadComponent(w, e, bad) \in Worlds /\ Loading(LoadComponent(w, e, bad), First(k))
            \/ /\ LoadComponent(w, e, bad) \in Worlds /\ DInv(LoadComponent(w, e, bad), config)
               /\ Attached(w, LoadComponent(w, e, bad)) /\ LoadComponent(w, e, bad).transition.gone
        BY <3>3, <3>4, <3>5, <3>6, LoadOne DEF list
      <4>2. w.idle = n.idle
        BY <3>6 DEF Loading
      <4>3. LoadComponent(w, e, bad) \in After(k)
        BY <4>1, <4>2 DEF Attached
      <4> QED BY <4>3, <3>1, <3>2 DEF LoadBody
    <3>7. CASE ~Loading(w, First(k - 1))
      <4>1. LoadComponent(w, e, bad) = w
        BY <3>3, <3>7 DEF LoadComponent
      <4>2. w \in After(k)
        BY <3>3, <3>7
      <4> QED BY <4>1, <4>2, <3>1, <3>2 DEF LoadBody
    <3> QED BY <3>6, <3>7
  <2>4. Load!Folded(bad, n, list) = r
    BY <1>2 DEF Load!Folded, Load!FoldLeft, Load!MapThenFoldSet, Load!Max, FoldLeft, MapThenFoldSet, Max,
         LoadBody, LoadComponents, list
  <2>5. r \in I[Len(list)]
    <3> HIDE DEF I
    <3>1. \A k \in 1..Len(list) : \A w \in I[k-1] : LoadBody(bad, w, list[k]) \in I[k]
      BY <2>3
    <3>2. Load!Folded(bad, n, list) \in I[Len(list)]
      BY <2>1, <2>2, <3>1, Load!FoldSteps
    <3> QED BY <2>4, <3>2
  <2>6. r \in After(Len(list))
    BY <2>1, <2>5
  <2>7. First(Len(list)) = Elems(list)
    BY <2>1 DEF Elems
  <2> QED BY <2>6, <2>7 DEF list
<1> QED BY <1>1, <1>2

-----------------------------------------------------------------------------
(* Where the start-up is does not matter to what is steady.                *)
LEMMA SteadyLike ==
  ASSUME NEW w \in Worlds, Steady(w, config), NEW a,
         a.phase = w.phase, a.idle = w.idle, a.registered = w.registered, a.scripts = w.scripts
  PROVE  Steady(a, config) /\ Pending(a) = Pending(w) /\ Attached(w, a)
<1>1. Steady(a, config) /\ Pending(a) = Pending(w)
  BY DEF Steady, SourcesMatch, Advances, Listed, EngineRegisters, ScriptsLast, Pending
<1> QED BY <1>1, SelfFacts DEF Attached

(* What holds of a start-up that did not fail, more components being about *)
(* to be underway than are.                                                *)
Going(w, c, more) ==
  /\ Steady(w, c) /\ ~w.transition.gone /\ w.pw_core # "connecting"
  /\ Elems(c.components) \subseteq Elems(w.registered) \cup Elems(w.scripts)
  /\ Counted(w, more)

LEMMA GoingInv ==
  ASSUME NEW w \in Worlds, Going(w, config, 0), w.transition.step \notin Early \cup {"ERROR"},
         PluginsUnderway(w, config), ScriptsUnderway(w, config), AllEnabled(w, config)
  PROVE  DInv(w, config)
BY DEF Going, DInv, Steady, FailureTold, StartFirst, Loaded, BeforePlugins, Early

LEMMA InvGoing ==
  ASSUME NEW w \in Worlds, DInv(w, config), w.transition.step \notin {"NONE", "LOAD_COMPONENTS", "CONNECT", "ERROR"}
  PROVE  Going(w, config, 0)
<1>1. Steady(w, config)
  BY SteadyFacts
<1> QED BY <1>1 DEF Going, DInv, FailureTold, StartFirst, Loaded

LEMMA NoneUnderway ==
  ASSUME NEW w \in Worlds, Counted(w, 0), ~w.transition.gone
  PROVE  w.transition.pending_plugins = 0 <=> \A p \in Components : w.phase[p] \notin Underway
<1>1. Cardinality(Pending(w)) \in Nat /\ (Cardinality(Pending(w)) = 0 <=> Pending(w) = {})
  BY FS_EmptySet, FS_CardinalityType DEF Counted
<1>2. w.transition.pending_plugins = 0 <=> Pending(w) = {}
  BY <1>1 DEF Counted
<1> QED BY <1>2 DEF Pending

LEMMA NoneCounted ==
  ASSUME NEW w, Pending(w) = {}, w.transition.pending_plugins = 0
  PROVE  Counted(w, 0)
<1>1. IsFiniteSet(Pending(w)) /\ Cardinality(Pending(w)) \in Nat /\ Cardinality(Pending(w)) = 0
  BY FS_EmptySet, FS_CardinalityType
<1>2. w.transition.pending_plugins = Cardinality(Pending(w)) + 0
  BY <1>1
<1> QED BY <1>1, <1>2 DEF Counted

(* STEP_CONNECT                                                            *)
LEMMA ConnectInv ==
  ASSUME NEW w \in Worlds, Loading(w, Elems(config.components)),
         NEW result \in {"connected", "refused", "partial"},
         NEW r, r = ConnectCores(w, result)
  PROVE  r \in Worlds /\ DInv(r, config) /\ Attached(w, r)
<1> DEFINE t == [w.transition EXCEPT !.step = "CONNECT"]
           m == [w EXCEPT !.transition = t, !.pw_core = "connecting"]
<1>1. /\ t \in Transition /\ t.step = "CONNECT" /\ t.om = None /\ ~t.gone /\ t.pending_plugins = 0
  BY WorldFacts DEF Transition, Steps, Loading
<1>2. m \in Worlds
  BY <1>1 DEF Worlds
<1>3. /\ m.transition = t /\ m.registered = w.registered /\ m.scripts = w.scripts
      /\ m.phase = w.phase /\ m.idle = w.idle /\ m.pw_core = "connecting"
  BY DEF Worlds
<1>4. r = CASE result = "connected" -> m
            [] result = "refused" -> ReturnError(w, "UNAVAILABLE")
            [] result = "partial" -> ReturnError(m, "UNAVAILABLE")
  BY DEF ConnectCores, Worlds
<1> HIDE DEF m
<1>5. Steady(w, config) /\ ~w.transition.gone
  BY LoadingSteady DEF Loading
<1>6. Steady(m, config) /\ Attached(w, m)
  BY <1>3, <1>5, SteadyLike
<1>7. "UNAVAILABLE" \in ExitCodes \ {"OK"}
  BY DEF ExitCodes
<1>8. CASE result = "refused"
  BY <1>4, <1>5, <1>7, <1>8, ReturnErrorInv
<1>9. CASE result = "partial"
  <2>1. r = ReturnError(m, "UNAVAILABLE")
    BY <1>4, <1>9
  <2>2. r \in Worlds /\ DInv(r, config) /\ Attached(m, r)
    BY <1>1, <1>2, <1>3, <1>6, <1>7, <2>1, ReturnErrorInv
  <2> QED BY <1>3, <2>2 DEF Attached
<1>10. CASE result = "connected"
  <2>1. m.phase = [p \in Components |-> "inactive"]
    BY <1>3 DEF Loading
  <2>2. Pending(m) = {}
    BY <2>1 DEF Pending, Underway
  <2>3. Counted(m, 0)
    <3>1. m.transition.pending_plugins = 0
      BY <1>1, <1>3
    <3> QED BY <2>2, <3>1, NoneCounted
  <2>4. Loaded(m, config)
    BY <1>3 DEF Loading, Loaded
  <2>5. DInv(m, config)
    BY <1>1, <1>3, <1>6, <2>1, <2>3, <2>4 DEF DInv, Steady, FailureTold, StartFirst, BeforePlugins,
       PluginsUnderway, ScriptsUnderway, AllEnabled, Early
  <2> QED BY <1>2, <1>4, <1>6, <1>10, <2>5
<1> QED BY <1>8, <1>9, <1>10

(* The last step: everything that was listed is enabled.                   *)
LEMMA CleanupInv ==
  ASSUME NEW w \in Worlds, Going(w, config, 0), w.scripts = <<>>,
         \A p \in Elems(w.registered) : w.phase[p] = "enabled",
         NEW r, r = Cleanup(w)
  PROVE  r \in Worlds /\ DInv(r, config) /\ Attached(w, r)
<1> DEFINE t == [w.transition EXCEPT !.step = "CLEANUP", !.om = None]
<1>1. t \in Transition /\ t.step = "CLEANUP" /\ t.om = None /\ ~t.gone
      /\ t.pending_plugins = w.transition.pending_plugins
  BY WorldFacts DEF Transition, Steps, Going
<1>2. r = [w EXCEPT !.transition = t]
  BY DEF Cleanup, Worlds
<1>3. r \in Worlds
  BY <1>1, <1>2 DEF Worlds
<1>4. /\ r.transition = t /\ r.registered = w.registered /\ r.scripts = w.scripts
      /\ r.phase = w.phase /\ r.idle = w.idle /\ r.pw_core = w.pw_core
  BY <1>2 DEF Worlds
<1>5. Steady(r, config) /\ Attached(w, r) /\ Pending(r) = Pending(w)
  BY <1>4, SteadyLike DEF Going
<1>6. Going(r, config, 0)
  BY <1>1, <1>4, <1>5 DEF Going, Counted
<1>7. Elems(w.scripts) = {}
  BY DEF Elems
<1>8. Elems(w.registered) = Elems(config.components)
  BY <1>7 DEF Going, Steady, Listed
<1>9. AllEnabled(r, config)
  BY <1>1, <1>4, <1>8 DEF AllEnabled
<1>10. PluginsUnderway(r, config) /\ ScriptsUnderway(r, config) /\ r.transition.step \notin Early \cup {"ERROR"}
  BY <1>1, <1>4 DEF PluginsUnderway, ScriptsUnderway, Early
<1> QED BY <1>3, <1>5, <1>6, <1>9, <1>10, GoingInv

-----------------------------------------------------------------------------
(* The plugins are enabled: the engine is activated, if there is one.      *)
LEMMA ActivateScriptsInv ==
  ASSUME config \in Configs, NEW w \in Worlds, Going(w, config, 0),
         \A p \in Elems(w.registered) :
           w.phase[p] = IF p # Engine \/ config.engine = None THEN "enabled" ELSE "inactive",
         NEW r, r = ActivateScripts(w)
  PROVE  r \in Worlds /\ DInv(r, config) /\ Attached(w, r)
<1>1. Steady(w, config) /\ ~w.transition.gone /\ config.engine \in {Engine, None}
  BY ConfigFacts DEF Going
<1>2. CASE config.engine = None
  <2>1. w.scripts = <<>>
    BY <1>1, <1>2 DEF Steady, Listed, EngineRegisters
  <2>2. \A p \in Elems(w.registered) : w.phase[p] = "enabled"
    BY <1>2
  <2> QED BY <1>2, <2>1, <2>2, CleanupInv DEF ActivateScripts
<1>3. CASE config.engine # None /\ config.engine \notin ToSet(w.registered)
  <2>1. r = ReturnError(w, "CONFIG") /\ "CONFIG" \in ExitCodes \ {"OK"}
    BY <1>3 DEF ActivateScripts, ExitCodes
  <2> QED BY <1>1, <2>1, ReturnErrorInv
<1>4. CASE config.engine = Engine /\ config.engine # None /\ config.engine \in ToSet(w.registered)
  <2> DEFINE t == [w.transition EXCEPT !.step = "ACTIVATE_SCRIPTS", !.pending_plugins = 1,
                                       !.om = "scripts", !.settled = FALSE]
             n == [w EXCEPT !.transition = t]
             b == FoldLeft(AddIfInterested, n, n.registered)
  <2>1. /\ t \in Transition /\ t.step = "ACTIVATE_SCRIPTS" /\ t.om = "scripts" /\ ~t.gone
        /\ t.pending_plugins = 1
    BY <1>1, WorldFacts DEF Transition, Steps
  <2>2. /\ n.transition = t /\ n.registered = w.registered /\ n.scripts = w.scripts
        /\ n.phase = w.phase /\ n.idle = w.idle /\ n.pw_core = w.pw_core
    BY DEF Worlds
  <2>3. n \in Worlds
    BY <2>1 DEF Worlds
  <2>4. r = [b EXCEPT !.phase[Engine] = "queued", !.idle = Append(@, Source("advance", Engine))]
    <3>1. InstallOm([w EXCEPT !.transition.step = "ACTIVATE_SCRIPTS", !.transition.pending_plugins = 1],
                    "scripts") = b
      BY DEF InstallOm, Worlds
    <3>2. r = Activate(b, Engine)
      BY <1>4, <3>1 DEF ActivateScripts
    <3> HIDE DEF b
    <3> QED BY <3>2 DEF Activate, Attach
  <2> HIDE DEF t, n
  <2>5. Engine \in Elems(w.registered) /\ w.phase[Engine] = "inactive"
    BY <1>4 DEF ToSet, Elems
  <2>6. Elems(w.registered) \cap Scripts = {}
    BY <1>1, <2>5 DEF Steady, EngineRegisters
  <2>7. \A p \in Elems(n.registered) : ~Interested(n, p)
    BY <2>1, <2>2, <2>6 DEF Interested
  <2>8. Steady(n, config) /\ Attached(w, n) /\ Pending(n) = Pending(w)
    BY <1>1, <2>2, SteadyLike
  <2>9. Counted(n, 1)
    <3>1. \A p \in Components : w.phase[p] \notin Underway
      BY <1>1 DEF Steady, Listed, Underway
    <3>2. Pending(n) = {} /\ IsFiniteSet(Pending(n)) /\ Cardinality(Pending(n)) = 0
      BY <2>8, <3>1, FS_EmptySet DEF Pending
    <3>3. n.transition.pending_plugins = Cardinality(Pending(n)) + 1
      BY <2>1, <2>2, <3>2
    <3> QED BY <3>2, <3>3 DEF Counted
  <2>10. SourcesMatch(n) /\ Distinct(n.registered)
    BY <2>8 DEF Steady, Listed
  <2>11. /\ b \in Worlds /\ SourcesMatch(b) /\ Counted(b, 1) /\ Attached(n, b) /\ Same(n, b)
         /\ b.phase = [p \in Components |->
              IF p \in Elems(n.registered) /\ Interested(n, p) THEN "queued" ELSE n.phase[p]]
         /\ b.registered = n.registered
    BY <2>3, <2>7, <2>9, <2>10, InstallAdds
  <2> HIDE DEF b
  <2>12. b.phase = w.phase
    BY <2>2, <2>3, <2>7, <2>11, WorldFacts
  <2>13. NoSource(b, Engine)
    BY <2>5, <2>11, <2>12 DEF NoSource, SourcesMatch, Advances
  <2>14. r \in Worlds /\ SourcesMatch(r) /\ Attached(b, r)
    <3>1. r = [b EXCEPT !.idle = Append(@, Source("advance", Engine)), !.phase[Engine] = "queued"]
      BY <2>4, <2>11 DEF Worlds
    <3> QED BY <2>11, <2>13, <3>1, NameFacts, AttachAdvance
  <2>15. r.phase = [w.phase EXCEPT ![Engine] = "queued"] /\ r.registered = w.registered
    <3>1. r.phase = [b.phase EXCEPT ![Engine] = "queued"] /\ r.registered = b.registered
      BY <2>4, <2>11, Zenon DEF Worlds
    <3> QED BY <2>2, <2>11, <2>12, <3>1
  <2>16. r.scripts = w.scripts /\ r.pw_core = w.pw_core
         /\ r.transition = [t EXCEPT !.pending_plugins = b.transition.pending_plugins]
    BY <2>2, <2>4, <2>11 DEF Worlds, Same
  <2>17. r.transition.step = "ACTIVATE_SCRIPTS" /\ r.transition.om = "scripts" /\ ~r.transition.gone
         /\ r.transition.pending_plugins = b.transition.pending_plugins
         /\ ~b.transition.gone
    <3>1. b.transition = [t EXCEPT !.pending_plugins = b.transition.pending_plugins]
      BY <2>2, <2>11 DEF Same
    <3> QED BY <2>1, <2>16, <3>1 DEF Transition
  <2>18. Counted(r, 0)
    <3>1. IsFiniteSet(Pending(r)) /\ Cardinality(Pending(r)) = Cardinality(Pending(b)) + 1
      BY <2>5, <2>11, <2>12, <2>14, <2>15, NameFacts, OneMoreUnderway DEF Counted, Underway
    <3>2. Cardinality(Pending(b)) \in Nat
      BY <2>11, FS_CardinalityType DEF Counted
    <3>3. b.transition.pending_plugins = Cardinality(Pending(b)) + 1
      BY <2>11, <2>17 DEF Counted
    <3> QED BY <2>17, <3>1, <3>2, <3>3 DEF Counted
  <2>19. Attached(w, r) /\ \A i \in DOMAIN r.idle : r.idle[i].type # "start"
    <3>1. Len(w.idle) \in Nat /\ Len(n.idle) \in Nat /\ Len(b.idle) \in Nat /\ Len(r.idle) \in Nat
      BY <2>3, <2>11, <2>14, SelfFacts
    <3> QED BY <1>1, <2>8, <2>11, <2>14, <3>1 DEF Attached, Steady
  <2>20. Listed(r, config) /\ EngineRegisters(r) /\ ScriptsLast(r, config)
    <3>1. \A p \in Components : r.phase[p] = IF p = Engine THEN "queued" ELSE w.phase[p]
      BY <2>15, WorldFacts
    <3>2. Listed(r, config)
      BY <1>1, <2>5, <2>15, <2>16, <3>1 DEF Steady, Listed
    <3>3. EngineRegisters(r)
      BY <2>6, <2>15, <2>16, <3>1, NameFacts DEF EngineRegisters
    <3>4. \A s \in Scripts : r.phase[s] = "inactive"
      BY <1>1, <2>6, <3>1, NameFacts DEF Steady, Listed
    <3> QED BY <3>2, <3>3, <3>4 DEF ScriptsLast
  <2>21. Going(r, config, 0)
    BY <2>14, <2>15, <2>16, <2>17, <2>18, <2>19, <2>20 DEF Going, Steady, Counted
  <2>22. ScriptsUnderway(r, config)
    <3>1. \A p \in Components : r.phase[p] = IF p = Engine THEN "queued" ELSE w.phase[p]
      BY <2>15, WorldFacts
    <3>2. \A p \in Elems(r.registered) : p \in Components
      BY <2>15, WorldFacts DEF Elems
    <3> QED BY <1>4, <2>5, <2>15, <2>17, <3>1, <3>2, NameFacts DEF ScriptsUnderway, Underway
  <2>23. PluginsUnderway(r, config) /\ AllEnabled(r, config) /\ r.transition.step \notin Early \cup {"ERROR"}
    BY <2>17 DEF PluginsUnderway, AllEnabled, Early
  <2> QED BY <2>14, <2>19, <2>21, <2>22, <2>23, GoingInv
<1> QED BY <1>1, <1>2, <1>3, <1>4

(* wp_init_transition_get_next_step in the steps that wait for plugins     *)
LEMMA AdvancePluginsInv ==
  ASSUME config \in Configs, NEW w \in Worlds, DInv(w, config),
         w.transition.step \in {"ACTIVATE_PLUGINS", "ACTIVATE_SCRIPTS"},
         NEW r, r = AdvancePlugins(w)
  PROVE  r \in Worlds /\ DInv(r, config) /\ Attached(w, r)
<1>1. Going(w, config, 0) /\ config.engine \in {Engine, None}
  BY InvGoing, ConfigFacts
<1>2. CASE w.transition.pending_plugins > 0
  BY <1>2, SelfFacts DEF AdvancePlugins, Attached
<1>3. CASE w.transition.pending_plugins = 0
  <2>1. \A p \in Components : w.phase[p] \notin Underway
    BY <1>1, <1>3, NoneUnderway DEF Going
  <2>2. \A p \in Elems(w.registered) : p \in Components
    BY WorldFacts DEF Elems
  <2>3. CASE w.transition.step = "ACTIVATE_PLUGINS"
    <3>1. r = ActivateScripts(w)
      BY <1>3, <2>3 DEF AdvancePlugins
    <3>2. \A p \in Elems(w.registered) :
            w.phase[p] = IF p # Engine \/ config.engine = None THEN "enabled" ELSE "inactive"
      BY <2>1, <2>2, <2>3 DEF DInv, PluginsUnderway
    <3> QED BY <1>1, <3>1, <3>2, ActivateScriptsInv
  <2>4. CASE w.transition.step = "ACTIVATE_SCRIPTS"
    <3>1. r = Cleanup(w)
      BY <1>3, <2>4 DEF AdvancePlugins
    <3>2. \A p \in Elems(w.registered) : w.phase[p] = "enabled"
      BY <2>1, <2>2, <2>4 DEF DInv, ScriptsUnderway
    <3>3. w.scripts = <<>>
      BY <2>4, <3>2 DEF DInv, ScriptsUnderway, EngineRegisters
    <3> QED BY <1>1, <3>1, <3>2, <3>3, CleanupInv
  <2> QED BY <2>3, <2>4
<1>4. w.transition.pending_plugins \in Nat
  BY WorldFacts
<1> QED BY <1>2, <1>3, <1>4

-----------------------------------------------------------------------------
(* The session is free: the plugins that were loaded are activated.        *)
LEMMA ActivatePluginsInv ==
  ASSUME config \in Configs, NEW w \in Worlds, DInv(w, config),
         w.transition.step = "CHECK_MEDIA_SESSION",
         NEW held, NEW r, r = ActivatePlugins(w, held)
  PROVE  r \in Worlds /\ DInv(r, config) /\ Attached(w, r)
<1> DEFINE t == [w.transition EXCEPT !.step = "ACTIVATE_PLUGINS", !.om = "plugins", !.settled = FALSE]
           n == [w EXCEPT !.transition = t]
           b == FoldLeft(AddIfInterested, n, n.registered)
<1>1. Going(w, config, 0) /\ Steady(w, config) /\ ~w.transition.gone /\ config.engine \in {Engine, None}
  BY InvGoing, ConfigFacts DEF Going
<1>2. /\ t \in Transition /\ t.step = "ACTIVATE_PLUGINS" /\ t.om = "plugins" /\ ~t.gone
      /\ t.pending_plugins = w.transition.pending_plugins
  BY <1>1, WorldFacts DEF Transition, Steps
<1>3. /\ n.transition = t /\ n.registered = w.registered /\ n.scripts = w.scripts
      /\ n.phase = w.phase /\ n.idle = w.idle /\ n.pw_core = w.pw_core
  BY DEF Worlds
<1>4. n \in Worlds
  BY <1>2 DEF Worlds
<1>5. InstallOm([w EXCEPT !.transition.step = "ACTIVATE_PLUGINS"], "plugins") = b
  BY DEF InstallOm, Worlds
<1> HIDE DEF t, n
<1>6. \A p \in Components : w.phase[p] = "inactive"
  BY DEF DInv, BeforePlugins, Early
<1>7. Steady(n, config) /\ Attached(w, n) /\ Pending(n) = Pending(w)
  BY <1>1, <1>3, SteadyLike
<1>8. Counted(n, 0)
  BY <1>1, <1>2, <1>3, <1>7 DEF Counted, Going
<1>9. SourcesMatch(n) /\ Distinct(n.registered)
  BY <1>7 DEF Steady, Listed
<1>10. \A p \in Elems(n.registered) : p \in Components /\ n.phase[p] = "inactive"
  BY <1>3, <1>6, WorldFacts DEF Elems
<1>11. /\ b \in Worlds /\ SourcesMatch(b) /\ Counted(b, 0) /\ Attached(n, b) /\ Same(n, b)
       /\ b.phase = [p \in Components |->
            IF p \in Elems(n.registered) /\ Interested(n, p) THEN "queued" ELSE n.phase[p]]
       /\ b.registered = n.registered
  BY <1>4, <1>8, <1>9, <1>10, InstallAdds
<1> HIDE DEF b
<1>12. b.registered = w.registered /\ b.scripts = w.scripts /\ b.pw_core = w.pw_core
  BY <1>3, <1>11 DEF Same
<1>13. \A p \in Components : b.phase[p] =
         IF p \in Elems(w.registered) /\ (p # Engine \/ config.engine = None) THEN "queued" ELSE "inactive"
  <2>1. \A p : Interested(n, p) <=> p # Engine \/ config.engine = None
    BY <1>2, <1>3 DEF Interested
  <2> QED BY <1>3, <1>6, <1>11, <2>1
<1>14. b.transition.step = "ACTIVATE_PLUGINS" /\ b.transition.om = "plugins" /\ ~b.transition.gone
  <2>1. b.transition = [t EXCEPT !.pending_plugins = b.transition.pending_plugins]
    BY <1>3, <1>11 DEF Same
  <2> QED BY <1>2, <2>1 DEF Transition
<1>15. Attached(w, b) /\ \A i \in DOMAIN b.idle : b.idle[i].type # "start"
  <2>1. Len(w.idle) \in Nat /\ Len(n.idle) \in Nat /\ Len(b.idle) \in Nat
    BY <1>4, <1>11, SelfFacts
  <2> QED BY <1>1, <1>7, <1>11, <2>1 DEF Attached, Steady
<1>16. Elems(w.registered) \cap Scripts = {}
  BY <1>1, <1>6, NameFacts DEF Steady, EngineRegisters
<1>17. Steady(b, config)
  <2>1. Listed(b, config)
    BY <1>1, <1>12, <1>13 DEF Steady, Listed
  <2>2. EngineRegisters(b)
    BY <1>12, <1>13, <1>16, NameFacts DEF EngineRegisters
  <2>3. \A s \in Scripts : b.phase[s] = "inactive"
    BY <1>13, <1>16, NameFacts
  <2>4. ScriptsLast(b, config)
    BY <2>3 DEF ScriptsLast
  <2> QED BY <1>11, <1>15, <2>1, <2>2, <2>4 DEF Steady, Counted
<1>18. Going(b, config, 0)
  BY <1>1, <1>11, <1>12, <1>14, <1>17 DEF Going
<1>19. PluginsUnderway(b, config)
  <2>1. \A p \in Elems(b.registered) : p \in Components
    BY <1>11, WorldFacts DEF Elems
  <2> QED BY <1>12, <1>13, <1>14, <2>1 DEF PluginsUnderway, Underway
<1>20. DInv(b, config)
  BY <1>11, <1>14, <1>18, <1>19, GoingInv DEF ScriptsUnderway, AllEnabled, Early
<1>21. CASE b.transition.pending_plugins > 0
  <2>1. r = [b EXCEPT !.idle = Append(@, Source("installed", "plugins"))]
    BY <1>5, <1>21 DEF ActivatePlugins, Attach
  <2> DEFINE s == Source("installed", "plugins")
  <2>2. s \in Sources /\ s.type = "installed"
    BY DEF Source, Sources
  <2> HIDE DEF s
  <2>3. r \in Worlds /\ SourcesMatch(r) /\ Attached(b, r)
    BY <1>11, <2>1, <2>2, AttachOther DEF s
  <2>4. /\ r.transition = b.transition /\ r.registered = b.registered /\ r.scripts = b.scripts
        /\ r.phase = b.phase /\ r.pw_core = b.pw_core
    BY <1>11, <2>1 DEF Worlds
  <2>5. Pending(r) = Pending(b) /\ \A i \in DOMAIN r.idle : r.idle[i].type # "start"
    BY <1>15, <2>3, <2>4 DEF Pending, Attached
  <2>6. Going(r, config, 0)
    BY <1>18, <2>3, <2>4, <2>5 DEF Going, Steady, Counted, Listed, EngineRegisters, ScriptsLast
  <2>7. DInv(r, config)
    BY <1>14, <1>19, <2>3, <2>4, <2>6, GoingInv DEF PluginsUnderway, ScriptsUnderway, AllEnabled, Early
  <2>8. Attached(w, r)
    <3>1. Len(w.idle) \in Nat /\ Len(b.idle) \in Nat /\ Len(r.idle) \in Nat
      BY <1>11, <2>3, SelfFacts
    <3> QED BY <1>15, <2>3, <3>1 DEF Attached
  <2> QED BY <2>3, <2>7, <2>8
<1>22. CASE ~(b.transition.pending_plugins > 0) /\ held
  <2> DEFINE u == [b EXCEPT !.misused = @ \cup {"om"}]
  <2>1. r = ActivateScripts(u)
    BY <1>5, <1>22 DEF ActivatePlugins
  <2>2. u \in Worlds
    BY <1>11 DEF Worlds
  <2>3. /\ u.transition = b.transition /\ u.registered = b.registered /\ u.scripts = b.scripts
        /\ u.phase = b.phase /\ u.pw_core = b.pw_core /\ u.idle = b.idle
    BY <1>11 DEF Worlds
  <2> HIDE DEF u
  <2>4. Steady(u, config) /\ Pending(u) = Pending(b)
    BY <1>11, <1>17, <2>3, SteadyLike
  <2>5. Going(u, config, 0)
    BY <1>18, <2>3, <2>4 DEF Going, Counted
  <2>6. \A p \in Components : u.phase[p] \notin Underway
    <3>1. u.transition.pending_plugins = 0 /\ ~u.transition.gone
      BY <1>11, <1>14, <1>22, <2>3, WorldFacts
    <3> QED BY <2>2, <2>5, <3>1, NoneUnderway DEF Going
  <2>7. \A p \in Elems(u.registered) :
          u.phase[p] = IF p # Engine \/ config.engine = None THEN "enabled" ELSE "inactive"
    BY <1>10, <1>3, <1>12, <1>13, <2>3, <2>6 DEF Underway
  <2>8. r \in Worlds /\ DInv(r, config) /\ Attached(u, r)
    BY <2>1, <2>2, <2>5, <2>7, ActivateScriptsInv
  <2>9. Attached(w, r)
    <3>1. Len(w.idle) \in Nat /\ Len(b.idle) \in Nat /\ Len(r.idle) \in Nat
      BY <1>11, <2>8, SelfFacts
    <3> QED BY <1>15, <2>3, <2>8, <3>1 DEF Attached
  <2> QED BY <2>8, <2>9
<1>23. CASE ~(b.transition.pending_plugins > 0) /\ ~held
  <2>1. r = b
    BY <1>5, <1>23 DEF ActivatePlugins
  <2> QED BY <1>11, <1>15, <1>20, <2>1
<1> QED BY <1>21, <1>22, <1>23

-----------------------------------------------------------------------------
(* What holds when a component was activated that is still counted.        *)
Due(w, c) ==
  /\ Steady(w, c) /\ FailureTold(w)
  /\ ~w.transition.gone =>
       /\ Going(w, c, 1) /\ w.transition.step \in {"ACTIVATE_PLUGINS", "ACTIVATE_SCRIPTS"}

(* on_plugin_activated                                                     *)
LEMMA OnPluginActivatedInv ==
  ASSUME config \in Configs, NEW w \in Worlds, NEW p \in Components, Due(w, config), NEW ok \in BOOLEAN,
         ok => PluginsUnderway(w, config) /\ ScriptsUnderway(w, config),
         NEW r, r = OnPluginActivated(w, p, ok)
  PROVE  r \in Worlds /\ DInv(r, config) /\ Attached(w, r)
<1>1. CASE w.transition.gone
  <2> DEFINE u == [w EXCEPT !.misused = @ \cup {"transition"}]
  <2>1. r = w \/ r = u
    BY <1>1 DEF OnPluginActivated
  <2>2. DInv(w, config) /\ Attached(w, w)
    BY <1>1, GoneInv, SelfFacts DEF Due, FailureTold, Attached
  <2>3. u \in Worlds
    BY DEF Worlds
  <2>4. /\ u.transition = w.transition /\ u.registered = w.registered /\ u.scripts = w.scripts
        /\ u.phase = w.phase /\ u.pw_core = w.pw_core /\ u.idle = w.idle
        /\ u.running = w.running /\ u.exit_code = w.exit_code
    BY DEF Worlds
  <2> HIDE DEF u
  <2>5. Steady(u, config) /\ Attached(w, u)
    BY <2>4, SteadyLike DEF Due
  <2>6. DInv(u, config)
    BY <1>1, <2>3, <2>4, <2>5, GoneInv DEF Due, FailureTold
  <2> QED BY <2>1, <2>2, <2>3, <2>5, <2>6
<1>2. CASE ~w.transition.gone /\ ~ok
  <2>1. r = ReturnError(w, "SOFTWARE") /\ "SOFTWARE" \in ExitCodes \ {"OK"}
    BY <1>2 DEF OnPluginActivated, ExitCodes
  <2> QED BY <1>2, <2>1, ReturnErrorInv DEF Due
<1>3. CASE ~w.transition.gone /\ ok
  <2> DEFINE t == [w.transition EXCEPT !.pending_plugins = @ - 1]
             u == [w EXCEPT !.transition = t]
  <2>1. r = AdvancePlugins(u)
    BY <1>3 DEF OnPluginActivated, Worlds
  <2>2. Cardinality(Pending(w)) \in Nat /\ w.transition.pending_plugins = Cardinality(Pending(w)) + 1
    BY <1>3, FS_CardinalityType DEF Due, Going, Counted
  <2>3. /\ t \in Transition /\ t.step = w.transition.step /\ t.om = w.transition.om /\ ~t.gone
        /\ t.pending_plugins = Cardinality(Pending(w)) /\ t.pending_plugins = Cardinality(Pending(w)) + 0
    BY <1>3, <2>2, WorldFacts DEF Transition
  <2>4. /\ u.transition = t /\ u.registered = w.registered /\ u.scripts = w.scripts
        /\ u.phase = w.phase /\ u.pw_core = w.pw_core /\ u.idle = w.idle
    BY DEF Worlds
  <2>5. u \in Worlds
    BY <2>3 DEF Worlds
  <2> HIDE DEF u, t
  <2>6. Steady(u, config) /\ Attached(w, u) /\ Pending(u) = Pending(w)
    BY <2>4, SteadyLike DEF Due
  <2>7. Going(u, config, 0)
    BY <1>3, <2>3, <2>4, <2>6 DEF Due, Going, Counted
  <2>8. PluginsUnderway(u, config) /\ ScriptsUnderway(u, config)
    BY <1>3, <2>3, <2>4 DEF PluginsUnderway, ScriptsUnderway
  <2>9. u.transition.step \in {"ACTIVATE_PLUGINS", "ACTIVATE_SCRIPTS"}
    BY <1>3, <2>3, <2>4 DEF Due
  <2>10. DInv(u, config)
    BY <2>5, <2>7, <2>8, <2>9, GoingInv DEF AllEnabled, Early
  <2>11. r \in Worlds /\ DInv(r, config) /\ Attached(u, r)
    BY <2>1, <2>5, <2>9, <2>10, AdvancePluginsInv
  <2> QED BY <2>4, <2>11 DEF Attached
<1> QED BY <1>1, <1>2, <1>3

-----------------------------------------------------------------------------
(* A component can only be underway while plugins or scripts are awaited.  *)
LEMMA UnderwayWhen ==
  ASSUME NEW w \in Worlds, DInv(w, config), NEW p \in Components, w.phase[p] \in Underway
  PROVE  /\ w.transition.step \in {"ACTIVATE_PLUGINS", "ACTIVATE_SCRIPTS", "ERROR"}
         /\ p \in Elems(w.registered)
<1>1. p \in Elems(w.registered)
  BY DEF DInv, Listed, Underway
<1>2. w.transition.step \notin Early
  BY DEF DInv, BeforePlugins, Underway
<1>3. w.transition.step # "CLEANUP"
  BY <1>1 DEF DInv, AllEnabled, Underway
<1>4. w.transition.step \in Steps
  BY WorldFacts
<1> QED BY <1>1, <1>2, <1>3, <1>4 DEF Steps, Early

(* What holds when a component is being enabled; the engine has registered *)
(* its scripts by then.                                                    *)
Enabling(w, p, c) ==
  /\ w.transition.step \in {"ACTIVATE_PLUGINS", "ACTIVATE_SCRIPTS", "ERROR"}
  /\ FailureTold(w) /\ SourcesMatch(w) /\ Listed(w, c) /\ Loaded(w, c) /\ Counted(w, 0)
  /\ PluginsUnderway(w, c) /\ ScriptsUnderway(w, c) /\ ScriptsLast(w, c)
  /\ w.pw_core = "connecting" => w.transition.step = "ERROR"
  /\ \A i \in DOMAIN w.idle : w.idle[i].type # "start"
  /\ IF p = Engine THEN w.scripts = <<>> ELSE EngineRegisters(w)

(* wp_object_update_features of a component that is being enabled.         *)
LEMMA EnabledInv ==
  ASSUME NEW w \in Worlds, NEW p \in Components, Enabling(w, p, config), NoSource(w, p),
         w.phase[p] \in Underway, NEW r, r = Enabled(w, p)
  PROVE  r \in Worlds /\ DInv(r, config) /\ Attached(w, r)
<1>1. r = [w EXCEPT !.idle = Append(@, Source("advance", p)), !.phase[p] = "finishing"]
  BY DEF Enabled, Attach, Worlds
<1>2. r \in Worlds /\ SourcesMatch(r) /\ Attached(w, r)
  BY <1>1, AttachAdvance DEF Enabling
<1>3. /\ r.transition = w.transition /\ r.registered = w.registered /\ r.scripts = w.scripts
      /\ r.pw_core = w.pw_core /\ r.running = w.running /\ r.exit_code = w.exit_code
      /\ r.phase = [w.phase EXCEPT ![p] = "finishing"]
  BY <1>1 DEF Worlds
<1>4. \A q \in Components : r.phase[q] = IF q = p THEN "finishing" ELSE w.phase[q]
  BY <1>3, WorldFacts
<1>5. Pending(r) = Pending(w) /\ \A i \in DOMAIN r.idle : r.idle[i].type # "start"
  BY <1>2, <1>4 DEF Pending, Underway, Attached, Enabling
<1>6. Listed(r, config)
  BY <1>3, <1>4 DEF Enabling, Listed, Underway
<1>7. EngineRegisters(r)
  BY <1>3, <1>4, NameFacts DEF Enabling, EngineRegisters, Underway
<1>8. ScriptsLast(r, config)
  BY <1>3, <1>4, NameFacts DEF Enabling, ScriptsLast, Underway
<1>9. Steady(r, config)
  BY <1>2, <1>5, <1>6, <1>7, <1>8 DEF Steady, Enabling, Counted
<1>10. CASE w.transition.step = "ERROR"
  BY <1>2, <1>3, <1>9, <1>10, GoneInv DEF Enabling, FailureTold
<1>11. CASE w.transition.step # "ERROR"
  <2>1. w.transition.step \in {"ACTIVATE_PLUGINS", "ACTIVATE_SCRIPTS"} /\ ~w.transition.gone
    BY <1>11 DEF Enabling, FailureTold
  <2>2. Going(r, config, 0)
    BY <1>3, <1>5, <1>9, <2>1 DEF Going, Counted, Enabling, Loaded
  <2>3. \A q \in Elems(r.registered) : q \in Components
    BY <1>2, WorldFacts DEF Elems
  <2>4. PluginsUnderway(r, config)
    BY <1>3, <1>4, <2>3 DEF Enabling, PluginsUnderway, Underway
  <2>5. ScriptsUnderway(r, config)
    BY <1>3, <1>4, <2>3 DEF Enabling, ScriptsUnderway, Underway
  <2>6. AllEnabled(r, config) /\ r.transition.step \notin Early \cup {"ERROR"}
    BY <1>3, <2>1 DEF AllEnabled, Early
  <2> QED BY <1>2, <2>2, <2>4, <2>5, <2>6, GoingInv
<1> QED BY <1>10, <1>11

LEMMA InvEnabling ==
  ASSUME NEW w \in Worlds, DInv(w, config), NEW p \in Components, w.phase[p] \in Underway, p # Engine
  PROVE  Enabling(w, p, config)
<1>1. Steady(w, config) /\ w.transition.step \in {"ACTIVATE_PLUGINS", "ACTIVATE_SCRIPTS", "ERROR"}
  BY SteadyFacts, UnderwayWhen
<1> QED BY <1>1 DEF DInv, Enabling, Steady, StartFirst

(* A component ends: it is enabled, or it has failed.                      *)
LEMMA EndsDue ==
  ASSUME NEW w \in Worlds, DInv(w, config), NEW p \in Components, NoSource(w, p),
         w.phase[p] \in Underway, NEW ph \in {"enabled", "failed"},
         p = Engine => ph = "enabled" /\ w.scripts = <<>>,
         NEW u, u = [w EXCEPT !.phase[p] = ph]
  PROVE  /\ u \in Worlds /\ Due(u, config) /\ Attached(w, u)
         /\ ph = "enabled" => PluginsUnderway(u, config) /\ ScriptsUnderway(u, config)
<1>1. u \in Worlds
  <2>1. [w.phase EXCEPT ![p] = ph] \in [Components -> Phases]
    BY WorldFacts DEF Phases
  <2> QED BY <2>1 DEF Worlds
<1>2. SourcesMatch(w) /\ Steady(w, config)
  BY SteadyFacts, UnderwayWhen DEF DInv
<1>3. /\ u.transition = w.transition /\ u.registered = w.registered /\ u.scripts = w.scripts
      /\ u.pw_core = w.pw_core /\ u.running = w.running /\ u.exit_code = w.exit_code
      /\ u.phase = [w.phase EXCEPT ![p] = ph] /\ u.idle = w.idle
  BY DEF Worlds
<1>4. \A q \in Components : u.phase[q] = IF q = p THEN ph ELSE w.phase[q]
  BY <1>3, WorldFacts
<1>5. SourcesMatch(u) /\ \A i \in DOMAIN u.idle : u.idle[i].type # "start"
  BY <1>2, <1>3, <1>4 DEF SourcesMatch, NoSource, Advances, Steady
<1>6. IsFiniteSet(Pending(u)) /\ Cardinality(Pending(u)) = Cardinality(Pending(w)) - 1
  <2>1. Pending(u) = Pending(w) \ {p} /\ p \in Pending(w)
    BY <1>4 DEF Pending, Underway
  <2> QED BY <1>2, <2>1, FS_RemoveElement DEF Steady
<1>7. Listed(u, config) /\ EngineRegisters(u)
  BY <1>2, <1>3, <1>4, NameFacts DEF Steady, Listed, EngineRegisters, Underway
<1>8. ScriptsLast(u, config)
  BY <1>2, <1>3, <1>4, NameFacts DEF Steady, ScriptsLast, Underway
<1>9. Steady(u, config) /\ FailureTold(u) /\ Attached(w, u)
  BY <1>3, <1>5, <1>6, <1>7, <1>8, SelfFacts DEF Steady, DInv, FailureTold, Attached
<1>10. ASSUME ~u.transition.gone
       PROVE  Going(u, config, 1) /\ u.transition.step \in {"ACTIVATE_PLUGINS", "ACTIVATE_SCRIPTS"}
  <2>1. w.transition.step \in {"ACTIVATE_PLUGINS", "ACTIVATE_SCRIPTS"} /\ ~w.transition.gone
    BY <1>3, <1>10, UnderwayWhen DEF DInv, FailureTold
  <2>2. Going(w, config, 0)
    BY <2>1, InvGoing
  <2>3. Cardinality(Pending(w)) \in Nat /\ w.transition.pending_plugins = Cardinality(Pending(w)) + 0
    BY <2>1, <2>2, FS_CardinalityType DEF Going, Counted
  <2>4. u.transition.pending_plugins = Cardinality(Pending(u)) + 1
    BY <1>3, <1>6, <2>3
  <2> QED BY <1>3, <1>6, <1>9, <2>1, <2>2, <2>4 DEF Going, Counted
<1>11. ASSUME ph = "enabled" PROVE PluginsUnderway(u, config) /\ ScriptsUnderway(u, config)
  <2>1. \A q \in Elems(u.registered) : q \in Components
    BY <1>1, WorldFacts DEF Elems
  <2>2. PluginsUnderway(u, config)
    BY <1>3, <1>4, <1>11, <2>1 DEF DInv, PluginsUnderway, Underway
  <2>3. ScriptsUnderway(u, config)
    BY <1>3, <1>4, <1>11, <2>1 DEF DInv, ScriptsUnderway, Underway
  <2> QED BY <2>2, <2>3
<1> QED BY <1>1, <1>9, <1>10, <1>11 DEF Due

LEMMA FailedInv ==
  ASSUME config \in Configs, NEW w \in Worlds, DInv(w, config), NEW p \in Components, NoSource(w, p),
         w.phase[p] \in Underway, p # Engine, NEW r, r = Failed(w, p)
  PROVE  r \in Worlds /\ DInv(r, config) /\ Attached(w, r)
<1> DEFINE u == [w EXCEPT !.phase[p] = "failed"]
<1>1. u \in Worlds /\ Due(u, config) /\ Attached(w, u)
  BY EndsDue
<1>2. r = OnPluginActivated(u, p, FALSE)
  BY DEF Failed
<1> HIDE DEF u
<1>3. r \in Worlds /\ DInv(r, config) /\ Attached(u, r)
  BY <1>1, <1>2, OnPluginActivatedInv
<1>4. Len(w.idle) \in Nat /\ Len(u.idle) \in Nat /\ Len(r.idle) \in Nat
  BY <1>1, <1>3, SelfFacts
<1> QED BY <1>1, <1>3, <1>4 DEF Attached

-----------------------------------------------------------------------------
(* wp_lua_scripting_plugin_enable                                          *)
LEMMA EnableEngineInv ==
  ASSUME config \in Configs, NEW w \in Worlds, DInv(w, config), NoSource(w, Engine),
         w.phase[Engine] = "queued", NEW r, r = EnableEngine(w)
  PROVE  r \in Worlds /\ DInv(r, config) /\ Attached(w, r)
<1> DEFINE list == w.scripts
           n == [w EXCEPT !.scripts = <<>>]
           b == FoldLeft(Register, n, list)
<1>1. Steady(w, config) /\ Engine \in Elems(w.registered) /\ Engine \in Components
      /\ w.transition.step \in {"ACTIVATE_PLUGINS", "ACTIVATE_SCRIPTS", "ERROR"}
  BY SteadyFacts, UnderwayWhen, NameFacts DEF Underway
<1>2. n \in Worlds
  <2>1. <<>> \in Seq(Scripts)
    OBVIOUS
  <2> QED BY <2>1 DEF Worlds
<1>3. /\ n.transition = w.transition /\ n.registered = w.registered /\ n.scripts = <<>>
      /\ n.phase = w.phase /\ n.idle = w.idle /\ n.pw_core = w.pw_core
      /\ n.running = w.running /\ n.exit_code = w.exit_code
  BY DEF Worlds
<1>4. r = Enabled(b, Engine)
  BY DEF EnableEngine
<1>5. list \in Seq(Scripts)
  BY WorldFacts
<1> HIDE DEF n, list
<1>6. SourcesMatch(n) /\ Pending(n) = Pending(w) /\ Attached(w, n)
  BY <1>1, <1>3, SelfFacts DEF Steady, SourcesMatch, Advances, Pending, Attached
<1>7. Counted(n, 0)
  BY <1>3, <1>6 DEF DInv, Counted
<1>8. Distinct(n.registered) /\ Distinct(list) /\ Elems(n.registered) \cap Elems(list) = {}
  BY <1>1, <1>3 DEF Steady, Listed, list
<1>9. Elems(n.registered) \cap Scripts = {}
  BY <1>1, <1>3 DEF Steady, EngineRegisters
<1>10. \A s \in Scripts : n.phase[s] = "inactive"
  BY <1>1, <1>3, <1>9, NameFacts DEF Steady, Listed
<1>11. Elems(list) \subseteq Scripts
  BY <1>5 DEF Elems
<1>12. /\ b \in Worlds /\ SourcesMatch(b) /\ Counted(b, 0) /\ Attached(n, b) /\ Same(n, b)
       /\ Distinct(b.registered) /\ Elems(b.registered) = Elems(n.registered) \cup Elems(list)
       /\ b.phase = [p \in Components |->
            IF p \in Elems(list) /\ Interested(n, p) THEN "queued" ELSE n.phase[p]]
       /\ \A q : q \notin Elems(list) /\ NoSource(n, q) => NoSource(b, q)
  BY <1>2, <1>5, <1>6, <1>7, <1>8, <1>10, <1>11, RegisterAdds
<1> HIDE DEF b
<1>13. /\ b.scripts = <<>> /\ b.pw_core = w.pw_core /\ b.running = w.running /\ b.exit_code = w.exit_code
       /\ b.transition = [w.transition EXCEPT !.pending_plugins = b.transition.pending_plugins]
  BY <1>3, <1>12 DEF Same
<1>14. /\ b.transition.step = w.transition.step /\ b.transition.om = w.transition.om
       /\ b.transition.gone = w.transition.gone
  BY <1>13, WorldFacts DEF Transition
<1>15. /\ Elems(b.registered) = Elems(w.registered) \cup Elems(w.scripts) /\ Elems(b.scripts) = {}
       /\ Elems(list) = Elems(w.scripts)
  BY <1>3, <1>12, <1>13 DEF list, Elems
<1>16. \A q \in Components : b.phase[q] = IF q \in Elems(w.scripts) /\ Interested(w, q) THEN "queued" ELSE w.phase[q]
  <2>1. \A q : Interested(n, q) <=> Interested(w, q)
    BY <1>3 DEF Interested
  <2> QED BY <1>3, <1>12, <1>15, <2>1
<1>17. NoSource(b, Engine) /\ b.phase[Engine] = "queued"
  <2>1. NoSource(n, Engine)
    BY <1>3 DEF NoSource, Advances
  <2> QED BY <1>1, <1>11, <1>12, <1>15, <1>16, <2>1, NameFacts
<1>18. Attached(w, b) /\ \A i \in DOMAIN b.idle : b.idle[i].type # "start"
  <2>1. Len(w.idle) \in Nat /\ Len(n.idle) \in Nat /\ Len(b.idle) \in Nat
    BY <1>2, <1>12, SelfFacts
  <2> QED BY <1>1, <1>6, <1>12, <2>1 DEF Attached, Steady
<1>19. Listed(b, config)
  <2>1. Distinct(b.scripts)
    BY <1>13 DEF Distinct
  <2> QED BY <1>1, <1>12, <1>13, <1>15, <1>16, <2>1 DEF Steady, Listed
<1>20. \A q : Interested(w, q) <=>
          \/ w.transition.step = "ACTIVATE_PLUGINS" /\ (q # Engine \/ config.engine = None)
          \/ w.transition.step = "ACTIVATE_SCRIPTS" /\ q \in Scripts
  <2>1. None # "plugins" /\ None # "scripts"
    BY NameFacts
  <2> QED BY <1>1, <2>1 DEF Interested, DInv, FailureTold, PluginsUnderway, ScriptsUnderway
<1>21. w.transition.step = "ACTIVATE_PLUGINS" => config.engine = None
  BY <1>1 DEF DInv, PluginsUnderway, Underway
<1>22. ScriptsLast(b, config)
  <2> SUFFICES ASSUME NEW s \in Scripts, NEW p \in Plugins, config.engine = Engine,
                      b.phase[s] # "inactive", p \in Elems(config.components)
               PROVE  b.phase[p] = "enabled"
    BY DEF ScriptsLast
  <2>1. w.transition.step = "ACTIVATE_SCRIPTS"
    BY <1>1, <1>3, <1>10, <1>16, <1>20, <1>21, NameFacts
  <2>2. p \in Elems(w.registered)
    BY <1>11, <1>15, <2>1, NameFacts DEF DInv, Loaded
  <2>3. w.phase[p] = "enabled"
    BY <2>1, <2>2 DEF DInv, ScriptsUnderway
  <2> QED BY <1>11, <1>15, <1>16, <2>3, NameFacts
<1>23. \A q \in Elems(b.registered) : q \in Components
  BY <1>12, WorldFacts DEF Elems
<1>24. PluginsUnderway(b, config)
  <2> SUFFICES ASSUME w.transition.step = "ACTIVATE_PLUGINS"
               PROVE  /\ b.transition.om = "plugins"
                      /\ \A p \in Elems(b.registered) : b.phase[p] \in Underway \cup {"enabled"}
    BY <1>14, <1>21 DEF PluginsUnderway
  <2> QED BY <1>14, <1>15, <1>16, <1>20, <1>21, <1>23 DEF DInv, PluginsUnderway, Underway
<1>25. ScriptsUnderway(b, config)
  <2> SUFFICES ASSUME w.transition.step = "ACTIVATE_SCRIPTS"
               PROVE  /\ b.transition.om = "scripts" /\ config.engine = Engine
                      /\ \A p \in Elems(b.registered) :
                           /\ b.phase[p] \in Underway \cup {"enabled"}
                           /\ p \in Plugins => b.phase[p] = "enabled"
    BY <1>1, <1>14, <1>15 DEF ScriptsUnderway
  <2>1. \A p \in Elems(w.registered) :
          w.phase[p] \in Underway \cup {"enabled"} /\ (p \in Plugins => w.phase[p] = "enabled")
    BY DEF DInv, ScriptsUnderway
  <2>2. \A p \in Elems(w.scripts) : b.phase[p] = "queued" /\ p \notin Plugins
    BY <1>11, <1>15, <1>16, <1>20, NameFacts
  <2>3. \A p \in Elems(w.registered) : p \notin Elems(w.scripts) => b.phase[p] = w.phase[p]
    BY <1>15, <1>16, <1>23
  <2>4. \A p \in Elems(b.registered) :
          b.phase[p] \in Underway \cup {"enabled"} /\ (p \in Plugins => b.phase[p] = "enabled")
    BY <1>15, <2>1, <2>2, <2>3 DEF Underway
  <2> QED BY <1>14, <2>4 DEF DInv, ScriptsUnderway
<1>26. FailureTold(b) /\ Loaded(b, config) /\ (b.pw_core = "connecting" => b.transition.step = "ERROR")
  <2>1. FailureTold(b)
    BY <1>13, <1>14 DEF DInv, FailureTold
  <2>2. Loaded(b, config)
    BY <1>14, <1>15 DEF DInv, Loaded
  <2> QED BY <1>1, <1>13, <1>14, <2>1, <2>2 DEF DInv, StartFirst
<1>27. Enabling(b, Engine, config)
  BY <1>1, <1>12, <1>13, <1>14, <1>18, <1>19, <1>22, <1>24, <1>25, <1>26 DEF Enabling
<1>28. r \in Worlds /\ DInv(r, config) /\ Attached(b, r)
  BY <1>1, <1>4, <1>12, <1>17, <1>27, EnabledInv DEF Underway
<1>29. Attached(w, r)
  <2>1. Len(w.idle) \in Nat /\ Len(b.idle) \in Nat /\ Len(r.idle) \in Nat
    BY <1>12, <1>28, SelfFacts
  <2> QED BY <1>18, <1>28, <2>1 DEF Attached
<1> QED BY <1>28, <1>29

-----------------------------------------------------------------------------
(* wp_object_advance_transitions of a component                            *)
LEMMA AdvancePluginInv ==
  ASSUME config \in Configs, NEW w \in Worlds, DInv(w, config), NEW p \in Components, NoSource(w, p),
         w.phase[p] \in {"queued", "finishing"}, NEW outcome \in Outcomes(p),
         NEW r, r = AdvancePlugin(w, p, outcome)
  PROVE  r \in Worlds /\ DInv(r, config) /\ Attached(w, r)
<1>1. CASE w.phase[p] = "finishing"
  <2> DEFINE u == [w EXCEPT !.phase[p] = "enabled"]
  <2>1. r = OnPluginActivated(u, p, TRUE)
    BY <1>1 DEF AdvancePlugin
  <2>2. p = Engine => w.scripts = <<>>
    BY <1>1 DEF DInv, EngineRegisters
  <2>3. u \in Worlds /\ Due(u, config) /\ Attached(w, u) /\ PluginsUnderway(u, config) /\ ScriptsUnderway(u, config)
    BY <1>1, <2>2, EndsDue DEF Underway
  <2> HIDE DEF u
  <2>4. r \in Worlds /\ DInv(r, config) /\ Attached(u, r)
    BY <2>1, <2>3, OnPluginActivatedInv
  <2>5. Len(w.idle) \in Nat /\ Len(u.idle) \in Nat /\ Len(r.idle) \in Nat
    BY <2>3, <2>4, SelfFacts
  <2> QED BY <2>3, <2>4, <2>5 DEF Attached
<1>2. CASE w.phase[p] = "queued" /\ p = Engine
  <2>1. r = EnableEngine(w)
    BY <1>2 DEF AdvancePlugin
  <2> QED BY <1>2, <2>1, EnableEngineInv
<1>3. CASE w.phase[p] = "queued" /\ p # Engine
  <2>1. w.phase[p] \in Underway
    BY <1>3 DEF Underway
  <2>2. outcome \in {"done", "later", "failed"}
    BY DEF Outcomes
  <2>3. CASE outcome = "done"
    <3>1. r = Enabled(w, p)
      BY <1>3, <2>3 DEF AdvancePlugin
    <3>2. Enabling(w, p, config)
      BY <1>3, <2>1, InvEnabling
    <3> QED BY <2>1, <3>1, <3>2, EnabledInv
  <2>4. CASE outcome = "failed"
    <3>1. r = Failed(w, p)
      BY <1>3, <2>4 DEF AdvancePlugin
    <3> QED BY <1>3, <2>1, <3>1, FailedInv
  <2>5. CASE outcome = "later"
    <3>1. r = [w EXCEPT !.phase[p] = "enabling"]
      BY <1>3, <2>5 DEF AdvancePlugin
    <3>2. [w.phase EXCEPT ![p] = "enabling"] \in [Components -> Phases]
      BY WorldFacts DEF Phases
    <3>3. r \in Worlds
      BY <3>1, <3>2 DEF Worlds
    <3>4. /\ r.transition = w.transition /\ r.registered = w.registered /\ r.scripts = w.scripts
          /\ r.pw_core = w.pw_core /\ r.running = w.running /\ r.exit_code = w.exit_code
          /\ r.phase = [w.phase EXCEPT ![p] = "enabling"] /\ r.idle = w.idle
      BY <3>1 DEF Worlds
    <3>5. \A q \in Components : r.phase[q] = IF q = p THEN "enabling" ELSE w.phase[q]
      BY <3>4, WorldFacts
    <3>6. Attached(w, r) /\ Pending(r) = Pending(w)
      BY <2>1, <3>4, <3>5, SelfFacts DEF Attached, Pending, Underway
    <3>7. SourcesMatch(r)
      BY <3>4, <3>5 DEF DInv, SourcesMatch, NoSource, Advances
    <3>8. Listed(r, config)
      BY <1>3, <3>4, <3>5 DEF DInv, Listed
    <3>9. EngineRegisters(r)
      BY <1>3, <3>4, <3>5, NameFacts DEF DInv, EngineRegisters
    <3>10. ScriptsLast(r, config)
      BY <1>3, <3>4, <3>5, NameFacts DEF DInv, ScriptsLast
    <3>11. Steady(w, config) /\ w.transition.step \in {"ACTIVATE_PLUGINS", "ACTIVATE_SCRIPTS", "ERROR"}
      BY <2>1, SteadyFacts, UnderwayWhen
    <3>12. Steady(r, config)
      BY <3>4, <3>6, <3>7, <3>8, <3>9, <3>10, <3>11 DEF Steady
    <3>13. CASE w.transition.step = "ERROR"
      BY <3>3, <3>4, <3>6, <3>12, <3>13, GoneInv DEF DInv, FailureTold
    <3>14. CASE w.transition.step # "ERROR"
      <4>1. Going(w, config, 0) /\ w.transition.step \in {"ACTIVATE_PLUGINS", "ACTIVATE_SCRIPTS"}
        BY <3>11, <3>14, InvGoing
      <4>2. Going(r, config, 0)
        BY <3>4, <3>6, <3>12, <4>1 DEF Going, Counted
      <4>3. \A q \in Elems(r.registered) : q \in Components
        BY <3>3, WorldFacts DEF Elems
      <4>4. PluginsUnderway(r, config)
        BY <1>3, <3>4, <3>5, <4>3 DEF DInv, PluginsUnderway, Underway
      <4>5. ScriptsUnderway(r, config)
        BY <1>3, <3>4, <3>5, <4>3 DEF DInv, ScriptsUnderway, Underway
      <4>6. AllEnabled(r, config) /\ r.transition.step \notin Early \cup {"ERROR"}
        BY <3>4, <4>1 DEF AllEnabled, Early
      <4> QED BY <3>3, <3>6, <4>2, <4>4, <4>5, <4>6, GoingInv
    <3> QED BY <3>13, <3>14
  <2> QED BY <2>2, <2>3, <2>4, <2>5
<1> QED BY <1>1, <1>2, <1>3

(* A world that differs in what the invariant does not tell of.            *)
LEMMA LikeInv ==
  ASSUME NEW w \in Worlds, DInv(w, config), NEW a,
         a.phase = w.phase, a.idle = w.idle, a.registered = w.registered, a.scripts = w.scripts,
         a.transition.step = w.transition.step, a.transition.om = w.transition.om,
         a.transition.gone = w.transition.gone,
         a.transition.pending_plugins = w.transition.pending_plugins,
         a.pw_core = w.pw_core \/ (a.pw_core # "connecting" /\ w.transition.step # "NONE"),
         a.running = w.running \/ ~a.running, a.exit_code = w.exit_code \/ a.exit_code # "OK"
  PROVE  DInv(a, config) /\ Attached(w, a)
<1>1. Attached(w, a)
  BY SelfFacts DEF Attached
<1>2. FailureTold(a) /\ SourcesMatch(a) /\ StartFirst(a)
  BY DEF DInv, FailureTold, SourcesMatch, Advances, StartFirst
<1>3. Listed(a, config) /\ EngineRegisters(a) /\ Loaded(a, config) /\ Counted(a, 0)
  BY DEF DInv, Listed, EngineRegisters, Loaded, Counted, Pending
<1>4. BeforePlugins(a) /\ PluginsUnderway(a, config) /\ ScriptsUnderway(a, config)
      /\ AllEnabled(a, config) /\ ScriptsLast(a, config)
  BY DEF DInv, BeforePlugins, PluginsUnderway, ScriptsUnderway, AllEnabled, ScriptsLast
<1> QED BY <1>1, <1>2, <1>3, <1>4 DEF DInv

(* wp_core_disconnect                                                      *)
LEMMA DisconnectInv ==
  ASSUME NEW w \in Worlds, DInv(w, config), NEW r, r = Disconnect(w)
  PROVE  r \in Worlds /\ DInv(r, config) /\ Attached(w, r)
<1>1. CASE w.pw_core = "NULL"
  BY <1>1, SelfFacts DEF Disconnect, Attached
<1>2. CASE w.pw_core # "NULL"
  <2>1. r = [w EXCEPT !.pw_core = "NULL", !.running = FALSE]
    BY <1>2 DEF Disconnect, DaemonExit, Worlds
  <2>2. r \in Worlds
    BY <2>1 DEF Worlds
  <2>3. /\ r.transition = w.transition /\ r.registered = w.registered /\ r.scripts = w.scripts
        /\ r.phase = w.phase /\ r.idle = w.idle /\ r.pw_core = "NULL" /\ r.running = FALSE
        /\ r.exit_code = w.exit_code
    BY <2>1 DEF Worlds
  <2>4. w.transition.step # "NONE"
    BY <1>2 DEF DInv, StartFirst
  <2> QED BY <2>2, <2>3, <2>4, LikeInv
<1> QED BY <1>1, <1>2

-----------------------------------------------------------------------------
(* The inductive invariant of the daemon.                                  *)
DaemonInv ==
  /\ config \in Configs /\ World \in Worlds /\ DInv(World, config)
  /\ batch \in 0..Len(idle) /\ exited \in BOOLEAN

LEMMA WorldFields ==
  /\ World.transition = transition /\ World.registered = registered /\ World.scripts = scripts
  /\ World.phase = phase /\ World.idle = idle /\ World.pw_core = pw_core /\ World.running = running
  /\ World.exit_code = exit_code /\ World.misused = misused
BY DEF World

LEMMA StepInv ==
  ASSUME config \in Configs, NEW r \in Worlds, DInv(r, config), Becomes(r),
         config' = config, batch' \in 0..Len(r.idle), exited' \in BOOLEAN
  PROVE  DaemonInv'
<1>1. World' = r
  BY DEF World, Becomes, Worlds
<1>2. idle' = r.idle
  BY DEF Becomes
<1> QED BY <1>1, <1>2 DEF DaemonInv

(* The idle source that is dispatched is taken from the list.              *)
LEMMA TakenFacts ==
  ASSUME DaemonInv, batch > 0, NEW t, t = Taken
  PROVE  /\ t \in Worlds /\ t = [World EXCEPT !.idle = Tail(idle)]
         /\ t.transition = transition /\ t.registered = registered /\ t.scripts = scripts
         /\ t.phase = phase /\ t.idle = Tail(idle) /\ t.pw_core = pw_core /\ t.running = running
         /\ t.exit_code = exit_code
         /\ batch - 1 \in 0..Len(t.idle)
         /\ Head(idle).type = "start" => transition.step = "NONE" /\ t.idle = <<>>
         /\ Head(idle).type # "start" => transition.step # "NONE" /\ DInv(t, config)
         /\ Head(idle).type = "advance" =>
              /\ Head(idle).of \in Components /\ NoSource(t, Head(idle).of)
              /\ phase[Head(idle).of] \in {"queued", "finishing"}
<1>1. idle \in Seq(Sources) /\ batch \in 0..Len(idle)
  BY WorldFields DEF DaemonInv, Worlds
<1>2. Len(idle) \in Nat /\ Len(idle) > 0
  BY <1>1
<1>3. idle # <<>> /\ Head(idle) = idle[1] /\ 1 \in DOMAIN idle /\ Tail(idle) \in Seq(Sources)
      /\ Len(Tail(idle)) = Len(idle) - 1
  BY <1>1, <1>2
<1>4. \A i \in DOMAIN Tail(idle) : i + 1 \in DOMAIN idle /\ Tail(idle)[i] = idle[i + 1] /\ i \in Nat /\ i + 1 # 1
  BY <1>1, <1>2
<1>5. t = [World EXCEPT !.idle = Tail(idle)]
  BY WorldFields DEF Taken
<1>6. t \in Worlds
  BY <1>3, <1>5 DEF DaemonInv, Worlds
<1>7. /\ t.transition = transition /\ t.registered = registered /\ t.scripts = scripts
      /\ t.phase = phase /\ t.idle = Tail(idle) /\ t.pw_core = pw_core /\ t.running = running
      /\ t.exit_code = exit_code
  BY <1>5, WorldFields DEF World
<1>8. batch - 1 \in 0..Len(t.idle)
  BY <1>1, <1>3, <1>7
<1>9. Head(idle).type = "start" => transition.step = "NONE" /\ t.idle = <<>>
  <2> SUFFICES ASSUME idle[1].type = "start" PROVE transition.step = "NONE" /\ Tail(idle) = <<>>
    BY <1>3, <1>7
  <2>1. transition.step = "NONE"
    BY <1>3, WorldFields DEF DaemonInv, DInv, StartFirst
  <2>2. idle = <<Source("start", None)>>
    BY <2>1, WorldFields DEF DaemonInv, DInv, StartFirst
  <2> QED BY <2>1, <2>2
<1>10. Head(idle).type # "start" => transition.step # "NONE"
  <2> SUFFICES ASSUME transition.step = "NONE" PROVE Head(idle).type = "start"
    OBVIOUS
  <2>1. idle = <<Source("start", None)>>
    BY WorldFields DEF DaemonInv, DInv, StartFirst
  <2> QED BY <2>1 DEF Source
<1>11. SourcesMatch(World) /\ World.idle = idle /\ World.phase = phase
  BY WorldFields DEF DaemonInv, DInv
<1>12. SourcesMatch(t)
  <2>1. \A i \in DOMAIN t.idle :
          Advances(t, i) => t.idle[i].of \in Components /\ t.phase[t.idle[i].of] \in {"queued", "finishing"}
    BY <1>4, <1>7, <1>11 DEF SourcesMatch, Advances
  <2>2. \A i, j \in DOMAIN t.idle :
          Advances(t, i) /\ Advances(t, j) /\ t.idle[i].of = t.idle[j].of => i = j
    <3> SUFFICES ASSUME NEW i \in DOMAIN t.idle, NEW j \in DOMAIN t.idle,
                        Advances(t, i), Advances(t, j), t.idle[i].of = t.idle[j].of
                 PROVE  i = j
      OBVIOUS
    <3>1. i \in Nat /\ j \in Nat /\ i + 1 \in DOMAIN idle /\ j + 1 \in DOMAIN idle
          /\ t.idle[i] = idle[i + 1] /\ t.idle[j] = idle[j + 1]
      BY <1>4, <1>7
    <3>2. i + 1 = j + 1
      BY <1>11, <3>1 DEF SourcesMatch, Advances
    <3> QED BY <3>1, <3>2
  <2> QED BY <2>1, <2>2 DEF SourcesMatch
<1>13. Head(idle).type = "advance" =>
         /\ Head(idle).of \in Components /\ NoSource(t, Head(idle).of)
         /\ phase[Head(idle).of] \in {"queued", "finishing"}
  <2> SUFFICES ASSUME idle[1].type = "advance"
               PROVE  /\ idle[1].of \in Components /\ NoSource(t, idle[1].of)
                      /\ phase[idle[1].of] \in {"queued", "finishing"}
    BY <1>3
  <2>1. idle[1].of \in Components /\ phase[idle[1].of] \in {"queued", "finishing"}
    BY <1>3, <1>11 DEF SourcesMatch, Advances
  <2>2. NoSource(t, idle[1].of)
    <3> SUFFICES ASSUME NEW i \in DOMAIN t.idle, Advances(t, i), t.idle[i].of = idle[1].of PROVE FALSE
      BY DEF NoSource
    <3>1. i + 1 \in DOMAIN idle /\ t.idle[i] = idle[i + 1] /\ i + 1 # 1
      BY <1>4, <1>7
    <3> QED BY <1>3, <1>11, <3>1 DEF SourcesMatch, Advances
  <2> QED BY <2>1, <2>2
<1>14. ASSUME transition.step # "NONE" PROVE DInv(t, config)
  <2>1. DInv(World, config) /\ World \in Worlds /\ World.transition.step # "NONE"
    BY <1>14, WorldFields DEF DaemonInv
  <2>2. \A i \in DOMAIN World.idle : World.idle[i].type # "start"
    BY <2>1 DEF DInv, StartFirst
  <2>3. \A i \in DOMAIN t.idle : t.idle[i].type # "start"
    BY <1>4, <1>7, <1>11, <2>2
  <2>4. StartFirst(t)
    BY <1>7, <2>1, <2>3, WorldFields DEF DInv, StartFirst
  <2>5. FailureTold(t) /\ Listed(t, config) /\ EngineRegisters(t) /\ Loaded(t, config) /\ Counted(t, 0)
    BY <1>7, <2>1, WorldFields DEF DInv, FailureTold, Listed, EngineRegisters, Loaded, Counted, Pending
  <2>6. BeforePlugins(t) /\ PluginsUnderway(t, config) /\ ScriptsUnderway(t, config)
        /\ AllEnabled(t, config) /\ ScriptsLast(t, config)
    BY <1>7, <2>1, WorldFields DEF DInv, BeforePlugins, PluginsUnderway, ScriptsUnderway, AllEnabled, ScriptsLast
  <2> QED BY <1>12, <2>4, <2>5, <2>6 DEF DInv
<1> QED BY <1>5, <1>6, <1>7, <1>8, <1>9, <1>10, <1>13, <1>14

-----------------------------------------------------------------------------
LEMMA EmptyList == Elems(<<>>) = {} /\ Distinct(<<>>)
<1>1. DOMAIN <<>> = {}
  OBVIOUS
<1> QED BY <1>1, Zenon DEF Elems, Distinct

LEMMA DispatchStartInv == DaemonInv /\ DispatchStart => DaemonInv'
<1> SUFFICES ASSUME DaemonInv, DispatchStart PROVE DaemonInv'
  OBVIOUS
<1> DEFINE n == [Taken EXCEPT !.transition.step = "LOAD_COMPONENTS"]
<1>1. config \in Configs /\ batch > 0 /\ Head(idle).type = "start" /\ exited \in BOOLEAN
  BY DEF DaemonInv, DispatchStart, Dispatches
<1>2. PICK bad \in ToSet(config.components) \cup {None}, result \in {"connected", "refused", "partial"} : Becomes(InitStart(Taken, bad, result))
  BY DEF DispatchStart
<1>3. PICK t : t = Taken
  OBVIOUS
<1>4. /\ t \in Worlds /\ t.transition = transition /\ t.registered = registered /\ t.scripts = scripts
      /\ t.phase = phase /\ t.idle = <<>> /\ t.pw_core = pw_core
      /\ batch - 1 \in 0..Len(t.idle) /\ transition.step = "NONE"
  BY <1>1, <1>3, TakenFacts
<1>5. DInv(World, config) /\ World \in Worlds
  BY DEF DaemonInv
<1>6. /\ registered = <<>> /\ scripts = <<>> /\ pw_core = "NULL"
      /\ \A p \in Components : phase[p] = "inactive"
      /\ transition.om = None /\ ~transition.gone
  BY <1>4, <1>5, WorldFields DEF DInv, StartFirst, BeforePlugins, FailureTold, Early
<1>7. transition.pending_plugins = 0
  <2>1. World.transition.pending_plugins = 0
    BY <1>5, <1>6, WorldFields, NoneUnderway DEF DInv, Underway
  <2> QED BY <2>1, WorldFields
<1>8. n.transition = [transition EXCEPT !.step = "LOAD_COMPONENTS"] /\ n \in Worlds
  <2>1. [transition EXCEPT !.step = "LOAD_COMPONENTS"] \in Transition
    BY <1>4, WorldFacts DEF Transition, Steps
  <2>2. n = [t EXCEPT !.transition = [transition EXCEPT !.step = "LOAD_COMPONENTS"]]
    BY <1>3, <1>4
  <2> QED BY <1>4, <2>1, <2>2 DEF Worlds
<1>9. n.registered = <<>> /\ n.scripts = <<>> /\ n.phase = phase /\ n.idle = <<>> /\ n.pw_core = "NULL"
  BY <1>3, <1>4, <1>6 DEF Worlds
<1>10. /\ n.transition.step = "LOAD_COMPONENTS" /\ ~n.transition.gone
       /\ n.transition.om = None /\ n.transition.pending_plugins = 0
  <2>1. transition \in Transition
    BY <1>4, WorldFacts
  <2> HIDE DEF n
  <2> QED BY <1>6, <1>7, <1>8, <2>1 DEF Transition
<1>11. Loading(n, {})
  <2>1. phase \in [Components -> Phases]
    BY <1>4, WorldFacts
  <2>2. phase = [p \in Components |-> "inactive"]
    BY <1>6, <2>1
  <2> HIDE DEF n
  <2>3. /\ Elems(n.registered) = {} /\ Distinct(n.registered)
        /\ Elems(n.scripts) = {} /\ Distinct(n.scripts)
    BY <1>9, EmptyList
  <2> QED BY <1>9, <1>10, <2>2, <2>3 DEF Loading
<1>12. InitStart(Taken, bad, result) =
         IF LoadComponents(n, bad).transition.gone THEN LoadComponents(n, bad)
         ELSE ConnectCores(LoadComponents(n, bad), result)
  BY DEF InitStart
<1> HIDE DEF n
<1>13. PICK r : r = InitStart(Taken, bad, result)
  OBVIOUS
<1>14. PICK b : b = LoadComponents(n, bad)
  OBVIOUS
<1>15. \/ b \in Worlds /\ Loading(b, Elems(config.components))
       \/ b \in Worlds /\ DInv(b, config) /\ Attached(n, b) /\ b.transition.gone
  BY <1>1, <1>8, <1>11, <1>14, LoadAll
<1>16. r \in Worlds /\ DInv(r, config)
  <2>1. CASE b.transition.gone
    BY <1>12, <1>13, <1>14, <1>15, <2>1 DEF Loading
  <2>2. CASE ~b.transition.gone
    <3>1. r = ConnectCores(b, result)
      BY <1>12, <1>13, <1>14, <2>2
    <3> QED BY <1>15, <2>2, <3>1, ConnectInv
  <2> QED BY <2>1, <2>2
<1>17. batch' \in 0..Len(r.idle)
  <2>1. batch' = batch - 1 /\ Len(t.idle) = 0 /\ Len(idle) \in Nat
    BY <1>4, <1>5, SelfFacts, WorldFields DEF DispatchStart, Dispatched
  <2>2. batch \in Nat
    BY <2>1 DEF DaemonInv
  <2>3. batch' = 0
    BY <1>4, <2>1, <2>2
  <2>4. Len(r.idle) \in Nat
    BY <1>16, SelfFacts
  <2> QED BY <2>3, <2>4
<1>18. config' = config /\ exited' \in BOOLEAN /\ Becomes(r)
  BY <1>1, <1>2, <1>13 DEF DispatchStart, Dispatched
<1> QED BY <1>1, <1>16, <1>17, <1>18, StepInv

(* An idle source other than init_start makes a world of the one without   *)
(* it.                                                                     *)
LEMMA DispatchedInv ==
  ASSUME DaemonInv, batch > 0, NEW t \in Worlds, batch - 1 \in 0..Len(t.idle),
         NEW r \in Worlds, DInv(r, config), Attached(t, r), Becomes(r), Dispatched
  PROVE  DaemonInv'
<1>1. Len(t.idle) \in Nat /\ Len(r.idle) \in Nat /\ Len(r.idle) >= Len(t.idle)
  BY SelfFacts DEF Attached
<1>2. batch' = batch - 1
  BY DEF Dispatched
<1>3. batch' \in 0..Len(r.idle)
  BY <1>1, <1>2
<1>4. config' = config /\ exited' = exited /\ config \in Configs /\ exited \in BOOLEAN
  BY DEF Dispatched, DaemonInv
<1> QED BY <1>3, <1>4, StepInv

LEMMA DispatchInstalledInv == DaemonInv /\ DispatchInstalled => DaemonInv'
<1> SUFFICES ASSUME DaemonInv, DispatchInstalled PROVE DaemonInv'
  OBVIOUS
<1>1. config \in Configs /\ batch > 0 /\ Head(idle).type = "installed" /\ Dispatched
  BY DEF DaemonInv, DispatchInstalled, Dispatches
<1>2. PICK t : t = Taken
  OBVIOUS
<1>3. /\ t \in Worlds /\ t.transition = transition /\ batch - 1 \in 0..Len(t.idle)
      /\ transition.step # "NONE" /\ DInv(t, config)
  BY <1>1, <1>2, TakenFacts
<1>4. CASE transition.om # "plugins"
  <2>1. Becomes(t)
    BY <1>2, <1>4 DEF DispatchInstalled
  <2>2. Attached(t, t)
    BY <1>3, SelfFacts DEF Attached
  <2> QED BY <1>1, <1>3, <2>1, <2>2, DispatchedInv
<1>5. CASE transition.om = "plugins"
  <2> DEFINE u == [t EXCEPT !.transition.settled = TRUE]
  <2>1. PICK r : r = AdvancePlugins(u)
    OBVIOUS
  <2>2. Becomes(r)
    BY <1>2, <1>5, <2>1 DEF DispatchInstalled
  <2>3. u \in Worlds /\ u.transition = [transition EXCEPT !.settled = TRUE]
    <3>1. [transition EXCEPT !.settled = TRUE] \in Transition
      BY <1>3, WorldFacts DEF Transition
    <3> QED BY <1>3, <3>1 DEF Worlds
  <2>4. /\ u.registered = t.registered /\ u.scripts = t.scripts /\ u.phase = t.phase /\ u.idle = t.idle
        /\ u.pw_core = t.pw_core /\ u.running = t.running /\ u.exit_code = t.exit_code
    BY <1>3 DEF Worlds
  <2>5. /\ u.transition.step = t.transition.step /\ u.transition.om = t.transition.om
        /\ u.transition.gone = t.transition.gone
        /\ u.transition.pending_plugins = t.transition.pending_plugins
    BY <1>3, <2>3, WorldFacts DEF Transition
  <2> HIDE DEF u
  <2>6. DInv(u, config) /\ Attached(t, u)
    BY <1>3, <2>4, <2>5, LikeInv
  <2>7. u.transition.step = "ACTIVATE_PLUGINS"
    <3>1. u.transition.om = "plugins"
      BY <1>3, <1>5, <2>5
    <3>2. None # "plugins" /\ u.transition.step \in Steps
      BY <2>3, NameFacts, WorldFacts
    <3> QED BY <2>6, <3>1, <3>2 DEF DInv, BeforePlugins, ScriptsUnderway, AllEnabled, FailureTold, Early, Steps
  <2>8. r \in Worlds /\ DInv(r, config) /\ Attached(u, r)
    BY <1>1, <2>1, <2>3, <2>6, <2>7, AdvancePluginsInv
  <2>9. Attached(t, r)
    BY <2>4, <2>8 DEF Attached
  <2> QED BY <1>1, <1>3, <2>2, <2>8, <2>9, DispatchedInv
<1> QED BY <1>4, <1>5

LEMMA DispatchAdvanceInv == DaemonInv /\ DispatchAdvance => DaemonInv'
<1> SUFFICES ASSUME DaemonInv, DispatchAdvance PROVE DaemonInv'
  OBVIOUS
<1>1. config \in Configs /\ batch > 0 /\ Head(idle).type = "advance" /\ Dispatched
  BY DEF DaemonInv, DispatchAdvance, Dispatches
<1>2. PICK t : t = Taken
  OBVIOUS
<1>3. PICK p : p = Head(idle).of
  OBVIOUS
<1>4. /\ t \in Worlds /\ t.phase = phase /\ batch - 1 \in 0..Len(t.idle) /\ DInv(t, config)
      /\ p \in Components /\ NoSource(t, p) /\ phase[p] \in {"queued", "finishing"}
  BY <1>1, <1>2, <1>3, TakenFacts
<1>5. PICK outcome \in Outcomes(p) : Becomes(AdvancePlugin(t, p, outcome))
  BY <1>2, <1>3 DEF DispatchAdvance
<1>6. PICK r : r = AdvancePlugin(t, p, outcome)
  OBVIOUS
<1>7. r \in Worlds /\ DInv(r, config) /\ Attached(t, r)
  BY <1>1, <1>4, <1>6, AdvancePluginInv
<1> QED BY <1>1, <1>4, <1>5, <1>6, <1>7, DispatchedInv

LEMMA DispatchDisconnectInv == DaemonInv /\ DispatchDisconnect => DaemonInv'
<1> SUFFICES ASSUME DaemonInv, DispatchDisconnect PROVE DaemonInv'
  OBVIOUS
<1>1. config \in Configs /\ batch > 0 /\ Head(idle).type = "disconnect" /\ Dispatched
  BY DEF DaemonInv, DispatchDisconnect, Dispatches
<1>2. PICK t : t = Taken
  OBVIOUS
<1>3. t \in Worlds /\ batch - 1 \in 0..Len(t.idle) /\ DInv(t, config)
  BY <1>1, <1>2, TakenFacts
<1>4. PICK r : r = Disconnect(t)
  OBVIOUS
<1>5. Becomes(r)
  BY <1>2, <1>4 DEF DispatchDisconnect
<1>6. r \in Worlds /\ DInv(r, config) /\ Attached(t, r)
  BY <1>3, <1>4, DisconnectInv
<1> QED BY <1>1, <1>3, <1>5, <1>6, DispatchedInv

-----------------------------------------------------------------------------
(* What happens between two iterations of the main loop.                   *)
LEMMA EventInv ==
  ASSUME DaemonInv, batch = 0, config' = config, batch' = batch, exited' \in BOOLEAN,
         NEW r \in Worlds, DInv(r, config), Becomes(r)
  PROVE  DaemonInv'
<1>1. Len(r.idle) \in Nat /\ config \in Configs
  BY SelfFacts DEF DaemonInv
<1>2. batch' \in 0..Len(r.idle)
  BY <1>1
<1> QED BY <1>1, <1>2, StepInv

(* core_info                                                               *)
LEMMA CoreInfoInv == DaemonInv /\ CoreInfo => DaemonInv'
<1> SUFFICES ASSUME DaemonInv, CoreInfo PROVE DaemonInv'
  OBVIOUS
<1> DEFINE t == [transition EXCEPT !.step = "CHECK_MEDIA_SESSION", !.om = "check", !.settled = FALSE]
           n == [World EXCEPT !.transition = t, !.pw_core = "connected"]
           b == FoldLeft(AddIfInterested, n, n.registered)
<1>1. /\ World \in Worlds /\ DInv(World, config) /\ running /\ pw_core = "connecting"
      /\ batch = 0 /\ batch' = batch /\ config' = config /\ exited' \in BOOLEAN
  BY DEF DaemonInv, CoreInfo, Event, InLoop
<1>2. transition.step = "CONNECT" /\ ~transition.gone
  <2>1. ~transition.gone
    BY <1>1, WorldFields DEF DInv, FailureTold
  <2> QED BY <1>1, <2>1, WorldFields DEF DInv, StartFirst, FailureTold
<1>3. /\ t \in Transition /\ t.step = "CHECK_MEDIA_SESSION" /\ t.om = "check" /\ ~t.gone
      /\ t.pending_plugins = transition.pending_plugins
  <2>1. transition \in Transition
    BY <1>1, WorldFields, WorldFacts
  <2> QED BY <1>2, <2>1 DEF Transition, Steps
<1>4. /\ n.transition = t /\ n.registered = registered /\ n.scripts = scripts
      /\ n.phase = phase /\ n.idle = idle /\ n.pw_core = "connected"
  BY WorldFields DEF World
<1>5. n \in Worlds
  BY <1>1, <1>3 DEF Worlds
<1>6. Becomes(b)
  <2>1. InstallOm([World EXCEPT !.pw_core = "connected", !.transition.step = "CHECK_MEDIA_SESSION"], "check") = b
    BY DEF InstallOm, World
  <2> QED BY <2>1 DEF CoreInfo
<1> HIDE DEF t, n
<1>7. Steady(n, config) /\ Pending(n) = Pending(World)
  <2>1. Steady(World, config)
    BY <1>1, <1>2, WorldFields, SteadyFacts
  <2> QED BY <1>1, <1>4, <2>1, WorldFields, SteadyLike
<1>8. Counted(n, 0)
  BY <1>1, <1>2, <1>3, <1>4, <1>7, WorldFields DEF Counted, DInv
<1>9. \A p : ~Interested(n, p)
  BY <1>3, <1>4 DEF Interested
<1>10. SourcesMatch(n) /\ Distinct(n.registered)
  BY <1>7 DEF Steady, Listed
<1>11. /\ b \in Worlds /\ SourcesMatch(b) /\ Counted(b, 0) /\ Attached(n, b) /\ Same(n, b)
       /\ b.phase = [p \in Components |->
            IF p \in Elems(n.registered) /\ Interested(n, p) THEN "queued" ELSE n.phase[p]]
       /\ b.registered = n.registered
  BY <1>5, <1>8, <1>9, <1>10, InstallAdds
<1> HIDE DEF b
<1>12. b.phase = phase /\ b.registered = registered /\ b.scripts = scripts /\ b.pw_core = "connected"
  <2>1. phase \in [Components -> Phases]
    BY <1>1, WorldFields, WorldFacts
  <2> QED BY <1>4, <1>9, <1>11, <2>1 DEF Same
<1>13. b.transition.step = "CHECK_MEDIA_SESSION" /\ b.transition.om = "check" /\ ~b.transition.gone
  <2>1. b.transition = [t EXCEPT !.pending_plugins = b.transition.pending_plugins]
    BY <1>4, <1>11 DEF Same
  <2> QED BY <1>3, <2>1 DEF Transition
<1>14. \A i \in DOMAIN b.idle : b.idle[i].type # "start"
  BY <1>7, <1>11 DEF Steady, Attached
<1>15. FailureTold(b) /\ StartFirst(b)
  BY <1>12, <1>13, <1>14 DEF FailureTold, StartFirst
<1>16. Listed(b, config) /\ EngineRegisters(b) /\ Loaded(b, config) /\ ScriptsLast(b, config)
  BY <1>1, <1>2, <1>12, WorldFields DEF DInv, Listed, EngineRegisters, Loaded, ScriptsLast
<1>17. BeforePlugins(b)
  BY <1>1, <1>2, <1>12, <1>13, WorldFields DEF DInv, BeforePlugins, Early
<1>18. DInv(b, config)
  BY <1>11, <1>13, <1>15, <1>16, <1>17 DEF DInv, PluginsUnderway, ScriptsUnderway, AllEnabled
<1> QED BY <1>1, <1>6, <1>11, <1>18, EventInv

(* The world in which the object manager has emitted installed.            *)
LEMMA SettledInv ==
  ASSUME DaemonInv, NEW u, u = [World EXCEPT !.transition.settled = TRUE]
  PROVE  u \in Worlds /\ DInv(u, config) /\ u.transition.step = transition.step
         /\ u.transition.om = transition.om
<1>1. World \in Worlds /\ DInv(World, config) /\ transition \in Transition
  BY WorldFields, WorldFacts DEF DaemonInv
<1>2. u = [World EXCEPT !.transition = [transition EXCEPT !.settled = TRUE]]
  BY WorldFields
<1>3. [transition EXCEPT !.settled = TRUE] \in Transition
  BY <1>1 DEF Transition
<1>4. u \in Worlds
  BY <1>1, <1>2, <1>3 DEF Worlds
<1>5. /\ u.transition = [transition EXCEPT !.settled = TRUE]
      /\ u.registered = World.registered /\ u.scripts = World.scripts /\ u.phase = World.phase
      /\ u.idle = World.idle /\ u.pw_core = World.pw_core /\ u.running = World.running
      /\ u.exit_code = World.exit_code
  BY <1>1, <1>2 DEF Worlds
<1>6. /\ u.transition.step = transition.step /\ u.transition.om = transition.om
      /\ u.transition.gone = transition.gone
      /\ u.transition.pending_plugins = transition.pending_plugins
  BY <1>1, <1>5 DEF Transition
<1> HIDE DEF World
<1>7. DInv(u, config)
  BY <1>1, <1>5, <1>6, WorldFields, LikeInv
<1> QED BY <1>4, <1>6, <1>7

LEMMA OmInstalledInv == DaemonInv /\ OmInstalled => DaemonInv'
<1> SUFFICES ASSUME DaemonInv, OmInstalled PROVE DaemonInv'
  OBVIOUS
<1>1. /\ config \in Configs /\ World \in Worlds /\ DInv(World, config)
      /\ batch = 0 /\ batch' = batch /\ config' = config /\ exited' \in BOOLEAN
  BY DEF DaemonInv, OmInstalled, Event, InLoop
<1>2. PICK u : u = [World EXCEPT !.transition.settled = TRUE]
  OBVIOUS
<1>3. u \in Worlds /\ DInv(u, config) /\ u.transition.step = transition.step
      /\ u.transition.om = transition.om
  BY <1>2, SettledInv
<1>4. u.transition.step \in Steps /\ None # "plugins" /\ None # "check"
  BY <1>3, WorldFacts, NameFacts
<1>5. CASE transition.om = "check"
  <2>1. u.transition.step = "CHECK_MEDIA_SESSION"
    BY <1>3, <1>4, <1>5 DEF DInv, BeforePlugins, PluginsUnderway, ScriptsUnderway, AllEnabled, FailureTold,
       Early, Steps
  <2>2. PICK found \in BOOLEAN, held \in BOOLEAN : Becomes(CheckMediaSession(u, found, held))
    BY <1>2, <1>5 DEF OmInstalled
  <2>3. PICK r : r = CheckMediaSession(u, found, held)
    OBVIOUS
  <2>4. r \in Worlds /\ DInv(r, config)
    <3>1. CASE found
      <4>1. r = ReturnError(u, "SOFTWARE") /\ "SOFTWARE" \in ExitCodes \ {"OK"}
        BY <2>3, <3>1 DEF CheckMediaSession, ExitCodes
      <4>2. Steady(u, config) /\ ~u.transition.gone
        BY <1>3, <2>1, SteadyFacts DEF DInv, FailureTold
      <4> QED BY <1>3, <4>1, <4>2, ReturnErrorInv
    <3>2. CASE ~found
      <4>1. r = ActivatePlugins(u, held)
        BY <2>3, <3>2 DEF CheckMediaSession
      <4> QED BY <1>1, <1>3, <2>1, <4>1, ActivatePluginsInv
    <3> QED BY <3>1, <3>2
  <2> QED BY <1>1, <2>2, <2>3, <2>4, EventInv
<1>6. CASE transition.om = "plugins"
  <2>1. u.transition.step = "ACTIVATE_PLUGINS"
    BY <1>3, <1>4, <1>6 DEF DInv, BeforePlugins, PluginsUnderway, ScriptsUnderway, AllEnabled, FailureTold,
       Early, Steps
  <2>2. Becomes(AdvancePlugins(u))
    BY <1>2, <1>6 DEF OmInstalled
  <2>3. PICK r : r = AdvancePlugins(u)
    OBVIOUS
  <2>4. r \in Worlds /\ DInv(r, config)
    BY <1>1, <1>3, <2>1, <2>3, AdvancePluginsInv
  <2> QED BY <1>1, <2>2, <2>3, <2>4, EventInv
<1> QED BY <1>5, <1>6 DEF OmInstalled

(* A plugin or a script that is enabled later succeeds or fails.           *)
LEMMA EnableEndsInv ==
  ASSUME DaemonInv, NEW p \in Components, EnableEnds(p)
  PROVE  DaemonInv'
<1>1. /\ config \in Configs /\ World \in Worlds /\ DInv(World, config) /\ phase[p] = "enabling"
      /\ batch = 0 /\ batch' = batch /\ config' = config /\ exited' \in BOOLEAN
  BY DEF DaemonInv, EnableEnds, Event, InLoop
<1>2. PICK w : w = World
  OBVIOUS
<1>3. w \in Worlds /\ DInv(w, config) /\ w.phase[p] = "enabling" /\ w.phase[p] \in Underway
  BY <1>1, <1>2, WorldFields DEF Underway
<1>4. NoSource(w, p) /\ p # Engine
  BY <1>3 DEF DInv, SourcesMatch, EngineRegisters, NoSource, Advances
<1>5. CASE Becomes(Enabled(World, p))
  <2>1. PICK r : r = Enabled(w, p)
    OBVIOUS
  <2>2. Enabling(w, p, config)
    BY <1>3, <1>4, InvEnabling
  <2>3. r \in Worlds /\ DInv(r, config)
    BY <1>3, <1>4, <2>1, <2>2, EnabledInv
  <2> QED BY <1>1, <1>2, <1>5, <2>1, <2>3, EventInv
<1>6. CASE Becomes(Failed(World, p))
  <2>1. PICK r : r = Failed(w, p)
    OBVIOUS
  <2>2. r \in Worlds /\ DInv(r, config)
    BY <1>1, <1>3, <1>4, <2>1, FailedInv
  <2> QED BY <1>1, <1>2, <1>6, <2>1, <2>2, EventInv
<1> QED BY <1>5, <1>6 DEF EnableEnds

(* core_error with EPIPE                                                   *)
LEMMA ConnectionBreaksInv == DaemonInv /\ ConnectionBreaks => DaemonInv'
<1> SUFFICES ASSUME DaemonInv, ConnectionBreaks PROVE DaemonInv'
  OBVIOUS
<1> DEFINE u == [World EXCEPT !.pw_core = "broken"]
           s == Source("disconnect", None)
<1>1. /\ config \in Configs /\ World \in Worlds /\ DInv(World, config)
      /\ pw_core \in {"connecting", "connected"}
      /\ batch = 0 /\ batch' = batch /\ config' = config /\ exited' \in BOOLEAN
  BY DEF DaemonInv, ConnectionBreaks, Event, InLoop
<1>2. PICK r : r = Attach(u, "disconnect", None)
  OBVIOUS
<1>3. Becomes(r)
  BY <1>2 DEF ConnectionBreaks
<1>4. u \in Worlds
  BY <1>1 DEF Worlds
<1>5. /\ u.transition = World.transition /\ u.registered = World.registered /\ u.scripts = World.scripts
      /\ u.phase = World.phase /\ u.idle = World.idle /\ u.pw_core = "broken"
      /\ u.running = World.running /\ u.exit_code = World.exit_code
  BY <1>1 DEF Worlds
<1>6. r = [u EXCEPT !.idle = Append(@, s)]
  BY <1>2 DEF Attach
<1>7. s \in Sources /\ s.type = "disconnect"
  BY DEF Source, Sources
<1>8. World.transition.step # "NONE"
  BY <1>1, WorldFields DEF DInv, StartFirst
<1> HIDE DEF u, s
<1>9. DInv(u, config)
  <2>1. PICK w : w = World
    OBVIOUS
  <2> QED BY <1>1, <1>5, <1>8, <2>1, LikeInv
<1>10. r \in Worlds /\ SourcesMatch(r) /\ Attached(u, r)
  BY <1>4, <1>6, <1>7, <1>9, AttachOther DEF DInv
<1>11. /\ r.transition = u.transition /\ r.registered = u.registered /\ r.scripts = u.scripts
       /\ r.phase = u.phase /\ r.pw_core = "broken" /\ r.running = u.running /\ r.exit_code = u.exit_code
  BY <1>4, <1>5, <1>6 DEF Worlds
<1>12. \A i \in DOMAIN r.idle : r.idle[i].type # "start"
  BY <1>5, <1>8, <1>9, <1>10 DEF DInv, StartFirst, Attached
<1>13. FailureTold(r) /\ StartFirst(r)
  BY <1>5, <1>8, <1>9, <1>11, <1>12 DEF DInv, FailureTold, StartFirst
<1>14. Listed(r, config) /\ EngineRegisters(r) /\ Loaded(r, config) /\ Counted(r, 0)
  BY <1>9, <1>11 DEF DInv, Listed, EngineRegisters, Loaded, Counted, Pending
<1>15. BeforePlugins(r) /\ PluginsUnderway(r, config) /\ ScriptsUnderway(r, config)
       /\ AllEnabled(r, config) /\ ScriptsLast(r, config)
  BY <1>9, <1>11 DEF DInv, BeforePlugins, PluginsUnderway, ScriptsUnderway, AllEnabled, ScriptsLast
<1>16. DInv(r, config)
  BY <1>10, <1>13, <1>14, <1>15 DEF DInv
<1> QED BY <1>1, <1>3, <1>10, <1>16, EventInv

(* signal_handler                                                          *)
LEMMA SignalInv == DaemonInv /\ Signal => DaemonInv'
<1> SUFFICES ASSUME DaemonInv, Signal PROVE DaemonInv'
  OBVIOUS
<1>1. /\ config \in Configs /\ World \in Worlds /\ DInv(World, config)
      /\ batch = 0 /\ batch' = batch /\ config' = config /\ exited' \in BOOLEAN
  BY DEF DaemonInv, Signal, Event, InLoop
<1>2. PICK r : r = DaemonExit(World, "OK")
  OBVIOUS
<1>3. Becomes(r)
  BY <1>2 DEF Signal
<1>4. PICK w : w = World
  OBVIOUS
<1>5. w \in Worlds /\ DInv(w, config)
  BY <1>1, <1>4
<1>6. r = [w EXCEPT !.running = FALSE]
  BY <1>2, <1>4, <1>5 DEF DaemonExit, Worlds
<1>7. r \in Worlds
  BY <1>5, <1>6 DEF Worlds
<1>8. /\ r.transition = w.transition /\ r.registered = w.registered /\ r.scripts = w.scripts
      /\ r.phase = w.phase /\ r.idle = w.idle /\ r.pw_core = w.pw_core
      /\ r.running = FALSE /\ r.exit_code = w.exit_code
  BY <1>5, <1>6 DEF Worlds
<1>9. DInv(r, config)
  BY <1>5, <1>8, LikeInv
<1> QED BY <1>1, <1>3, <1>7, <1>9, EventInv

(* The end of main                                                         *)
LEMMA ExitInv == DaemonInv /\ Exit => DaemonInv'
<1> SUFFICES ASSUME DaemonInv, Exit PROVE DaemonInv'
  OBVIOUS
<1>1. /\ World \in Worlds /\ DInv(World, config)
      /\ batch = 0 /\ batch' = batch /\ config' = config /\ exited' \in BOOLEAN
  BY DEF DaemonInv, Exit
<1>2. PICK r : r = Disconnect(World)
  OBVIOUS
<1>3. r \in Worlds /\ DInv(r, config) /\ Becomes(r)
  BY <1>1, <1>2, DisconnectInv DEF Exit
<1> QED BY <1>1, <1>3, EventInv

LEMMA IterateInv == DaemonInv /\ Iterate => DaemonInv'
<1> SUFFICES ASSUME DaemonInv, Iterate PROVE DaemonInv'
  OBVIOUS
<1>1. World' = World /\ config' = config /\ exited' = exited /\ idle' = idle /\ batch' = Len(idle)
  BY DEF Iterate, World
<1>2. Len(idle) \in Nat
  BY SelfFacts, WorldFields DEF DaemonInv
<1>3. batch' \in 0..Len(idle')
  BY <1>1, <1>2
<1> QED BY <1>1, <1>3 DEF DaemonInv

-----------------------------------------------------------------------------
LEMMA InitInv == Init => DaemonInv
<1> SUFFICES ASSUME Init PROVE DaemonInv
  OBVIOUS
<1>1. /\ config \in Configs /\ registered = <<>> /\ scripts = <<>> /\ pw_core = "NULL"
      /\ transition = [step |-> "NONE", om |-> None, settled |-> FALSE, pending_plugins |-> 0, gone |-> FALSE]
      /\ phase = [p \in Components |-> "inactive"] /\ idle = <<Source("start", None)>> /\ batch = 0
      /\ running = TRUE /\ exited = FALSE /\ exit_code = "OK" /\ misused = {}
  BY DEF Init
<1>2. Source("start", None) \in Sources /\ Source("start", None).type = "start"
  BY DEF Source, Sources
<1>3. /\ transition \in Transition /\ transition.step = "NONE" /\ transition.om = None
      /\ transition.pending_plugins = 0 /\ ~transition.gone
  BY <1>1 DEF Transition, Steps
<1>4. idle \in Seq(Sources) /\ DOMAIN idle = {1} /\ idle[1].type = "start" /\ Len(idle) = 1
  <2> DEFINE s == Source("start", None)
  <2>1. s \in Sources /\ s.type = "start"
    BY <1>2
  <2> HIDE DEF s
  <2>2. <<s>> \in Seq(Sources) /\ DOMAIN <<s>> = {1} /\ <<s>>[1] = s /\ Len(<<s>>) = 1
    BY <2>1
  <2> QED BY <1>1, <2>1, <2>2 DEF s
<1>5. World \in Worlds
  <2>1. registered \in Seq(Components) /\ scripts \in Seq(Scripts)
    BY <1>1
  <2>2. phase \in [Components -> Phases]
    BY <1>1 DEF Phases
  <2>3. exit_code \in ExitCodes /\ misused \in SUBSET {"transition", "om"} /\ running \in BOOLEAN
    BY <1>1 DEF ExitCodes
  <2> QED BY <1>1, <1>3, <1>4, <2>1, <2>2, <2>3 DEF World, Worlds
<1>6. \A p \in Components : World.phase[p] = "inactive"
  BY <1>1, WorldFields
<1>7. FailureTold(World) /\ SourcesMatch(World) /\ StartFirst(World)
  BY <1>1, <1>3, <1>4, WorldFields DEF FailureTold, SourcesMatch, Advances, StartFirst
<1>8. Elems(World.registered) = {} /\ Elems(World.scripts) = {} /\ Distinct(World.registered)
      /\ Distinct(World.scripts)
  BY <1>1, WorldFields, EmptyList
<1>9. Listed(World, config) /\ EngineRegisters(World) /\ ScriptsLast(World, config)
  BY <1>1, <1>6, <1>8, NameFacts, WorldFields DEF Listed, EngineRegisters, ScriptsLast
<1>10. Counted(World, 0)
  <2>1. Pending(World) = {}
    BY <1>6 DEF Pending, Underway
  <2> QED BY <1>3, <2>1, WorldFields, NoneCounted
<1>11. Loaded(World, config) /\ BeforePlugins(World) /\ PluginsUnderway(World, config)
       /\ ScriptsUnderway(World, config) /\ AllEnabled(World, config)
  BY <1>3, <1>6, WorldFields DEF Loaded, BeforePlugins, PluginsUnderway, ScriptsUnderway, AllEnabled
<1>12. batch \in 0..Len(idle)
  BY <1>1, <1>4
<1> QED BY <1>1, <1>5, <1>7, <1>9, <1>10, <1>11, <1>12 DEF DaemonInv, DInv

LEMMA NextInv == DaemonInv /\ Next => DaemonInv'
<1> SUFFICES ASSUME DaemonInv, Next PROVE DaemonInv'
  OBVIOUS
<1>1. CASE MainLoop
  BY <1>1, IterateInv, DispatchStartInv, DispatchInstalledInv, DispatchAdvanceInv, DispatchDisconnectInv,
     ExitInv DEF MainLoop
<1>2. CASE CoreInfo \/ OmInstalled \/ ConnectionBreaks \/ Signal
  BY <1>2, CoreInfoInv, OmInstalledInv, ConnectionBreaksInv, SignalInv
<1>3. CASE \E p \in Components : EnableEnds(p)
  BY <1>3, EnableEndsInv
<1> QED BY <1>1, <1>2, <1>3 DEF Next

LEMMA StutterInv == DaemonInv /\ UNCHANGED vars => DaemonInv'
BY DEF vars, DaemonInv, World

(* What is claimed follows from the invariant.                             *)
LEMMA InvConsistent == DaemonInv => Consistent
<1> SUFFICES ASSUME DaemonInv PROVE Consistent
  OBVIOUS
<1>1. World \in Worlds /\ DInv(World, config)
  BY DEF DaemonInv
<1>2. TypeOK
  <2>1. /\ transition \in Transition /\ registered \in Seq(Components) /\ scripts \in Seq(Scripts)
        /\ phase \in [Components -> Phases] /\ idle \in Seq(Sources)
        /\ pw_core \in {"NULL", "connecting", "connected", "broken"}
        /\ exit_code \in ExitCodes /\ misused \in SUBSET {"transition", "om"}
    BY <1>1, WorldFields DEF Worlds
  <2>2. running \in BOOLEAN
    BY <1>1, WorldFields, Zenon DEF Worlds
  <2>3. \A i \in DOMAIN idle : idle[i] \in Sources
    BY <2>1
  <2> QED BY <2>1, <2>2, <2>3 DEF TypeOK, DaemonInv, Sources
<1>3. ToSet(config.components) = Elems(config.components)
  BY DEF ToSet, Elems
<1>4. ScriptsAfterPlugins
  BY <1>1, <1>3, WorldFields DEF DInv, ScriptsLast, ScriptsAfterPlugins
<1>5. CleanupComplete
  BY <1>1, <1>3, WorldFields DEF DInv, AllEnabled, CleanupComplete
<1>6. FailureReported
  BY <1>1, WorldFields DEF DInv, FailureTold, FailureReported
<1> QED BY <1>2, <1>4, <1>5, <1>6 DEF Consistent

(* Whatever is loaded, and however plugins, scripts, signals and a broken  *)
(* connection interleave: with a script engine the scripts are enabled     *)
(* after every plugin, the start-up is over only when all is enabled, and  *)
(* a daemon whose start-up failed says so when it exits.                   *)
THEOREM DaemonConsistent == BothSpec => []Consistent
<1>1. BothInit => DaemonInv
  BY InitInv DEF BothInit
<1>2. DaemonInv /\ [BothNext]_bothVars => DaemonInv'
  <2> SUFFICES ASSUME DaemonInv, [BothNext]_bothVars PROVE DaemonInv'
    OBVIOUS
  <2>1. CASE DaemonOnly /\ Next
    BY <2>1, NextInv
  <2>2. CASE CoreOnly /\ C!Next
    BY <2>2, StutterInv DEF CoreOnly
  <2>3. CASE UNCHANGED bothVars
    BY <2>3, StutterInv DEF bothVars
  <2> QED BY <2>1, <2>2, <2>3 DEF BothNext
<1> QED BY <1>1, <1>2, InvConsistent, PTL DEF BothSpec

-----------------------------------------------------------------------------
(***************************************************************************)
(* An answer of the core is for the very sync that it was asked for, for   *)
(* any number of syncs and connections, and whether or not callbacks sync  *)
(* again while the table of tasks is walked.                               *)
(*                                                                         *)
(* That a success was served is not inductive: numbers start again with    *)
(* each connection, and a task that an interrupted walk left in the table  *)
(* waits under a number of the connection before. The invariant says why   *)
(* no number is mixed up. Nothing is in flight without a connection; every *)
(* number in flight was given out on this one; the task under a number     *)
(* that is on its way to the server was made on this connection, and the   *)
(* task under a number on its way back has been served.                    *)
(***************************************************************************)
Made == made \in [Syncs -> 0..connections \cup {None}]

NothingInFlight ==
  connection = 0 => toServer = <<>> /\ fromServer = <<>>

RequestsMatch ==
  \A i \in DOMAIN toServer :
    /\ toServer[i] <= seq
    /\ toServer[i] \in DOMAIN async_tasks => made[async_tasks[toServer[i]]] = connection

AnswersServed ==
  \A i \in DOMAIN fromServer :
    fromServer[i].type = "done" =>
      /\ fromServer[i].seq <= seq
      /\ fromServer[i].seq \in DOMAIN async_tasks => async_tasks[fromServer[i].seq] \in served

CoreInv ==
  C!TypeOK /\ Made /\ NothingInFlight /\ RequestsMatch /\ AnswersServed /\ C!DoneMeansServed

CInv == subject = "core" => CoreInv

(* What the steps of the main loop, of user code and of the server read.   *)
LEMMA TypeFacts ==
  ASSUME CoreInv
  PROVE  /\ connection \in Nat /\ connections \in Nat /\ seq \in Nat
         /\ connection \in 0..connections
         /\ toServer \in Seq(Nat) /\ fromServer \in Seq(C!Message)
         /\ DOMAIN async_tasks \subseteq Nat
         /\ \A n \in DOMAIN async_tasks : async_tasks[n] \in Syncs
         /\ served \subseteq Syncs /\ succeeded \subseteq served
BY DEF CoreInv, C!TypeOK, C!Waiting, C!DoneMeansServed

LEMMA MessageFacts ==
  ASSUME CoreInv, NEW i \in DOMAIN fromServer
  PROVE  /\ fromServer[i] \in C!Message /\ fromServer[i].seq \in Nat
         /\ fromServer[i].type = "done" =>
              /\ fromServer[i].seq <= seq
              /\ fromServer[i].seq \in DOMAIN async_tasks =>
                   async_tasks[fromServer[i].seq] \in served
<1>1. fromServer[i] \in C!Message
  BY TypeFacts
<1>2. fromServer[i].seq \in Nat
  BY <1>1 DEF C!Message
<1> QED BY <1>1, <1>2 DEF CoreInv, AnswersServed

LEMMA CoreInitInv == C!Init => CoreInv
<1> SUFFICES ASSUME C!Init PROVE CoreInv
  OBVIOUS
<1>1. C!Waiting(async_tasks) = {} /\ DOMAIN async_tasks = {}
  BY DEF C!Init, C!Waiting
<1>2. Made
  BY DEF C!Init, Made
<1>3. C!TypeOK
  <2>1. toServer \in Seq(Nat) /\ fromServer \in Seq(C!Message)
    BY DEF C!Init
  <2>2. \A s \in Syncs : made[s] \in 0..connections \cup {None}
    BY <1>2 DEF Made
  <2>3. DOMAIN async_tasks \subseteq Nat /\ C!Waiting(async_tasks) \subseteq Syncs
    BY <1>1
  <2>4. /\ connection \in 0..connections /\ connections \in Nat /\ seq \in Nat
        /\ disconnects \in Nat /\ late \subseteq Syncs /\ served \subseteq Syncs /\ succeeded \subseteq Syncs
        /\ answered \subseteq Syncs
    BY DEF C!Init
  <2>5. info \in BOOLEAN /\ broken \in BOOLEAN
    BY Zenon DEF C!Init
  <2> QED BY <2>1, <2>2, <2>3, <2>4, <2>5 DEF C!TypeOK
<1>4. NothingInFlight /\ RequestsMatch /\ AnswersServed /\ C!DoneMeansServed
  BY DEF C!Init, NothingInFlight, RequestsMatch, AnswersServed, C!DoneMeansServed
<1> QED BY <1>2, <1>3, <1>4 DEF CoreInv

(* The first element of a queue is taken: what holds of every element      *)
(* still does.                                                             *)
LEMMA TailElements ==
  ASSUME NEW S, NEW q \in Seq(S), q # <<>>
  PROVE  /\ Head(q) \in S /\ Tail(q) \in Seq(S)
         /\ Head(q) = q[1] /\ 1 \in DOMAIN q
         /\ \A i \in DOMAIN Tail(q) : i + 1 \in DOMAIN q /\ Tail(q)[i] = q[i + 1]
OBVIOUS

LEMMA AppendElements ==
  ASSUME NEW S, NEW q \in Seq(S), NEW e \in S
  PROVE  /\ Append(q, e) \in Seq(S)
         /\ \A i \in DOMAIN Append(q, e) : (i \in DOMAIN q /\ Append(q, e)[i] = q[i])
                                              \/ Append(q, e)[i] = e
OBVIOUS

-----------------------------------------------------------------------------
(* User code connects.                                                     *)
LEMMA CoreConnectInv == CoreInv /\ C!Connect => CoreInv'
<1> SUFFICES ASSUME CoreInv, C!Connect PROVE CoreInv'
  OBVIOUS
<1> USE TypeFacts
<1>1. fromServer' \in Seq(C!Message) /\ toServer' \in Seq(Nat) /\ seq' \in Nat
  BY DEF C!Connect, C!Msg, C!Message
<1>2. Made'
  BY DEF C!Connect, CoreInv, Made
<1>3. C!TypeOK'
  BY <1>1, <1>2 DEF C!Connect, CoreInv, C!TypeOK, C!taskVars, Made
<1>4. NothingInFlight'
  BY DEF C!Connect, NothingInFlight
<1>5. RequestsMatch' /\ AnswersServed'
  BY DEF C!Connect, RequestsMatch, AnswersServed, C!Msg
<1>6. C!DoneMeansServed'
  BY DEF C!Connect, CoreInv, C!DoneMeansServed, C!taskVars
<1> QED BY <1>2, <1>3, <1>4, <1>5, <1>6 DEF CoreInv

(* The walk of the table, whole or interrupted: the tasks are of Syncs, and *)
(* so are those that are left.                                             *)
LEMMA FinishTypes ==
  ASSUME CoreInv, NEW plan \in C!Finish(async_tasks)
  PROVE  /\ DOMAIN plan.left \subseteq Nat /\ C!Waiting(plan.left) \subseteq Syncs
         /\ plan.now \subseteq Syncs /\ plan.later \subseteq Syncs
<1> USE TypeFacts DEF C!Waiting
<1>1. CASE plan \in C!FinishAll(async_tasks)
  BY <1>1 DEF C!FinishAll
<1>2. CASE plan \in C!FinishInterrupted(async_tasks)
  <2> DEFINE Plan(walked, r) ==
               [now |-> {async_tasks[n] : n \in walked}, later |-> {}, again |-> r,
                left |-> C!Insert([m \in DOMAIN async_tasks \ walked |-> async_tasks[m]],
                                  seq + 1, r)]
  <2>0. C!FinishInterrupted(async_tasks) =
          {Plan(walked, r) : walked \in (SUBSET DOMAIN async_tasks) \ {{}},
                             r \in {s \in Syncs : made[s] = None}}
    BY DEF C!FinishInterrupted
  <2> HIDE DEF Plan
  <2>1. PICK walked \in SUBSET DOMAIN async_tasks, r \in Syncs : plan = Plan(walked, r)
    BY <1>2, <2>0
  <2> USE DEF Plan
  <2>2. plan.left = [m \in (DOMAIN async_tasks \ walked) \cup {seq + 1} |->
                      IF m = seq + 1 THEN r ELSE async_tasks[m]]
    BY <2>1 DEF C!Insert
  <2>3. DOMAIN plan.left \subseteq Nat /\ \A n \in DOMAIN plan.left : plan.left[n] \in Syncs
    BY <2>2
  <2>4. plan.now \subseteq Syncs /\ plan.later = {}
    BY <2>1
  <2> QED BY <2>3, <2>4
<1> QED BY <1>1, <1>2 DEF C!Finish

(* The connection ends: nothing is in flight any more.                     *)
LEMMA DisconnectCoreInv ==
  ASSUME CoreInv, C!DisconnectCore, disconnects' \in Nat
  PROVE  CoreInv'
<1> USE TypeFacts
<1>1. PICK plan \in C!Finish(async_tasks) :
        /\ async_tasks' = plan.left
        /\ answered' = answered \cup plan.now
        /\ late' = late \cup (plan.later \ answered)
        /\ made' = IF plan.again = None THEN made ELSE [made EXCEPT ![plan.again] = connection]
        /\ seq' = IF plan.again = None THEN seq ELSE seq + 1
  BY DEF C!DisconnectCore
<1>2. /\ DOMAIN plan.left \subseteq Nat /\ C!Waiting(plan.left) \subseteq Syncs
      /\ plan.now \subseteq Syncs /\ plan.later \subseteq Syncs
  BY FinishTypes
<1>3. connection' = 0 /\ toServer' = <<>> /\ fromServer' = <<>> /\ seq' \in Nat
      /\ connections' = connections /\ served' = served /\ succeeded' = succeeded
  BY <1>1 DEF C!DisconnectCore
<1>4. Made'
  BY <1>1, <1>3 DEF CoreInv, Made
<1>5. C!TypeOK'
  <2>1. late' \subseteq Syncs /\ answered' \subseteq Syncs
    BY <1>1, <1>2 DEF CoreInv, C!TypeOK
  <2>2. DOMAIN async_tasks' \subseteq Nat /\ C!Waiting(async_tasks)' \subseteq Syncs
    BY <1>1, <1>2 DEF C!Waiting
  <2>3. \A s \in Syncs : made'[s] \in 0..connections' \cup {None}
    BY <1>4 DEF Made
  <2>4. info' \in BOOLEAN /\ broken' \in BOOLEAN
    BY Zenon DEF C!DisconnectCore
  <2>5. toServer' \in Seq(Nat) /\ fromServer' \in Seq(C!Message)
    BY <1>3
  <2> QED BY <1>3, <2>1, <2>2, <2>3, <2>4, <2>5 DEF C!TypeOK
<1>6. NothingInFlight' /\ RequestsMatch' /\ AnswersServed'
  BY <1>3 DEF NothingInFlight, RequestsMatch, AnswersServed
<1>7. C!DoneMeansServed'
  BY <1>3 DEF C!DoneMeansServed
<1> QED BY <1>4, <1>5, <1>6, <1>7 DEF CoreInv

LEMMA CoreDisconnectInv == CoreInv /\ C!Disconnect => CoreInv'
<1> SUFFICES ASSUME CoreInv, C!Disconnect PROVE CoreInv'
  OBVIOUS
<1>1. C!DisconnectCore /\ disconnects' \in Nat
  BY DEF C!Disconnect, CoreInv, C!TypeOK
<1> QED BY <1>1, DisconnectCoreInv

(* The idle callback disconnects whatever the core is connected to by then. *)
LEMMA DisconnectAsyncInv == CoreInv /\ C!DisconnectAsync => CoreInv'
<1> SUFFICES ASSUME CoreInv, C!DisconnectAsync PROVE CoreInv'
  OBVIOUS
<1>1. disconnects' \in Nat
  BY DEF C!DisconnectAsync, CoreInv, C!TypeOK
<1>2. CASE connection # 0
  BY <1>1, <1>2, DisconnectCoreInv DEF C!DisconnectAsync, C!Connected
<1>3. CASE connection = 0
  <2>1. UNCHANGED <<connection, info, connections, broken, async_tasks, seq, toServer,
                    fromServer, late, answered, succeeded, made, served>>
    BY <1>3 DEF C!DisconnectAsync, C!Connected, C!connVars, C!taskVars
  <2> QED BY <1>1, <2>1
       DEF CoreInv, C!TypeOK, C!Waiting, Made, NothingInFlight, RequestsMatch, AnswersServed,
           C!DoneMeansServed
<1> QED BY <1>2, <1>3

(* The new number is above all those in flight, so it is none of theirs.   *)
LEMMA SyncInv == \A s \in Syncs : CoreInv /\ C!Sync(s) => CoreInv'
<1> SUFFICES ASSUME NEW s \in Syncs, CoreInv, C!Sync(s) PROVE CoreInv'
  OBVIOUS
<1>0. UNCHANGED <<connection, info, connections, broken, fromServer, disconnects, served,
                  answered, succeeded>>
  BY DEF C!Sync, C!connVars
<1>1. made' = [made EXCEPT ![s] = connection] /\ made[s] = None
  BY DEF C!Sync
<1>2. Made'
  BY <1>0, <1>1, TypeFacts DEF CoreInv, Made
<1>3. C!DoneMeansServed'
  BY <1>0 DEF CoreInv, C!DoneMeansServed
<1>4. \A t \in Syncs : made[t] = connection => made'[t] = connection
  BY <1>1 DEF CoreInv, Made
<1>5. CASE /\ connection # 0
           /\ seq' = seq + 1
           /\ async_tasks' = C!Insert(async_tasks, seq + 1, s)
           /\ toServer' = IF broken THEN toServer ELSE Append(toServer, seq + 1)
           /\ late' = late
  <2>1. /\ DOMAIN async_tasks' = DOMAIN async_tasks \cup {seq + 1}
        /\ async_tasks'[seq + 1] = s
        /\ \A n \in DOMAIN async_tasks : n <= seq => async_tasks'[n] = async_tasks[n]
        /\ \A n \in DOMAIN async_tasks' : async_tasks'[n] \in Syncs
    BY <1>5, TypeFacts DEF C!Insert
  <2>2. made'[s] = connection
    BY <1>1 DEF CoreInv, Made
  <2>3. seq' \in Nat /\ toServer' \in Seq(Nat) /\ fromServer' \in Seq(C!Message)
    BY <1>0, <1>5, TypeFacts
  <2>4. C!TypeOK'
    <3>1. C!Waiting(async_tasks)' \subseteq Syncs /\ DOMAIN async_tasks' \subseteq Nat
      BY <2>1, TypeFacts DEF C!Waiting
    <3>2. \A t \in Syncs : made'[t] \in 0..connections' \cup {None}
      BY <1>2 DEF Made
    <3> QED BY <1>0, <1>5, <2>3, <3>1, <3>2 DEF CoreInv, C!TypeOK
  <2>5. RequestsMatch'
    <3> SUFFICES ASSUME NEW i \in DOMAIN toServer'
                 PROVE  /\ toServer'[i] <= seq'
                        /\ toServer'[i] \in DOMAIN async_tasks' =>
                             made'[async_tasks'[toServer'[i]]] = connection'
      BY DEF RequestsMatch
    <3>1. CASE i \in DOMAIN toServer /\ toServer'[i] = toServer[i]
      <4>1. toServer[i] \in Nat /\ toServer[i] <= seq
        BY <3>1, TypeFacts DEF CoreInv, RequestsMatch
      <4>2. toServer[i] \in DOMAIN async_tasks => made[async_tasks[toServer[i]]] = connection
        BY <3>1 DEF CoreInv, RequestsMatch
      <4> QED BY <1>0, <1>4, <1>5, <2>1, <3>1, <4>1, <4>2, TypeFacts
    <3>2. CASE toServer'[i] = seq + 1
      BY <1>0, <1>5, <2>1, <2>2, <3>2, TypeFacts
    <3> QED BY <1>5, <3>1, <3>2, AppendElements, TypeFacts
  <2>6. AnswersServed'
    <3> SUFFICES ASSUME NEW i \in DOMAIN fromServer, fromServer[i].type = "done"
                 PROVE  /\ fromServer[i].seq <= seq'
                        /\ fromServer[i].seq \in DOMAIN async_tasks' =>
                             async_tasks'[fromServer[i].seq] \in served
      BY <1>0 DEF AnswersServed
    <3> QED BY <1>5, <2>1, TypeFacts, MessageFacts
  <2>7. NothingInFlight'
    BY <1>0, <1>5 DEF NothingInFlight
  <2> QED BY <1>2, <1>3, <2>4, <2>5, <2>6, <2>7 DEF CoreInv
<1>6. CASE late' = late \cup {s} /\ UNCHANGED <<seq, async_tasks, toServer>>
  <2>1. C!TypeOK'
    <3>1. \A t \in Syncs : made'[t] \in 0..connections' \cup {None}
      BY <1>2 DEF Made
    <3> QED BY <1>0, <1>6, <3>1 DEF CoreInv, C!TypeOK, C!Waiting
  <2>2. RequestsMatch'
    BY <1>0, <1>4, <1>6, TypeFacts DEF CoreInv, RequestsMatch
  <2>3. AnswersServed' /\ NothingInFlight'
    BY <1>0, <1>6 DEF CoreInv, AnswersServed, NothingInFlight
  <2> QED BY <1>2, <1>3, <2>1, <2>2, <2>3 DEF CoreInv
<1> QED BY <1>5, <1>6 DEF C!Sync, C!Connected

-----------------------------------------------------------------------------
(* The server serves the oldest sync in flight, which was made on this     *)
(* connection: it is the task that waits under its number, if there is one. *)
LEMMA ServerDoneInv == CoreInv /\ C!ServerDone => CoreInv'
<1> SUFFICES ASSUME CoreInv, C!ServerDone PROVE CoreInv'
  OBVIOUS
<1> DEFINE n == toServer[1]
<1>0. UNCHANGED <<connection, info, connections, broken, async_tasks, seq, disconnects, late,
                  answered, succeeded, made>>
  BY DEF C!ServerDone, C!connVars, C!taskVars
<1>1. toServer # <<>> /\ toServer' = Tail(toServer) /\ Head(toServer) = n /\ n \in Nat
      /\ 1 \in DOMAIN toServer /\ toServer' \in Seq(Nat)
      /\ \A i \in DOMAIN toServer' : i + 1 \in DOMAIN toServer /\ toServer'[i] = toServer[i + 1]
  BY TailElements, TypeFacts DEF C!ServerDone
<1>2. n <= seq /\ (n \in DOMAIN async_tasks => made[async_tasks[n]] = connection)
  BY <1>1 DEF CoreInv, RequestsMatch
<1> HIDE DEF n
<1> DEFINE done == C!Msg("done", n)
<1>3. done \in C!Message /\ done.seq = n /\ fromServer' = Append(fromServer, done)
  BY <1>1 DEF C!Msg, C!Message, C!ServerDone
<1> HIDE DEF done
<1>4. served' = served \cup C!MadeAs(n)
  BY <1>1 DEF C!ServerDone
<1>5. n \in DOMAIN async_tasks => async_tasks[n] \in served'
  BY <1>2, <1>4, TypeFacts DEF C!MadeAs
<1>6. served' \subseteq Syncs /\ served \subseteq served'
  BY <1>4, TypeFacts DEF C!MadeAs
<1>7. C!TypeOK' /\ Made'
  <2>1. fromServer' \in Seq(C!Message)
    BY <1>3, AppendElements, TypeFacts
  <2> QED BY <1>0, <1>1, <1>6, <2>1 DEF CoreInv, C!TypeOK, C!Waiting, Made
<1>8. RequestsMatch'
  BY <1>0, <1>1 DEF CoreInv, RequestsMatch
<1>9. AnswersServed'
  <2> SUFFICES ASSUME NEW i \in DOMAIN fromServer', fromServer'[i].type = "done"
               PROVE  /\ fromServer'[i].seq <= seq
                      /\ fromServer'[i].seq \in DOMAIN async_tasks =>
                           async_tasks[fromServer'[i].seq] \in served'
    BY <1>0 DEF AnswersServed
  <2>1. CASE i \in DOMAIN fromServer /\ fromServer'[i] = fromServer[i]
    BY <1>6, <2>1, MessageFacts
  <2>2. CASE fromServer'[i] = done
    BY <1>2, <1>3, <1>5, <2>2
  <2> QED BY <1>3, <2>1, <2>2, AppendElements, TypeFacts
<1>10. NothingInFlight'
  BY <1>0, <1>1 DEF CoreInv, NothingInFlight
<1>11. C!DoneMeansServed'
  BY <1>0, <1>6, TypeFacts DEF C!DoneMeansServed
<1> QED BY <1>7, <1>8, <1>9, <1>10, <1>11 DEF CoreInv

LEMMA ServerBreaksInv == CoreInv /\ C!ServerBreaks => CoreInv'
<1> SUFFICES ASSUME CoreInv, C!ServerBreaks PROVE CoreInv'
  OBVIOUS
<1>0. UNCHANGED <<connection, info, connections, async_tasks, seq, disconnects, late,
                  answered, succeeded, made, served>>
  BY DEF C!ServerBreaks, C!taskVars
<1>1. connection # 0 /\ toServer' = <<>> /\ fromServer' = <<C!Msg("EPIPE", 0)>>
  BY DEF C!ServerBreaks, C!Connected
<1>2. C!Msg("EPIPE", 0) \in C!Message /\ C!Msg("EPIPE", 0).type = "EPIPE"
  BY DEF C!Msg, C!Message
<1>3. C!TypeOK' /\ Made'
  <2>1. fromServer' \in Seq(C!Message) /\ toServer' \in Seq(Nat)
    BY <1>1, <1>2
  <2>2. broken' \in BOOLEAN
    BY Zenon DEF C!ServerBreaks
  <2> QED BY <1>0, <2>1, <2>2 DEF CoreInv, C!TypeOK, C!Waiting, Made
<1>4. RequestsMatch' /\ AnswersServed' /\ NothingInFlight'
  BY <1>0, <1>1, <1>2 DEF RequestsMatch, AnswersServed, NothingInFlight
<1> QED BY <1>0, <1>3, <1>4 DEF CoreInv, C!DoneMeansServed

-----------------------------------------------------------------------------
(* A message is taken off the queue by a step that leaves the numbers in   *)
(* flight and the connection alone, and takes tasks out of the table only. *)
LEMMA ReceiveFrame ==
  ASSUME CoreInv, NEW message, C!Receive(message),
         UNCHANGED <<connection, info, connections, broken, seq, toServer, late, made, served>>,
         DOMAIN async_tasks' \subseteq DOMAIN async_tasks,
         \A n \in DOMAIN async_tasks' : async_tasks'[n] = async_tasks[n],
         disconnects' \in Nat, answered' \subseteq Syncs, succeeded' \subseteq served
  PROVE  CoreInv'
<1>1. /\ fromServer # <<>> /\ fromServer' \in Seq(C!Message)
      /\ \A i \in DOMAIN fromServer' :
           i + 1 \in DOMAIN fromServer /\ fromServer'[i] = fromServer[i + 1]
  BY TailElements, TypeFacts DEF C!Receive
<1>2. C!TypeOK' /\ Made'
  BY <1>1, TypeFacts DEF CoreInv, C!TypeOK, C!Waiting, Made
<1>3. RequestsMatch'
  BY DEF CoreInv, RequestsMatch
<1>4. AnswersServed'
  BY <1>1 DEF CoreInv, AnswersServed
<1>5. NothingInFlight'
  BY <1>1 DEF CoreInv, NothingInFlight
<1> QED BY <1>2, <1>3, <1>4, <1>5 DEF CoreInv, C!DoneMeansServed

LEMMA InfoReceivedInv == CoreInv /\ C!CoreInfo => CoreInv'
<1> SUFFICES ASSUME CoreInv, C!CoreInfo PROVE CoreInv'
  OBVIOUS
<1>1. /\ fromServer # <<>> /\ fromServer' \in Seq(C!Message)
      /\ \A i \in DOMAIN fromServer' :
           i + 1 \in DOMAIN fromServer /\ fromServer'[i] = fromServer[i + 1]
  BY TailElements, TypeFacts DEF C!CoreInfo, C!Receive
<1>2. UNCHANGED <<connection, connections, broken, async_tasks, seq, toServer, disconnects,
                  late, answered, succeeded, made, served>>
  BY DEF C!CoreInfo, C!taskVars
<1>3. info' \in BOOLEAN
  BY Zenon DEF C!CoreInfo
<1> QED BY <1>1, <1>2, <1>3
     DEF CoreInv, C!TypeOK, C!Waiting, Made, NothingInFlight, RequestsMatch, AnswersServed,
         C!DoneMeansServed

(* The task under the number that is done has been served.                 *)
LEMMA CoreDoneInv == \A n \in 1..seq : CoreInv /\ C!CoreDone(n) => CoreInv'
<1> SUFFICES ASSUME NEW n \in 1..seq, CoreInv, C!CoreDone(n) PROVE CoreInv'
  OBVIOUS
<1>1. C!Receive(C!Msg("done", n)) /\ async_tasks' = C!Steal(async_tasks, n)
      /\ answered' = answered \cup C!Found(async_tasks, n)
      /\ succeeded' = succeeded \cup (C!Found(async_tasks, n) \ answered)
      /\ UNCHANGED <<connection, info, connections, broken, seq, toServer, disconnects, late,
                     made, served>>
  BY DEF C!CoreDone, C!connVars
<1>2. n \in DOMAIN async_tasks => async_tasks[n] \in served
  <2>1. fromServer # <<>> /\ fromServer[1] = C!Msg("done", n) /\ 1 \in DOMAIN fromServer
    BY <1>1, TailElements, TypeFacts DEF C!Receive
  <2>2. fromServer[1].type = "done" /\ fromServer[1].seq = n
    BY <2>1 DEF C!Msg
  <2> QED BY <2>1, <2>2, MessageFacts
<1>3. C!Found(async_tasks, n) \subseteq served
  BY <1>2 DEF C!Found
<1>4. DOMAIN async_tasks' \subseteq DOMAIN async_tasks
      /\ \A m \in DOMAIN async_tasks' : async_tasks'[m] = async_tasks[m]
  BY <1>1 DEF C!Steal
<1>5. answered' \subseteq Syncs /\ succeeded' \subseteq served
  BY <1>1, <1>3, TypeFacts DEF CoreInv, C!TypeOK
<1>6. disconnects' \in Nat
  BY <1>1 DEF CoreInv, C!TypeOK
<1> QED BY <1>1, <1>4, <1>5, <1>6, ReceiveFrame

LEMMA CoreErrorInv == CoreInv /\ C!CoreError => CoreInv'
<1> SUFFICES ASSUME CoreInv, C!CoreError PROVE CoreInv'
  OBVIOUS
<1>1. C!Receive(C!Msg("EPIPE", 0)) /\ disconnects' = disconnects + 1
      /\ UNCHANGED <<connection, info, connections, broken, async_tasks, seq, toServer, late,
                     answered, succeeded, made, served>>
  BY DEF C!CoreError, C!connVars, C!taskVars
<1>2. disconnects' \in Nat /\ answered' \subseteq Syncs /\ succeeded' \subseteq served
  BY <1>1, TypeFacts DEF CoreInv, C!TypeOK
<1> QED BY <1>1, <1>2, ReceiveFrame

LEMMA CompleteLateInv == \A s \in Syncs : CoreInv /\ C!CompleteLate(s) => CoreInv'
<1> SUFFICES ASSUME NEW s \in Syncs, CoreInv, C!CompleteLate(s) PROVE CoreInv'
  OBVIOUS
<1>1. late' = late \ {s} /\ answered' = answered \cup {s}
      /\ UNCHANGED <<connection, info, connections, broken, async_tasks, seq, toServer,
                     fromServer, disconnects, made, served, succeeded>>
  BY DEF C!CompleteLate, C!connVars
<1> QED BY <1>1
     DEF CoreInv, C!TypeOK, C!Waiting, Made, NothingInFlight, RequestsMatch, AnswersServed,
         C!DoneMeansServed

-----------------------------------------------------------------------------
LEMMA CoreStutterInv == CoreInv /\ UNCHANGED coreVars => CoreInv'
BY DEF coreVars, CoreInv, C!TypeOK, C!Waiting, Made, NothingInFlight, RequestsMatch,
       AnswersServed, C!DoneMeansServed

LEMMA CoreNextInv == CoreInv /\ C!Next => CoreInv'
<1> SUFFICES ASSUME CoreInv, C!Next PROVE CoreInv'
  OBVIOUS
<1>1. CASE C!UserNext
  BY <1>1, CoreConnectInv, CoreDisconnectInv, SyncInv DEF C!UserNext
<1>2. CASE C!LoopNext
  BY <1>2, InfoReceivedInv, CoreDoneInv, CoreErrorInv, DisconnectAsyncInv DEF C!LoopNext
<1>3. CASE \E s \in Syncs : C!CompleteLate(s)
  BY <1>3, CompleteLateInv
<1>4. CASE C!ServerDone \/ C!ServerBreaks
  BY <1>4, ServerDoneInv, ServerBreaksInv
<1> QED BY <1>1, <1>2, <1>3, <1>4 DEF C!Next

(* An answer of the core is for the very sync that it was asked for: a     *)
(* callback is told of a success only after the server has served that     *)
(* sync, however connections break, end and begin meanwhile.               *)
THEOREM CoreAnswersMatch == BothSpec => []AnswersMatch
<1> DEFINE Inv == subject = "core" => CoreInv
<1>1. BothInit => Inv
  BY CoreInitInv DEF BothInit
<1>2. Inv /\ [BothNext]_bothVars => Inv'
  <2> SUFFICES ASSUME Inv, [BothNext]_bothVars, subject' = "core" PROVE CoreInv'
    OBVIOUS
  <2>1. CASE DaemonOnly /\ Next
    BY <2>1 DEF DaemonOnly
  <2>2. CASE CoreOnly /\ C!Next
    BY <2>2, CoreNextInv DEF CoreOnly
  <2>3. CASE UNCHANGED bothVars
    BY <2>3, CoreStutterInv DEF bothVars
  <2> QED BY <2>1, <2>2, <2>3 DEF BothNext
<1>3. Inv => AnswersMatch
  BY DEF CoreInv, AnswersMatch, C!Consistent
<1> QED BY <1>1, <1>2, <1>3, PTL DEF BothSpec
=============================================================================
