--------------------------- MODULE ObjectManagers ---------------------------
(***************************************************************************)
(* The object managers installed on a core and the way the registry of     *)
(* lib/wp/object-manager.c keeps them up to date.                          *)
(*                                                                         *)
(* The registry walks its array of managers by index while it emits        *)
(* signals, and a signal handler is user code that may register or remove  *)
(* objects, install further managers and drop managers: every one of these *)
(* calls walks, grows or shrinks the arrays that the frames below it on    *)
(* the stack are walking.  The stack is part of the state, as it is in     *)
(* ObjectActivation.  The handlers of any signal may make any call that     *)
(* spares the walks below it, as those of the repository do: create-item    *)
(* registers items while globals are added, policy-node registers and       *)
(* removes links while items are, and the daemon drops and installs         *)
(* managers when one is installed.                                          *)
(*                                                                         *)
(* Objects are of two kinds.  Local objects (plugins, factories, session   *)
(* items) are managed as soon as they are registered.  A global is first   *)
(* held back in tmp_globals, then exposed; each interested manager         *)
(* activates its proxy and manages it when that succeeds.  The identifiers *)
(* and the proxies of globals are the subject of GlobalRegistry.           *)
(***************************************************************************)
EXTENDS Naturals, Sequences, SequencesExt

CONSTANTS
  Managers,      \* the WpObjectManagers a behaviour may install
  Locals,        \* the local objects it may register
  Globals,       \* the PipeWire globals that may appear
  Interest,      \* per manager, the objects that match its interests
  None,          \* the NULL of the pointers in frames
  Lapses         \* the calls with which handlers do not spare the walks

Objects == Locals \cup Globals
Signals == {"object-added", "object-removed", "installed", "objects-changed"}
Calls   == {"register", "remove", "install", "drop"}

ASSUME KindsAssumption == Locals \cap Globals = {} /\ None \notin Objects \cup Managers
ASSUME InterestAssumption == Interest \in [Managers -> SUBSET Objects]
ASSUME LapsesAssumption == Lapses \subseteq Calls

VARIABLES
  object_managers, \* WpRegistry.object_managers, without refs
  registered,      \* WpRegistry.objects
  tmp_globals,     \* the globals in WpRegistry.tmp_globals
  globals,         \* the globals in WpRegistry.globals
  gone,            \* the globals that the server removed
  known,           \* is WpRegistry.globals->len not 0?
  held,            \* managers that user code holds a ref on
  fresh,           \* managers that were not installed yet
  used,            \* local objects that were registered already
  objects,         \* per manager, how often each object is in its objects
  waiting,         \* outstanding activations; they hold a ref on the manager
  changed,         \* WpObjectManager.changed
  idle_source,     \* is WpObjectManager.idle_source set?
  installed,       \* WpObjectManager.installed
  emitted,         \* how often the installed signal was emitted
  unreported,      \* managers whose objects changed since objects-changed
  initial,         \* per manager, the globals it found when it was installed
  stack            \* the frames, the last on top

regVars == <<object_managers, registered, tmp_globals, globals, gone, known>>
useVars == <<held, fresh, used>>
omVars  == <<objects, changed, idle_source, installed, emitted, unreported>>
vars == <<object_managers, registered, tmp_globals, globals, gone, known,
          held, fresh, used, objects, waiting, changed, idle_source,
          installed, emitted, unreported, initial, stack>>

-----------------------------------------------------------------------------
(* Frames.  op is the function: "add" and "rm" are the loops of             *)
(* wp_registry_notify_add_object and _rm_object, "expose" that of           *)
(* expose_tmp_globals, "install" wp_core_install_object_manager, "ready"    *)
(* on_proxy_ready and "idle" idle_emit_objects_changed.  at says where it   *)
(* is: at the head of its loop, in the handlers of a signal, about to call  *)
(* wp_object_manager_maybe_objects_changed, aborting the activations of a   *)
(* removed global, or at its end.  oms are the managers that it walks apart *)
(* from the array of the registry, batch the globals that it exposes.       *)
Frame == [op    : {"add", "rm", "expose", "install", "ready", "idle"},
          at    : {"loop", "maybe", "abort", "end"} \cup Signals,
          om    : Managers \cup {None},
          obj   : Objects \cup {None},
          i     : Nat,
          oms   : Seq(Managers),
          batch : SUBSET Globals]

NewFrame(op, at, om, obj) ==
  [op |-> op, at |-> at, om |-> om, obj |-> obj, i |-> 1,
   oms |-> <<>>, batch |-> {}]

Top   == stack[Len(stack)]
Below == SubSeq(stack, 1, Len(stack) - 1)
TopIs(at) == stack # <<>> /\ Top.at = at

InMainLoop == stack = <<>>
UserCode   == stack # <<>> => Top.at \in Signals

(* The topmost frame goes on at another place.                              *)
Goto(at)    == stack' = Append(Below, [Top EXCEPT !.at = at])
NextIndex   == stack' = Append(Below, [Top EXCEPT !.at = "loop", !.i = @ + 1])
Push(frame) == stack' = Append(stack, frame)
Pop         == stack' = Below

(* What follows the call of wp_object_manager_maybe_objects_changed.        *)
Continue == IF Top.op \in {"add", "rm", "expose"} THEN NextIndex ELSE Goto("end")

(* g_ptr_array_remove_fast: the last element takes the place of the removed *)
RemoveFast(seq, x) ==
  IF x \notin ToSet(seq) THEN seq
  ELSE LET i == CHOOSE j \in DOMAIN seq : seq[j] = x
           n == Len(seq)
       IN  SubSeq([seq EXCEPT ![i] = seq[n]], 1, n - 1)

(* Who keeps a manager alive: its user, its activations, and the frames     *)
(* that took a reference of their own.                                      *)
Holds(frame, om) ==
  \/ frame.op \in {"ready", "idle"} /\ frame.om = om
  \/ frame.op = "expose" /\ om \in ToSet(frame.oms)

Referenced(om, users, activations, frames) ==
  \/ om \in users
  \/ \E g \in Globals : <<om, g>> \in activations
  \/ \E j \in DOMAIN frames : Holds(frames[j], om)

(* wp_object_manager_finalize and object_manager_destroyed for the managers *)
(* in candidates that lose their last reference.                            *)
Release(candidates, users, activations, frames) ==
  LET dead == {om \in ToSet(candidates) :
                 ~Referenced(om, users, activations, frames)}
  IN  /\ object_managers' =
           FoldLeft(LAMBDA oms, om : IF om \in dead THEN RemoveFast(oms, om) ELSE oms,
                    object_managers, candidates)
      /\ objects' = [om \in Managers |->
                       IF om \in dead THEN [o \in Objects |-> 0] ELSE objects[om]]
      /\ idle_source' = idle_source \ dead
      /\ unreported' = unreported \ dead

-----------------------------------------------------------------------------
(* What the calls of user code spare.  Nothing is notified while installed  *)
(* is emitted, since the flag that stops another emission is set after it.  *)
(* An object is not added or removed while the array that it is in is       *)
(* walked for somebody who wants it, nor a manager that wants an object     *)
(* installed while that object is being added.  No manager is dropped in    *)
(* the walks over the array of managers.                                    *)
NoneInstalling == \A j \in DOMAIN stack : stack[j].at # "installed"

RegisterSpares(o) ==
  /\ NoneInstalling
  /\ \A j \in DOMAIN stack :
       stack[j].op = "install" => o \notin Interest[stack[j].om]

RemoveSpares(o) ==
  /\ NoneInstalling
  /\ \A j \in DOMAIN stack :
       /\ stack[j].op # "install"
       /\ stack[j].op = "add" => stack[j].obj # o

InstallSpares(om) ==
  \A j \in DOMAIN stack :
    stack[j].op = "add" => stack[j].obj \notin Interest[om]

DropSpares ==
  \A j \in DOMAIN stack :
    stack[j].op \in {"add", "rm"} => stack[j].at = "abort"

-----------------------------------------------------------------------------
(* The calls that user code makes.                                          *)

(* wp_registry_register_object                                              *)
RegisterObject(o) ==
  /\ UserCode
  /\ "register" \notin Lapses => RegisterSpares(o)
  /\ o \in Locals \ used
  /\ used' = used \cup {o}
  /\ registered' = Append(registered, o)
  /\ Push(NewFrame("add", "loop", None, o))
  /\ UNCHANGED <<object_managers, tmp_globals, globals, gone, known, held,
                 fresh, omVars, waiting, initial>>

BeingRemoved(o) == \E j \in DOMAIN stack : stack[j].op = "rm" /\ stack[j].obj = o

(* wp_registry_remove_object; the object leaves the array in LoopEnd        *)
RemoveObject(o) ==
  /\ UserCode
  /\ "remove" \notin Lapses => RemoveSpares(o)
  /\ o \in ToSet(registered)
  /\ ~BeingRemoved(o)
  /\ Push(NewFrame("rm", "loop", None, o))
  /\ UNCHANGED <<regVars, useVars, omVars, waiting, initial>>

(* wp_core_install_object_manager up to its loop over the local objects;    *)
(* wp_object_manager_add_global emits nothing.                              *)
Install(om) ==
  /\ UserCode
  /\ "install" \notin Lapses => InstallSpares(om)
  /\ om \in fresh
  /\ fresh' = fresh \ {om}
  /\ held' = held \cup {om}
  /\ object_managers' = Append(object_managers, om)
  /\ waiting' = waiting \cup ({om} \X (globals \cap Interest[om]))
  /\ initial' = [initial EXCEPT ![om] = globals \cap Interest[om]]
  /\ Push(NewFrame("install", "loop", om, None))
  /\ UNCHANGED <<registered, tmp_globals, globals, gone, known, used, omVars>>

(* The user drops its reference.  A handler does not do so to a manager     *)
(* that a frame without a reference of its own is working on.               *)
Drop(om) ==
  /\ UserCode
  /\ "drop" \notin Lapses => DropSpares
  /\ om \in held
  /\ \A j \in DOMAIN stack :
       stack[j].op \in {"add", "rm", "install"} => stack[j].om # om
  /\ held' = held \ {om}
  /\ Release(<<om>>, held', waiting, stack)
  /\ UNCHANGED <<registered, tmp_globals, globals, gone, known, fresh, used,
                 waiting, changed, installed, emitted, initial, stack>>

-----------------------------------------------------------------------------
(* The main loop: messages of the server, activations and idle sources.     *)

(* registry_global, or a proxy of ours is bound                             *)
GlobalAppears(g) ==
  /\ InMainLoop
  /\ g \notin tmp_globals \cup globals \cup gone
  /\ tmp_globals' = tmp_globals \cup {g}
  /\ UNCHANGED <<object_managers, registered, globals, gone, known, useVars,
                 omVars, waiting, initial, stack>>

(* expose_tmp_globals: a copy of the array of managers is walked            *)
Expose ==
  /\ InMainLoop
  /\ tmp_globals # {}
  /\ tmp_globals' = {}
  /\ globals' = globals \cup (tmp_globals \ gone)
  /\ known' = (known \/ tmp_globals \ gone # {})
  /\ Push([NewFrame("expose", "loop", None, None) EXCEPT
             !.oms = object_managers, !.batch = tmp_globals \ gone])
  /\ UNCHANGED <<object_managers, registered, gone, useVars, omVars, waiting, initial>>

(* registry_global_remove: a global that is still held back only becomes    *)
(* invalid; an exposed one is notified, then its activations are aborted.   *)
GlobalRemoved(g) ==
  /\ InMainLoop
  /\ g \in (tmp_globals \cup globals) \ gone
  /\ gone' = gone \cup {g}
  /\ IF g \in globals
       THEN Push([NewFrame("rm", "loop", None, g) EXCEPT
                    !.oms = SetToSeq({om \in Managers : <<om, g>> \in waiting})])
       ELSE UNCHANGED stack
  /\ UNCHANGED <<object_managers, registered, tmp_globals, globals, known,
                 useVars, omVars, waiting, initial>>

(* on_proxy_ready: the proxy of a removed global is not bound any more      *)
ProxyReady(om, g) ==
  /\ InMainLoop
  /\ <<om, g>> \in waiting
  /\ waiting' = waiting \ {<<om, g>>}
  /\ \/ /\ g \notin gone
        /\ objects' = [objects EXCEPT ![om][g] = @ + 1]
        /\ unreported' = unreported \cup {om}
        /\ Push(NewFrame("ready", "object-added", om, g))
     \/ /\ Push(NewFrame("ready", "maybe", om, g))
        /\ UNCHANGED <<objects, unreported>>
  /\ UNCHANGED <<regVars, useVars, changed, idle_source, installed, emitted, initial>>

(* idle_emit_objects_changed                                                *)
IdleEmit(om) ==
  /\ InMainLoop
  /\ om \in idle_source
  /\ idle_source' = idle_source \ {om}
  /\ IF om \in installed
       THEN /\ unreported' = unreported \ {om}
            /\ Push(NewFrame("idle", "objects-changed", om, None))
            /\ UNCHANGED emitted
       ELSE /\ emitted' = [emitted EXCEPT ![om] = @ + 1]
            /\ Push(NewFrame("idle", "installed", om, None))
            /\ UNCHANGED unreported
  /\ UNCHANGED <<regVars, useVars, objects, waiting, changed, installed, initial>>

-----------------------------------------------------------------------------
(* The frames.                                                              *)

(* Mutant: a manager is only told of objects once it is installed.          *)
AddsIfInstalled(om, o) == om \in installed /\ o \in Interest[om]

(* wp_object_manager_is_interested_in_object, in the loop over managers     *)
Adds(om, o) == o \in Interest[om]

(* g_ptr_array_find in wp_object_manager_rm_object                          *)
Removes(om, o) == objects[om][o] > 0

(* wp_registry_notify_add_object and _rm_object, one manager                *)
LoopNotify ==
  /\ TopIs("loop") /\ Top.op \in {"add", "rm"}
  /\ Top.i <= Len(object_managers)
  /\ LET om == object_managers[Top.i]
         at(place) == stack' = Append(Below, [Top EXCEPT !.om = om, !.at = place])
     IN  \/ /\ Top.op = "add" /\ Adds(om, Top.obj)
            /\ objects' = [objects EXCEPT ![om][Top.obj] = @ + 1]
            /\ unreported' = unreported \cup {om}
            /\ at("object-added")
         \/ /\ Top.op = "rm" /\ Removes(om, Top.obj)
            /\ objects' = [objects EXCEPT ![om][Top.obj] = @ - 1]
            /\ unreported' = unreported \cup {om}
            /\ at("object-removed")
         \/ /\ Top.op = "add" => ~Adds(om, Top.obj)
            /\ Top.op = "rm" => ~Removes(om, Top.obj)
            /\ at("maybe")
            /\ UNCHANGED <<objects, unreported>>
  /\ UNCHANGED <<regVars, useVars, waiting, changed, idle_source, installed,
                 emitted, initial>>

(* expose_tmp_globals, one manager of the copy                              *)
LoopExpose ==
  /\ TopIs("loop") /\ Top.op = "expose"
  /\ Top.i <= Len(Top.oms)
  /\ LET om == Top.oms[Top.i]
     IN  /\ waiting' = waiting \cup ({om} \X (Top.batch \cap Interest[om]))
         /\ stack' = Append(Below, [Top EXCEPT !.om = om, !.at = "maybe"])
  /\ UNCHANGED <<regVars, useVars, omVars, initial>>

(* wp_core_install_object_manager, one local object                         *)
LoopInstall ==
  /\ TopIs("loop") /\ Top.op = "install"
  /\ \/ /\ Top.i <= Len(registered)
        /\ registered[Top.i] \in Interest[Top.om]
        /\ objects' = [objects EXCEPT ![Top.om][registered[Top.i]] = @ + 1]
        /\ unreported' = unreported \cup {Top.om}
        /\ Goto("object-added")
     \/ /\ Top.i <= Len(registered)
        /\ registered[Top.i] \notin Interest[Top.om]
        /\ NextIndex
        /\ UNCHANGED <<objects, unreported>>
     \/ /\ Top.i > Len(registered)
        /\ Goto("maybe")
        /\ UNCHANGED <<objects, unreported>>
  /\ UNCHANGED <<regVars, useVars, waiting, changed, idle_source, installed,
                 emitted, initial>>

(* wp_global_rm_flag after its notification: the proxy is destroyed and     *)
(* wp_object_abort_activation ends each of its activations with an error.   *)
AbortNext ==
  /\ TopIs("abort")
  /\ Top.oms # <<>>
  /\ waiting' = waiting \ {<<Head(Top.oms), Top.obj>>}
  /\ stack' = Below \o <<[Top EXCEPT !.oms = Tail(@)],
                         NewFrame("ready", "maybe", Head(Top.oms), Top.obj)>>
  /\ UNCHANGED <<regVars, useVars, omVars, initial>>

(* The last handler of object-added or object-removed returns.              *)
NotifyReturn ==
  /\ TopIs("object-added") \/ TopIs("object-removed")
  /\ changed' = changed \cup {Top.om}
  /\ IF Top.op = "install" THEN NextIndex ELSE Goto("maybe")
  /\ UNCHANGED <<regVars, useVars, objects, idle_source, installed, emitted,
                 unreported, waiting, initial>>

(* The cases of wp_object_manager_maybe_objects_changed: it waits for       *)
(* pending objects; otherwise it reports changes from an idle source, or    *)
(* else emits installed if the registry knows all there is to know.         *)
Waits(om) == \E g \in Globals : <<om, g>> \in waiting

Reports(om) == ~Waits(om) /\ om \in changed

Completes(om) ==
  /\ ~Waits(om) /\ om \notin changed
  /\ om \notin installed /\ tmp_globals = {} /\ known

(* Mutant: the changed flag is cleared while objects are pending.           *)
UnchangedAfterClears(om) ==
  changed' = IF Waits(om) THEN changed \ {om} ELSE changed

UnchangedAfter(om) == UNCHANGED changed

(* wp_object_manager_maybe_objects_changed                                  *)
MaybeObjectsChanged ==
  /\ TopIs("maybe")
  /\ \/ /\ Reports(Top.om)
        /\ changed' = changed \ {Top.om}
        /\ idle_source' = idle_source \cup {Top.om}
        /\ Continue
        /\ UNCHANGED emitted
     \/ /\ Completes(Top.om)
        /\ emitted' = [emitted EXCEPT ![Top.om] = @ + 1]
        /\ Goto("installed")
        /\ UNCHANGED <<changed, idle_source>>
     \/ /\ ~Reports(Top.om) /\ ~Completes(Top.om)
        /\ UnchangedAfter(Top.om)
        /\ Continue
        /\ UNCHANGED <<idle_source, emitted>>
  /\ UNCHANGED <<regVars, useVars, objects, installed, unreported, waiting, initial>>

SetInstalled(om) == installed' = installed \cup {om}

(* The last handler of installed returns.                                   *)
InstalledReturn ==
  /\ TopIs("installed")
  /\ SetInstalled(Top.om)
  /\ IF Top.op = "idle"
       THEN unreported' = unreported \ {Top.om} /\ Goto("objects-changed")
       ELSE UNCHANGED unreported /\ Continue
  /\ UNCHANGED <<regVars, useVars, objects, changed, idle_source, emitted,
                 waiting, initial>>

(* The last handler of objects-changed returns.                             *)
ReportReturn ==
  /\ TopIs("objects-changed")
  /\ Goto("end")
  /\ UNCHANGED <<regVars, useVars, omVars, waiting, initial>>

AtEnd(op, len) == Top.op = op /\ (Top.at = "end" \/ (Top.at = "loop" /\ Top.i > len))

(* The functions return; some of them drop references then.                 *)
Return ==
  /\ stack # <<>>
  /\ \/ /\ AtEnd("add", Len(object_managers))
        /\ Pop
        /\ UNCHANGED <<object_managers, registered, globals, objects,
                       idle_source, unreported>>
     \/ /\ AtEnd("rm", Len(object_managers)) /\ Top.obj \in Locals
        /\ Pop
        /\ registered' = RemoveFast(registered, Top.obj)
        /\ UNCHANGED <<object_managers, globals, objects, idle_source, unreported>>
     \/ /\ AtEnd("rm", Len(object_managers)) /\ Top.obj \in Globals
        /\ Goto("abort")
        /\ UNCHANGED <<object_managers, registered, globals, objects,
                       idle_source, unreported>>
     \/ /\ Top.op = "rm" /\ Top.at = "abort" /\ Top.oms = <<>>
        /\ Pop
        /\ globals' = globals \ {Top.obj}
        /\ UNCHANGED <<object_managers, registered, objects, idle_source, unreported>>
     \/ /\ Top.op = "install" /\ Top.at = "end"
        /\ Pop
        /\ UNCHANGED <<object_managers, registered, globals, objects,
                       idle_source, unreported>>
     \/ /\ \/ AtEnd("expose", Len(Top.oms))
           \/ Top.op \in {"ready", "idle"} /\ Top.at = "end"
        /\ Pop
        /\ Release(IF Top.op = "expose" THEN Top.oms ELSE <<Top.om>>,
                   held, waiting, Below)
        /\ UNCHANGED <<registered, globals>>
  /\ UNCHANGED <<tmp_globals, gone, known, useVars, changed, installed,
                 emitted, waiting, initial>>

-----------------------------------------------------------------------------
Init ==
  /\ object_managers = <<>>
  /\ registered = <<>>
  /\ tmp_globals = {} /\ globals = {} /\ gone = {} /\ known = FALSE
  /\ held = {} /\ fresh = Managers /\ used = {}
  /\ objects = [om \in Managers |-> [o \in Objects |-> 0]]
  /\ waiting = {}
  /\ changed = {} /\ idle_source = {} /\ installed = {}
  /\ emitted = [om \in Managers |-> 0]
  /\ unreported = {}
  /\ initial = [om \in Managers |-> {}]
  /\ stack = <<>>

UserNext ==
  \/ \E o \in Locals : RegisterObject(o) \/ RemoveObject(o)
  \/ \E om \in Managers : Install(om) \/ Drop(om)

ServerNext == \E g \in Globals : GlobalAppears(g) \/ GlobalRemoved(g)

FrameNext ==
  \/ LoopNotify \/ LoopExpose \/ LoopInstall \/ AbortNext
  \/ NotifyReturn \/ MaybeObjectsChanged \/ InstalledReturn \/ ReportReturn
  \/ Return

Next ==
  \/ UserNext
  \/ ServerNext
  \/ Expose
  \/ \E om \in Managers, g \in Globals : ProxyReady(om, g)
  \/ \E om \in Managers : IdleEmit(om)
  \/ FrameNext

Spec == Init /\ [][Next]_vars

(* Handlers return, idle sources are dispatched and activations end.        *)
Fairness ==
  /\ WF_vars(FrameNext)
  /\ WF_vars(Expose)
  /\ \A om \in Managers : WF_vars(IdleEmit(om))
  /\ \A om \in Managers, g \in Globals : WF_vars(ProxyReady(om, g))

FairSpec == Spec /\ Fairness
-----------------------------------------------------------------------------
TypeOK ==
  /\ object_managers \in Seq(Managers)
  /\ registered \in Seq(Locals)
  /\ tmp_globals \subseteq Globals /\ globals \subseteq Globals
  /\ gone \subseteq Globals /\ known \in BOOLEAN
  /\ held \subseteq Managers /\ fresh \subseteq Managers /\ used \subseteq Locals
  /\ objects \in [Managers -> [Objects -> Nat]]
  /\ waiting \subseteq Managers \X Globals
  /\ changed \subseteq Managers /\ idle_source \subseteq Managers
  /\ installed \subseteq Managers /\ emitted \in [Managers -> Nat]
  /\ unreported \subseteq Managers
  /\ initial \in [Managers -> SUBSET Globals]
  /\ stack \in Seq(Frame)

Installed == ToSet(object_managers)
Live(o) == o \in ToSet(registered) \cup (globals \ gone)

(* "notify all listeners that the proxy is gone": the managers hold their   *)
(* objects without a reference, so in the main loop every object of a       *)
(* manager is one that is still there, held once.                           *)
NoStaleObject ==
  InMainLoop =>
    \A om \in Installed, o \in Objects :
      objects[om][o] > 0 => Live(o) /\ objects[om][o] = 1

(* Nothing is missed either: in the main loop a manager has every local     *)
(* object that it is interested in.                                         *)
NoMissedObject ==
  InMainLoop =>
    \A om \in Installed : \A o \in ToSet(registered) \cap Interest[om] :
      objects[om][o] > 0

(* installed "is emitted once after the object manager is installed".       *)
InstalledOnce == \A om \in Managers : emitted[om] <= 1

(* "If there are objects that need to be prepared asynchronously            *)
(* internally, emission of this signal is delayed until all objects are     *)
(* ready": no global that the manager found when it was installed is still  *)
(* being activated when the handlers of installed run.                      *)
InstalledWhenReady ==
  TopIs("installed") => \A g \in initial[Top.om] : <<Top.om, g>> \notin waiting

(* Nobody who is woken up late is forgotten: a manager whose objects        *)
(* changed emits objects-changed, or goes away.                             *)
ChangesReported == \A om \in Managers : om \in unreported ~> om \notin unreported

(* A manager becomes installed once the registry knows globals.             *)
EventuallyInstalled ==
  \A om \in Managers :
    (om \in Installed /\ known) ~> (om \in installed \/ om \notin Installed)

(* Whatever the handlers do: a manager has the objects that there are, each *)
(* once, and is installed once and not before it is ready.                  *)
Consistent ==
  TypeOK /\ NoStaleObject /\ NoMissedObject /\ InstalledOnce /\ InstalledWhenReady

(* Both things that users of a manager wait for come, its installation and  *)
(* the report of a change, although each waits for objects that come and go.*)
NothingForgotten == ChangesReported /\ EventuallyInstalled
=============================================================================
