------------------------------- MODULE Daemon -------------------------------
(***************************************************************************)
(* The life of the daemon: WpInitTransition and the exit of src/main.c,    *)
(* the loading of components (lib/wp/component-loader.c), the activation   *)
(* of plugins (lib/wp/plugin.c) and the engine that runs the scripts       *)
(* (modules/module-lua-scripting).                                         *)
(*                                                                         *)
(* The start-up is a transition that is advanced by whoever finishes what  *)
(* it waits for: the connection, object managers, activations.  Idle       *)
(* sources are dispatched in the order in which they were attached, and    *)
(* those that were attached when an iteration of the main loop began are   *)
(* still dispatched when one of them quits the loop.                       *)
(*                                                                         *)
(* The inside of activations, object managers and the core is the subject  *)
(* of ObjectActivation, ObjectManagers and Core.                           *)
(***************************************************************************)
EXTENDS Naturals, Sequences, SequencesExt

CONSTANTS
  Plugins,       \* of the modules other than the script engine
  Scripts,
  Engine,        \* the plugin "lua-scripting"
  None,          \* no name, no object manager, no component
  Configs,       \* what the configuration may be: see Config
  FailsAtOnce    \* the plugins and scripts that may fail while being enabled

Components == Plugins \cup Scripts \cup {Engine}

(* components is the flattened "wireplumber.components" (a configuration    *)
(* file that is a component loads others), engine what                      *)
(* "wireplumber.script-engine" says, and valid whether the section parses.  *)
(* Each entry makes an object of its own, and has a name of its own.        *)
Config == [components : Seq(Components), engine : {Engine, None}, valid : BOOLEAN]

Distinct(seq) == \A i, j \in DOMAIN seq : seq[i] = seq[j] => i = j

ASSUME NameAssumption ==
  /\ None \notin Components \cup {"check", "plugins", "scripts"}
  /\ Engine \notin Plugins \cup Scripts /\ Plugins \cap Scripts = {}
ASSUME ConfigAssumption ==
  Configs \subseteq {c \in Config : Distinct(c.components)}
ASSUME FailsAssumption == FailsAtOnce \subseteq Plugins \cup Scripts

VARIABLES
  config,      \* the configuration
  transition,  \* the WpInitTransition, a record
  registered,  \* the plugins in the registry
  scripts,     \* those that the engine has not registered yet
  phase,       \* per component, how far its activation is
  idle,        \* the idle sources attached to the main context, in order
  batch,       \* how many of them this iteration of the main loop dispatches
  pw_core,     \* "NULL", "connecting", "connected" or "broken"
  running,     \* does the main loop run?
  exited,      \* did main return?
  exit_code,   \* WpDaemon.exit_code
  misused      \* objects that were used after they were gone

vars == <<config, transition, registered, scripts, phase, idle, batch, pw_core,
          running, exited, exit_code, misused>>

-----------------------------------------------------------------------------
Steps == {"NONE", "LOAD_COMPONENTS", "CONNECT", "CHECK_MEDIA_SESSION",
          "ACTIVATE_PLUGINS", "ACTIVATE_SCRIPTS", "CLEANUP", "ERROR"}

(* om says which object manager the transition has, settled whether it has  *)
(* emitted installed, and gone whether the transition was finalized.        *)
Transition == [step : Steps, om : {None, "check", "plugins", "scripts"},
               settled : BOOLEAN, pending_plugins : Nat, gone : BOOLEAN]

(* A plugin is queued from wp_object_activate until the idle source that    *)
(* advances it, and finishing from wp_object_update_features until the      *)
(* next one.                                                                *)
Phases == {"inactive", "queued", "enabling", "finishing", "enabled", "failed"}

ExitCodes == {"OK", "UNAVAILABLE", "SOFTWARE", "CONFIG"}

(* An idle source calls init_start, core_disconnect_async, the emission of  *)
(* installed by the manager of, or wp_object_advance_transitions of.        *)
Source(type, of) == [type |-> type, of |-> of]

World == [transition |-> transition, registered |-> registered, scripts |-> scripts,
          phase |-> phase, idle |-> idle, pw_core |-> pw_core, running |-> running,
          exit_code |-> exit_code, misused |-> misused]

Becomes(w) ==
  /\ transition' = w.transition /\ registered' = w.registered /\ scripts' = w.scripts
  /\ phase' = w.phase /\ idle' = w.idle /\ pw_core' = w.pw_core
  /\ running' = w.running /\ exit_code' = w.exit_code /\ misused' = w.misused

Attach(w, type, of) == [w EXCEPT !.idle = Append(@, Source(type, of))]

-----------------------------------------------------------------------------
(* main.c                                                                   *)

(* daemon_exit                                                              *)
DaemonExit(w, code) ==
  [w EXCEPT !.exit_code = IF @ = "OK" THEN code ELSE @, !.running = FALSE]

(* wp_transition_return_error, with init_done; the transition is finalized. *)
ReturnError(w, code) ==
  IF w.transition.gone THEN [w EXCEPT !.misused = @ \cup {"transition"}]
  ELSE DaemonExit([w EXCEPT !.transition.step = "ERROR", !.transition.om = None,
                            !.transition.gone = TRUE], code)

(* wp_object_activate of a plugin                                           *)
Activate(w, p) == Attach([w EXCEPT !.phase[p] = "queued"], "advance", p)

(* on_plugin_added                                                          *)
OnPluginAdded(w, p) ==
  Activate([w EXCEPT !.transition.pending_plugins = @ + 1], p)

(* The interests of the object manager of the transition.                   *)
Interested(w, p) ==
  \/ w.transition.om = "plugins" /\ (p # Engine \/ config.engine = None)
  \/ w.transition.om = "scripts" /\ p \in Scripts

AddIfInterested(w, p) == IF Interested(w, p) THEN OnPluginAdded(w, p) ELSE w

(* wp_plugin_register                                                       *)
Register(w, p) == AddIfInterested([w EXCEPT !.registered = Append(@, p)], p)

(* A new object manager in the place of the old one; those that match are   *)
(* added to it before wp_core_install_object_manager returns.               *)
InstallOm(w, om) ==
  FoldLeft(AddIfInterested,
           [w EXCEPT !.transition.om = om, !.transition.settled = FALSE], w.registered)

-----------------------------------------------------------------------------
(* The steps of wp_init_transition_execute_step and, where they advance the *)
(* transition themselves, those that follow.                                *)
Cleanup(w) == [w EXCEPT !.transition.step = "CLEANUP", !.transition.om = None]

(* Without an engine the step is left at once, as no plugin is pending.     *)
ActivateScripts(w) ==
  IF config.engine = None THEN Cleanup(w)
  ELSE IF config.engine \notin ToSet(w.registered) THEN ReturnError(w, "CONFIG")
  ELSE Activate(InstallOm([w EXCEPT !.transition.step = "ACTIVATE_SCRIPTS",
                                    !.transition.pending_plugins = 1], "scripts"),
                config.engine)

(* When no plugin matches and the registry holds no global back, installed  *)
(* is emitted before wp_core_install_object_manager returns, which goes on  *)
(* to use the object manager that its handler has dropped.                  *)
ActivatePlugins(w, nothingHeldBack) ==
  LET installed == InstallOm([w EXCEPT !.transition.step = "ACTIVATE_PLUGINS"], "plugins")
  IN  IF installed.transition.pending_plugins > 0 THEN Attach(installed, "installed", "plugins")
      ELSE IF nothingHeldBack
        THEN ActivateScripts([installed EXCEPT !.misused = @ \cup {"om"}])
      ELSE installed

(* check_media_session                                                      *)
CheckMediaSession(w, found, nothingHeldBack) ==
  IF found THEN ReturnError(w, "SOFTWARE") ELSE ActivatePlugins(w, nothingHeldBack)

(* wp_init_transition_get_next_step in the steps that wait for plugins      *)
AdvancePlugins(w) ==
  IF w.transition.pending_plugins > 0 THEN w
  ELSE IF w.transition.step = "ACTIVATE_PLUGINS" THEN ActivateScripts(w) ELSE Cleanup(w)

(* Mutant: a plugin that fails is not waited for any more.                  *)
OnPluginActivatedAnyway(w, p, ok) ==
  IF w.transition.gone THEN w
  ELSE AdvancePlugins([w EXCEPT !.transition.pending_plugins = @ - 1])

(* on_plugin_activated: closures that watch the transition are not invoked  *)
(* when it is gone; that of the engine does not watch it.                   *)
OnPluginActivated(w, p, ok) ==
  LET watched == ~(p = Engine /\ config.engine = Engine)
  IN  IF w.transition.gone
        THEN IF watched THEN w ELSE [w EXCEPT !.misused = @ \cup {"transition"}]
      ELSE IF ok THEN AdvancePlugins([w EXCEPT !.transition.pending_plugins = @ - 1])
      ELSE ReturnError(w, "SOFTWARE")

(* wp_core_load_component; bad is a component that does not load            *)
LoadComponent(w, c, bad) ==
  IF w.transition.gone THEN w
  ELSE IF c = bad \/ (c \in Scripts /\ Engine \notin ToSet(w.registered))
    THEN ReturnError(w, "SOFTWARE")
  ELSE IF c \in Scripts THEN [w EXCEPT !.scripts = Append(@, c)]
  ELSE Register(w, c)

(* do_load_components                                                       *)
LoadComponents(w, bad) ==
  IF ~config.valid \/ config.components = <<>> THEN ReturnError(w, "CONFIG")
  ELSE FoldLeft(LAMBDA v, c : LoadComponent(v, c, bad), w, config.components)

(* STEP_CONNECT: a partial result is that of the second connection, for     *)
(* exports, which fails after the first has been made.                      *)
ConnectCores(w, result) ==
  LET made == [w EXCEPT !.transition.step = "CONNECT", !.pw_core = "connecting"]
  IN  CASE result = "connected" -> made
        [] result = "refused"   -> ReturnError(w, "UNAVAILABLE")
        [] result = "partial"   -> ReturnError(made, "UNAVAILABLE")

(* init_start: the first two steps                                          *)
InitStart(w, bad, result) ==
  LET loaded == LoadComponents([w EXCEPT !.transition.step = "LOAD_COMPONENTS"], bad)
  IN  IF loaded.transition.gone THEN loaded ELSE ConnectCores(loaded, result)

(* wp_core_disconnect, with on_disconnected if there is a connection        *)
Disconnect(w) ==
  IF w.pw_core = "NULL" THEN w ELSE DaemonExit([w EXCEPT !.pw_core = "NULL"], "OK")

-----------------------------------------------------------------------------
(* Plugins and scripts.                                                     *)

(* wp_object_update_features (self, WP_PLUGIN_FEATURE_ENABLED, 0)           *)
Enabled(w, p) == Attach([w EXCEPT !.phase[p] = "finishing"], "advance", p)

Failed(w, p) == OnPluginActivated([w EXCEPT !.phase[p] = "failed"], p, FALSE)

(* wp_lua_scripting_plugin_enable registers the scripts that were loaded.   *)
EnableEngine(w) ==
  Enabled(FoldLeft(Register, [w EXCEPT !.scripts = <<>>], w.scripts), Engine)

(* wp_object_advance_transitions of a plugin: its enable, which ends at     *)
(* once or later, or the end of its activation.                             *)
AdvancePlugin(w, p, outcome) ==
  CASE w.phase[p] = "finishing" ->
         OnPluginActivated([w EXCEPT !.phase[p] = "enabled"], p, TRUE)
    [] w.phase[p] = "queued" /\ p = Engine -> EnableEngine(w)
    [] w.phase[p] = "queued" /\ p # Engine ->
         CASE outcome = "done"   -> Enabled(w, p)
           [] outcome = "later"  -> [w EXCEPT !.phase[p] = "enabling"]
           [] outcome = "failed" -> Failed(w, p)

Outcomes(p) == IF p \in FailsAtOnce THEN {"done", "later", "failed"} ELSE {"done", "later"}

-----------------------------------------------------------------------------
(* The main loop.                                                           *)
InLoop == running /\ batch = 0

(* An iteration begins with the idle sources that are attached by then.     *)
Iterate ==
  /\ InLoop
  /\ idle # <<>>
  /\ batch' = Len(idle)
  /\ UNCHANGED <<config, transition, registered, scripts, phase, idle, pw_core,
                 running, exited, exit_code, misused>>

Dispatches(type) == batch > 0 /\ Head(idle).type = type
Taken == [World EXCEPT !.idle = Tail(@)]
Dispatched == batch' = batch - 1 /\ UNCHANGED <<config, exited>>

DispatchStart ==
  /\ Dispatches("start")
  /\ \E bad \in ToSet(config.components) \cup {None},
        result \in {"connected", "refused", "partial"} :
       Becomes(InitStart(Taken, bad, result))
  /\ Dispatched

(* The source of an object manager that was dropped is gone with it.        *)
DispatchInstalled ==
  /\ Dispatches("installed")
  /\ Becomes(IF transition.om # "plugins" THEN Taken
             ELSE AdvancePlugins([Taken EXCEPT !.transition.settled = TRUE]))
  /\ Dispatched

DispatchAdvance ==
  /\ Dispatches("advance")
  /\ \E outcome \in Outcomes(Head(idle).of) :
       Becomes(AdvancePlugin(Taken, Head(idle).of, outcome))
  /\ Dispatched

(* Mutant: the core is told of the loss, the daemon is not.                 *)
DispatchDisconnectQuietly ==
  /\ Dispatches("disconnect")
  /\ Becomes([Taken EXCEPT !.pw_core = "NULL"])
  /\ Dispatched

(* core_disconnect_async                                                    *)
DispatchDisconnect ==
  /\ Dispatches("disconnect")
  /\ Becomes(Disconnect(Taken))
  /\ Dispatched

Event == InLoop /\ UNCHANGED <<config, batch, exited>>

(* core_info emits connected, which advances the transition once.           *)
CoreInfo ==
  /\ Event
  /\ pw_core = "connecting"
  /\ Becomes(InstallOm([World EXCEPT !.pw_core = "connected",
                                     !.transition.step = "CHECK_MEDIA_SESSION"], "check"))

(* The object manager becomes installed by what it hears of globals.        *)
OmInstalled ==
  /\ Event
  /\ pw_core = "connected"
  /\ ~transition.settled
  /\ \/ /\ transition.om = "check"
        /\ \E found, nothingHeldBack \in BOOLEAN :
             Becomes(CheckMediaSession([World EXCEPT !.transition.settled = TRUE],
                                       found, nothingHeldBack))
     \/ /\ transition.om = "plugins"
        /\ Source("installed", "plugins") \notin ToSet(idle)
        /\ Becomes(AdvancePlugins([World EXCEPT !.transition.settled = TRUE]))

(* A plugin or a script that is enabled later succeeds or fails.            *)
EnableEnds(p) ==
  /\ Event
  /\ phase[p] = "enabling"
  /\ Becomes(Enabled(World, p)) \/ Becomes(Failed(World, p))

(* core_error with EPIPE                                                    *)
ConnectionBreaks ==
  /\ Event
  /\ pw_core \in {"connecting", "connected"}
  /\ Becomes(Attach([World EXCEPT !.pw_core = "broken"], "disconnect", None))

(* signal_handler                                                           *)
Signal ==
  /\ Event
  /\ Becomes(DaemonExit(World, "OK"))

(* The end of main                                                          *)
Exit ==
  /\ ~running /\ batch = 0 /\ ~exited
  /\ exited' = TRUE
  /\ Becomes(Disconnect(World))
  /\ UNCHANGED <<config, batch>>

-----------------------------------------------------------------------------
Init ==
  /\ config \in Configs
  /\ transition = [step |-> "NONE", om |-> None, settled |-> FALSE,
                   pending_plugins |-> 0, gone |-> FALSE]
  /\ registered = <<>> /\ scripts = <<>>
  /\ phase = [p \in Components |-> "inactive"]
  /\ idle = <<Source("start", None)>> /\ batch = 0
  /\ pw_core = "NULL"
  /\ running = TRUE /\ exited = FALSE /\ exit_code = "OK"
  /\ misused = {}

MainLoop ==
  \/ Iterate
  \/ DispatchStart \/ DispatchInstalled \/ DispatchAdvance \/ DispatchDisconnect
  \/ Exit

Next ==
  \/ MainLoop
  \/ CoreInfo \/ OmInstalled \/ ConnectionBreaks \/ Signal
  \/ \E p \in Components : EnableEnds(p)

Spec == Init /\ [][Next]_vars

(* The main loop runs, the server answers unless the connection breaks, and *)
(* what is enabled later succeeds or fails in the end.                      *)
Fairness ==
  /\ WF_vars(MainLoop) /\ WF_vars(CoreInfo) /\ WF_vars(OmInstalled)
  /\ \A p \in Components : WF_vars(EnableEnds(p))

FairSpec == Spec /\ Fairness
-----------------------------------------------------------------------------
TypeOK ==
  /\ config \in Configs
  /\ transition \in Transition
  /\ registered \in Seq(Components) /\ scripts \in Seq(Scripts)
  /\ phase \in [Components -> Phases]
  /\ \A i \in DOMAIN idle :
       idle[i] \in [type : {"start", "disconnect", "installed", "advance"},
                    of : Components \cup {"plugins", None}]
  /\ batch \in 0..Len(idle)
  /\ pw_core \in {"NULL", "connecting", "connected", "broken"}
  /\ running \in BOOLEAN /\ exited \in BOOLEAN /\ exit_code \in ExitCodes
  /\ misused \subseteq {"transition", "om"}

(* With a script engine the scripts come last: while a script is enabled or *)
(* has been, every plugin that was loaded is enabled.                       *)
ScriptsAfterPlugins ==
  \A s \in Scripts, p \in Plugins :
    config.engine = Engine /\ phase[s] # "inactive" /\ p \in ToSet(config.components)
      => phase[p] = "enabled"

(* The start-up is over only when everything that was loaded is enabled,    *)
(* the scripts that the engine registers while it is enabled included.      *)
CleanupComplete ==
  transition.step = "CLEANUP" =>
    \A c \in ToSet(config.components) : phase[c] = "enabled"

(* "replace OK with an error, but do not replace error with OK": a daemon   *)
(* whose start-up failed tells so when it exits, whatever else happens      *)
(* before it does.                                                          *)
FailureReported == exited /\ transition.step = "ERROR" => exit_code # "OK"

(* The start-up completes or the daemon exits.                              *)
StartsOrExits == <>(transition.step = "CLEANUP" \/ exited)

(* A daemon that lost its connection exits.                                 *)
LossEndsDaemon == pw_core = "broken" ~> exited

(* The assertion of wp_transition_advance (transition.c:421): what it is    *)
(* called with is a transition.                                             *)
AdvancesTransition == "transition" \notin misused

(* However plugins, scripts and errors interleave: scripts come last, the   *)
(* start-up ends with everything enabled, and a failure is told.            *)
Consistent == TypeOK /\ ScriptsAfterPlugins /\ CleanupComplete /\ FailureReported

(* The daemon never hangs, neither in its start-up nor without a server.    *)
NeverHangs == StartsOrExits /\ LossEndsDaemon
=============================================================================
