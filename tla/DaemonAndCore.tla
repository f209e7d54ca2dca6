--------------------------- MODULE DaemonAndCore ---------------------------
(***************************************************************************)
(* The daemon as its core sees it, and the core as its callers see it.     *)
(* Each behaviour is one of the two: Daemon has of its core what main.c    *)
(* reacts to, and Core has what happens on one connection after another.   *)
(***************************************************************************)
EXTENDS Daemon

CONSTANTS Syncs, MaxConnections, ResyncOnError

VARIABLES
  subject,                               \* "daemon" or "core"
  connection, info, async_tasks, seq, toServer, fromServer, broken,
  disconnects, late, connections, made, served, answered, succeeded

C == INSTANCE Core WITH pw_core <- connection

ASSUME CoreAssumption == C!ConstantsOK

coreVars == <<connection, info, async_tasks, seq, toServer, fromServer, broken,
              disconnects, late, connections, made, served, answered, succeeded>>
bothVars == <<subject, vars, coreVars>>

BothInit ==
  /\ subject \in {"daemon", "core"}
  /\ Init /\ C!Init
  /\ subject = "core" => config = CHOOSE c \in Configs : TRUE

DaemonOnly == subject = "daemon" /\ UNCHANGED <<subject, coreVars>>
CoreOnly == subject = "core" /\ UNCHANGED <<subject, vars>>

BothNext == (DaemonOnly /\ Next) \/ (CoreOnly /\ C!Next)

(* The fairness of each, see there.                                         *)
BothFairness ==
  /\ WF_bothVars(DaemonOnly /\ MainLoop)
  /\ WF_bothVars(DaemonOnly /\ CoreInfo) /\ WF_bothVars(DaemonOnly /\ OmInstalled)
  /\ \A p \in Components : WF_bothVars(DaemonOnly /\ EnableEnds(p))
  /\ WF_bothVars(CoreOnly /\ C!LoopNext) /\ WF_bothVars(CoreOnly /\ C!ServerDone)
  /\ \A s \in Syncs : WF_bothVars(CoreOnly /\ C!CompleteLate(s))

BothSpec == BothInit /\ [][BothNext]_bothVars /\ BothFairness
-----------------------------------------------------------------------------
(* An answer of the core is for the very sync that it was asked for.        *)
AnswersMatch == subject = "core" => C!Consistent

(* Nobody hangs: the daemon neither in its start-up nor without a server,   *)
(* and nobody who waits for the core waits for ever.                        *)
NobodyHangs ==
  /\ subject = "daemon" => NeverHangs
  /\ subject = "core" => C!NothingForgotten
-----------------------------------------------------------------------------
(* Configurations for the run.                                              *)
CONSTANTS p1, p2, s1, s2

Listing(components, engine) ==
  [components |-> components, engine |-> engine, valid |-> TRUE]

(* Plugins and scripts; the engine after its script, with no other plugin,  *)
(* without a script, not named by wireplumber.script-engine, and not        *)
(* loaded; no component; not an array.                                      *)
MCConfigs ==
  {Listing(<<Engine, p1, s1, p2, s2>>, Engine),
   Listing(<<s1, Engine>>, Engine),
   Listing(<<Engine, s1>>, Engine),
   Listing(<<p1, Engine>>, Engine),
   Listing(<<Engine, s1, s2>>, None),
   Listing(<<p1, p2>>, Engine),
   Listing(<<>>, Engine),
   [Listing(<<p1>>, Engine) EXCEPT !.valid = FALSE]}
=============================================================================
