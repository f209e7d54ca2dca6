-------------------------------- MODULE Core --------------------------------
(***************************************************************************)
(* The connection of a WpCore to the PipeWire server and the table of      *)
(* asynchronous tasks behind wp_core_sync (lib/wp/core.c).                 *)
(*                                                                         *)
(* A sync is a round trip: the server answers "done" with the sequence     *)
(* number of the request, numbers start again with each connection, and    *)
(* the table maps the numbers to the callbacks that wait.  The server may  *)
(* break the connection, which the core is told by an error and handles    *)
(* in an idle callback; user code may disconnect and connect at any time.  *)
(* A callback that is told of an error may sync again, while the table is  *)
(* being walked.                                                           *)
(***************************************************************************)
EXTENDS Naturals, Sequences

CONSTANTS
  Syncs,          \* the calls of wp_core_sync in a behaviour
  None,           \* no task
  MaxConnections, \* how often the core is connected (a bound)
  ResyncOnError   \* does a callback that is told of an error sync again?

(* What is assumed of the constants.                                        *)
ConstantsOK == None \notin Syncs /\ MaxConnections \in Nat /\ ResyncOnError \in BOOLEAN

VARIABLES
  pw_core,      \* WpCore.pw_core: the number of the connection, 0 for NULL
  info,         \* is WpCore.info not NULL?
  async_tasks,  \* WpCore.async_tasks: a function from sequence numbers
  seq,          \* the last sequence number of the connection
  toServer,     \* the syncs in flight
  fromServer,   \* the messages on their way to the core: see Message
  broken,       \* did the server close the connection?
  disconnects,  \* attached idle sources of core_disconnect_async
  late,         \* tasks that are completed in an idle callback
  connections,  \* the number of the last connection
  made,         \* per sync, the connection it was made on, None before that
  served,       \* the syncs that the server has served
  answered,     \* the syncs whose callback was called; a GTask returns once
  succeeded     \* the syncs that were answered without an error

connVars == <<pw_core, info, connections, broken>>
taskVars == <<late, answered, succeeded>>
vars == <<pw_core, info, async_tasks, seq, toServer, fromServer, broken,
          disconnects, late, connections, made, served, answered, succeeded>>

-----------------------------------------------------------------------------
(* Messages of the server: the info, the end of a sync, a broken socket.    *)
Message == [type : {"info", "done", "EPIPE"}, seq : Nat]

Msg(type, n) == [type |-> type, seq |-> n]

Connected == pw_core # 0

Waiting(tasks) == {tasks[n] : n \in DOMAIN tasks}

(* g_hash_table_insert: a task under the same number is dropped.            *)
Insert(tasks, n, s) ==
  [m \in DOMAIN tasks \cup {n} |-> IF m = n THEN s ELSE tasks[m]]

(* g_hash_table_steal                                                       *)
Steal(tasks, n) == [m \in DOMAIN tasks \ {n} |-> tasks[m]]

(* Mutant: every task is taken for the one that is done.                    *)
FoundAny(tasks, n) == Waiting(tasks)

(* The task that waits for n, if there is one.                              *)
Found(tasks, n) == {tasks[m] : m \in DOMAIN tasks \cap {n}}

(* Mutant: the table is emptied and nobody is told.                         *)
FinishSilently(tasks) ==
  {[now |-> {}, later |-> {}, left |-> <<>>, again |-> None]}

(* g_hash_table_foreach_remove with async_tasks_finish: every task returns  *)
(* an error, at once or, if it was made in this iteration of the main loop, *)
(* from an idle callback.                                                   *)
FinishAll(tasks) ==
  {[now |-> now, later |-> Waiting(tasks) \ now, left |-> <<>>, again |-> None] :
     now \in SUBSET Waiting(tasks)}

(* The walk ends early when a callback that it calls has changed the table: *)
(* the tasks that it did not come to stay there, with the new one.          *)
FinishInterrupted(tasks) ==
  {[now |-> {tasks[n] : n \in walked}, later |-> {}, again |-> r,
    left |-> Insert([m \in DOMAIN tasks \ walked |-> tasks[m]], seq + 1, r)] :
     walked \in (SUBSET DOMAIN tasks) \ {{}}, r \in {s \in Syncs : made[s] = None}}

Finish(tasks) ==
  FinishAll(tasks) \cup (IF ResyncOnError THEN FinishInterrupted(tasks) ELSE {})

(* wp_core_disconnect and proxy_core_destroy                                *)
DisconnectCore ==
  /\ \E plan \in Finish(async_tasks) :
       /\ async_tasks' = plan.left
       /\ answered' = answered \cup plan.now
       /\ late' = late \cup (plan.later \ answered)
       /\ made' = IF plan.again = None THEN made ELSE [made EXCEPT ![plan.again] = pw_core]
       /\ seq' = IF plan.again = None THEN seq ELSE seq + 1
  /\ pw_core' = 0
  /\ info' = FALSE
  /\ toServer' = <<>> /\ fromServer' = <<>>
  /\ broken' = FALSE
  /\ UNCHANGED <<connections, served, succeeded>>

-----------------------------------------------------------------------------
(* User code.                                                               *)

(* wp_core_connect, when it succeeds                                        *)
Connect ==
  /\ ~Connected
  /\ connections < MaxConnections
  /\ connections' = connections + 1
  /\ pw_core' = connections + 1
  /\ seq' = 0
  /\ toServer' = <<>> /\ fromServer' = <<Msg("info", 0)>>
  /\ UNCHANGED <<info, async_tasks, broken, disconnects, taskVars, made, served>>

Disconnect ==
  /\ Connected
  /\ DisconnectCore
  /\ UNCHANGED disconnects

(* wp_core_sync_closure                                                     *)
Sync(s) ==
  /\ made[s] = None
  /\ made' = [made EXCEPT ![s] = pw_core]
  /\ \/ /\ Connected
        /\ seq' = seq + 1
        /\ async_tasks' = Insert(async_tasks, seq + 1, s)
        /\ toServer' = IF broken THEN toServer ELSE Append(toServer, seq + 1)
        /\ UNCHANGED late
     \/ /\ ~Connected \/ broken   \* "No pipewire core", "pw_core_sync failed"
        /\ late' = late \cup {s}
        /\ UNCHANGED <<seq, async_tasks, toServer>>
  /\ UNCHANGED <<connVars, fromServer, disconnects, served, answered, succeeded>>

-----------------------------------------------------------------------------
(* The server.                                                              *)
MadeAs(n) == {s \in Syncs : made[s] = pw_core /\ n \in DOMAIN async_tasks
                              /\ async_tasks[n] = s}

ServerDone ==
  /\ toServer # <<>>
  /\ toServer' = Tail(toServer)
  /\ fromServer' = Append(fromServer, Msg("done", Head(toServer)))
  /\ served' = served \cup MadeAs(Head(toServer))
  /\ UNCHANGED <<connVars, async_tasks, seq, disconnects, taskVars, made>>

(* What was not read yet is lost.                                           *)
ServerBreaks ==
  /\ Connected /\ ~broken
  /\ broken' = TRUE
  /\ toServer' = <<>>
  /\ fromServer' = <<Msg("EPIPE", 0)>>
  /\ UNCHANGED <<pw_core, info, connections, async_tasks, seq, disconnects,
                 taskVars, made, served>>

-----------------------------------------------------------------------------
(* The main loop.                                                           *)
Receive(message) ==
  /\ fromServer # <<>>
  /\ Head(fromServer) = message
  /\ fromServer' = Tail(fromServer)

(* core_info: the first one of a connection emits "connected"               *)
CoreInfo ==
  /\ Receive(Msg("info", 0))
  /\ info' = TRUE
  /\ UNCHANGED <<pw_core, connections, broken, async_tasks, seq, toServer,
                 disconnects, taskVars, made, served>>

(* core_done                                                                *)
CoreDone(n) ==
  /\ Receive(Msg("done", n))
  /\ async_tasks' = Steal(async_tasks, n)
  /\ answered' = answered \cup Found(async_tasks, n)
  /\ succeeded' = succeeded \cup (Found(async_tasks, n) \ answered)
  /\ UNCHANGED <<connVars, seq, toServer, disconnects, late, made, served>>

(* core_error                                                               *)
CoreError ==
  /\ Receive(Msg("EPIPE", 0))
  /\ disconnects' = disconnects + 1
  /\ UNCHANGED <<connVars, async_tasks, seq, toServer, taskVars, made, served>>

(* core_disconnect_async, whatever the core is connected to by then         *)
DisconnectAsync ==
  /\ disconnects > 0
  /\ disconnects' = disconnects - 1
  /\ IF Connected THEN DisconnectCore
     ELSE UNCHANGED <<connVars, async_tasks, seq, toServer, fromServer,
                      taskVars, made, served>>

(* A GTask that is completed in an idle callback.                           *)
CompleteLate(s) ==
  /\ s \in late
  /\ late' = late \ {s}
  /\ answered' = answered \cup {s}
  /\ UNCHANGED <<connVars, async_tasks, seq, toServer, fromServer, disconnects,
                 made, served, succeeded>>

-----------------------------------------------------------------------------
Init ==
  /\ pw_core = 0 /\ info = FALSE /\ connections = 0 /\ broken = FALSE
  /\ async_tasks = <<>> /\ seq = 0
  /\ toServer = <<>> /\ fromServer = <<>>
  /\ disconnects = 0
  /\ late = {} /\ served = {} /\ succeeded = {}
  /\ made = [s \in Syncs |-> None]
  /\ answered = {}

UserNext == Connect \/ Disconnect \/ \E s \in Syncs : Sync(s)

LoopNext ==
  \/ CoreInfo
  \/ \E n \in 1..seq : CoreDone(n)
  \/ CoreError
  \/ DisconnectAsync

Next ==
  \/ UserNext
  \/ LoopNext
  \/ \E s \in Syncs : CompleteLate(s)
  \/ ServerDone
  \/ ServerBreaks

Spec == Init /\ [][Next]_vars

(* The main loop runs and the server serves while the connection lasts.     *)
Fairness ==
  /\ WF_vars(LoopNext)
  /\ WF_vars(ServerDone)
  /\ \A s \in Syncs : WF_vars(CompleteLate(s))

FairSpec == Spec /\ Fairness
-----------------------------------------------------------------------------
TypeOK ==
  /\ pw_core \in 0..connections /\ connections \in Nat
  /\ info \in BOOLEAN /\ broken \in BOOLEAN
  /\ DOMAIN async_tasks \subseteq Nat /\ Waiting(async_tasks) \subseteq Syncs
  /\ seq \in Nat /\ toServer \in Seq(Nat)
  /\ fromServer \in Seq(Message)
  /\ disconnects \in Nat
  /\ late \subseteq Syncs /\ served \subseteq Syncs /\ succeeded \subseteq Syncs
  /\ \A s \in Syncs : made[s] \in 0..connections \cup {None}
  /\ answered \subseteq Syncs

(* "done" answers the sync that it was sent for: a callback is told of a    *)
(* success only after the server has served that very sync, although the    *)
(* numbers start again with every connection and a table may outlive one.   *)
DoneMeansServed == succeeded \subseteq served

(* "In both success and error cases, callback is always called": whether    *)
(* the connection lasts, breaks, is closed or is opened again meanwhile.    *)
CallbackAlwaysCalled == \A s \in Syncs : made[s] # None ~> s \in answered

(* A connection that is broken is noticed and closed.                       *)
BreakNoticed == broken ~> ~broken

(* An answer is for the connection that it was asked on.                    *)
Consistent == TypeOK /\ DoneMeansServed

(* No sync and no broken connection waits for ever.                         *)
NothingForgotten == CallbackAlwaysCalled /\ BreakNoticed
=============================================================================
