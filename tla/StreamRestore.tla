--------------------------- MODULE StreamRestore ---------------------------
(***************************************************************************)
(* src/scripts/restore-stream.lua: the volume of a stream and the node     *)
(* that its user moved it to are kept under a key made of its properties,  *)
(* and given to the next stream with that key.  The streams of the model   *)
(* have one key, which is all that they share.                             *)
(***************************************************************************)
EXTENDS Naturals, Sequences, FiniteSets

CONSTANTS
  Streams, Targets,
  Configs,        \* sets of "props" and "target": what is to be restored
  Volumes,        \* also those that applications start with
  DefaultVolume,  \* config_default_channel_volume
  MaxTransit,     \* volumes, and changes of metadata, on their way (a bound)
  MaxRestarts,    \* of the session manager (a bound)
  None

VARIABLES
  config,        \* config_restore_props and config_restore_target
  node,          \* of each stream, its volume, that which the script knows, if
                 \* all its changes were reported, and the volumes that the
                 \* script set and that have not reached it yet
  targets,       \* the nodes that are there
  metadata,      \* of each stream, its target in the metadata
  changes,       \* of the metadata, on their way to the script
  state_table,   \* what is kept under the key
  timeout_source,
  file,          \* what State has saved
  chosen,        \* by the user, last: a volume and a target
  blurred,       \* of which of the two chosen says nothing: see Blurring
  restarts

streamVars == <<config, node, targets, metadata, changes, state_table, timeout_source, file,
                chosen, blurred, restarts>>

(* What is known of a stream that is there.                                 *)
StreamNode == [volume : Volumes \cup {DefaultVolume}, cached : Volumes \cup {DefaultVolume},
               reported : BOOLEAN, sets : Seq(Volumes \cup {DefaultVolume})]

(* What is assumed of the constants.                                        *)
ConstantsOK ==
  /\ None \notin StreamNode /\ None \notin Volumes \cup {DefaultVolume}
  /\ {None, "-1"} \cap Targets = {} /\ IsFiniteSet(Streams)

Present == {s \in Streams : node[s] # None}
Restoring(s) == node[s].sets # <<>> \/ ~node[s].reported

Blurring(what, if) == blurred' = IF if THEN blurred \cup {what} ELSE blurred

-----------------------------------------------------------------------------
(* The Props that restoreStream sets.                                       *)
RestoredVolume ==
  IF state_table.volume = None THEN DefaultVolume ELSE state_table.volume

(* restoreTarget, of a stream that brings no target of its own              *)
restoreTarget(s) ==
  IF "target" \in config /\ state_table.target \in targets
    THEN /\ metadata' = [metadata EXCEPT ![s] = state_table.target]
         /\ changes' = Append(changes, <<s, state_table.target>>)
    ELSE UNCHANGED <<metadata, changes>>

(* object-added: restoreStream                                              *)
StreamAdded(s) ==
  /\ node[s] = None /\ Len(changes) < MaxTransit
  /\ \E v \in IF "props" \in config THEN Volumes ELSE {DefaultVolume} :
       node' = [node EXCEPT ![s] = [volume |-> v, cached |-> v, reported |-> TRUE,
                                    sets |-> IF "props" \in config
                                               THEN <<RestoredVolume>> ELSE <<>>]]
  /\ \/ restoreTarget(s)
     \/ UNCHANGED <<metadata, changes>>  \* target.object in its properties
  /\ blurred' = blurred \cup (IF \E r \in Present : Restoring(r) THEN {"volume"} ELSE {})
                        \cup (IF changes # <<>> THEN {"target"} ELSE {})
  /\ UNCHANGED <<config, targets, state_table, timeout_source, file, chosen, restarts>>

(* The entries of its metadata go with it.                                  *)
StreamRemoved(s) ==
  /\ node[s] # None
  /\ node' = [node EXCEPT ![s] = None] /\ metadata' = [metadata EXCEPT ![s] = None]
  /\ blurred' = blurred \cup (IF Restoring(s) THEN {"volume"} ELSE {})
                  \cup (IF changes # <<>> THEN {"target"} ELSE {})
  /\ UNCHANGED <<config, targets, changes, state_table, timeout_source, file, chosen, restarts>>

VolumeReaches(s) ==
  /\ node[s] # None /\ node[s].sets # <<>>
  /\ node' = [node EXCEPT ![s].volume = Head(node[s].sets), ![s].sets = Tail(@),
                          ![s].reported = FALSE]
  /\ UNCHANGED <<config, targets, metadata, changes, state_table, timeout_source, file, chosen,
                 blurred, restarts>>

(* params-changed: saveStream keeps the Props for whatever param it was.    *)
ParamsChanged(s) ==
  /\ "props" \in config /\ node[s] # None
  /\ \E props \in BOOLEAN :
       /\ node' = IF props THEN [node EXCEPT ![s].cached = node[s].volume,
                                             ![s].reported = TRUE] ELSE node
       /\ state_table' = [state_table EXCEPT !.volume = node'[s].cached]
  /\ timeout_source' = TRUE
  /\ UNCHANGED <<config, targets, metadata, changes, file, chosen, blurred, restarts>>

(* A user sets the volume of a stream.                                      *)
UserSetsVolume(s, v) ==
  /\ "props" \in config /\ node[s] # None /\ v # node[s].volume
  /\ node' = [node EXCEPT ![s].volume = v, ![s].reported = FALSE]
  /\ chosen' = [chosen EXCEPT !.volume = v]
  /\ Blurring("volume", node[s].sets # <<>> \/ Present # {s})
  /\ UNCHANGED <<config, targets, metadata, changes, state_table, timeout_source, file, restarts>>

(* handleRouteSettings: a client sets the volume of streams to come.        *)
handleRouteSettings(v) ==
  /\ state_table' = [state_table EXCEPT !.volume = v] /\ timeout_source' = TRUE
  /\ chosen' = [chosen EXCEPT !.volume = v]
  /\ Blurring("volume", Present # {})
  /\ UNCHANGED <<config, node, targets, metadata, changes, file, restarts>>

(* A user moves a stream to a node, to no special one ("-1"), or takes the  *)
(* entry away.                                                              *)
UserMoves(s, t) ==
  /\ "target" \in config /\ node[s] # None /\ Len(changes) < MaxTransit
  /\ t \in targets \cup {"-1", None}
  /\ metadata' = [metadata EXCEPT ![s] = t]
  /\ changes' = Append(changes, <<s, t>>)
  /\ chosen' = [chosen EXCEPT !.target = IF t \in targets THEN t ELSE None]
  /\ UNCHANGED <<config, node, targets, state_table, timeout_source, file, blurred, restarts>>

(* Mutant: the table is changed, and not saved.                             *)
keepTarget ==
  /\ changes # <<>> /\ changes' = Tail(changes)
  /\ LET s     == Head(changes)[1]
         value == IF Head(changes)[2] = None THEN metadata[s] ELSE Head(changes)[2]
     IN  IF node[s] = None THEN UNCHANGED state_table
         ELSE state_table' = [state_table EXCEPT
                    !.target = IF value \in targets THEN value ELSE None]
  /\ UNCHANGED <<config, node, targets, metadata, timeout_source, file, chosen, blurred, restarts>>

(* saveTarget: an entry that was taken away is looked up once more.         *)
saveTarget ==
  /\ changes # <<>> /\ changes' = Tail(changes)
  /\ LET s     == Head(changes)[1]
         value == IF Head(changes)[2] = None THEN metadata[s] ELSE Head(changes)[2]
     IN  IF node[s] = None THEN UNCHANGED <<state_table, timeout_source>>
         ELSE /\ state_table' = [state_table EXCEPT
                    !.target = IF value \in targets THEN value ELSE None]
              /\ timeout_source' = TRUE
  /\ UNCHANGED <<config, node, targets, metadata, file, chosen, blurred, restarts>>

TargetAdded(t) ==
  /\ "target" \in config /\ t \notin targets /\ targets' = targets \cup {t}
  /\ UNCHANGED <<config, node, metadata, changes, state_table, timeout_source, file, chosen,
                 blurred, restarts>>

TargetRemoved(t) ==
  /\ t \in targets /\ targets' = targets \ {t}
  /\ Blurring("target", changes # <<>>)
  /\ UNCHANGED <<config, node, metadata, changes, state_table, timeout_source, file, chosen,
                 restarts>>

SaveTimeout ==
  /\ timeout_source /\ timeout_source' = FALSE /\ file' = state_table
  /\ UNCHANGED <<config, node, targets, metadata, changes, state_table, chosen, blurred, restarts>>

(* A choice that is on its way to the table, or to the file, is lost with   *)
(* the session manager; so may be one of which chosen says nothing.         *)
Unsaved(what) ==
  \/ file[what] # state_table[what] \/ what \in blurred
  \/ IF what = "volume" THEN \E s \in Present : Restoring(s) ELSE changes # <<>>

(* The session manager stops, and starts again: it has what is in the file, *)
(* the metadata is empty, and the streams that are there are new to it.     *)
Restart ==
  /\ restarts < MaxRestarts /\ restarts' = restarts + 1
  /\ state_table' = file /\ timeout_source' = FALSE
  /\ chosen' = [volume |-> IF Unsaved("volume") THEN file.volume ELSE chosen.volume,
                target |-> IF Unsaved("target") THEN file.target ELSE chosen.target]
  /\ blurred' = {}
  /\ LET volume == IF file.volume = None THEN DefaultVolume ELSE file.volume
     IN  node' = [s \in Streams |->
                    IF node[s] = None THEN None
                    ELSE [node[s] EXCEPT !.cached = node[s].volume, !.reported = TRUE,
                                         !.sets = IF "props" \in config
                                                    THEN Append(@, volume) ELSE @]]
  /\ metadata' = [s \in Streams |->
                    IF node[s] # None /\ file.target \in targets THEN file.target ELSE None]
  /\ \E order \in [1..Cardinality(Present) -> Present] :
       /\ \A i, j \in DOMAIN order : order[i] = order[j] => i = j
       /\ changes' = IF file.target \in targets
                       THEN [i \in DOMAIN order |-> <<order[i], file.target>>] ELSE <<>>
  /\ UNCHANGED <<config, targets, file>>

-----------------------------------------------------------------------------
StreamsInit ==
  /\ config \in Configs
  /\ node = [s \in Streams |-> None] /\ targets = {}
  /\ metadata = [s \in Streams |-> None] /\ changes = <<>>
  /\ state_table = [volume |-> None, target |-> None]
  /\ timeout_source = FALSE /\ file = state_table
  /\ chosen = state_table /\ blurred = {} /\ restarts = 0

StreamsNext ==
  \/ \E s \in Streams :
       \/ StreamAdded(s) \/ StreamRemoved(s) \/ VolumeReaches(s) \/ ParamsChanged(s)
       \/ \E v \in Volumes : UserSetsVolume(s, v)
       \/ \E t \in Targets \cup {"-1", None} : UserMoves(s, t)
  \/ \E v \in Volumes : handleRouteSettings(v)
  \/ saveTarget \/ SaveTimeout \/ Restart
  \/ \E t \in Targets : TargetAdded(t) \/ TargetRemoved(t)
-----------------------------------------------------------------------------
(* The volume that the user chose last is the one of the streams and the    *)
(* one that is kept for the next, when nothing is on its way; also when     *)
(* streams come and go, report all sorts of params, or the session manager  *)
(* restarts.  Not so when the user set a stream that was being restored, or *)
(* one of several with the same key, or that went away in the middle.       *)
VolumeKept ==
  /\ "props" \in config /\ chosen.volume # None /\ "volume" \notin blurred
  /\ ~\E s \in Present : Restoring(s)
  => /\ state_table.volume = chosen.volume
     /\ \A s \in Present : node[s].volume = chosen.volume

(* So is the target, unless a stream or a target comes or goes while a      *)
(* change of the metadata is on its way.                                    *)
TargetKept ==
  changes = <<>> /\ "target" \notin blurred => state_table.target = chosen.target

(* A stronger promise, that a restart loses no choice, is refuted: saving   *)
(* waits for a second in which nothing changes (restore-stream.lua:94-105). *)
ChoicesSurvive == [][restarts' # restarts => chosen' = chosen]_streamVars

(* What is not in the file is about to be.                                  *)
SavedSoon == file = state_table \/ timeout_source

StreamsKept == VolumeKept /\ TargetKept /\ SavedSoon
=============================================================================
