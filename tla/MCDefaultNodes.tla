--------------------------- MODULE MCDefaultNodes ---------------------------
(* One kind of default, the audio source, and three nodes: a sink, whose   *)
(* monitor can be a source too, a headset that is both, and the echo       *)
(* canceller's source. (The kinds share the file and the round trips.)     *)
EXTENDS DefaultNodes, TLC

CONSTANTS speaker, headset, echo

MCKinds == {"audio.source"}
MCMediaClasses == [k \in MCKinds |-> <<"Audio/Source", "Audio/Duplex", "Audio/Sink">>]
MCDirection == [k \in MCKinds |-> "out"]
MCClass == speaker :> "Audio/Sink" @@ headset :> "Audio/Duplex" @@ echo :> "Audio/Source"
MCPriority == speaker :> 1000 @@ headset :> 1000 @@ echo :> -1
MCEchoCancel == {echo}

State(ports, active, possible) ==
  [ports |-> ports, route |-> [active |-> active, possible |-> possible]]
Ready == State({"in", "out"}, NULL, {})

(* Without ports; unplugged; a profile none of whose routes is available.  *)
MCNodeStates == {Ready, State({}, NULL, {}), State({"in", "out"}, "no", {"yes"}),
                 State({"in", "out"}, NULL, {"no"})}

(* The echo canceller starts later than the daemon.                        *)
MCWorlds == {[n \in {speaker, headset, echo} |-> IF n = echo THEN NULL ELSE Ready]}

Chosen(c, p) == [config |-> c, prev |-> [i \in 1..2 |-> IF i <= Len(p) THEN p[i] ELSE NULL]]

(* The file of an older version that kept no stack, and one that this      *)
(* version has written.                                                    *)
MCFiles == {
  [k \in MCKinds |-> Chosen(speaker, <<>>)],
  [k \in MCKinds |-> Chosen(headset, <<headset, speaker>>)]}

=============================================================================
