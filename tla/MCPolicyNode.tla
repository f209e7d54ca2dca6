---------------------------- MODULE MCPolicyNode ----------------------------
(***************************************************************************)
(* Setups for the TLC runs of PolicyNode: playback streams and sinks.      *)
(***************************************************************************)
EXTENDS PolicyNode

CONSTANTS s1, s2, d1, d2

Plain ==
  [exclusive |-> {}, reconnect |-> Streams, must_passthrough |-> {}, can_passthrough |-> {},
   link_group |-> [i \in Items |-> None], target |-> [s \in Streams |-> None]]

MCDirection == [i \in Items |-> IF i \in Streams THEN "output" ELSE "input"]
MCPriority == [d \in Devices |-> 1]

(* The node of a stream asks for a target; an exclusive stream; a filter    *)
(* (s2 plays what d2 gets); two filters; a stream that cannot be moved; one *)
(* that passes through to one device only.                                  *)
MCSetups ==
  {[Plain EXCEPT !.target[s1] = d1],
   [Plain EXCEPT !.exclusive = {s1}],
   [Plain EXCEPT !.link_group[s2] = s2, !.link_group[d2] = s2],
   [Plain EXCEPT !.link_group = s1 :> s1 @@ d1 :> s1 @@ s2 :> s2 @@ d2 :> s2],
   [Plain EXCEPT !.reconnect = {s2}, !.target[s1] = d2],
   [Plain EXCEPT !.must_passthrough = {s1}, !.can_passthrough = {<<s1, d1>>}]}
=============================================================================
