------------------------- MODULE ActivationService -------------------------
(***************************************************************************)
(* What lib/wp/object.c promises to the clients of one WpObject: calls of  *)
(* wp_object_activate are answered one after the other in the order in     *)
(* which they were made, each of them once, and an answer without an error *)
(* means that the supported part of what was asked for is active.          *)
(***************************************************************************)
EXTENDS Naturals, Sequences

CONSTANTS Transitions, Features

VARIABLES
  pending,    \* the requests that were not answered yet, in order
  outcome,    \* per request: "none", "pending", "done" or "failed"
  requested,  \* per request: the features asked for
  active,     \* the active features
  supported   \* the supported features

vars == <<pending, outcome, requested, active, supported>>

Init ==
  /\ pending = <<>>
  /\ outcome = [t \in Transitions |-> "none"]
  /\ requested = [t \in Transitions |-> {}]
  /\ active = {}
  /\ supported = Features

Request(t) ==
  /\ outcome[t] = "none"
  /\ outcome' = [outcome EXCEPT ![t] = "pending"]
  /\ pending' = Append(pending, t)
  /\ \E features \in SUBSET Features :
       requested' = [requested EXCEPT ![t] = features]
  /\ UNCHANGED <<active, supported>>

Answer(result) ==
  /\ pending # <<>>
  /\ outcome' = [outcome EXCEPT ![Head(pending)] = result]
  /\ pending' = Tail(pending)
  /\ UNCHANGED <<requested, supported>>

Done ==
  /\ Answer("done")
  /\ (requested[Head(pending)] \cap supported) \subseteq active
  /\ UNCHANGED active

(* A failure may come with the loss of features, never with new ones.       *)
Fail ==
  /\ Answer("failed")
  /\ active' \subseteq active

ChangeFeatures ==
  /\ active' \in SUBSET Features
  /\ supported' \in SUBSET Features
  /\ UNCHANGED <<pending, outcome, requested>>

Next ==
  \/ \E t \in Transitions : Request(t)
  \/ Done
  \/ Fail
  \/ ChangeFeatures

Spec == Init /\ [][Next]_vars
=============================================================================
