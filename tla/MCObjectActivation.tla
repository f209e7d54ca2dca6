------------------------- MODULE MCObjectActivation -------------------------
(***************************************************************************)
(* Constants for the TLC runs of ObjectActivation.  Features are numbered  *)
(* and the subclass activates the missing ones in that order, as the       *)
(* subclasses in lib/wp do (BOUND first, then INFO, ...).                  *)
(***************************************************************************)
EXTENDS ObjectActivation

MCFeatures == 1..2

MCNextStep ==
  [missing \in (SUBSET MCFeatures) \ {{}} |->
     CHOOSE f \in missing : \A g \in missing : f <= g]
=============================================================================
