-------------------------- MODULE MCObjectManagers --------------------------
(***************************************************************************)
(* Constants for the TLC runs of ObjectManagers.  m1 wants everything,     *)
(* except for o2 if there is one: it is what the daemon's managers are to  *)
(* plugins, or policy-node's to items, whose handlers make links.  m2 only *)
(* wants globals: create-item's, whose handlers make items.                *)
(***************************************************************************)
EXTENDS ObjectManagers

CONSTANTS m2, o2

MCInterest ==
  [om \in Managers |-> IF om = m2 THEN Globals ELSE Objects \ {o2}]
=============================================================================
