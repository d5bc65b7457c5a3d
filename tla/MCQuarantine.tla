---------------------------- MODULE MCQuarantine ----------------------------
(***************************************************************************)
(* Quarantine on a copy of the small repository of MCTree.                 *)
(***************************************************************************)
EXTENDS Quarantine, MCTree
=============================================================================
