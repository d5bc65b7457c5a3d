---------------------------- MODULE MCClosedLoop ----------------------------
(***************************************************************************)
(* ClosedLoop on the small repository of MCTree.                           *)
(***************************************************************************)
EXTENDS ClosedLoop, MCTree
=============================================================================
