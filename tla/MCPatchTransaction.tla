------------------------- MODULE MCPatchTransaction -------------------------
(***************************************************************************)
(* PatchTransaction on the small repository of MCTree, with rollback: any  *)
(* sequence of candidates, each failing or passing wherever it can.        *)
(***************************************************************************)
EXTENDS PatchTransaction, MCTree
=============================================================================
