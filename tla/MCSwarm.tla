------------------------------ MODULE MCSwarm -------------------------------
(***************************************************************************)
(* A swarm for TLC: two baseline agents and a heretic.                     *)
(***************************************************************************)
EXTENDS Swarm

MCFed == Agents
=============================================================================
