-------------------------- MODULE MCProxyRetention --------------------------
(***************************************************************************)
(* Proxy retention for TLC: a candidate accepted by an earlier version, a  *)
(* new one, and one that the immutable guard turns down.                   *)
(***************************************************************************)
EXTENDS ProxyRetention

MCCandidate == {"old", "new", "judge"}
MCPast == <<"old">>
=============================================================================
