--------------------------- MODULE WallBroadcast ----------------------------
(***************************************************************************)
(* What the swarm promises about contradictions ("walls"): a wall is known *)
(* at first to the agents that ran into it and to nobody else, later to    *)
(* all at once, and what an agent knows it never forgets                   *)
(* (thdse/src/swarm/orchestrator.py, _broadcast_wall_targeted and          *)
(* _reconcile_drift).                                                      *)
(***************************************************************************)
EXTENDS Naturals

CONSTANT Agent

VARIABLES
    count,      \* walls found so far; a wall is its number
    known       \* the walls each agent has

knownVars == <<count, known>>

Init ==
    /\ count = 0
    /\ known = [a \in Agent |-> {}]

Publish(makers) ==
    /\ makers # {}
    /\ count' = count + 1
    /\ known' = [a \in Agent |->
                    IF a \in makers THEN known[a] \cup {count + 1} ELSE known[a]]

Spread(w) ==
    /\ known' = [a \in Agent |-> known[a] \cup {w}]
    /\ UNCHANGED count

Next ==
    \/ \E makers \in SUBSET Agent : Publish(makers)
    \/ \E w \in 1..count : Spread(w)

Spec == Init /\ [][Next]_knownVars
=============================================================================
