------------------------------- MODULE Swarm --------------------------------
(***************************************************************************)
(* SwarmOrchestrator.run: rounds in which every agent's worker process     *)
(* synthesises candidates, a clique of the baseline's candidates becomes a *)
(* consensus, and the consensus is decoded.  If the solver contradicts it, *)
(* a wall goes to the agents of the clique, and to the others only when    *)
(* drift is reconciled.                                                    *)
(*                                                                         *)
(* The parent waits for all workers, so a round is sequential; `pc' says   *)
(* where it stands.  Left to chance: how many candidates a worker finds,   *)
(* which of them resonate, what the decoder makes of a vector.  A wall is  *)
(* its place in the ledger, and the vector it is made of is named by the   *)
(* decode it was found in: the round and the agents whose vector it was.   *)
(***************************************************************************)
EXTENDS Integers, FiniteSets, SequencesExt

CONSTANTS
    N,                  \* n_agents
    Fed,                \* agents whose corpus dictionary gives two axioms
    MaxCandidates,      \* max_cliques, 10 in the code
    MaxRounds,          \* max_rounds
    StagnationLimit,    \* stagnation_limit
    Interval,           \* drift_reconciliation_interval, 0: never
    Grace               \* drift_grace_period

Agents == 0 .. N - 1

ASSUME SwarmAssumption ==
    /\ N \in Nat \ {0}
    /\ Fed \subseteq Agents
    /\ MaxCandidates \in Nat
    /\ MaxRounds \in Nat \ {0}
    /\ StagnationLimit \in Nat
    /\ Interval \in Nat
    /\ Grace \in Nat

VARIABLES
    pc,
    round,      \* round_idx
    idle,       \* consecutive_zero_progress
    heard,      \* how many candidates each agent sent this round
    progress,   \* round_had_progress
    core,       \* the latest decode whose V_error is in the decoder's log
    ledger,     \* _wall_ledger
    walls,      \* _agent_wall_history: what the workers of an agent replay
    cursor      \* the entry of the ledger _reconcile_drift looks at

roundVars == <<round, idle>>
wallVars == <<ledger, walls, cursor>>
vars == <<pc, round, idle, heard, progress, core, ledger, walls, cursor>>

NoCore == [round |-> -1, of |-> {}]
Baseline == {a \in Agents : a < (N * 8) \div 10}
Silence == [a \in Agents |-> 0]

Init ==
    /\ pc = "collect"
    /\ round = 0
    /\ idle = 0
    /\ heard = Silence
    /\ progress = FALSE
    /\ core = NoCore
    /\ ledger = <<>>
    /\ walls = [a \in Agents |-> <<>>]
    /\ cursor = 1

(***************************************************************************)
(* _collect_candidates.  A worker is a new agent, fed with the dictionary  *)
(* corpus and with the walls of its agent; a lone agent works in the       *)
(* parent, where what it learns stays.  A worker that raises, like an      *)
(* arena that is full, ends the run (Abort).                               *)
(***************************************************************************)
Speakers == IF N = 1 THEN Agents ELSE Fed

Collect ==
    /\ pc = "collect"
    /\ \E found \in [Agents -> 0..MaxCandidates] :
          /\ \A a \in Agents : found[a] > 0 => a \in Speakers
          /\ heard' = found
          /\ \E grew \in BOOLEAN :
                /\ grew => N = 1 /\ found[0] > 0
                /\ progress' = grew
    /\ pc' = "consensus"
    /\ UNCHANGED <<roundVars, core, wallVars>>

(***************************************************************************)
(* compute_swarm_consensus: a clique of at least two candidates, which may *)
(* all come from one agent.                                                *)
(***************************************************************************)
Clique(makers) ==
    /\ makers # {}
    /\ makers \subseteq {a \in Baseline : heard[a] > 0}
    /\ Cardinality(makers) >= 2 \/ \E a \in makers : heard[a] >= 2

NoConsensus ==
    /\ pc = "consensus"
    /\ pc' = "heretics"
    /\ UNCHANGED <<roundVars, heard, progress, core, wallVars>>

(***************************************************************************)
(* _decode_consensus and ConstraintDecoder.decode.  A decode logs a core   *)
(* with its V_error only when folding the contradiction away led to a      *)
(* model after all; a decode that stays without one logs none.  What is    *)
(* read back for a vector without a source is the latest V_error of the    *)
(* whole log, or the centroid when there is none.                          *)
(***************************************************************************)
Logged(makers, folded) ==
    IF folded THEN [round |-> round, of |-> makers] ELSE core

VError(makers, folded) ==
    IF Logged(makers, folded) = NoCore
    THEN [round |-> round, of |-> makers]
    ELSE Logged(makers, folded)

\* The consensus has a source; above the threshold it goes to all agents.
Satisfied(makers, folded, fit) ==
    /\ pc = "consensus"
    /\ Clique(makers)
    /\ core' = Logged(makers, folded)
    /\ progress' = (progress \/ fit)
    /\ pc' = "heretics"
    /\ UNCHANGED <<roundVars, heard, wallVars>>

(***************************************************************************)
(* _broadcast_wall_targeted: every agent of the clique gets the wall once, *)
(* however many of its candidates are in it.                               *)
(***************************************************************************)
\* Mutant of Told: once for every candidate in the clique.
ToldPerCandidate(a, makers) ==
    IF a \in makers THEN walls[a] \o [n \in 1..heard[a] |-> Len(ledger) + 1] ELSE walls[a]

\* Mutant of Told: the newest wall is put first.
ToldFirst(a, makers) ==
    IF a \in makers THEN <<Len(ledger) + 1>> \o walls[a] ELSE walls[a]

Told(a, makers) ==
    IF a \in makers THEN Append(walls[a], Len(ledger) + 1) ELSE walls[a]

Contradicted(makers, folded) ==
    /\ pc = "consensus"
    /\ Clique(makers)
    /\ core' = Logged(makers, folded)
    /\ walls' = [a \in Agents |-> Told(a, makers)]
    /\ ledger' = Append(ledger, [round |-> round, makers |-> makers,
                                 applied |-> makers, about |-> VError(makers, folded)])
    /\ pc' = "heretics"
    /\ UNCHANGED <<roundVars, heard, progress, cursor>>

\* Candidates of the other agents are decoded with the same decoder.
Heretics ==
    /\ pc = "heretics"
    /\ \/ UNCHANGED core
       \/ \E a \in Agents \ Baseline : heard[a] > 0 /\ core' = Logged({a}, TRUE)
    /\ heard' = Silence
    /\ pc' = "reconcile"
    /\ UNCHANGED <<roundVars, progress, wallVars>>

(***************************************************************************)
(* _reconcile_drift, in every Interval-th round: one entry of the ledger   *)
(* after the other, each to the agents that miss it once it is old enough. *)
(***************************************************************************)
Due == Interval > 0 /\ (round + 1) % Interval = 0

\* Mutant of Aged: one round early.
AgedEarly(entry) == round - entry.round >= Grace - 1

\* Mutant of Aged: one round late.
AgedLate(entry) == round - entry.round > Grace

Aged(entry) == round - entry.round >= Grace

\* Mutant of Missed: the heretics are passed over.
MissedByBaseline(entry) == Baseline \ entry.applied

Missed(entry) == Agents \ entry.applied

Spread(entry) == [round |-> entry.round, makers |-> entry.makers,
                  applied |-> Agents, about |-> entry.about]

ReconcileWall ==
    /\ pc = "reconcile"
    /\ Due
    /\ cursor <= Len(ledger)
    /\ LET entry == ledger[cursor]
       IN  IF Aged(entry)
           THEN /\ walls' = [a \in Agents |->
                                IF a \in Missed(entry) THEN Append(walls[a], cursor)
                                ELSE walls[a]]
                /\ ledger' = [ledger EXCEPT ![cursor] = Spread(entry)]
           ELSE UNCHANGED <<walls, ledger>>
    /\ cursor' = cursor + 1
    /\ UNCHANGED <<pc, roundVars, heard, progress, core>>

Reconciled ==
    /\ pc = "reconcile"
    /\ ~Due \/ cursor > Len(ledger)
    /\ cursor' = 1
    /\ pc' = "close"
    /\ UNCHANGED <<roundVars, heard, progress, core, ledger, walls>>

(***************************************************************************)
(* The end of a round, and of the run.                                     *)
(***************************************************************************)
Stagnant == ~progress /\ idle + 1 >= StagnationLimit

\* Mutant of EndRound: a round with progress is not counted.
EndRoundUncounted ==
    /\ pc = "close"
    /\ idle' = IF progress THEN 0 ELSE idle + 1
    /\ pc' = IF Stagnant \/ round + 1 = MaxRounds THEN "done" ELSE "collect"
    /\ round' = IF pc' = "done" \/ progress THEN round ELSE round + 1
    /\ progress' = FALSE
    /\ UNCHANGED <<heard, core, wallVars>>

\* Mutant of EndRound: one round too many.
EndRoundLate ==
    /\ pc = "close"
    /\ idle' = IF progress THEN 0 ELSE idle + 1
    /\ pc' = IF Stagnant \/ round + 1 > MaxRounds THEN "done" ELSE "collect"
    /\ round' = IF pc' = "done" THEN round ELSE round + 1
    /\ progress' = FALSE
    /\ UNCHANGED <<heard, core, wallVars>>

EndRound ==
    /\ pc = "close"
    /\ idle' = IF progress THEN 0 ELSE idle + 1
    /\ pc' = IF Stagnant \/ round + 1 = MaxRounds THEN "done" ELSE "collect"
    /\ round' = IF pc' = "done" THEN round ELSE round + 1
    /\ progress' = FALSE
    /\ UNCHANGED <<heard, core, wallVars>>

Abort ==
    /\ pc \notin {"done", "aborted"}
    /\ pc' = "aborted"
    /\ UNCHANGED <<roundVars, heard, progress, core, wallVars>>

Next ==
    \/ Collect
    \/ NoConsensus
    \/ \E makers \in SUBSET Baseline : \E folded, fit \in BOOLEAN :
          Satisfied(makers, folded, fit)
    \/ \E makers \in SUBSET Baseline : \E folded \in BOOLEAN :
          Contradicted(makers, folded)
    \/ Heretics
    \/ ReconcileWall
    \/ Reconciled
    \/ EndRound
    \/ Abort

Spec == Init /\ [][Next]_vars

\* The parent is one thread that runs to the end of `run'.
FairSpec == Spec /\ WF_vars(Next)
-----------------------------------------------------------------------------
TypeOK ==
    /\ pc \in {"collect", "consensus", "heretics", "reconcile", "close", "done", "aborted"}
    /\ round \in 0 .. MaxRounds - 1
    /\ idle \in Nat
    /\ heard \in [Agents -> 0..MaxCandidates]
    /\ progress \in BOOLEAN
    /\ core \in [round : {-1} \cup Nat, of : SUBSET Agents]
    /\ ledger \in Seq([round : Nat, makers : SUBSET Agents, applied : SUBSET Agents,
                       about : [round : {-1} \cup Nat, of : SUBSET Agents]])
    /\ walls \in [Agents -> Seq(Nat)]
    /\ cursor \in Nat \ {0}

(***************************************************************************)
(* The walls a worker replays are those the ledger says its agent has, and *)
(* each once: a wall reaches an agent on two ways, as a member of the      *)
(* clique or when drift is reconciled, and applied_to keeps them apart.    *)
(***************************************************************************)
ReplayMatchesLedger ==
    \A a \in Agents :
        /\ \A p, q \in DOMAIN walls[a] : p # q => walls[a][p] # walls[a][q]
        /\ \A i \in DOMAIN ledger : a \in ledger[i].applied <=> i \in Range(walls[a])
        /\ Range(walls[a]) \subseteq DOMAIN ledger

(***************************************************************************)
(* Localized quotient isolation: an agent outside the clique keeps its     *)
(* design space until the wall has had its grace period.                   *)
(***************************************************************************)
SparedUntilGrace ==
    \A i \in DOMAIN ledger :
        ledger[i].applied # ledger[i].makers => round >= ledger[i].round + Grace

(***************************************************************************)
(* Drift is bounded: with reconciliation switched on no agent lacks a wall *)
(* for Grace + Interval rounds, whatever the round it was found in.        *)
(***************************************************************************)
DriftBounded ==
    Interval > 0 =>
        \A i \in DOMAIN ledger :
            ledger[i].applied # Agents => round - ledger[i].round < Grace + Interval

(***************************************************************************)
(* Agents may replay walls in different orders, and projections do not     *)
(* commute.  But a wall that comes after a younger one has come through    *)
(* reconciliation: those who ran into two walls have them in one order.    *)
(***************************************************************************)
LateOnlyByReconciliation ==
    \A a \in Agents : \A p, q \in DOMAIN walls[a] :
        p < q /\ walls[a][q] < walls[a][p] => a \notin ledger[walls[a][q]].makers

(***************************************************************************)
(* One wall for all: what an agent gets when drift is reconciled is what   *)
(* the makers of the wall got, though the decoder's log, from which the    *)
(* V_error was read, has gone on and the wall need not be of the vector it *)
(* was broadcast for.                                                      *)
(***************************************************************************)
SameWallForAll ==
    [][\A i \in DOMAIN ledger : ledger'[i].about = ledger[i].about]_vars

(***************************************************************************)
(* The swarm implements the abstract wall broadcast: a wall is known to    *)
(* its makers, then to everyone in one step, and never lost.               *)
(***************************************************************************)
Broadcast == INSTANCE WallBroadcast WITH
                Agent <- Agents,
                count <- Len(ledger),
                known <- [a \in Agents |-> Range(walls[a])]

WallsAreBroadcast == Broadcast!Spec

(***************************************************************************)
(* Every run ends, by stagnation, with its last round or by an exception.  *)
(***************************************************************************)
RunEnds == <>(pc \in {"done", "aborted"})
=============================================================================
