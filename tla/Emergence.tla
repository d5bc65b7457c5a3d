----------------------------- MODULE Emergence -----------------------------
(***************************************************************************)
(* What happens around the causal chain in Orchestrator.run_recursive_cycle*)
(* and GoalGenerator: a newly registered skill is given goals, the goals   *)
(* become tasks of the next round, a rewarded task is an achievement, and  *)
(* an achievement is made the cause of the skill born in the same cycle.   *)
(*                                                                         *)
(* The program is sequential: one cycle is run_round (RunRound), at most   *)
(* one skill registered (Birth, NoBirth), its goals one by one             *)
(* (GoalFromSkill), the rewarded results one by one (Credit, PassOver),    *)
(* the end of the cycle (EndCycle).                                        *)
(*                                                                         *)
(* A goal's name is skill_exploit_<capability>_d<difficulty>_<the first    *)
(* eight characters of the skill's name>, with a random tail when the name *)
(* is taken.  The eight characters are "rsi_g20_" for every skill of       *)
(* generation 20: the stem (difficulty and prefix) does not tell skills    *)
(* apart.                                                                  *)
(***************************************************************************)
EXTENDS CausalChain

CONSTANTS
    Agents,             \* cfg.agents
    CapabilityLists,    \* the capabilities a skill can be registered with
    Stems,
    Tails,              \* what randint(100, 999) can return
    MaxRound            \* bound: rounds 0..MaxRound

NoTail == 0
Capability == UNION {Range(list) : list \in CapabilityLists}

ASSUME EmergenceAssumption ==
    /\ Agents \in Nat \ {0}
    /\ CapabilityLists # {}
    /\ \A list \in CapabilityLists :
          list \in Seq(Capability) /\ list # <<>> /\ IsInjective(list)
    /\ Stems # {}
    /\ Tails # {} /\ NoTail \notin Tails
    /\ MaxRound \in Nat

VARIABLES
    round,      \* round_idx
    pc,         \* where the cycle stands
    pending,    \* GoalGenerator._skill_derived_goals
    links,      \* GoalGenerator._skill_goal_links, in insertion order
    active,     \* Orchestrator._active_skill_derived_goals
    hits,       \* results still to be looked at: the goals rewarded above 0.1
    achieved,   \* achieved_goals of this cycle
    bases,      \* capabilities of the new skill still to be given a goal
    latest      \* latest_birth_event_id

goalVars == <<pending, links, active>>
cycleVars == <<round, pc, hits, achieved, bases, latest>>
vars == <<trackerVars, goalVars, cycleVars>>

GoalName == Capability \X Stems \X ({NoTail} \cup Tails)
NoGoal == <<>>

Names == {links[i].goal : i \in DOMAIN links}

Births == {id \in EventId : log[id].type = "skill_born"}
GoalEvents == {id \in EventId : log[id].type = "goal_created"}
Achievements == {id \in EventId : log[id].type = "goal_achieved"}

Init ==
    /\ TrackerInit
    /\ round = 0
    /\ pc = "round"
    /\ pending = <<>>
    /\ links = <<>>
    /\ active = {}
    /\ hits = <<>>
    /\ achieved = {}
    /\ bases = <<>>
    /\ latest = NoCause

(***************************************************************************)
(* _assign_tasks: one legacy task, two if there are more than four agents, *)
(* then at most two pending goals; each may be replaced by a generated     *)
(* goal.  The queue of pending goals is emptied in any case.               *)
(***************************************************************************)
MaxInjected == 2
Legacy == IF Agents > 4 THEN 2 ELSE 1

Assigned ==
    [i \in 1..Legacy |-> NoGoal] \o SubSeq(pending, 1, Min({MaxInjected, Len(pending)}))

\* Mutant of LeftPending: the queue is not cleared.
LeftPendingAll == pending

LeftPending == <<>>

(***************************************************************************)
(* run_round: agent i works on task i modulo the number of tasks.          *)
(***************************************************************************)
TaskOf(agent) == ((agent - 1) % Len(Assigned)) + 1

RunRound ==
    /\ pc = "round"
    /\ \E replaced \in SUBSET DOMAIN Assigned, rewarded \in SUBSET (1..Agents) :
          hits' = [agent \in 1..Agents |->
                      IF agent \in rewarded /\ TaskOf(agent) \notin replaced
                      THEN Assigned[TaskOf(agent)]
                      ELSE NoGoal]
    /\ pending' = LeftPending
    /\ pc' = "birth"
    /\ UNCHANGED <<trackerVars, links, active, round, achieved, bases, latest>>

(***************************************************************************)
(* Registration of a skill, and record_skill_birth.  The registrar's names *)
(* are new: a skill is numbered by its birth.                              *)
(***************************************************************************)
NoBirth ==
    /\ pc = "birth"
    /\ pc' = "credit"
    /\ UNCHANGED <<trackerVars, goalVars, round, hits, achieved, bases, latest>>

Birth ==
    /\ pc = "birth"
    /\ Recorded([type |-> "skill_born", round |-> round, cause |-> NoCause,
                 skill |-> Cardinality(Births) + 1, goal |-> NoGoal])
    /\ latest' = Len(log) + 1
    /\ \E list \in CapabilityLists, stem \in Stems :
          bases' = [i \in DOMAIN list |-> <<list[i], stem>>]
    /\ pc' = "goals"
    /\ UNCHANGED <<goalVars, round, hits, achieved>>

(***************************************************************************)
(* on_skill_registered: a goal for the next capability.  A name that is    *)
(* taken gets a tail; the result is not compared with the names again.     *)
(***************************************************************************)
\* Mutant of NamesFor: a name without a tail.
NamesWithoutTail(base) == {base}

NamesFor(base) ==
    IF <<base[1], base[2], NoTail>> \in Names
    THEN {<<base[1], base[2], tail>> : tail \in Tails}
    ELSE {<<base[1], base[2], NoTail>>}

LinkTaken(skill, goal) ==
    \E i \in DOMAIN links : links[i].skill = skill /\ links[i].goal = goal

GoalFromSkill ==
    /\ pc = "goals"
    /\ bases # <<>>
    /\ LET skill == log[latest].skill
       IN  \E goal \in NamesFor(Head(bases)) :
              IF LinkTaken(skill, goal)
              THEN UNCHANGED <<trackerVars, goalVars>>
              ELSE /\ links' = Append(links, [skill |-> skill, goal |-> goal])
                   /\ pending' = Append(pending, goal)
                   /\ active' = active \cup {goal}
                   /\ Recorded([type |-> "goal_created", round |-> round,
                                cause |-> latest, skill |-> skill, goal |-> goal])
    /\ bases' = Tail(bases)
    /\ pc' = IF Len(bases) = 1 THEN "credit" ELSE "goals"
    /\ UNCHANGED <<round, hits, achieved, latest>>

(***************************************************************************)
(* A rewarded goal: the first skill linked to that name is credited, the   *)
(* first goal_created event of that name is the cause, and the skill born  *)
(* in this cycle is said to be caused by the achievement.                  *)
(***************************************************************************)
\* Mutant of LinkOf: the latest skill linked to that name.
LatestLinkOf(goal) ==
    Max({0} \cup {i \in DOMAIN links : links[i].goal = goal})

LinkOf(goal) == SelectInSeq(links, LAMBDA link : link.goal = goal)

CauseOf(goal) ==
    SelectInSeq(log, LAMBDA e : e.type = "goal_created" /\ e.goal = goal)

Creditable(goal) == goal \in active /\ LinkOf(goal) # 0

Achievement(goal) ==
    [type |-> "goal_achieved", round |-> round, cause |-> CauseOf(goal),
     skill |-> links[LinkOf(goal)].skill, goal |-> goal]

Credit ==
    /\ pc = "credit"
    /\ hits # <<>>
    /\ Creditable(Head(hits))
    /\ LET event == Achievement(Head(hits))
           id == Len(log) + 1
           extended == Append(log, event)
       IN  /\ chains' = Linked(event.cause, id)
           /\ log' = IF latest = NoCause THEN extended
                     ELSE [extended EXCEPT ![latest].cause = id]
    /\ achieved' = achieved \cup {Head(hits)}
    /\ hits' = Tail(hits)
    /\ UNCHANGED <<goalVars, round, pc, bases, latest>>

PassOver ==
    /\ pc = "credit"
    /\ hits # <<>>
    /\ ~Creditable(Head(hits))
    /\ hits' = Tail(hits)
    /\ UNCHANGED <<trackerVars, goalVars, round, pc, achieved, bases, latest>>

(***************************************************************************)
(* End of run_recursive_cycle; the next call is for the next round.        *)
(***************************************************************************)
\* Mutant of StillActive: goals are kept for one round only.
NoneActive == {}

StillActive == active \ achieved

\* Mutant of FreshLatest: the latest birth outlives its cycle.
StaleLatest == latest

FreshLatest == NoCause

EndCycle ==
    /\ pc = "credit"
    /\ hits = <<>>
    /\ round < MaxRound
    /\ active' = StillActive
    /\ achieved' = {}
    /\ latest' = FreshLatest
    /\ round' = round + 1
    /\ pc' = "round"
    /\ UNCHANGED <<trackerVars, pending, links, hits, bases>>

Next ==
    \/ RunRound
    \/ NoBirth
    \/ Birth
    \/ GoalFromSkill
    \/ Credit
    \/ PassOver
    \/ EndCycle

Spec == Init /\ [][Next]_vars

-----------------------------------------------------------------------------
Event ==
    [type : {"skill_born", "goal_created", "goal_achieved"}, round : 0..MaxRound,
     cause : Nat, skill : Nat, goal : {NoGoal} \cup GoalName]

\* Every variable has its type.
TypeOK ==
    /\ log \in Seq(Event)
    /\ chains \in Seq(Seq(Nat))
    /\ round \in 0..MaxRound
    /\ pc \in {"round", "birth", "goals", "credit"}
    /\ pending \in Seq(GoalName)
    /\ links \in Seq([skill : Nat, goal : GoalName])
    /\ active \subseteq GoalName
    /\ hits \in Seq({NoGoal} \cup GoalName)
    /\ achieved \subseteq GoalName
    /\ bases \in Seq(Capability \X Stems)
    /\ latest \in Nat

(***************************************************************************)
(* verify_chain is true of every chain of at least two events, whatever    *)
(* was appended to it and whatever causes were rewritten.                  *)
(***************************************************************************)
ChainsVerify == \A c \in DOMAIN chains : Verified(chains[c])

(***************************************************************************)
(* _append_event files every event in exactly one chain, once.             *)
(***************************************************************************)
FiledOnce ==
    /\ \A id \in EventId : \E c \in DOMAIN chains :
          \A d \in DOMAIN chains : id \in Range(chains[d]) <=> d = c
    /\ \A c \in DOMAIN chains : IsInjective(chains[c])

(***************************************************************************)
(* Causes go back in time, in the whole log (verify_chain does not look at *)
(* the cause of the first event of a chain, the one that is rewritten),    *)
(* and within a round from a goal to the birth of its skill to an          *)
(* achievement.  So no event is, through its causes, its own cause: an     *)
(* achievement that is made the cause of a birth does not come from that   *)
(* birth, even when a goal of the new skill has the name of the one        *)
(* achieved.                                                               *)
(***************************************************************************)
Stage == [goal_achieved |-> 0, skill_born |-> 1, goal_created |-> 2]
Time(event) == 3 * event.round + Stage[event.type]

CausesDescend ==
    \A id \in EventId : log[id].cause # NoCause =>
        /\ log[id].cause \in EventId
        /\ Time(log[log[id].cause]) < Time(log[id])

(***************************************************************************)
(* The skill credited with an achievement is the skill of the goal event   *)
(* that is given as its cause: two lookups, in two structures, agree.      *)
(***************************************************************************)
CreditMatchesCause ==
    \A id \in Achievements :
        /\ log[id].cause \in GoalEvents
        /\ log[log[id].cause].skill = log[id].skill
        /\ log[log[id].cause].goal = log[id].goal

(***************************************************************************)
(* As long as no goal's name was drawn twice: a goal has one chance, the   *)
(* round after its creation.                                               *)
(***************************************************************************)
NamesUnique == \A i, j \in DOMAIN links : links[i].goal = links[j].goal => i = j

OneChance ==
    NamesUnique => \A id \in Achievements : log[id].round = log[log[id].cause].round + 1

(***************************************************************************)
(* As long as no goal's name was drawn twice: a goal about to be given to  *)
(* the agents, and one they were rewarded for, is among the active goals,  *)
(* so its achievement will be seen.                                        *)
(***************************************************************************)
WillBeSeen ==
    NamesUnique => (Range(pending) \cup Range(hits)) \ {NoGoal} \subseteq active

-----------------------------------------------------------------------------
(***************************************************************************)
(* The docstring of max_chain_depth: "the length of the longest causal     *)
(* chain (number of events)".                                              *)
(***************************************************************************)
DepthIsCausal == MaxChainDepth = CausalDepth
=============================================================================
