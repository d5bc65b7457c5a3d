-------------------------- MODULE EmergenceProofs --------------------------
(***************************************************************************)
(* Emergence, proved for every number of agents, rounds and capabilities.  *)
(* Causes descend, so there is no loop of causes; every event is filed in  *)
(* exactly one chain; every chain passes verify_chain.  The skill credited *)
(* is the skill of the cause; and, while no name was drawn twice, a goal   *)
(* is achieved in the round after its creation or not at all, and its      *)
(* achievement is noticed.                                                 *)
(***************************************************************************)
EXTENDS Emergence, WellFoundedInduction, SequenceTheorems,
        FiniteSetTheorems, TLAPS

(***************************************************************************)
(* The inductive invariant.  The log is in the order of the rounds; who    *)
(* causes whom, and when; goals on their way to the agents, or back from   *)
(* them, were created in an earlier round.  The last part is why the first *)
(* goal_created event of a name, the one a rewarded goal is attributed to, *)
(* is never of this round.                                                 *)
(***************************************************************************)

LogInOrder ==
    /\ \A id \in EventId : log[id].round <= round
    /\ \A i, j \in EventId : i < j => log[i].round <= log[j].round

BirthCause(event) ==
    \/ event.cause = NoCause
    \/ /\ event.cause \in EventId
       /\ log[event.cause].type = "goal_achieved"
       /\ log[event.cause].round = event.round

GoalCause(event) ==
    /\ event.cause \in EventId
    /\ log[event.cause].type = "skill_born"
    /\ log[event.cause].round = event.round

AchievementCause(event) ==
    /\ event.cause \in EventId
    /\ log[event.cause].type = "goal_created"
    /\ log[event.cause].round < event.round

CauseShape ==
    \A id \in EventId :
        /\ log[id].type = "skill_born" => BirthCause(log[id])
        /\ log[id].type = "goal_created" => GoalCause(log[id])
        /\ log[id].type = "goal_achieved" => AchievementCause(log[id])

LatestBirth ==
    /\ latest # NoCause =>
          /\ latest \in EventId
          /\ log[latest].type = "skill_born"
          /\ log[latest].round = round
    /\ pc = "goals" => latest # NoCause

CreatedBefore(goal, r) ==
    \E id \in EventId :
        log[id].type = "goal_created" /\ log[id].goal = goal /\ log[id].round < r

OnTheirWay ==
    /\ \A i \in DOMAIN pending :
          CreatedBefore(pending[i], IF pc = "round" THEN round ELSE round + 1)
    /\ \A i \in DOMAIN hits : hits[i] # NoGoal => CreatedBefore(hits[i], round)

(***************************************************************************)
(* Chains over the events 1..n: increasing, and together without overlap.  *)
(***************************************************************************)
Increasing(chain, n) ==
    /\ chain # <<>>
    /\ \A i \in DOMAIN chain : chain[i] \in 1..n
    /\ \A i, j \in DOMAIN chain : i < j => chain[i] < chain[j]

ChainsIncrease(cs, n) == \A c \in DOMAIN cs : Increasing(cs[c], n)

InChain(cs, c, id) == \E i \in DOMAIN cs[c] : cs[c][i] = id

FiledIn(cs, n) ==
    \A id \in 1..n : \E c \in DOMAIN cs :
        \A d \in DOMAIN cs : InChain(cs, d, id) <=> d = c

OnlyRootsLead ==
    \A c \in DOMAIN chains : \A i \in DOMAIN chains[c] :
        i # 1 => log[chains[c][i]].cause # NoCause

ChainsOK ==
    /\ ChainsIncrease(chains, Len(log))
    /\ FiledIn(chains, Len(log))
    /\ OnlyRootsLead

EmergenceInv ==
    /\ TypeOK
    /\ LogInOrder
    /\ CauseShape
    /\ LatestBirth
    /\ OnTheirWay
    /\ ChainsOK

-----------------------------------------------------------------------------

\* The least element of a set of natural numbers.
LEMMA MinOfNat ==
    ASSUME NEW S \in SUBSET Nat, S # {}
    PROVE  Min(S) \in S /\ \A n \in S : Min(S) <= n
<1> DEFINE Below == {p \in Nat \X Nat : p[1] < p[2]}
<1>1. IsWellFoundedOn(Below, Nat)
  BY NatLessThanWellFounded DEF OpToRel
<1>2. \E n \in S : \A m \in S : ~(<<m, n>> \in Below)
  <2> HIDE DEF Below
  <2> QED
    BY <1>1, WFMin
<1>3. PICK n \in S : \A m \in S : ~(<<m, n>> \in Below)
  BY <1>2
<1>4. \A m \in S : n <= m
  <2>1. ASSUME NEW m \in S, m < n
        PROVE  FALSE
    <3>1. <<m, n>> \in Below
      BY <2>1
    <3> QED
      BY <1>3, <3>1
  <2> QED
    BY <2>1
<1> QED
  BY <1>4 DEF Min

\* The chain that holds an event, if one does.
LEMMA HolderFacts ==
    ASSUME chains \in Seq(Seq(Nat)), NEW id,
           \E c \in DOMAIN chains : InChain(chains, c, id)
    PROVE  /\ Holder(id) \in DOMAIN chains
           /\ InChain(chains, Holder(id), id)
           /\ Holder(id) # 0
<1> DEFINE I == {c \in 1..Len(chains) : id \in Range(chains[c])}
<1>1. DOMAIN chains = 1..Len(chains)
  OBVIOUS
<1>2. \A c \in DOMAIN chains : InChain(chains, c, id) <=> id \in Range(chains[c])
  BY DEF InChain, Range
<1>3. I # {} /\ I \in SUBSET Nat
  BY <1>1, <1>2
<1>4. Min(I) \in I
  BY <1>3, MinOfNat
<1>5. Holder(id) = Min(I)
  BY <1>3 DEF Holder, SelectInSeq
<1> QED
  BY <1>1, <1>2, <1>4, <1>5

\* New chains that hold the events 1..id, the last one because of this cause.
Extended(new, cause, id) ==
    /\ new \in Seq(Seq(Nat))
    /\ ChainsIncrease(new, id)
    /\ FiledIn(new, id)
    /\ \A c \in DOMAIN new : \A i \in DOMAIN new[c] :
          \/ i = 1
          \/ c \in DOMAIN chains /\ i \in DOMAIN chains[c] /\ new[c][i] = chains[c][i]
          \/ new[c][i] = id /\ cause # NoCause

(***************************************************************************)
(* What _append_event keeps.  The chain continued is a chain of increasing *)
(* identifiers, and the new one is the largest.                            *)
(***************************************************************************)
LEMMA LinkedFacts ==
    ASSUME chains \in Seq(Seq(Nat)), Len(log) \in Nat, EventId = 1..Len(log),
           NEW cause \in EventId \cup {NoCause},
           ChainsIncrease(chains, Len(log)),
           FiledIn(chains, Len(log))
    PROVE  LET id == Len(log) + 1
               new == Linked(cause, id)
           IN  Extended(new, cause, id)
<1> DEFINE id == Len(log) + 1
           new == Linked(cause, id)
<1>a. id \in Nat /\ \A e \in 1..id : e \in 1..Len(log) \/ e = id
  OBVIOUS
<1>b. 1..Len(log) \subseteq 1..id /\ id \in 1..id /\ id \notin 1..Len(log)
  OBVIOUS
<1>c. \A e \in 1..Len(log) : e < id
  OBVIOUS
<1>d. /\ Len(chains) \in Nat
      /\ DOMAIN chains = 1..Len(chains)
      /\ \A c \in DOMAIN chains : chains[c] \in Seq(Nat)
  OBVIOUS
<1>e. \A s \in Seq(Nat) : Len(s) \in Nat /\ DOMAIN s = 1..Len(s) /\ \A i \in DOMAIN s : s[i] \in Nat
  OBVIOUS
<1>f. EventId = 1..Len(log) /\ cause \in EventId \cup {NoCause}
  OBVIOUS
<1>1. CASE cause = NoCause
  <2>1. new = Append(chains, <<id>>)
    BY <1>1 DEF Linked
  <2> DEFINE k == Len(chains) + 1
  <2> HIDE DEF new, id
  <2>a. <<id>> \in Seq(Nat) /\ Len(<<id>>) = 1 /\ <<id>>[1] = id
    BY <1>a
  <2>2. /\ new \in Seq(Seq(Nat))
        /\ DOMAIN new = DOMAIN chains \cup {k}
        /\ k \notin DOMAIN chains
        /\ \A c \in DOMAIN chains : new[c] = chains[c]
        /\ new[k] = <<id>>
    <3>1. new \in Seq(Seq(Nat)) /\ Len(new) = k
      BY <2>1, <2>a, AppendProperties
    <3>2. \A c \in 1..Len(chains) : new[c] = chains[c]
      BY <2>1, <2>a, AppendProperties
    <3>3. new[k] = <<id>>
      BY <2>1, <2>a, AppendProperties
    <3> QED
      BY <3>1, <3>2, <3>3, <1>d
  <2> HIDE DEF k
  <2>b. DOMAIN new[k] = {1} /\ new[k][1] = id
    BY <2>2, <2>a
  <2>3. ChainsIncrease(new, id)
    <3>1. ASSUME NEW c \in DOMAIN chains
          PROVE  Increasing(new[c], id)
      BY <2>2, <1>b DEF ChainsIncrease, Increasing
    <3>2. Increasing(new[k], id)
      BY <2>2, <2>b, <1>b DEF Increasing
    <3> QED
      BY <3>1, <3>2, <2>2 DEF ChainsIncrease
  <2>c. \A d \in DOMAIN chains : \A e : InChain(new, d, e) <=> InChain(chains, d, e)
    BY <2>2 DEF InChain
  <2>d. \A e : InChain(new, k, e) <=> e = id
    BY <2>b DEF InChain
  <2>e. \A d \in DOMAIN chains : ~InChain(chains, d, id)
    BY <1>b DEF InChain, ChainsIncrease, Increasing
  <2>4. FiledIn(new, id)
    <3>1. ASSUME NEW e \in 1..Len(log)
          PROVE  \E c \in DOMAIN new : \A d \in DOMAIN new : InChain(new, d, e) <=> d = c
      <4>1. PICK c \in DOMAIN chains : \A d \in DOMAIN chains : InChain(chains, d, e) <=> d = c
        BY DEF FiledIn
      <4>2. ~InChain(new, k, e) /\ k # c
        BY <2>2, <2>d, <1>b
      <4>3. \A d \in DOMAIN new : InChain(new, d, e) <=> d = c
        BY <4>1, <4>2, <2>2, <2>c
      <4> QED
        BY <4>3, <2>2
    <3>2. \A d \in DOMAIN new : InChain(new, d, id) <=> d = k
      BY <2>2, <2>c, <2>d, <2>e
    <3> QED
      BY <3>1, <3>2, <2>2, <1>a DEF FiledIn
  <2>5. \A c \in DOMAIN new : \A i \in DOMAIN new[c] :
           i = 1 \/ (c \in DOMAIN chains /\ i \in DOMAIN chains[c] /\ new[c][i] = chains[c][i])
    BY <2>2, <2>b
  <2> QED
    BY <2>2, <2>3, <2>4, <2>5 DEF new, id, Extended
<1>2. CASE cause \in EventId
  <2> DEFINE h == Holder(cause)
  <2>1. h \in DOMAIN chains /\ h # 0 /\ InChain(chains, h, cause)
    <3>1. \E c \in DOMAIN chains : InChain(chains, c, cause)
      BY <1>2, <1>f DEF FiledIn
    <3> QED
      BY <3>1, HolderFacts
  <2>2. cause # NoCause
    BY <1>2, <1>f DEF NoCause
  <2>3. new = [chains EXCEPT ![h] = Append(@, id)]
    BY <1>2, <2>1, <2>2 DEF Linked
  <2> DEFINE long == Append(chains[h], id)
             k == Len(chains[h]) + 1
  <2> HIDE DEF h, new, id
  <2>4. /\ long \in Seq(Nat)
        /\ DOMAIN long = DOMAIN chains[h] \cup {k}
        /\ k # 1 \/ DOMAIN chains[h] = {}
        /\ k \notin DOMAIN chains[h] /\ \A i \in DOMAIN chains[h] : i < k /\ i \in Nat
        /\ k \in Nat
        /\ \A i \in DOMAIN chains[h] : long[i] = chains[h][i]
        /\ long[k] = id
        /\ long # <<>>
    <3>1. chains[h] \in Seq(Nat) /\ id \in Nat
      BY <2>1, <1>d, <1>a
    <3>2. long \in Seq(Nat) /\ Len(long) = k
      BY <3>1, AppendProperties
    <3>3. \A i \in 1..Len(chains[h]) : long[i] = chains[h][i]
      BY <3>1, AppendProperties
    <3>4. long[k] = id
      BY <3>1, AppendProperties
    <3>5. /\ Len(chains[h]) \in Nat /\ DOMAIN chains[h] = 1..Len(chains[h])
          /\ DOMAIN long = 1..k
      BY <3>1, <3>2, <1>e
    <3> HIDE DEF long
    <3>6. k \in Nat /\ k \notin DOMAIN chains[h] /\ DOMAIN long = DOMAIN chains[h] \cup {k}
      BY <3>5
    <3>7. k # 1 \/ DOMAIN chains[h] = {}
      BY <3>5
    <3>8. \A i \in DOMAIN chains[h] : i < k /\ i \in Nat
      BY <3>5
    <3>9. long # <<>>
      BY <3>5, <3>6
    <3> QED
      BY <3>2, <3>3, <3>4, <3>5, <3>6, <3>7, <3>8, <3>9
  <2>5. /\ new \in Seq(Seq(Nat))
        /\ DOMAIN new = DOMAIN chains
        /\ \A c \in DOMAIN chains : c # h => new[c] = chains[c]
        /\ new[h] = long
    <3> HIDE DEF long
    <3>1. new = [chains EXCEPT ![h] = long]
      BY <2>3 DEF long
    <3> QED
      BY <3>1, <2>1, <2>4, <1>d, ExceptSeq
  <2> HIDE DEF long, k
  <2>6. ChainsIncrease(new, id)
    <3>1. ASSUME NEW c \in DOMAIN chains, c # h
          PROVE  Increasing(new[c], id)
      BY <3>1, <2>5, <1>b DEF ChainsIncrease, Increasing
    <3>2. \A i \in DOMAIN long : long[i] \in 1..id
      BY <2>1, <2>4, <1>b DEF ChainsIncrease, Increasing
    <3>3. ASSUME NEW i \in DOMAIN long, NEW j \in DOMAIN long, i < j
          PROVE  long[i] < long[j]
      <4>1. CASE j = k
        <5>1. i \in DOMAIN chains[h]
          BY <2>4, <3>3, <4>1
        <5>2. chains[h][i] \in 1..Len(log)
          BY <5>1, <2>1 DEF ChainsIncrease, Increasing
        <5> QED
          BY <5>1, <5>2, <4>1, <2>4, <1>c
      <4>2. CASE j \in DOMAIN chains[h]
        <5>1. i \in DOMAIN chains[h]
          BY <2>4, <3>3, <4>2
        <5> QED
          BY <5>1, <4>2, <3>3, <2>1, <2>4 DEF ChainsIncrease, Increasing
      <4> QED
        BY <4>1, <4>2, <2>4
    <3> QED
      BY <3>1, <3>2, <3>3, <2>4, <2>5 DEF ChainsIncrease, Increasing
  <2>a. \A d \in DOMAIN chains : \A e : d # h => (InChain(new, d, e) <=> InChain(chains, d, e))
    BY <2>5 DEF InChain
  <2>b. \A e : InChain(new, h, e) <=> InChain(chains, h, e) \/ e = id
    BY <2>4, <2>5 DEF InChain
  <2>c. \A d \in DOMAIN chains : ~InChain(chains, d, id)
    BY <1>b DEF InChain, ChainsIncrease, Increasing
  <2>7. FiledIn(new, id)
    <3>1. ASSUME NEW e \in 1..Len(log)
          PROVE  \E c \in DOMAIN new : \A d \in DOMAIN new : InChain(new, d, e) <=> d = c
      <4>1. \A d \in DOMAIN chains : InChain(new, d, e) <=> InChain(chains, d, e)
        BY <2>a, <2>b, <1>b
      <4>2. PICK c \in DOMAIN chains : \A d \in DOMAIN chains : InChain(chains, d, e) <=> d = c
        BY DEF FiledIn
      <4>3. \A d \in DOMAIN new : InChain(new, d, e) <=> d = c
        BY <4>1, <4>2, <2>5
      <4> QED
        BY <4>3, <2>5
    <3>2. \A d \in DOMAIN new : InChain(new, d, id) <=> d = h
      BY <2>a, <2>b, <2>c, <2>5
    <3>3. \E c \in DOMAIN new : \A d \in DOMAIN new : InChain(new, d, id) <=> d = c
      BY <3>2, <2>1, <2>5
    <3> QED
      BY <3>1, <3>3, <1>a DEF FiledIn
  <2>8. \A c \in DOMAIN new : \A i \in DOMAIN new[c] :
           (c \in DOMAIN chains /\ i \in DOMAIN chains[c] /\ new[c][i] = chains[c][i]) \/ new[c][i] = id
    BY <2>1, <2>4, <2>5
  <2> QED
    BY <2>2, <2>5, <2>6, <2>7, <2>8 DEF new, id, Extended
<1> QED
  BY <1>1, <1>2

-----------------------------------------------------------------------------

LEMMA LogFacts ==
    ASSUME TypeOK
    PROVE  /\ Len(log) \in Nat
           /\ EventId = 1..Len(log)
           /\ \A id \in EventId : log[id] \in Event /\ log[id].round \in Nat
<1>1. log \in Seq(Event)
  BY DEF TypeOK
<1>2. \A event \in Event : event.round \in Nat
  BY EmergenceAssumption DEF Event
<1> HIDE DEF Event
<1>3. Len(log) \in Nat /\ EventId = 1..Len(log) /\ \A id \in EventId : log[id] \in Event
  BY <1>1 DEF EventId
<1> QED
  BY <1>2, <1>3

(***************************************************************************)
(* One more event, at the end of the log and of its chain; with an         *)
(* achievement, the birth of this round may be given it as its cause.      *)
(***************************************************************************)
OneMore(event) ==
    /\ event \in Event
    /\ event.round = round
    /\ round' = round
    /\ log' \in Seq(Event)
    /\ Len(log') = Len(log) + 1
    /\ log'[Len(log) + 1] = event
    /\ chains' = Linked(event.cause, Len(log) + 1)
    /\ \A id \in EventId :
          \/ log'[id] = log[id]
          \/ /\ event.type = "goal_achieved"
             /\ log[id].type = "skill_born"
             /\ log[id].round = round
             /\ log'[id] = [log[id] EXCEPT !.cause = Len(log) + 1]
    /\ event.type = "skill_born" => event.cause = NoCause
    /\ event.type = "goal_created" => GoalCause(event)
    /\ event.type = "goal_achieved" => AchievementCause(event)

LEMMA OneMoreKeeps ==
    ASSUME EmergenceInv, NEW event, OneMore(event)
    PROVE  /\ chains' \in Seq(Seq(Nat))
           /\ LogInOrder'
           /\ CauseShape'
           /\ ChainsOK'
           /\ \A goal, r : CreatedBefore(goal, r) => CreatedBefore(goal, r)'
           /\ \A id \in EventId : /\ id \in EventId'
                                  /\ log'[id].type = log[id].type
                                  /\ log'[id].goal = log[id].goal
                                  /\ log'[id].round = log[id].round
<1>0. PICK n : n = Len(log) + 1
  OBVIOUS
<1>1. /\ Len(log) \in Nat
      /\ EventId = 1..Len(log)
      /\ EventId' = EventId \cup {n}
      /\ n \notin EventId
      /\ \A id \in EventId : id < n
      /\ n \in Nat
      /\ EventId' = 1..n
  BY <1>0, LogFacts DEF EmergenceInv, OneMore, EventId
<1>2. /\ log'[n] = event
      /\ event \in Event
      /\ event.round = round
      /\ round' = round
      /\ round \in Nat
  BY <1>0, EmergenceAssumption DEF OneMore, EmergenceInv, TypeOK
<1>3. \A id \in EventId :
        /\ log'[id].type = log[id].type
        /\ log'[id].round = log[id].round
        /\ log'[id].goal = log[id].goal
        /\ log[id].round \in Nat
        /\ \/ log'[id].cause = log[id].cause
           \/ /\ event.type = "goal_achieved"
              /\ log[id].type = "skill_born"
              /\ log[id].round = round
              /\ log'[id].cause = n
  <2>1. \A id \in EventId : log[id] \in Event /\ log[id].round \in Nat
    BY LogFacts DEF EmergenceInv
  <2>2. ASSUME NEW id \in EventId, log'[id] = [log[id] EXCEPT !.cause = n]
        PROVE  /\ log'[id].type = log[id].type
               /\ log'[id].round = log[id].round
               /\ log'[id].goal = log[id].goal
               /\ log'[id].cause = n
    BY <2>1, <2>2 DEF Event
  <2>3. ASSUME NEW id \in EventId
        PROVE  \/ log'[id] = log[id]
               \/ /\ event.type = "goal_achieved"
                  /\ log[id].type = "skill_born"
                  /\ log[id].round = round
                  /\ log'[id] = [log[id] EXCEPT !.cause = n]
    BY <1>0 DEF OneMore
  <2> QED
    BY <2>1, <2>2, <2>3
<1>4. event.cause \in EventId \cup {NoCause}
  BY <1>2 DEF OneMore, GoalCause, AchievementCause, Event
<1>5. LogInOrder'
  <2>1. \A id \in EventId : log[id].round <= round
    BY DEF EmergenceInv, LogInOrder
  <2>2. \A id \in EventId' : log'[id].round <= round'
    BY <1>1, <1>2, <1>3, <2>1
  <2>3. ASSUME NEW i \in EventId', NEW j \in EventId', i < j
        PROVE  log'[i].round <= log'[j].round
    <3>1. i \in EventId
      BY <1>1, <2>3
    <3>2. CASE j = n
      BY <1>2, <1>3, <2>1, <3>1, <3>2
    <3>3. CASE j \in EventId
      BY <1>3, <2>3, <3>1, <3>3 DEF EmergenceInv, LogInOrder
    <3> QED
      BY <1>1, <3>2, <3>3
  <2> QED
    BY <2>2, <2>3 DEF LogInOrder
<1>6. CauseShape'
  <2>1. ASSUME NEW id \in EventId, log[id].type = "skill_born"
        PROVE  BirthCause(log[id])'
    <3>1. BirthCause(log[id])
      BY <2>1 DEF EmergenceInv, CauseShape
    <3>2. CASE log'[id].cause = log[id].cause
      BY <1>1, <1>3, <3>1, <3>2 DEF BirthCause
    <3>3. CASE event.type = "goal_achieved" /\ log[id].round = round /\ log'[id].cause = n
      BY <1>1, <1>2, <1>3, <3>3 DEF BirthCause
    <3> QED
      BY <1>3, <3>2, <3>3
  <2>2. ASSUME NEW id \in EventId, log[id].type = "goal_created"
        PROVE  GoalCause(log[id])'
    <3>1. GoalCause(log[id])
      BY <2>2 DEF EmergenceInv, CauseShape
    <3> QED
      BY <1>1, <1>3, <2>2, <3>1 DEF GoalCause
  <2>3. ASSUME NEW id \in EventId, log[id].type = "goal_achieved"
        PROVE  AchievementCause(log[id])'
    <3>1. AchievementCause(log[id])
      BY <2>3 DEF EmergenceInv, CauseShape
    <3> QED
      BY <1>1, <1>3, <2>3, <3>1 DEF AchievementCause
  <2>4. log'[n].type = "skill_born" => BirthCause(log[n])'
    BY <1>2 DEF OneMore, BirthCause
  <2>5. log'[n].type = "goal_created" => GoalCause(log[n])'
    BY <1>1, <1>2, <1>3 DEF OneMore, GoalCause
  <2>6. log'[n].type = "goal_achieved" => AchievementCause(log[n])'
    BY <1>1, <1>2, <1>3 DEF OneMore, AchievementCause
  <2> QED
    BY <1>1, <1>3, <2>1, <2>2, <2>3, <2>4, <2>5, <2>6 DEF CauseShape
<1>7. chains' \in Seq(Seq(Nat)) /\ ChainsOK'
  <2>1. /\ chains \in Seq(Seq(Nat))
        /\ ChainsIncrease(chains, Len(log))
        /\ FiledIn(chains, Len(log))
    BY DEF EmergenceInv, TypeOK, ChainsOK
  <2>2. /\ chains' \in Seq(Seq(Nat))
        /\ ChainsIncrease(chains', n)
        /\ FiledIn(chains', n)
        /\ \A c \in DOMAIN chains' : \A i \in DOMAIN chains'[c] :
              \/ i = 1
              \/ c \in DOMAIN chains /\ i \in DOMAIN chains[c] /\ chains'[c][i] = chains[c][i]
              \/ chains'[c][i] = n /\ event.cause # NoCause
    <3>1. chains' = Linked(event.cause, n)
      BY <1>0 DEF OneMore
    <3>2. Extended(Linked(event.cause, Len(log) + 1), event.cause, Len(log) + 1)
      BY <1>1, <1>4, <2>1, LinkedFacts
    <3> QED
      BY <1>0, <3>1, <3>2 DEF Extended
  <2>3. Len(log') = n
    BY <1>0 DEF OneMore
  <2>4. ASSUME NEW c \in DOMAIN chains', NEW i \in DOMAIN chains'[c], i # 1
        PROVE  log'[chains'[c][i]].cause # NoCause
    <3>1. CASE c \in DOMAIN chains /\ i \in DOMAIN chains[c] /\ chains'[c][i] = chains[c][i]
      <4>1. chains[c][i] \in EventId
        BY <1>1, <2>1, <3>1 DEF ChainsIncrease, Increasing
      <4>2. log[chains[c][i]].cause # NoCause
        BY <2>4, <3>1 DEF EmergenceInv, ChainsOK, OnlyRootsLead
      <4>3. n # NoCause
        BY <1>1 DEF NoCause
      <4> QED
        BY <1>3, <3>1, <4>1, <4>2, <4>3
    <3>2. CASE chains'[c][i] = n /\ event.cause # NoCause
      BY <1>2, <3>2
    <3> QED
      BY <2>2, <2>4, <3>1, <3>2
  <2> QED
    BY <2>2, <2>3, <2>4 DEF ChainsOK, OnlyRootsLead
<1>8. ASSUME NEW goal, NEW r, CreatedBefore(goal, r)
      PROVE  CreatedBefore(goal, r)'
  BY <1>1, <1>3, <1>8 DEF CreatedBefore
<1> QED
  BY <1>1, <1>3, <1>5, <1>6, <1>7, <1>8

-----------------------------------------------------------------------------

\* The event a rewarded goal is attributed to is of an earlier round.
LEMMA CauseOfFacts ==
    ASSUME TypeOK, LogInOrder, NEW goal, CreatedBefore(goal, round)
    PROVE  /\ CauseOf(goal) \in EventId
           /\ log[CauseOf(goal)].type = "goal_created"
           /\ log[CauseOf(goal)].round < round
<1> DEFINE I == {id \in 1..Len(log) : log[id].type = "goal_created" /\ log[id].goal = goal}
<1>1. EventId = 1..Len(log) /\ \A id \in EventId : log[id].round \in Nat
  BY LogFacts
<1>2. round \in Nat
  BY EmergenceAssumption DEF TypeOK
<1>3. PICK id \in EventId :
        log[id].type = "goal_created" /\ log[id].goal = goal /\ log[id].round < round
  BY DEF CreatedBefore
<1>4. id \in I /\ I \in SUBSET Nat
  BY <1>1, <1>3
<1>5. CauseOf(goal) = Min(I)
  BY <1>4 DEF CauseOf, SelectInSeq
<1>6. Min(I) \in I /\ Min(I) <= id
  BY <1>4, MinOfNat
<1> HIDE DEF I
<1>7. Min(I) \in EventId /\ log[Min(I)].type = "goal_created"
  BY <1>1, <1>6 DEF I
<1>8. log[Min(I)].round <= log[id].round
  BY <1>1, <1>6, <1>7 DEF LogInOrder
<1> QED
  BY <1>1, <1>2, <1>3, <1>5, <1>7, <1>8

LEMMA LinkOfFacts ==
    ASSUME TypeOK, NEW goal, LinkOf(goal) # 0
    PROVE  LinkOf(goal) \in DOMAIN links /\ links[LinkOf(goal)].skill \in Nat
<1> DEFINE I == {i \in 1..Len(links) : links[i].goal = goal}
<1>1. links \in Seq([skill : Nat, goal : GoalName])
  BY DEF TypeOK
<1>2. LinkOf(goal) = Min(I) /\ I # {}
  BY DEF LinkOf, SelectInSeq
<1>3. I \in SUBSET Nat
  OBVIOUS
<1>4. Min(I) \in I
  BY <1>2, <1>3, MinOfNat
<1>5. Min(I) \in DOMAIN links
  BY <1>1, <1>4
<1> HIDE DEF I
<1>6. links[Min(I)] \in [skill : Nat, goal : GoalName]
  <2> DEFINE Link == [skill : Nat, goal : GoalName]
  <2>1. links \in Seq(Link)
    BY <1>1
  <2> HIDE DEF Link
  <2>2. links[Min(I)] \in Link
    BY <1>5, <2>1
  <2> QED
    BY <2>2 DEF Link
<1> QED
  BY <1>2, <1>5, <1>6

LEMMA NoGoalIsNoName == NoGoal \notin GoalName
<1>1. \A name \in GoalName : Len(name) = 3
  BY DEF GoalName
<1>2. Len(NoGoal) = 0
  BY DEF NoGoal
<1> QED
  BY <1>1, <1>2

LEMMA InitInv == Init => EmergenceInv
<1> SUFFICES ASSUME Init
             PROVE  EmergenceInv
  OBVIOUS
<1>1. log = <<>> /\ chains = <<>> /\ EventId = {} /\ Len(log) = 0 /\ Len(chains) = 0
  BY DEF Init, TrackerInit, EventId
<1>2. TypeOK
  BY <1>1, EmergenceAssumption DEF Init, TypeOK, NoCause
<1>3. LogInOrder /\ CauseShape /\ LatestBirth /\ OnTheirWay
  BY <1>1 DEF Init, LogInOrder, CauseShape, LatestBirth, OnTheirWay
<1>4. ChainsOK
  BY <1>1 DEF ChainsOK, ChainsIncrease, FiledIn, OnlyRootsLead
<1> QED
  BY <1>2, <1>3, <1>4 DEF EmergenceInv

-----------------------------------------------------------------------------
(***************************************************************************)
(* Every action keeps the invariant.                                       *)
(***************************************************************************)

\* What the tasks of a round are.
LEMMA AssignedFacts ==
    ASSUME TypeOK
    PROVE  /\ Assigned \in Seq({NoGoal} \cup GoalName)
           /\ Len(Assigned) \in Nat \ {0}
           /\ \A k \in DOMAIN Assigned :
                 Assigned[k] = NoGoal \/ \E i \in DOMAIN pending : Assigned[k] = pending[i]
           /\ \A agent \in 1..Agents : TaskOf(agent) \in DOMAIN Assigned
<1> DEFINE T == {NoGoal} \cup GoalName
           legacy == [i \in 1..Legacy |-> NoGoal]
           m == Min({MaxInjected, Len(pending)})
           injected == SubSeq(pending, 1, m)
<1>1. Legacy \in {1, 2}
  BY DEF Legacy
<1>2. legacy \in Seq(T) /\ Len(legacy) = Legacy
  BY <1>1
<1>3. pending \in Seq(T) /\ Len(pending) \in Nat
  BY DEF TypeOK
<1>4. m \in 0..Len(pending)
  <2>1. {MaxInjected, Len(pending)} \in SUBSET Nat
    BY <1>3 DEF MaxInjected
  <2>2. m \in {MaxInjected, Len(pending)} /\ m <= Len(pending)
    BY <2>1, MinOfNat, Zenon
  <2> QED
    BY <1>3, <2>2 DEF MaxInjected
<1> HIDE DEF m, T, legacy
<1>5. /\ injected \in Seq(T)
      /\ Len(injected) = m
      /\ \A k \in 1..m : injected[k] = pending[k]
  BY <1>3, <1>4, SubSeqProperties
<1>6. Assigned = legacy \o injected
  BY DEF Assigned, legacy, m
<1> HIDE DEF injected
<1>7. /\ Assigned \in Seq(T)
      /\ Len(Assigned) = Legacy + m
      /\ \A k \in 1..(Legacy + m) :
            Assigned[k] = IF k <= Legacy THEN legacy[k] ELSE injected[k - Legacy]
  BY <1>2, <1>5, <1>6, ConcatProperties
<1>8. DOMAIN Assigned = 1..(Legacy + m)
  BY <1>7
<1> HIDE DEF Assigned
<1>9. ASSUME NEW k \in DOMAIN Assigned
      PROVE  Assigned[k] = NoGoal \/ \E i \in DOMAIN pending : Assigned[k] = pending[i]
  <2>1. CASE k <= Legacy
    BY <1>1, <1>7, <1>8, <2>1 DEF legacy
  <2>2. CASE ~(k <= Legacy)
    <3>1. k - Legacy \in 1..m /\ k - Legacy \in DOMAIN pending
      BY <1>1, <1>3, <1>4, <1>8, <2>2
    <3> QED
      BY <1>5, <1>7, <1>8, <2>2, <3>1
  <2> QED
    BY <2>1, <2>2
<1>10. \A agent \in 1..Agents : TaskOf(agent) \in DOMAIN Assigned
  <2>1. ASSUME NEW agent \in 1..Agents
        PROVE  TaskOf(agent) \in 1..Len(Assigned)
    <3> DEFINE a == agent - 1
               l == Len(Assigned)
    <3>1. a \in Nat /\ l \in Nat /\ l > 0
      BY <1>1, <1>4, <1>7, EmergenceAssumption
    <3>2. TaskOf(agent) = (a % l) + 1
      BY DEF TaskOf
    <3> HIDE DEF a, l
    <3>3. a % l \in 0..(l - 1)
      BY <3>1
    <3>4. (a % l) + 1 \in 1..l
      BY <3>1, <3>3
    <3> QED
      BY <3>2, <3>4 DEF l
  <2> QED
    BY <1>7, <1>8, <2>1
<1> QED
  BY <1>1, <1>4, <1>7, <1>9, <1>10 DEF T

LEMMA RunRoundInv == EmergenceInv /\ RunRound => EmergenceInv'
<1> SUFFICES ASSUME EmergenceInv, RunRound
             PROVE  EmergenceInv'
  OBVIOUS
<1>1. PICK replaced \in SUBSET DOMAIN Assigned, rewarded \in SUBSET (1..Agents) :
        hits' = [agent \in 1..Agents |->
                    IF agent \in rewarded /\ TaskOf(agent) \notin replaced
                    THEN Assigned[TaskOf(agent)]
                    ELSE NoGoal]
  BY DEF RunRound
<1>2. TypeOK /\ pc = "round" /\ pc' = "birth" /\ pending' = <<>>
  BY DEF EmergenceInv, RunRound, LeftPending
<1>3. /\ log' = log /\ chains' = chains /\ links' = links /\ active' = active
      /\ round' = round /\ achieved' = achieved /\ bases' = bases /\ latest' = latest
  BY DEF RunRound, trackerVars
<1>4. Agents \in Nat
  BY EmergenceAssumption
<1>5. \A agent \in 1..Agents : Assigned[TaskOf(agent)] \in {NoGoal} \cup GoalName
  BY <1>2, AssignedFacts
<1>6. hits' \in Seq({NoGoal} \cup GoalName)
  <2>1. hits' \in [1..Agents -> {NoGoal} \cup GoalName]
    BY <1>1, <1>5
  <2> QED
    BY <2>1, <1>4
<1>7. TypeOK'
  BY <1>2, <1>3, <1>6 DEF TypeOK
<1>8. ASSUME NEW i \in DOMAIN hits', hits'[i] # NoGoal
      PROVE  CreatedBefore(hits'[i], round)
  <2>1. i \in 1..Agents /\ hits'[i] = Assigned[TaskOf(i)]
    BY <1>1, <1>8
  <2>2. PICK j \in DOMAIN pending : hits'[i] = pending[j]
    BY <1>2, <1>8, <2>1, AssignedFacts
  <2> QED
    BY <1>2, <2>2 DEF EmergenceInv, OnTheirWay
<1>9. LogInOrder' /\ CauseShape' /\ LatestBirth' /\ ChainsOK'
  BY <1>2, <1>3 DEF EmergenceInv, LogInOrder, CauseShape, BirthCause, GoalCause, AchievementCause,
                    LatestBirth, ChainsOK, OnlyRootsLead, EventId
<1>10. OnTheirWay'
  BY <1>2, <1>3, <1>8 DEF OnTheirWay, CreatedBefore, EventId
<1> QED
  BY <1>7, <1>9, <1>10 DEF EmergenceInv

LEMMA NoBirthInv == EmergenceInv /\ NoBirth => EmergenceInv'
<1> SUFFICES ASSUME EmergenceInv, NoBirth
             PROVE  EmergenceInv'
  OBVIOUS
<1>1. /\ pc = "birth" /\ pc' = "credit"
      /\ UNCHANGED <<log, chains, pending, links, active, round, hits, achieved, bases, latest>>
  BY DEF NoBirth, trackerVars, goalVars
<1>2. TypeOK'
  BY <1>1 DEF EmergenceInv, TypeOK
<1> QED
  BY <1>1, <1>2 DEF EmergenceInv, LogInOrder, CauseShape, BirthCause, GoalCause, AchievementCause,
                    LatestBirth, OnTheirWay, CreatedBefore, ChainsOK, OnlyRootsLead, EventId

\* An event appended by _append_event, with nothing rewritten.
LEMMA RecordedIsOneMore ==
    ASSUME EmergenceInv, NEW event \in Event, event.round = round, round' = round,
           Recorded(event),
           event.type = "skill_born" => event.cause = NoCause,
           event.type = "goal_created" => GoalCause(event),
           event.type = "goal_achieved" => AchievementCause(event)
    PROVE  /\ OneMore(event)
           /\ EventId' = EventId \cup {Len(log) + 1}
           /\ \A id \in EventId : log'[id] = log[id]
<1>1. log \in Seq(Event) /\ log' = Append(log, event) /\ EventId = 1..Len(log) /\ Len(log) \in Nat
  BY LogFacts DEF EmergenceInv, TypeOK, Recorded
<1> HIDE DEF Event
<1>2. /\ log' \in Seq(Event)
      /\ Len(log') = Len(log) + 1
      /\ \A id \in 1..Len(log) : log'[id] = log[id]
      /\ log'[Len(log) + 1] = event
  BY <1>1, AppendProperties
<1>3. EventId' = EventId \cup {Len(log) + 1}
  BY <1>1, <1>2 DEF EventId
<1> QED
  BY <1>1, <1>2, <1>3 DEF OneMore, Recorded

\* A birth is one more event.
LEMMA BirthIsOneMore ==
    ASSUME EmergenceInv, Birth
    PROVE  OneMore([type |-> "skill_born", round |-> round, cause |-> NoCause,
                    skill |-> Cardinality(Births) + 1, goal |-> NoGoal])
<1> DEFINE event == [type |-> "skill_born", round |-> round, cause |-> NoCause,
                     skill |-> Cardinality(Births) + 1, goal |-> NoGoal]
<1>1. TypeOK /\ Recorded(event) /\ round' = round
  BY DEF EmergenceInv, Birth
<1>2. Len(log) \in Nat /\ EventId = 1..Len(log)
  BY <1>1, LogFacts
<1>3. Cardinality(Births) \in Nat
  <2>1. IsFiniteSet(EventId)
    BY <1>2, FS_Interval
  <2>2. IsFiniteSet(Births)
    BY <2>1, FS_Subset DEF Births
  <2> QED
    BY <2>2, FS_CardinalityType
<1>4. event \in Event
  BY <1>1, <1>3 DEF Event, TypeOK, NoCause
<1>5. event.round = round /\ event.type = "skill_born" /\ event.cause = NoCause
  OBVIOUS
<1> HIDE DEF event
<1>6. OneMore(event)
  BY <1>1, <1>4, <1>5, RecordedIsOneMore
<1> QED
  BY <1>6 DEF event

LEMMA BirthInv == EmergenceInv /\ Birth => EmergenceInv'
<1> SUFFICES ASSUME EmergenceInv, Birth
             PROVE  EmergenceInv'
  OBVIOUS
<1> DEFINE event == [type |-> "skill_born", round |-> round, cause |-> NoCause,
                     skill |-> Cardinality(Births) + 1, goal |-> NoGoal]
<1>1. /\ TypeOK
      /\ pc = "birth" /\ pc' = "goals"
      /\ latest' = Len(log) + 1
      /\ UNCHANGED <<pending, links, active, round, hits, achieved>>
  BY DEF EmergenceInv, Birth, goalVars
<1>2. Len(log) \in Nat
  BY <1>1, LogFacts
<1>3. event.round = round /\ event.type = "skill_born"
  OBVIOUS
<1>4. OneMore(event)
  BY BirthIsOneMore
<1> HIDE DEF event
<1>5. /\ chains' \in Seq(Seq(Nat)) /\ LogInOrder' /\ CauseShape' /\ ChainsOK'
      /\ \A goal, r : CreatedBefore(goal, r) => CreatedBefore(goal, r)'
  BY <1>4, OneMoreKeeps
<1>6. bases' \in Seq(Capability \X Stems)
  <2>1. PICK list \in CapabilityLists, stem \in Stems :
          bases' = [i \in DOMAIN list |-> <<list[i], stem>>]
    BY DEF Birth
  <2>2. list \in Seq(Capability)
    BY EmergenceAssumption
  <2> QED
    BY <2>1, <2>2
<1>7. TypeOK'
  BY <1>1, <1>2, <1>4, <1>5, <1>6 DEF TypeOK, OneMore
<1>8. LatestBirth'
  <2>1. latest' \in EventId' /\ log'[latest'] = event
    BY <1>1, <1>2, <1>4 DEF OneMore, EventId
  <2>2. latest' # NoCause
    BY <1>1, <1>2 DEF NoCause
  <2> QED
    BY <1>1, <1>3, <2>1, <2>2 DEF LatestBirth
<1>9. OnTheirWay'
  BY <1>1, <1>5 DEF EmergenceInv, OnTheirWay
<1> QED
  BY <1>5, <1>7, <1>8, <1>9 DEF EmergenceInv

(***************************************************************************)
(* A skill is given a goal: nothing changes, or a link, a pending goal, an *)
(* active goal and an event are added, all of this goal and this skill.    *)
(***************************************************************************)
GoalAdded(skill, goal) ==
    /\ links' = Append(links, [skill |-> skill, goal |-> goal])
    /\ pending' = Append(pending, goal)
    /\ active' = active \cup {goal}
    /\ OneMore([type |-> "goal_created", round |-> round, cause |-> latest,
                skill |-> skill, goal |-> goal])

LEMMA GoalIsOneMore ==
    ASSUME EmergenceInv, GoalFromSkill
    PROVE  \/ UNCHANGED <<trackerVars, goalVars>>
           \/ \E skill \in Nat, goal \in GoalName : GoalAdded(skill, goal)
<1> DEFINE skill == log[latest].skill
           event(goal) == [type |-> "goal_created", round |-> round, cause |-> latest,
                           skill |-> skill, goal |-> goal]
<1>1. /\ TypeOK
      /\ pc = "goals" /\ bases # <<>> /\ round' = round
  BY DEF EmergenceInv, GoalFromSkill
<1>2. /\ Len(log) \in Nat /\ EventId = 1..Len(log)
      /\ \A id \in EventId : log[id] \in Event
  BY <1>1, LogFacts
<1>3. /\ latest \in EventId /\ log[latest].type = "skill_born" /\ log[latest].round = round
      /\ latest # NoCause
  BY <1>1 DEF EmergenceInv, LatestBirth
<1>4. skill \in Nat /\ round \in 0..MaxRound /\ latest \in Nat
  BY <1>1, <1>2, <1>3 DEF Event, TypeOK
<1>5. Head(bases) \in Capability \X Stems
  BY <1>1 DEF TypeOK
<1>6. NamesFor(Head(bases)) \subseteq GoalName
  BY <1>5 DEF NamesFor, GoalName
<1>7. PICK goal \in NamesFor(Head(bases)) :
        IF LinkTaken(skill, goal)
        THEN UNCHANGED <<trackerVars, goalVars>>
        ELSE /\ links' = Append(links, [skill |-> skill, goal |-> goal])
             /\ pending' = Append(pending, goal)
             /\ active' = active \cup {goal}
             /\ Recorded(event(goal))
  BY DEF GoalFromSkill
<1>8. goal \in GoalName
  BY <1>6, <1>7
<1>9. CASE LinkTaken(skill, goal)
  BY <1>7, <1>9
<1>10. CASE ~LinkTaken(skill, goal)
  <2>1. /\ links' = Append(links, [skill |-> skill, goal |-> goal])
        /\ pending' = Append(pending, goal)
        /\ active' = active \cup {goal}
        /\ Recorded(event(goal))
    BY <1>7, <1>10
  <2>2. event(goal) \in Event
    BY <1>4, <1>8 DEF Event
  <2>3. /\ event(goal).round = round /\ event(goal).type = "goal_created"
        /\ event(goal).cause = latest /\ event(goal).goal = goal
    OBVIOUS
  <2> HIDE DEF event
  <2>4. GoalCause(event(goal))
    BY <1>3, <2>3 DEF GoalCause
  <2>5. OneMore(event(goal))
    BY <1>1, <2>1, <2>2, <2>3, <2>4, RecordedIsOneMore
  <2>6. GoalAdded(skill, goal)
    BY <2>1, <2>5 DEF GoalAdded, event
  <2> QED
    BY <1>4, <1>8, <2>6
<1> QED
  BY <1>9, <1>10

LEMMA GoalFromSkillInv == EmergenceInv /\ GoalFromSkill => EmergenceInv'
<1> SUFFICES ASSUME EmergenceInv, GoalFromSkill
             PROVE  EmergenceInv'
  OBVIOUS
<1>1. /\ TypeOK
      /\ pc = "goals" /\ pc' \in {"goals", "credit"}
      /\ bases # <<>> /\ bases' = Tail(bases)
      /\ UNCHANGED <<round, hits, achieved, latest>>
  BY DEF EmergenceInv, GoalFromSkill
<1>2. latest \in EventId /\ log[latest].type = "skill_born" /\ log[latest].round = round
      /\ latest # NoCause
  BY <1>1 DEF EmergenceInv, LatestBirth
<1>3. bases' \in Seq(Capability \X Stems)
  BY <1>1 DEF TypeOK
<1>4. CASE UNCHANGED <<trackerVars, goalVars>>
  <2>1. UNCHANGED <<log, chains, pending, links, active>>
    BY <1>4 DEF trackerVars, goalVars
  <2>2. TypeOK'
    BY <1>1, <1>3, <2>1 DEF TypeOK
  <2>3. LatestBirth'
    BY <1>1, <1>2, <2>1 DEF EmergenceInv, LatestBirth, EventId
  <2> QED
    BY <1>1, <2>1, <2>2, <2>3 DEF EmergenceInv, LogInOrder, CauseShape, BirthCause, GoalCause,
        AchievementCause, OnTheirWay, CreatedBefore, ChainsOK, OnlyRootsLead, EventId
<1>5. ASSUME NEW skill \in Nat, NEW goal \in GoalName, GoalAdded(skill, goal)
      PROVE  EmergenceInv'
  <2> DEFINE event == [type |-> "goal_created", round |-> round, cause |-> latest,
                       skill |-> skill, goal |-> goal]
  <2>1. /\ links' = Append(links, [skill |-> skill, goal |-> goal])
        /\ pending' = Append(pending, goal)
        /\ active' = active \cup {goal}
        /\ OneMore(event)
    BY <1>5 DEF GoalAdded
  <2>2. event.round = round /\ event.type = "goal_created" /\ event.goal = goal
    OBVIOUS
  <2> HIDE DEF event
  <2>3. /\ chains' \in Seq(Seq(Nat)) /\ LogInOrder' /\ CauseShape' /\ ChainsOK'
        /\ \A g, r : CreatedBefore(g, r) => CreatedBefore(g, r)'
        /\ \A id \in EventId : /\ id \in EventId'
                               /\ log'[id].type = log[id].type
                               /\ log'[id].goal = log[id].goal
                               /\ log'[id].round = log[id].round
    BY <2>1, OneMoreKeeps
  <2>4. TypeOK'
    <3>1. links' \in Seq([skill : Nat, goal : GoalName])
      BY <1>1, <2>1 DEF TypeOK
    <3>2. pending' \in Seq(GoalName) /\ active' \subseteq GoalName
      BY <1>1, <2>1 DEF TypeOK
    <3> QED
      BY <1>1, <1>3, <2>1, <2>3, <3>1, <3>2 DEF TypeOK, OneMore
  <2>5. LatestBirth'
    BY <1>1, <1>2, <2>3 DEF LatestBirth
  <2>6. CreatedBefore(goal, round + 1)'
    <3>1. Len(log) + 1 \in EventId' /\ log'[Len(log) + 1] = event
      BY <1>1, <2>1, LogFacts DEF OneMore, EventId
    <3>2. round < round + 1
      BY <1>1, EmergenceAssumption DEF TypeOK
    <3> QED
      BY <1>1, <2>2, <3>1, <3>2 DEF CreatedBefore
  <2>7. ASSUME NEW i \in DOMAIN pending'
        PROVE  CreatedBefore(pending[i], round + 1)'
    <3>1. pending \in Seq(GoalName)
      BY <1>1 DEF TypeOK
    <3>2. CASE i \in DOMAIN pending
      <4>1. pending'[i] = pending[i]
        BY <2>1, <3>1, <3>2
      <4>2. CreatedBefore(pending[i], round + 1)
        BY <1>1, <3>2 DEF EmergenceInv, OnTheirWay
      <4>3. PICK id \in EventId : log[id].type = "goal_created" /\ log[id].goal = pending[i]
                                   /\ log[id].round < round + 1
        BY <4>2 DEF CreatedBefore
      <4> QED
        BY <1>1, <2>3, <4>1, <4>3 DEF CreatedBefore
    <3>3. CASE i \notin DOMAIN pending
      <4>1. pending'[i] = goal
        BY <2>1, <2>7, <3>1, <3>3
      <4> QED
        BY <1>1, <2>6, <4>1 DEF CreatedBefore
    <3> QED
      BY <3>2, <3>3
  <2>8. OnTheirWay'
    <3>1. pc' # "round"
      BY <1>1
    <3>2. \A i \in DOMAIN hits : hits[i] # NoGoal => CreatedBefore(hits[i], round)'
      BY <1>1, <2>3 DEF EmergenceInv, OnTheirWay, CreatedBefore
    <3> QED
      BY <1>1, <2>7, <3>1, <3>2 DEF OnTheirWay
  <2> QED
    BY <2>3, <2>4, <2>5, <2>8 DEF EmergenceInv
<1> QED
  BY <1>4, <1>5, GoalIsOneMore

\* A rewarded goal is one more event; the goal is of an earlier round.
LEMMA CreditIsOneMore ==
    ASSUME EmergenceInv, Credit
    PROVE  /\ OneMore(Achievement(Head(hits)))
           /\ CreatedBefore(Head(hits), round)
           /\ Head(hits) \in GoalName
<1> DEFINE goal == Head(hits)
           event == Achievement(goal)
           n == Len(log) + 1
           extended == Append(log, event)
<1>1. /\ TypeOK
      /\ pc = "credit" /\ hits # <<>> /\ Creditable(goal)
      /\ chains' = Linked(event.cause, n)
      /\ log' = IF latest = NoCause THEN extended
                ELSE [extended EXCEPT ![latest].cause = n]
      /\ achieved' = achieved \cup {goal}
      /\ hits' = Tail(hits)
      /\ UNCHANGED <<pending, links, active, round, pc, bases, latest>>
  BY DEF EmergenceInv, Credit, goalVars
<1>2. /\ Len(log) \in Nat /\ EventId = 1..Len(log)
      /\ \A id \in EventId : log[id] \in Event
  BY <1>1, LogFacts
<1>3. goal \in GoalName /\ goal = hits[1] /\ 1 \in DOMAIN hits
  BY <1>1 DEF Creditable, TypeOK
<1>4. CreatedBefore(goal, round)
  BY <1>1, <1>3, NoGoalIsNoName DEF EmergenceInv, OnTheirWay
<1>5. /\ CauseOf(goal) \in EventId
      /\ log[CauseOf(goal)].type = "goal_created"
      /\ log[CauseOf(goal)].round < round
  BY <1>1, <1>4, CauseOfFacts DEF EmergenceInv
<1>6. /\ event.type = "goal_achieved" /\ event.round = round /\ event.cause = CauseOf(goal)
      /\ event \in Event
  <2>1. links[LinkOf(goal)].skill \in Nat
    BY <1>1, LinkOfFacts DEF Creditable
  <2>2. round \in 0..MaxRound /\ CauseOf(goal) \in Nat
    BY <1>1, <1>2, <1>5 DEF TypeOK
  <2> HIDE DEF goal
  <2> QED
    BY <1>3, <2>1, <2>2 DEF Achievement, Event
<1> HIDE DEF event, goal
<1>7. AchievementCause(event)
  BY <1>5, <1>6 DEF AchievementCause
<1>8. /\ extended \in Seq(Event) /\ Len(extended) = n /\ extended[n] = event
      /\ \A id \in EventId : extended[id] = log[id]
      /\ DOMAIN extended = 1..n
  <2>1. log \in Seq(Event)
    BY <1>1 DEF TypeOK
  <2> HIDE DEF Event
  <2> QED
    BY <1>2, <1>6, <2>1, AppendProperties
<1> HIDE DEF extended
<1>9. /\ log' \in Seq(Event)
      /\ Len(log') = n
      /\ log'[n] = event
      /\ \A id \in EventId :
            \/ log'[id] = log[id]
            \/ id = latest /\ latest # NoCause /\ log'[id] = [log[id] EXCEPT !.cause = n]
  <2>1. CASE latest = NoCause
    BY <1>1, <1>8, <2>1
  <2>2. CASE latest # NoCause
    <3>1. latest \in EventId /\ latest # n /\ latest \in 1..n /\ n \in Nat
      BY <1>2, <2>2 DEF EmergenceInv, LatestBirth
    <3> DEFINE rewritten == [log[latest] EXCEPT !.cause = n]
    <3>2. rewritten \in Event
      BY <1>2, <3>1 DEF Event
    <3>3. log' = [extended EXCEPT ![latest] = rewritten]
      BY <1>1, <1>8, <2>2, <3>1
    <3> HIDE DEF rewritten, Event
    <3>4. /\ log' \in Seq(Event) /\ Len(log') = n
          /\ \A id \in 1..n : log'[id] = IF id = latest THEN rewritten ELSE extended[id]
      BY <1>8, <3>1, <3>2, <3>3, ExceptSeq
    <3>5. n \in 1..n /\ \A id \in EventId : id \in 1..n
      BY <1>2
    <3> QED
      BY <1>8, <2>2, <3>1, <3>4, <3>5 DEF rewritten
  <2> QED
    BY <2>1, <2>2
<1>10. latest # NoCause => log[latest].type = "skill_born" /\ log[latest].round = round
  BY DEF EmergenceInv, LatestBirth
<1>11. OneMore(event)
  BY <1>1, <1>6, <1>7, <1>9, <1>10 DEF OneMore
<1> QED
  BY <1>3, <1>4, <1>11 DEF goal, event

LEMMA CreditInv == EmergenceInv /\ Credit => EmergenceInv'
<1> SUFFICES ASSUME EmergenceInv, Credit
             PROVE  EmergenceInv'
  OBVIOUS
<1> DEFINE event == Achievement(Head(hits))
           n == Len(log) + 1
<1>1. /\ TypeOK
      /\ pc = "credit" /\ hits # <<>>
      /\ achieved' = achieved \cup {Head(hits)}
      /\ hits' = Tail(hits)
      /\ UNCHANGED <<pending, links, active, round, pc, bases, latest>>
  BY DEF EmergenceInv, Credit, goalVars
<1>2. Len(log) \in Nat /\ EventId = 1..Len(log)
  BY <1>1, LogFacts
<1>3. OneMore(event) /\ Head(hits) \in GoalName
  BY CreditIsOneMore
<1> HIDE DEF event
<1>4. log' \in Seq(Event) /\ Len(log') = n
  BY <1>3 DEF OneMore
<1>5. latest # NoCause => log[latest].type = "skill_born" /\ log[latest].round = round
  BY DEF EmergenceInv, LatestBirth
<1>6. /\ chains' \in Seq(Seq(Nat)) /\ LogInOrder' /\ CauseShape' /\ ChainsOK'
       /\ \A id \in EventId : /\ id \in EventId'
                              /\ log'[id].type = log[id].type
                              /\ log'[id].goal = log[id].goal
                              /\ log'[id].round = log[id].round
  BY <1>3, OneMoreKeeps
<1>7. TypeOK'
  <2>1. hits' \in Seq({NoGoal} \cup GoalName)
    BY <1>1 DEF TypeOK
  <2>2. achieved' \subseteq GoalName
    BY <1>1, <1>3 DEF TypeOK
  <2> QED
    BY <1>1, <1>4, <1>6, <2>1, <2>2 DEF TypeOK
<1>8. LatestBirth'
  <2>1. EventId' = 1..n
    BY <1>2, <1>4 DEF EventId
  <2>2. ASSUME latest # NoCause
        PROVE  latest \in EventId' /\ log'[latest].type = "skill_born" /\ log'[latest].round = round
    <3>1. latest \in EventId
      BY <2>2 DEF EmergenceInv, LatestBirth
    <3>2. log'[latest].type = log[latest].type /\ log'[latest].round = log[latest].round
      BY <1>6, <3>1
    <3> QED
      BY <1>2, <1>5, <2>1, <2>2, <3>1, <3>2
  <2> QED
    BY <1>1, <2>2 DEF LatestBirth
<1>9. OnTheirWay'
  <2>1. ASSUME NEW i \in DOMAIN pending
        PROVE  CreatedBefore(pending[i], round + 1)'
    <3>1. CreatedBefore(pending[i], round + 1)
      BY <1>1, <2>1 DEF EmergenceInv, OnTheirWay
    <3> QED
      BY <1>1, <1>6, <3>1 DEF CreatedBefore
  <2>2. ASSUME NEW i \in DOMAIN hits', hits'[i] # NoGoal
        PROVE  CreatedBefore(hits[i], round)'
    <3>1. i + 1 \in DOMAIN hits /\ hits'[i] = hits[i + 1]
      BY <1>1, <2>2 DEF TypeOK
    <3>2. CreatedBefore(hits[i + 1], round)
      BY <2>2, <3>1 DEF EmergenceInv, OnTheirWay
    <3> QED
      BY <1>1, <1>6, <3>1, <3>2 DEF CreatedBefore
  <2> QED
    BY <1>1, <2>1, <2>2 DEF OnTheirWay
<1> QED
  BY <1>6, <1>7, <1>8, <1>9 DEF EmergenceInv

LEMMA PassOverInv == EmergenceInv /\ PassOver => EmergenceInv'
<1> SUFFICES ASSUME EmergenceInv, PassOver
             PROVE  EmergenceInv'
  OBVIOUS
<1>1. /\ TypeOK
      /\ hits # <<>> /\ hits' = Tail(hits)
      /\ UNCHANGED <<log, chains, pending, links, active, round, pc, achieved, bases, latest>>
  BY DEF EmergenceInv, PassOver, trackerVars, goalVars
<1>2. TypeOK'
  BY <1>1 DEF TypeOK
<1>3. OnTheirWay'
  <2>1. ASSUME NEW i \in DOMAIN hits', hits'[i] # NoGoal
        PROVE  CreatedBefore(hits'[i], round)
    <3>1. i + 1 \in DOMAIN hits /\ hits'[i] = hits[i + 1]
      BY <1>1, <2>1 DEF TypeOK
    <3> QED
      BY <2>1, <3>1 DEF EmergenceInv, OnTheirWay
  <2> QED
    BY <1>1, <2>1 DEF EmergenceInv, OnTheirWay, CreatedBefore, EventId
<1> QED
  BY <1>1, <1>2, <1>3 DEF EmergenceInv, LogInOrder, CauseShape, BirthCause, GoalCause,
        AchievementCause, LatestBirth, ChainsOK, OnlyRootsLead, EventId

LEMMA EndCycleInv == EmergenceInv /\ EndCycle => EmergenceInv'
<1> SUFFICES ASSUME EmergenceInv, EndCycle
             PROVE  EmergenceInv'
  OBVIOUS
<1>1. /\ TypeOK
      /\ pc = "credit" /\ pc' = "round"
      /\ hits = <<>> /\ round < MaxRound
      /\ active' = active \ achieved /\ achieved' = {} /\ latest' = NoCause
      /\ round' = round + 1
      /\ UNCHANGED <<log, chains, pending, links, hits, bases>>
  BY DEF EmergenceInv, EndCycle, StillActive, FreshLatest, trackerVars
<1>2. round \in Nat /\ round' \in 0..MaxRound
  BY <1>1, EmergenceAssumption DEF TypeOK
<1>3. TypeOK'
  BY <1>1, <1>2 DEF TypeOK, NoCause
<1>4. LogInOrder'
  <2>1. \A id \in EventId : log[id].round <= round /\ log[id].round \in Nat
    BY <1>1, LogFacts DEF EmergenceInv, LogInOrder
  <2> QED
    BY <1>1, <1>2, <2>1 DEF EmergenceInv, LogInOrder, EventId
<1>5. CauseShape' /\ ChainsOK'
  BY <1>1 DEF EmergenceInv, CauseShape, BirthCause, GoalCause, AchievementCause,
              ChainsOK, OnlyRootsLead, EventId
<1>6. LatestBirth'
  BY <1>1 DEF LatestBirth
<1>7. OnTheirWay'
  <2>1. \A i \in DOMAIN pending : CreatedBefore(pending[i], round + 1)
    BY <1>1 DEF EmergenceInv, OnTheirWay
  <2> QED
    BY <1>1, <2>1 DEF OnTheirWay, CreatedBefore, EventId
<1> QED
  BY <1>3, <1>4, <1>5, <1>6, <1>7 DEF EmergenceInv

(***************************************************************************)
(* The invariant holds in every reachable state.                           *)
(***************************************************************************)
THEOREM EmergenceInvariant == Spec => []EmergenceInv
<1>1. EmergenceInv /\ [Next]_vars => EmergenceInv'
  <2> SUFFICES ASSUME EmergenceInv, [Next]_vars
               PROVE  EmergenceInv'
    OBVIOUS
  <2>1. CASE UNCHANGED vars
    <3>1. UNCHANGED <<log, chains, pending, links, active, round, pc, hits, achieved, bases, latest>>
      BY <2>1 DEF vars, trackerVars, goalVars, cycleVars
    <3>2. TypeOK'
      BY <3>1 DEF EmergenceInv, TypeOK
    <3> QED
      BY <3>1, <3>2 DEF EmergenceInv, LogInOrder, CauseShape, BirthCause, GoalCause,
         AchievementCause, LatestBirth, OnTheirWay, CreatedBefore, ChainsOK, OnlyRootsLead, EventId
  <2>2. CASE RunRound
    BY <2>2, RunRoundInv
  <2>3. CASE NoBirth
    BY <2>3, NoBirthInv
  <2>4. CASE Birth
    BY <2>4, BirthInv
  <2>5. CASE GoalFromSkill
    BY <2>5, GoalFromSkillInv
  <2>6. CASE Credit
    BY <2>6, CreditInv
  <2>7. CASE PassOver
    BY <2>7, PassOverInv
  <2>8. CASE EndCycle
    BY <2>8, EndCycleInv
  <2> QED
    BY <2>1, <2>2, <2>3, <2>4, <2>5, <2>6, <2>7, <2>8 DEF Next
<1> QED
  BY <1>1, InitInv, PTL DEF Spec

-----------------------------------------------------------------------------

(***************************************************************************)
(* Type correctness of the log, the chains and the goals.                  *)
(***************************************************************************)
THEOREM EmergenceTypes == Spec => []TypeOK
<1>1. EmergenceInv => TypeOK
  BY DEF EmergenceInv
<1> QED
  BY <1>1, EmergenceInvariant, PTL

LEMMA DescendFromShape == EmergenceInv => CausesDescend
<1> SUFFICES ASSUME EmergenceInv, NEW id \in EventId, log[id].cause # NoCause
             PROVE  /\ log[id].cause \in EventId
                    /\ Time(log[log[id].cause]) < Time(log[id])
  BY DEF CausesDescend
<1> DEFINE event == log[id]
           cause == log[log[id].cause]
<1>1. \A e \in EventId : log[e] \in Event /\ log[e].round \in Nat
  BY LogFacts DEF EmergenceInv
<1>2. /\ event.type = "skill_born" => BirthCause(event)
      /\ event.type = "goal_created" => GoalCause(event)
      /\ event.type = "goal_achieved" => AchievementCause(event)
  BY DEF EmergenceInv, CauseShape
<1>3. event.type \in {"skill_born", "goal_created", "goal_achieved"} /\ event.round \in Nat
  BY <1>1 DEF Event
<1>4. Stage["goal_achieved"] = 0 /\ Stage["skill_born"] = 1 /\ Stage["goal_created"] = 2
  BY DEF Stage
<1>5. CASE event.type = "skill_born"
  <2>1. log[id].cause \in EventId /\ cause.type = "goal_achieved" /\ cause.round = event.round
    BY <1>2, <1>5 DEF BirthCause
  <2> QED
    BY <1>3, <1>4, <1>5, <2>1 DEF Time
<1>6. CASE event.type = "goal_created"
  <2>1. log[id].cause \in EventId /\ cause.type = "skill_born" /\ cause.round = event.round
    BY <1>2, <1>6 DEF GoalCause
  <2> QED
    BY <1>3, <1>4, <1>6, <2>1 DEF Time
<1>7. CASE event.type = "goal_achieved"
  <2>1. log[id].cause \in EventId /\ cause.type = "goal_created" /\ cause.round < event.round
    BY <1>2, <1>7 DEF AchievementCause
  <2>2. cause.round \in Nat
    BY <1>1, <2>1
  <2> QED
    BY <1>3, <1>4, <1>7, <2>1, <2>2 DEF Time
<1> QED
  BY <1>3, <1>5, <1>6, <1>7

(***************************************************************************)
(* Causes go back in time, in the whole log, rewritten causes included.    *)
(***************************************************************************)
THEOREM CausesAlwaysDescend == Spec => []CausesDescend
  BY EmergenceInvariant, DescendFromShape, PTL

(***************************************************************************)
(* No set of events, each caused by one of them: however long the run, the *)
(* achievement made the cause of a birth is no consequence of that birth.  *)
(***************************************************************************)
NoLoopOfCauses ==
    ~ \E loop \in SUBSET EventId :
        loop # {} /\ \A id \in loop : log[id].cause # NoCause /\ log[id].cause \in loop

THEOREM CausesNeverLoop == Spec => []NoLoopOfCauses
<1>1. EmergenceInv => NoLoopOfCauses
  <2> SUFFICES ASSUME EmergenceInv, NEW loop \in SUBSET EventId, loop # {},
                      \A id \in loop : log[id].cause # NoCause /\ log[id].cause \in loop
               PROVE  FALSE
    BY DEF NoLoopOfCauses
  <2> DEFINE times == {Time(log[id]) : id \in loop}
  <2>1. times \in SUBSET Nat
    <3>1. ASSUME NEW id \in EventId
          PROVE  Time(log[id]) \in Nat
      <4>1. log[id] \in Event /\ log[id].round \in Nat
        BY LogFacts DEF EmergenceInv
      <4>2. Stage[log[id].type] \in Nat
        BY <4>1 DEF Stage, Event
      <4> QED
        BY <4>1, <4>2 DEF Time
    <3> QED
      BY <3>1
  <2>2. times # {}
    OBVIOUS
  <2>3. Min(times) \in times /\ \A t \in times : Min(times) <= t
    BY <2>1, <2>2, MinOfNat, Zenon
  <2>4. PICK id \in loop : Time(log[id]) = Min(times)
    BY <2>3
  <2>5. Time(log[log[id].cause]) < Time(log[id])
    BY DescendFromShape DEF CausesDescend
  <2>6. Time(log[log[id].cause]) \in times
    OBVIOUS
  <2>7. Min(times) <= Time(log[log[id].cause])
    BY <2>3, <2>6
  <2>8. Time(log[id]) \in Nat /\ Time(log[log[id].cause]) \in Nat
    BY <2>1, <2>6
  <2> HIDE DEF times
  <2> QED
    BY <2>4, <2>5, <2>7, <2>8
<1> QED
  BY <1>1, EmergenceInvariant, PTL

(***************************************************************************)
(* Every chain passes verify_chain.                                        *)
(***************************************************************************)
THEOREM ChainsAlwaysVerify == Spec => []ChainsVerify
<1>1. EmergenceInv => ChainsVerify
  <2> SUFFICES ASSUME EmergenceInv, NEW c \in DOMAIN chains
               PROVE  Verified(chains[c])
    BY DEF ChainsVerify
  <2> DEFINE chain == chains[c]
  <2>1. chain \in Seq(Nat) /\ DOMAIN chain = 1..Len(chain) /\ Len(chain) \in Nat
    BY DEF EmergenceInv, TypeOK
  <2>2. /\ EventId = 1..Len(log) /\ Len(log) \in Nat
        /\ \A id \in EventId : log[id] \in Event /\ log[id].round \in Nat
    BY LogFacts DEF EmergenceInv
  <2>3. /\ \A i \in DOMAIN chain : chain[i] \in EventId
        /\ \A i, j \in DOMAIN chain : i < j => chain[i] < chain[j]
    BY <2>2 DEF EmergenceInv, ChainsOK, ChainsIncrease, Increasing
  <2>4. ASSUME NEW i \in 2..Len(chain)
        PROVE  LET event == log[chain[i]]
               IN  /\ log[chain[i - 1]].round <= event.round
                   /\ event.cause # NoCause
                   /\ event.cause \in EventId
                   /\ log[event.cause].round <= event.round
                   /\ event.cause # chain[i]
    <3>1. i \in DOMAIN chain /\ i - 1 \in DOMAIN chain /\ i - 1 < i /\ i # 1
      BY <2>1
    <3>2. chain[i] \in EventId /\ chain[i - 1] \in EventId /\ chain[i - 1] < chain[i]
      BY <2>3, <3>1
    <3>3. log[chain[i - 1]].round <= log[chain[i]].round
      BY <3>2 DEF EmergenceInv, LogInOrder
    <3>4. log[chain[i]].cause # NoCause
      BY <3>1 DEF EmergenceInv, ChainsOK, OnlyRootsLead
    <3> DEFINE event == log[chain[i]]
    <3>5. /\ event.cause \in EventId
          /\ log[event.cause].round <= event.round
          /\ event.cause # chain[i]
      <4>1. CauseShape /\ event \in Event
        BY <2>2, <3>2 DEF EmergenceInv
      <4>2. event.type \in {"skill_born", "goal_created", "goal_achieved"}
        BY <4>1 DEF Event
      <4>3. event.cause \in EventId
        BY <3>2, <3>4, DescendFromShape DEF CausesDescend
      <4>4. event.round \in Nat /\ log[event.cause].round \in Nat
        BY <2>2, <3>2, <4>3
      <4>5. log[event.cause].round = event.round \/ log[event.cause].round < event.round
        BY <3>2, <3>4, <4>1, <4>2 DEF CauseShape, BirthCause, GoalCause, AchievementCause
      <4>6. log[event.cause].type # event.type
        BY <3>2, <3>4, <4>1, <4>2 DEF CauseShape, BirthCause, GoalCause, AchievementCause
      <4> HIDE DEF event
      <4>7. log[event.cause].round <= event.round
        BY <4>4, <4>5
      <4> QED
        BY <4>3, <4>6, <4>7 DEF event
    <3> QED
      BY <3>3, <3>4, <3>5
  <2> QED
    BY <2>3, <2>4 DEF Verified
<1> QED
  BY <1>1, EmergenceInvariant, PTL

(***************************************************************************)
(* Every event is in exactly one chain, and there once.                    *)
(***************************************************************************)
THEOREM EventsFiledOnce == Spec => []FiledOnce
<1>1. EmergenceInv => FiledOnce
  <2> SUFFICES ASSUME EmergenceInv
               PROVE  FiledOnce
    OBVIOUS
  <2>1. EventId = 1..Len(log)
    BY LogFacts DEF EmergenceInv
  <2>2. \A c \in DOMAIN chains : \A id : InChain(chains, c, id) <=> id \in Range(chains[c])
    BY DEF InChain, Range
  <2>3. ASSUME NEW id \in EventId
        PROVE  \E c \in DOMAIN chains : \A d \in DOMAIN chains : id \in Range(chains[d]) <=> d = c
    BY <2>1, <2>2 DEF EmergenceInv, ChainsOK, FiledIn
  <2>4. ASSUME NEW c \in DOMAIN chains
        PROVE  IsInjective(chains[c])
    <3>1. chains[c] \in Seq(Nat)
      BY DEF EmergenceInv, TypeOK
    <3>2. \A i, j \in DOMAIN chains[c] : i < j => chains[c][i] < chains[c][j]
      BY DEF EmergenceInv, ChainsOK, ChainsIncrease, Increasing
    <3>3. ASSUME NEW i \in DOMAIN chains[c], NEW j \in DOMAIN chains[c],
                 chains[c][i] = chains[c][j]
          PROVE  i = j
      <4>1. i \in Nat /\ j \in Nat /\ chains[c][i] \in Nat
        BY <3>1
      <4>2. ~(i < j) /\ ~(j < i)
        BY <3>2, <3>3, <4>1
      <4> QED
        BY <4>1, <4>2
    <3> QED
      BY <3>3 DEF IsInjective
  <2> QED
    BY <2>3, <2>4 DEF FiledOnce
<1> QED
  BY <1>1, EmergenceInvariant, PTL

-----------------------------------------------------------------------------
(***************************************************************************)
(* Credit.                                                                 *)
(***************************************************************************)

(***************************************************************************)
(* The inductive invariant.  Links and goal events are two records of one  *)
(* thing: they have the same names, and of each name the first link and    *)
(* the first event have the same skill.  While the links have no name      *)
(* twice, the events have none.  Goals are pending in the round of their   *)
(* creation, and rewarded in the next.                                     *)
(***************************************************************************)
Created(id, goal) ==
    id \in EventId /\ log[id].type = "goal_created" /\ log[id].goal = goal

FirstEvent(id, goal) ==
    Created(id, goal) /\ \A other \in EventId : Created(other, goal) => id <= other

Linking(i, goal) == i \in DOMAIN links /\ links[i].goal = goal

FirstLink(i, goal) ==
    Linking(i, goal) /\ \A j \in DOMAIN links : Linking(j, goal) => i <= j

SameNames ==
    \A goal : (\E i : Linking(i, goal)) <=> (\E id : Created(id, goal))

SameSkills ==
    \A goal, i, id :
        FirstLink(i, goal) /\ FirstEvent(id, goal) => links[i].skill = log[id].skill

DrawnOnce ==
    NamesUnique =>
        \A goal, one, other : Created(one, goal) /\ Created(other, goal) => one = other

CreatedIn(goal, r) == \E id \in EventId : Created(id, goal) /\ log[id].round = r

OnTime ==
    /\ \A i \in DOMAIN pending :
          CreatedIn(pending[i], IF pc = "round" THEN round - 1 ELSE round)
    /\ \A i \in DOMAIN hits : hits[i] # NoGoal => CreatedIn(hits[i], round - 1)
    /\ \A goal \in achieved : CreatedIn(goal, round - 1)

\* OneChance and WillBeSeen with their hypothesis taken out.
Chances == \A id \in Achievements : log[id].round = log[log[id].cause].round + 1

Noticed ==
    /\ \A i \in DOMAIN pending : pending[i] \in active
    /\ \A i \in DOMAIN hits : hits[i] # NoGoal => hits[i] \in active

CreditsInv ==
    /\ SameNames
    /\ SameSkills
    /\ DrawnOnce
    /\ OnTime
    /\ CreditMatchesCause
    /\ NamesUnique => Chances
    /\ NamesUnique => Noticed

-----------------------------------------------------------------------------
(***************************************************************************)
(* What a step does to the events that are there: nothing but for the      *)
(* cause of a birth.                                                       *)
(***************************************************************************)
Stays(id) ==
    /\ id \in EventId'
    /\ log'[id].type = log[id].type
    /\ log'[id].goal = log[id].goal
    /\ log'[id].skill = log[id].skill
    /\ log'[id].round = log[id].round
    /\ log[id].type # "skill_born" => log'[id].cause = log[id].cause

EventsStay == \A id \in EventId : Stays(id)

\* No goal is recorded and none is linked.
NoNewGoal ==
    /\ EventsStay
    /\ links' = links
    /\ \A id \in EventId' : log'[id].type = "goal_created" => id \in EventId

LEMMA CreatedInStays ==
    ASSUME EventsStay, NEW goal, NEW r, CreatedIn(goal, r)
    PROVE  CreatedIn(goal, r)'
  BY DEF CreatedIn, Created, EventsStay, Stays

LEMMA NamesStay ==
    ASSUME CreditsInv, NoNewGoal
    PROVE  /\ SameNames' /\ SameSkills' /\ DrawnOnce'
           /\ NamesUnique' <=> NamesUnique
<1>1. \A id, goal : Created(id, goal)' <=> Created(id, goal)
  BY DEF NoNewGoal, EventsStay, Stays, Created
<1>2. \A i, goal : Linking(i, goal)' <=> Linking(i, goal)
  BY DEF NoNewGoal, Linking
<1>3. SameNames'
  BY <1>1, <1>2 DEF CreditsInv, SameNames
<1>4. NamesUnique' <=> NamesUnique
  BY DEF NoNewGoal, NamesUnique
<1>5. DrawnOnce'
  BY <1>1, <1>4 DEF CreditsInv, DrawnOnce
<1>6. SameSkills'
  <2> SUFFICES ASSUME NEW goal, NEW i, NEW id, FirstLink(i, goal)', FirstEvent(id, goal)'
               PROVE  links'[i].skill = log'[id].skill
    BY DEF SameSkills
  <2>1. FirstLink(i, goal)
    BY <1>2 DEF FirstLink, Linking, NoNewGoal
  <2>2. FirstEvent(id, goal)
    <3>1. Created(id, goal)
      BY <1>1 DEF FirstEvent
    <3>2. ASSUME NEW other \in EventId, Created(other, goal)
          PROVE  id <= other
      BY <1>1, <3>2 DEF FirstEvent, Created
    <3> QED
      BY <3>1, <3>2 DEF FirstEvent
  <2>3. links[i].skill = log[id].skill
    BY <2>1, <2>2 DEF CreditsInv, SameSkills
  <2>4. log'[id].skill = log[id].skill
    BY <2>2 DEF FirstEvent, Created, NoNewGoal, EventsStay, Stays
  <2> QED
    BY <2>3, <2>4 DEF NoNewGoal
<1> QED
  BY <1>3, <1>4, <1>5, <1>6

\* The achievements that were there keep what is said of them.
LEMMA AchievementsStay ==
    ASSUME CreditMatchesCause, EventsStay, NEW id \in Achievements
    PROVE  /\ log'[id].cause = log[id].cause
           /\ log'[id].cause \in GoalEvents'
           /\ log'[log'[id].cause].skill = log'[id].skill
           /\ log'[log'[id].cause].goal = log'[id].goal
           /\ log'[id].round = log[id].round
           /\ log'[log'[id].cause].round = log[log[id].cause].round
<1>1. id \in EventId /\ log[id].type = "goal_achieved"
  BY DEF Achievements
<1>2. /\ log[id].cause \in EventId /\ log[log[id].cause].type = "goal_created"
      /\ log[log[id].cause].skill = log[id].skill
      /\ log[log[id].cause].goal = log[id].goal
  BY DEF CreditMatchesCause, GoalEvents
<1>3. Stays(id) /\ Stays(log[id].cause)
  BY <1>1, <1>2 DEF EventsStay
<1> QED
  BY <1>1, <1>2, <1>3 DEF Stays, GoalEvents

\* A step that records no achievement.
LEMMA NoNewAchievement ==
    ASSUME CreditMatchesCause, EventsStay,
           \A id \in EventId' : log'[id].type = "goal_achieved" => id \in EventId
    PROVE  CreditMatchesCause' /\ (Chances => Chances')
<1>1. ASSUME NEW id \in Achievements'
      PROVE  id \in Achievements
  BY <1>1 DEF Achievements, EventsStay, Stays
<1>2. CreditMatchesCause'
  BY <1>1, AchievementsStay DEF CreditMatchesCause
<1>3. ASSUME Chances
      PROVE  Chances'
  <2>1. ASSUME NEW id \in Achievements'
        PROVE  log'[id].round = log'[log'[id].cause].round + 1
    BY <1>1, <1>3, <2>1, AchievementsStay DEF Chances
  <2> QED
    BY <2>1 DEF Chances
<1> QED
  BY <1>2, <1>3

\* A step of which the log knows nothing.
LEMMA LogStays ==
    ASSUME log' = log
    PROVE  /\ EventsStay
           /\ EventId' = EventId
           /\ \A goal, r : CreatedIn(goal, r) <=> CreatedIn(goal, r)'
  BY DEF EventsStay, Stays, EventId, CreatedIn, Created

-----------------------------------------------------------------------------
(***************************************************************************)
(* Every action keeps the invariant.                                       *)
(***************************************************************************)
LEMMA InitCredits == Init => CreditsInv
<1> SUFFICES ASSUME Init
             PROVE  CreditsInv
  OBVIOUS
<1>1. /\ EventId = {} /\ links = <<>> /\ pending = <<>> /\ hits = <<>> /\ achieved = {}
      /\ DOMAIN links = {} /\ DOMAIN pending = {} /\ DOMAIN hits = {}
  BY DEF Init, TrackerInit, EventId
<1>2. SameNames /\ SameSkills /\ DrawnOnce
  BY <1>1 DEF SameNames, SameSkills, DrawnOnce, Created, Linking, FirstLink
<1>3. CreditMatchesCause /\ Chances
  BY <1>1 DEF CreditMatchesCause, Chances, Achievements
<1>4. OnTime /\ Noticed
  BY <1>1 DEF OnTime, Noticed
<1> QED
  BY <1>2, <1>3, <1>4 DEF CreditsInv

LEMMA RunRoundCredits == EmergenceInv /\ CreditsInv /\ RunRound => CreditsInv'
<1> SUFFICES ASSUME EmergenceInv, CreditsInv, RunRound
             PROVE  CreditsInv'
  OBVIOUS
<1>1. PICK replaced \in SUBSET DOMAIN Assigned, rewarded \in SUBSET (1..Agents) :
        hits' = [agent \in 1..Agents |->
                    IF agent \in rewarded /\ TaskOf(agent) \notin replaced
                    THEN Assigned[TaskOf(agent)]
                    ELSE NoGoal]
  BY DEF RunRound
<1>2. /\ TypeOK /\ pc = "round" /\ pc' = "birth" /\ pending' = <<>> /\ DOMAIN pending' = {}
      /\ UNCHANGED <<log, links, active, round, achieved>>
  BY DEF EmergenceInv, RunRound, LeftPending, trackerVars
<1>3. NoNewGoal /\ EventsStay /\ EventId' = EventId
  BY <1>2, LogStays DEF NoNewGoal
<1>4. SameNames' /\ SameSkills' /\ DrawnOnce' /\ (NamesUnique' <=> NamesUnique)
  BY <1>3, NamesStay
<1>5. CreditMatchesCause' /\ (Chances => Chances')
  BY <1>3, NoNewAchievement DEF CreditsInv
<1>6. ASSUME NEW i \in DOMAIN hits', hits'[i] # NoGoal
      PROVE  \E j \in DOMAIN pending : hits'[i] = pending[j]
  <2>1. i \in 1..Agents /\ hits'[i] = Assigned[TaskOf(i)]
    BY <1>1, <1>6
  <2> QED
    BY <1>2, <1>6, <2>1, AssignedFacts
<1>7. OnTime'
  <2>1. ASSUME NEW i \in DOMAIN hits', hits'[i] # NoGoal
        PROVE  CreatedIn(hits'[i], round - 1)
    BY <1>2, <1>6, <2>1 DEF CreditsInv, OnTime
  <2>2. \A goal \in achieved : CreatedIn(goal, round - 1)
    BY DEF CreditsInv, OnTime
  <2> QED
    BY <1>2, <2>1, <2>2 DEF OnTime, CreatedIn, Created, EventId
<1>8. Noticed => Noticed'
  BY <1>2, <1>6 DEF Noticed
<1> QED
  BY <1>4, <1>5, <1>7, <1>8 DEF CreditsInv

LEMMA NoBirthCredits == EmergenceInv /\ CreditsInv /\ NoBirth => CreditsInv'
<1> SUFFICES ASSUME EmergenceInv, CreditsInv, NoBirth
             PROVE  CreditsInv'
  OBVIOUS
<1>1. /\ pc = "birth" /\ pc' = "credit"
      /\ UNCHANGED <<log, links, pending, active, round, hits, achieved>>
  BY DEF NoBirth, trackerVars, goalVars
<1>2. NoNewGoal /\ EventsStay /\ EventId' = EventId
  BY <1>1, LogStays DEF NoNewGoal
<1>3. SameNames' /\ SameSkills' /\ DrawnOnce' /\ (NamesUnique' <=> NamesUnique)
  BY <1>2, NamesStay
<1>4. CreditMatchesCause' /\ (Chances => Chances')
  BY <1>2, NoNewAchievement DEF CreditsInv
<1>5. OnTime' /\ (Noticed => Noticed')
  BY <1>1 DEF CreditsInv, OnTime, Noticed, CreatedIn, Created, EventId
<1> QED
  BY <1>3, <1>4, <1>5 DEF CreditsInv

LEMMA PassOverCredits == EmergenceInv /\ CreditsInv /\ PassOver => CreditsInv'
<1> SUFFICES ASSUME EmergenceInv, CreditsInv, PassOver
             PROVE  CreditsInv'
  OBVIOUS
<1>1. /\ TypeOK /\ hits # <<>> /\ hits' = Tail(hits)
      /\ UNCHANGED <<log, links, pending, active, round, pc, achieved>>
  BY DEF EmergenceInv, PassOver, trackerVars, goalVars
<1>2. NoNewGoal /\ EventsStay /\ EventId' = EventId
  BY <1>1, LogStays DEF NoNewGoal
<1>3. SameNames' /\ SameSkills' /\ DrawnOnce' /\ (NamesUnique' <=> NamesUnique)
  BY <1>2, NamesStay
<1>4. CreditMatchesCause' /\ (Chances => Chances')
  BY <1>2, NoNewAchievement DEF CreditsInv
<1>5. \A i \in DOMAIN hits' : i + 1 \in DOMAIN hits /\ hits'[i] = hits[i + 1]
  BY <1>1 DEF TypeOK
<1>6. Noticed => Noticed'
  BY <1>1, <1>5 DEF Noticed
<1>7. OnTime'
  <2>1. \A i \in DOMAIN hits' : hits'[i] # NoGoal => CreatedIn(hits'[i], round - 1)
    BY <1>5 DEF CreditsInv, OnTime
  <2> QED
    BY <1>1, <2>1 DEF CreditsInv, OnTime, CreatedIn, Created, EventId
<1> QED
  BY <1>3, <1>4, <1>6, <1>7 DEF CreditsInv

\* One more event: those that are there stay.
LEMMA OneMoreStays ==
    ASSUME EmergenceInv, NEW event, OneMore(event)
    PROVE  /\ EventsStay
           /\ EventId' = EventId \cup {Len(log) + 1}
           /\ \A id \in EventId : id < Len(log) + 1
           /\ log'[Len(log) + 1] = event
<1>1. Len(log) \in Nat /\ EventId = 1..Len(log) /\ \A id \in EventId : log[id] \in Event
  BY LogFacts DEF EmergenceInv
<1>2. EventId' = EventId \cup {Len(log) + 1} /\ \A id \in EventId : id < Len(log) + 1
  BY <1>1 DEF OneMore, EventId
<1>3. ASSUME NEW id \in EventId
      PROVE  Stays(id)
  <2>1. CASE log'[id] = log[id]
    BY <1>2, <2>1 DEF Stays
  <2>2. CASE log[id].type = "skill_born" /\ log'[id] = [log[id] EXCEPT !.cause = Len(log) + 1]
    BY <1>1, <1>2, <2>2 DEF Stays, Event
  <2> QED
    BY <2>1, <2>2 DEF OneMore
<1> QED
  BY <1>2, <1>3 DEF EventsStay, OneMore

LEMMA BirthCredits == EmergenceInv /\ CreditsInv /\ Birth => CreditsInv'
<1> SUFFICES ASSUME EmergenceInv, CreditsInv, Birth
             PROVE  CreditsInv'
  OBVIOUS
<1> DEFINE event == [type |-> "skill_born", round |-> round, cause |-> NoCause,
                     skill |-> Cardinality(Births) + 1, goal |-> NoGoal]
<1>1. /\ pc = "birth" /\ pc' = "goals"
      /\ Recorded(event)
      /\ UNCHANGED <<pending, links, active, round, hits, achieved>>
  BY DEF Birth, goalVars
<1>2. OneMore(event)
  BY BirthIsOneMore
<1>3. event.type = "skill_born"
  OBVIOUS
<1> HIDE DEF event
<1>4. /\ EventsStay
      /\ EventId' = EventId \cup {Len(log) + 1}
      /\ log'[Len(log) + 1] = event
  BY <1>2, OneMoreStays
<1>5. NoNewGoal
  BY <1>1, <1>3, <1>4 DEF NoNewGoal
<1>6. SameNames' /\ SameSkills' /\ DrawnOnce' /\ (NamesUnique' <=> NamesUnique)
  BY <1>5, NamesStay
<1>7. CreditMatchesCause' /\ (Chances => Chances')
  <2>1. \A id \in EventId' : log'[id].type = "goal_achieved" => id \in EventId
    BY <1>3, <1>4
  <2> QED
    BY <1>4, <2>1, NoNewAchievement DEF CreditsInv
<1>8. OnTime'
  <2>1. \A goal, r : CreatedIn(goal, r) => CreatedIn(goal, r)'
    BY <1>4, CreatedInStays
  <2>2. /\ \A i \in DOMAIN pending : CreatedIn(pending[i], round)
        /\ \A i \in DOMAIN hits : hits[i] # NoGoal => CreatedIn(hits[i], round - 1)
        /\ \A goal \in achieved : CreatedIn(goal, round - 1)
    BY <1>1 DEF CreditsInv, OnTime
  <2>3. \A goal : CreatedIn(goal, round - 1) => CreatedIn(goal, round - 1)'
    BY <1>1, <2>1 DEF CreatedIn
  <2>4. \A goal : CreatedIn(goal, round) => CreatedIn(goal, round)'
    BY <1>1, <2>1 DEF CreatedIn
  <2> QED
    BY <1>1, <2>2, <2>3, <2>4 DEF OnTime
<1>9. Noticed => Noticed'
  BY <1>1 DEF Noticed
<1> QED
  BY <1>6, <1>7, <1>8, <1>9 DEF CreditsInv

(***************************************************************************)
(* A goal added to the links and to the log at once: a name that was there *)
(* keeps its first link and its first event, a new one has only these.     *)
(***************************************************************************)
LEMMA GoalAddedCredits ==
    ASSUME EmergenceInv, CreditsInv, NEW skill \in Nat, NEW goal \in GoalName,
           GoalAdded(skill, goal)
    PROVE  /\ SameNames' /\ SameSkills' /\ DrawnOnce'
           /\ EventsStay /\ CreatedIn(goal, round)'
           /\ CreditMatchesCause' /\ (Chances => Chances')
           /\ NamesUnique' => NamesUnique
<1> DEFINE event == [type |-> "goal_created", round |-> round, cause |-> latest,
                     skill |-> skill, goal |-> goal]
           link == [skill |-> skill, goal |-> goal]
           n == Len(log) + 1
           m == Len(links) + 1
<1>1. links' = Append(links, link) /\ OneMore(event)
  BY DEF GoalAdded
<1>2. /\ event.type = "goal_created" /\ event.goal = goal /\ event.skill = skill
      /\ event.round = round
      /\ link.goal = goal /\ link.skill = skill
  OBVIOUS
<1> HIDE DEF event
<1>3. /\ EventsStay
      /\ EventId' = EventId \cup {n} /\ log'[n] = event
      /\ \A id \in EventId : id < n
  BY <1>1, OneMoreStays
<1>4. EventId \subseteq Nat /\ n \in Nat /\ n \notin EventId
  BY LogFacts DEF EmergenceInv
<1>5. /\ DOMAIN links' = DOMAIN links \cup {m}
      /\ DOMAIN links \subseteq Nat /\ m \in Nat
      /\ \A i \in DOMAIN links : i < m /\ links'[i] = links[i]
      /\ links'[m] = link
  <2> DEFINE Link == [skill : Nat, goal : GoalName]
  <2>1. links \in Seq(Link) /\ link \in Link
    BY DEF EmergenceInv, TypeOK
  <2> HIDE DEF Link, link
  <2> QED
    BY <1>1, <2>1, AppendProperties
<1> HIDE DEF link, m, n
<1>6. \A id, g : Created(id, g)' <=> Created(id, g) \/ (id = n /\ g = goal)
  BY <1>2, <1>3, <1>4 DEF Created, EventsStay, Stays
<1>7. \A i, g : Linking(i, g)' <=> Linking(i, g) \/ (i = m /\ g = goal)
  BY <1>2, <1>5 DEF Linking
<1>8. SameNames'
  BY <1>6, <1>7 DEF CreditsInv, SameNames
<1>9. SameSkills'
  <2> SUFFICES ASSUME NEW g, NEW i, NEW id, FirstLink(i, g)', FirstEvent(id, g)'
               PROVE  links'[i].skill = log'[id].skill
    BY DEF SameSkills
  <2>1. Linking(i, g)' /\ Created(id, g)'
    BY DEF FirstLink, FirstEvent
  <2>2. CASE \E j : Linking(j, g)
    <3>1. PICK j : Linking(j, g)
      BY <2>2
    <3>2. PICK other : Created(other, g)
      BY <2>2 DEF CreditsInv, SameNames
    <3>3. i <= j /\ j < m
      BY <1>5, <1>7, <3>1 DEF FirstLink, Linking
    <3>4. id <= other /\ other < n
      BY <1>3, <1>6, <3>2 DEF FirstEvent, Created
    <3>5. Linking(i, g) /\ Created(id, g)
      BY <1>3, <1>4, <1>5, <1>6, <1>7, <2>1, <3>1, <3>2, <3>3, <3>4 DEF Linking, Created
    <3>6. FirstLink(i, g)
      BY <1>5, <1>7, <3>5 DEF FirstLink
    <3>7. FirstEvent(id, g)
      BY <1>3, <1>6, <3>5 DEF FirstEvent
    <3>8. links[i].skill = log[id].skill
      BY <3>6, <3>7 DEF CreditsInv, SameSkills
    <3>9. links'[i] = links[i] /\ log'[id].skill = log[id].skill
      BY <1>3, <1>5, <3>5 DEF Linking, Created, EventsStay, Stays
    <3> QED
      BY <3>8, <3>9
  <2>3. CASE ~\E j : Linking(j, g)
    <3>1. ~\E other : Created(other, g)
      BY <2>3 DEF CreditsInv, SameNames
    <3>2. i = m /\ id = n
      BY <1>6, <1>7, <2>1, <2>3, <3>1
    <3> QED
      BY <1>2, <1>3, <1>5, <3>2
  <2> QED
    BY <2>2, <2>3
<1>10. NamesUnique' => NamesUnique
  BY <1>5 DEF NamesUnique
<1>11. DrawnOnce'
  <2> SUFFICES ASSUME NamesUnique', NEW g, NEW one, NEW other, Created(one, g)', Created(other, g)'
               PROVE  one = other
    BY DEF DrawnOnce
  <2>1. ~\E j : Linking(j, goal)
    <3>1. ASSUME NEW j, Linking(j, goal)
          PROVE  FALSE
      <4>1. j \in DOMAIN links' /\ m \in DOMAIN links' /\ links'[j].goal = links'[m].goal
        BY <1>2, <1>5, <3>1 DEF Linking
      <4>2. j = m
        BY <4>1 DEF NamesUnique
      <4> QED
        BY <1>5, <3>1, <4>2 DEF Linking
    <3> QED
      BY <3>1
  <2>2. ~\E id : Created(id, goal)
    BY <2>1 DEF CreditsInv, SameNames
  <2> QED
    BY <1>6, <1>10, <2>2 DEF CreditsInv, DrawnOnce
<1>12. CreditMatchesCause' /\ (Chances => Chances')
  <2>1. \A id \in EventId' : log'[id].type = "goal_achieved" => id \in EventId
    BY <1>2, <1>3
  <2> QED
    BY <1>3, <2>1, NoNewAchievement DEF CreditsInv
<1>13. CreatedIn(goal, round)'
  <2>1. n \in EventId' /\ log'[n].type = "goal_created" /\ log'[n].goal = goal
        /\ log'[n].round = round /\ round' = round
    BY <1>1, <1>2, <1>3 DEF OneMore
  <2> QED
    BY <2>1 DEF CreatedIn, Created
<1> QED
  BY <1>3, <1>8, <1>9, <1>10, <1>11, <1>12, <1>13

LEMMA GoalFromSkillCredits == EmergenceInv /\ CreditsInv /\ GoalFromSkill => CreditsInv'
<1> SUFFICES ASSUME EmergenceInv, CreditsInv, GoalFromSkill
             PROVE  CreditsInv'
  OBVIOUS
<1>1. /\ TypeOK
      /\ pc = "goals" /\ pc' \in {"goals", "credit"}
      /\ UNCHANGED <<round, hits, achieved>>
  BY DEF EmergenceInv, GoalFromSkill
<1>2. /\ \A i \in DOMAIN pending : CreatedIn(pending[i], round)
      /\ \A i \in DOMAIN hits : hits[i] # NoGoal => CreatedIn(hits[i], round - 1)
      /\ \A g \in achieved : CreatedIn(g, round - 1)
  BY <1>1 DEF CreditsInv, OnTime
<1>3. CASE UNCHANGED <<trackerVars, goalVars>>
  <2>1. UNCHANGED <<log, links, pending, active>>
    BY <1>3 DEF trackerVars, goalVars
  <2>2. NoNewGoal /\ EventsStay /\ EventId' = EventId
    BY <2>1, LogStays DEF NoNewGoal
  <2>3. SameNames' /\ SameSkills' /\ DrawnOnce' /\ (NamesUnique' <=> NamesUnique)
    BY <2>2, NamesStay
  <2>4. CreditMatchesCause' /\ (Chances => Chances')
    BY <2>2, NoNewAchievement DEF CreditsInv
  <2>5. OnTime' /\ (Noticed => Noticed')
    BY <1>1, <1>2, <2>1 DEF OnTime, Noticed, CreatedIn, Created, EventId
  <2> QED
    BY <2>3, <2>4, <2>5 DEF CreditsInv
<1>4. ASSUME NEW skill \in Nat, NEW goal \in GoalName, GoalAdded(skill, goal)
      PROVE  CreditsInv'
  <2>1. /\ SameNames' /\ SameSkills' /\ DrawnOnce'
        /\ EventsStay /\ CreatedIn(goal, round)'
        /\ CreditMatchesCause' /\ (Chances => Chances')
        /\ NamesUnique' => NamesUnique
    BY <1>4, GoalAddedCredits
  <2>2. active' = active \cup {goal}
    BY <1>4 DEF GoalAdded
  <2>3. ASSUME NEW i \in DOMAIN pending'
        PROVE  pending'[i] = goal \/ (i \in DOMAIN pending /\ pending'[i] = pending[i])
    BY <1>1, <1>4 DEF GoalAdded, TypeOK
  <2>4. OnTime'
    <3>1. \A g : CreatedIn(g, round) => CreatedIn(g, round)'
      BY <1>1, <2>1, CreatedInStays DEF CreatedIn
    <3>2. \A g : CreatedIn(g, round - 1) => CreatedIn(g, round - 1)'
      BY <1>1, <2>1, CreatedInStays DEF CreatedIn
    <3>3. \A i \in DOMAIN pending' : CreatedIn(pending[i], round)'
      BY <1>2, <2>1, <2>3, <3>1
    <3>4. /\ \A i \in DOMAIN hits' : hits'[i] # NoGoal => CreatedIn(hits[i], round - 1)'
          /\ \A g \in achieved' : CreatedIn(g, round - 1)'
      BY <1>1, <1>2, <3>2
    <3> QED
      BY <1>1, <3>3, <3>4 DEF OnTime
  <2>5. Noticed => Noticed'
    BY <1>1, <2>2, <2>3 DEF Noticed
  <2> QED
    BY <2>1, <2>4, <2>5 DEF CreditsInv
<1> QED
  BY <1>3, <1>4, GoalIsOneMore

\* The two lookups of a rewarded goal find its first event and its first link.
LEMMA LookupsFindFirst ==
    ASSUME TypeOK, NEW goal, LinkOf(goal) # 0, NEW id, Created(id, goal)
    PROVE  FirstLink(LinkOf(goal), goal) /\ FirstEvent(CauseOf(goal), goal)
<1> DEFINE I == {i \in 1..Len(links) : links[i].goal = goal}
           E == {e \in 1..Len(log) : log[e].type = "goal_created" /\ log[e].goal = goal}
<1>1. EventId = 1..Len(log) /\ DOMAIN links = 1..Len(links) /\ E \subseteq Nat /\ I \subseteq Nat
  <2> DEFINE Link == [skill : Nat, goal : GoalName]
  <2>1. links \in Seq(Link)
    BY DEF TypeOK
  <2> HIDE DEF Link
  <2>2. DOMAIN links = 1..Len(links)
    BY <2>1
  <2> QED
    BY <2>2, LogFacts
<1>2. LinkOf(goal) = Min(I) /\ I # {}
  BY DEF LinkOf, SelectInSeq
<1>3. id \in E
  BY <1>1 DEF Created
<1>4. CauseOf(goal) = Min(E)
  BY <1>3 DEF CauseOf, SelectInSeq
<1>5. Min(I) \in I /\ \A i \in I : Min(I) <= i
  BY <1>1, <1>2, MinOfNat, Zenon
<1>6. Min(E) \in E /\ \A e \in E : Min(E) <= e
  BY <1>1, <1>3, MinOfNat, Zenon
<1>7. \A i : Linking(i, goal) <=> i \in I
  BY <1>1 DEF Linking
<1>8. \A e : Created(e, goal) <=> e \in E
  BY <1>1 DEF Created
<1> HIDE DEF I, E
<1>9. FirstLink(Min(I), goal)
  BY <1>5, <1>7 DEF FirstLink
<1>10. FirstEvent(Min(E), goal)
  BY <1>6, <1>8 DEF FirstEvent
<1> QED
  BY <1>2, <1>4, <1>9, <1>10

LEMMA CreditCredits == EmergenceInv /\ CreditsInv /\ Credit => CreditsInv'
<1> SUFFICES ASSUME EmergenceInv, CreditsInv, Credit
             PROVE  CreditsInv'
  OBVIOUS
<1> DEFINE goal == Head(hits)
           event == Achievement(goal)
           n == Len(log) + 1
           c == CauseOf(goal)
<1>1. /\ TypeOK
      /\ pc = "credit" /\ hits # <<>> /\ LinkOf(goal) # 0
      /\ achieved' = achieved \cup {goal}
      /\ hits' = Tail(hits)
      /\ UNCHANGED <<pending, links, active, round, pc>>
  BY DEF EmergenceInv, Credit, Creditable, goalVars
<1>2. OneMore(event) /\ goal \in GoalName
  BY CreditIsOneMore
<1>3. event.type = "goal_achieved" /\ event.goal = goal /\ event.round = round
      /\ event.cause = c /\ event.skill = links[LinkOf(goal)].skill
  BY DEF Achievement
<1>4. 1 \in DOMAIN hits /\ goal = hits[1] /\ goal # NoGoal
      /\ \A i \in DOMAIN hits' : i + 1 \in DOMAIN hits /\ hits'[i] = hits[i + 1]
  BY <1>1, <1>2, NoGoalIsNoName DEF TypeOK
<1> HIDE DEF event, goal
<1>5. /\ EventsStay
      /\ EventId' = EventId \cup {n} /\ log'[n] = event
  BY <1>2, OneMoreStays
<1>6. CreatedIn(goal, round - 1)
  BY <1>4 DEF CreditsInv, OnTime
<1>7. PICK id \in EventId : Created(id, goal) /\ log[id].round = round - 1
  BY <1>6 DEF CreatedIn
<1>8. FirstLink(LinkOf(goal), goal) /\ FirstEvent(c, goal)
  BY <1>1, <1>7, LookupsFindFirst
<1>9. log[c].skill = event.skill
  BY <1>3, <1>8 DEF CreditsInv, SameSkills
<1>10. NoNewGoal
  BY <1>1, <1>3, <1>5 DEF NoNewGoal
<1>11. SameNames' /\ SameSkills' /\ DrawnOnce' /\ (NamesUnique' <=> NamesUnique)
  BY <1>10, NamesStay
<1>12. /\ c \in EventId /\ Stays(c)
       /\ log[c].type = "goal_created" /\ log[c].goal = goal
  BY <1>5, <1>8 DEF FirstEvent, Created, EventsStay
<1>13. ASSUME NEW a \in Achievements'
       PROVE  a \in Achievements \/ a = n
  BY <1>5 DEF Achievements, EventsStay, Stays
<1>14. CreditMatchesCause'
  <2>1. ASSUME NEW a \in Achievements'
        PROVE  /\ log'[a].cause \in GoalEvents'
               /\ log'[log'[a].cause].skill = log'[a].skill
               /\ log'[log'[a].cause].goal = log'[a].goal
    <3>1. CASE a \in Achievements
      BY <1>5, <3>1, AchievementsStay DEF CreditsInv
    <3>2. CASE a = n
      BY <1>3, <1>5, <1>9, <1>12, <3>2 DEF Stays, GoalEvents
    <3> QED
      BY <1>13, <2>1, <3>1, <3>2
  <2> QED
    BY <2>1 DEF CreditMatchesCause
<1>15. NamesUnique' => Chances'
  <2> SUFFICES ASSUME NamesUnique, NEW a \in Achievements'
               PROVE  log'[a].round = log'[log'[a].cause].round + 1
    BY <1>11 DEF Chances
  <2>1. CASE a \in Achievements
    <3>1. log[a].round = log[log[a].cause].round + 1
      BY <2>1 DEF CreditsInv, Chances
    <3> QED
      BY <1>5, <2>1, <3>1, AchievementsStay DEF CreditsInv
  <2>2. CASE a = n
    <3>1. c = id
      BY <1>7, <1>8 DEF FirstEvent, CreditsInv, DrawnOnce
    <3>2. round \in Nat
      BY <1>1, EmergenceAssumption DEF TypeOK
    <3>3. log'[c].round = round - 1
      BY <1>7, <1>12, <3>1 DEF Stays
    <3> QED
      BY <1>3, <1>5, <2>2, <3>2, <3>3
  <2> QED
    BY <1>13, <2>1, <2>2
<1>16. OnTime'
  <2>1. \A g, r : CreatedIn(g, r) => CreatedIn(g, r)'
    BY <1>5, CreatedInStays
  <2>2. \A g : CreatedIn(g, round - 1) => CreatedIn(g, round - 1)'
    BY <1>1, <2>1 DEF CreatedIn
  <2>3. \A g : CreatedIn(g, round) => CreatedIn(g, round)'
    BY <1>1, <2>1 DEF CreatedIn
  <2>4. \A i \in DOMAIN pending' : CreatedIn(pending[i], round)'
    BY <1>1, <2>3 DEF CreditsInv, OnTime
  <2>5. \A i \in DOMAIN hits' : hits'[i] # NoGoal => CreatedIn(hits[i], round - 1)'
    <3>1. ASSUME NEW i \in DOMAIN hits', hits'[i] # NoGoal
          PROVE  CreatedIn(hits'[i], round - 1)
      BY <1>4, <3>1 DEF CreditsInv, OnTime
    <3> QED
      BY <2>2, <3>1
  <2>6. \A g \in achieved' : CreatedIn(g, round - 1)'
    BY <1>1, <1>6, <2>2 DEF CreditsInv, OnTime
  <2> QED
    BY <1>1, <2>4, <2>5, <2>6 DEF OnTime
<1>17. Noticed => Noticed'
  BY <1>1, <1>4 DEF Noticed
<1> QED
  BY <1>11, <1>14, <1>15, <1>16, <1>17 DEF CreditsInv

LEMMA EndCycleCredits == EmergenceInv /\ CreditsInv /\ EndCycle => CreditsInv'
<1> SUFFICES ASSUME EmergenceInv, CreditsInv, EndCycle
             PROVE  CreditsInv'
  OBVIOUS
<1>1. /\ TypeOK
      /\ pc = "credit" /\ pc' = "round"
      /\ hits' = <<>> /\ DOMAIN hits' = {} /\ achieved' = {}
      /\ active' = active \ achieved
      /\ round' = round + 1
      /\ UNCHANGED <<log, pending, links>>
  BY DEF EmergenceInv, EndCycle, StillActive, trackerVars
<1>2. round \in Nat
  BY <1>1, EmergenceAssumption DEF TypeOK
<1>3. NoNewGoal /\ EventsStay /\ EventId' = EventId
  BY <1>1, LogStays DEF NoNewGoal
<1>4. SameNames' /\ SameSkills' /\ DrawnOnce' /\ (NamesUnique' <=> NamesUnique)
  BY <1>3, NamesStay
<1>5. CreditMatchesCause' /\ (Chances => Chances')
  BY <1>3, NoNewAchievement DEF CreditsInv
<1>6. \A i \in DOMAIN pending : CreatedIn(pending[i], round)
  BY <1>1 DEF CreditsInv, OnTime
<1>7. OnTime'
  <2>1. round' - 1 = round
    BY <1>1, <1>2
  <2> QED
    BY <1>1, <1>6, <2>1 DEF OnTime, CreatedIn, Created, EventId
<1>8. ASSUME NamesUnique, Noticed
      PROVE  Noticed'
  <2>1. ASSUME NEW i \in DOMAIN pending, pending[i] \in achieved
        PROVE  FALSE
    <3>1. PICK one \in EventId : Created(one, pending[i]) /\ log[one].round = round
      BY <1>6 DEF CreatedIn
    <3>2. PICK other \in EventId : Created(other, pending[i]) /\ log[other].round = round - 1
      BY <2>1 DEF CreditsInv, OnTime, CreatedIn
    <3>3. one = other
      BY <1>8, <3>1, <3>2 DEF CreditsInv, DrawnOnce
    <3> QED
      BY <1>2, <3>1, <3>2, <3>3
  <2> QED
    BY <1>1, <1>8, <2>1 DEF Noticed
<1> QED
  BY <1>4, <1>5, <1>7, <1>8 DEF CreditsInv

(***************************************************************************)
(* The invariant holds in every reachable state.                           *)
(***************************************************************************)
THEOREM CreditsInvariant == Spec => []CreditsInv
<1>1. EmergenceInv /\ CreditsInv /\ [Next]_vars => CreditsInv'
  <2> SUFFICES ASSUME EmergenceInv, CreditsInv, [Next]_vars
               PROVE  CreditsInv'
    OBVIOUS
  <2>1. CASE UNCHANGED vars
    <3>1. UNCHANGED <<log, pending, links, active, round, pc, hits, achieved>>
      BY <2>1 DEF vars, trackerVars, goalVars, cycleVars
    <3>2. NoNewGoal /\ EventsStay /\ EventId' = EventId
      BY <3>1, LogStays DEF NoNewGoal
    <3>3. SameNames' /\ SameSkills' /\ DrawnOnce' /\ (NamesUnique' <=> NamesUnique)
      BY <3>2, NamesStay
    <3>4. CreditMatchesCause' /\ (Chances => Chances')
      BY <3>2, NoNewAchievement DEF CreditsInv
    <3>5. OnTime' /\ (Noticed => Noticed')
      BY <3>1 DEF CreditsInv, OnTime, Noticed, CreatedIn, Created, EventId
    <3> QED
      BY <3>3, <3>4, <3>5 DEF CreditsInv
  <2>2. CASE RunRound
    BY <2>2, RunRoundCredits
  <2>3. CASE NoBirth
    BY <2>3, NoBirthCredits
  <2>4. CASE Birth
    BY <2>4, BirthCredits
  <2>5. CASE GoalFromSkill
    BY <2>5, GoalFromSkillCredits
  <2>6. CASE Credit
    BY <2>6, CreditCredits
  <2>7. CASE PassOver
    BY <2>7, PassOverCredits
  <2>8. CASE EndCycle
    BY <2>8, EndCycleCredits
  <2> QED
    BY <2>1, <2>2, <2>3, <2>4, <2>5, <2>6, <2>7, <2>8 DEF Next
<1> QED
  BY <1>1, InitCredits, EmergenceInvariant, PTL DEF Spec

-----------------------------------------------------------------------------
(***************************************************************************)
(* The skill credited with an achievement is the skill of the goal event   *)
(* given as its cause, however many goals share a name.                    *)
(***************************************************************************)
THEOREM CreditAlwaysMatches == Spec => []CreditMatchesCause
<1>1. CreditsInv => CreditMatchesCause
  BY DEF CreditsInv
<1> QED
  BY <1>1, CreditsInvariant, PTL

(***************************************************************************)
(* While no name was drawn twice, a goal is achieved in the round after    *)
(* its creation or never: a pending goal that is not among the first two   *)
(* is dropped, not put off.                                                *)
(***************************************************************************)
THEOREM OnlyOneChance == Spec => []OneChance
<1>1. CreditsInv => OneChance
  BY DEF CreditsInv, OneChance, Chances
<1> QED
  BY <1>1, CreditsInvariant, PTL

(***************************************************************************)
(* While no name was drawn twice, what the agents are rewarded for is      *)
(* among the active goals, so the achievement is recorded.                 *)
(***************************************************************************)
THEOREM RewardsAreSeen == Spec => []WillBeSeen
<1>1. CreditsInv => WillBeSeen
  <2> SUFFICES ASSUME CreditsInv, NamesUnique,
                      NEW goal \in (Range(pending) \cup Range(hits)) \ {NoGoal}
               PROVE  goal \in active
    BY DEF WillBeSeen
  <2>1. CASE goal \in Range(pending)
    BY <2>1 DEF Range, CreditsInv, Noticed
  <2>2. CASE goal \in Range(hits)
    BY <2>2 DEF Range, CreditsInv, Noticed
  <2> QED
    BY <2>1, <2>2
<1> QED
  BY <1>1, CreditsInvariant, PTL

=============================================================================
