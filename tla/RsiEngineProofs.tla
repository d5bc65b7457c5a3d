-------------------------- MODULE RsiEngineProofs ---------------------------
(***************************************************************************)
(* What RsiEngine keeps for every number of universes, generations,        *)
(* rounds and crashes, every source text and every set of parameters.      *)
(***************************************************************************)
EXTENDS RsiEngine, TLAPS, FiniteSetTheorems

-----------------------------------------------------------------------------
(***************************************************************************)
(* The inductive invariant, in parts.                                      *)
(***************************************************************************)
\* Where a patch is being made and installed.
Patching == {"backup", "write", "selftest", "restore", "take over"}

\* Where the universes in memory go on growing or are being saved.
Growing == {"evolve", "save", "save rule", "duo"}

\* What a step finds in its hands, and which command it belongs to.
Held ==
    /\ pc # "idle" => script # Unreadable /\ program # Unreadable
    /\ pc \in Growing \cup {"gate"} => mem # Unreadable
    /\ pc \in {"gate", "autopatch"} \cup Patching =>
           cmd = "rsi" /\ state # Unreadable
    /\ pc \in Patching => cand # Unreadable
    /\ pc \in {"write", "selftest", "restore"} => backup # Unreadable
    /\ pc \in {"selftest", "take over"} => script = cand.text
    /\ pc \in {"begin", "evolve"} => cmd \in {"fresh", "resume", "rsi"}
    /\ pc \in {"save", "save rule"} => cmd \in {"fresh", "resume", "rsi", "duo"}
    /\ pc = "evolve" => left > 0
    /\ pc \in {"begin duo", "duo"} => cmd = "duo" /\ round < Rounds
    /\ cmd = "duo" => left = 0
    /\ cmd = "rsi" => round < Rounds
    /\ pc = "idle" => round = 0
    /\ pc \notin {"evolve", "save", "duo"} => ~fresh
    /\ pc = "save rule" => state # Unreadable

\* The selected universe is the best one, on disk, in memory, in a patch.
Ranked(s) ==
    /\ s.selected \in DOMAIN s.best
    /\ \A u \in DOMAIN s.best : s.best[s.selected] <= s.best[u]

RankedInv ==
    /\ state # Unreadable => Ranked(state)
    /\ mem # Unreadable => Ranked(mem)
    /\ cand # Unreadable => Ranked(cand.state)
    /\ cmd = "duo" /\ pc \in Growing => DOMAIN mem.best = {mem.selected}

\* What is in memory, or in a patch, carries on from the state on disk.
Follows(s) == BestScore(s) <= BestScore(state)

LineageInv ==
    /\ pc \in Growing /\ ~fresh /\ state # Unreadable =>
           Follows(mem) /\ mem.tune = state.tune
    /\ pc \in Patching => Follows(cand.state)

RollbackInv ==
    /\ RollbackSafe
    /\ trust # "stacked" /\ pc \in {"write", "selftest", "restore"} =>
           backup = vetted

RuleInv ==
    /\ RuleKept
    /\ ~forgotten /\ cmd # "duo" /\ pc \in Growing => mem.rule = learned

EngineInv ==
    EngineTypeOK /\ Held /\ RankedInv /\ LineageInv /\ RollbackInv /\ RuleInv

-----------------------------------------------------------------------------
(***************************************************************************)
(* The records and functions the engine handles.                           *)
(***************************************************************************)
Bests == UNION {[S -> Scores] : S \in SUBSET Uids}

\* Scores of some of the universes are what a snapshot keeps.
LEMMA BestsIntro ==
    ASSUME NEW S, S \subseteq Uids, NEW f \in [S -> Scores]
    PROVE  f \in Bests
  BY DEF Bests

LEMMA BestsElim ==
    ASSUME NEW f \in Bests
    PROVE  DOMAIN f \subseteq Uids /\ f \in [DOMAIN f -> Scores]
  BY DEF Bests

\* What Snapshot makes is a snapshot with these fields.
LEMMA SnapshotMade ==
    ASSUME NEW best \in Bests, NEW selected \in Uids, NEW rule \in Rules,
           NEW tune \in [Params -> Literals], NEW done \in Nat
    PROVE  /\ Snapshot(best, selected, rule, tune, done) \in Snapshots
           /\ Snapshot(best, selected, rule, tune, done) # Unreadable
  <1>1. Snapshot(best, selected, rule, tune, done) \in Snapshots
    BY DEF Snapshot, Snapshots, Bests
  <1> QED
    BY <1>1, UnreadableAssumption

LEMMA SnapshotFields ==
    ASSUME NEW best, NEW selected, NEW rule, NEW tune, NEW done
    PROVE  LET s == Snapshot(best, selected, rule, tune, done)
           IN  /\ s.best = best /\ s.selected = selected /\ s.rule = rule
               /\ s.tune = tune /\ s.done = done
  BY DEF Snapshot

LEMMA SnapshotParts ==
    ASSUME NEW s \in Snapshots
    PROVE  /\ s.best \in Bests /\ s.selected \in Uids /\ s.rule \in Rules
           /\ s.tune \in [Params -> Literals] /\ s.done \in Nat
  BY DEF Snapshots, Bests

\* A generation keeps the universes and makes none of them worse.
LEMMA ImprovedBetter ==
    ASSUME NEW best \in Bests, NEW found \in [DOMAIN best -> Scores]
    PROVE  /\ Improved(best, found) \in Bests
           /\ DOMAIN Improved(best, found) = DOMAIN best
           /\ \A u \in DOMAIN best :
                 /\ Improved(best, found)[u] <= best[u]
                 /\ Improved(best, found)[u] \in Int
                 /\ best[u] \in Int
  <1>1. DOMAIN best \subseteq Uids /\ best \in [DOMAIN best -> Scores]
    BY BestsElim
  <1>2. Scores \subseteq Int
    BY EngineAssumption DEF Scores
  <1>3. Improved(best, found) \in [DOMAIN best -> Scores]
    BY <1>1 DEF Improved
  <1>4. \A u \in DOMAIN best : Improved(best, found)[u] <= best[u]
    BY <1>1, <1>2 DEF Improved
  <1>5. Improved(best, found) \in Bests
    BY <1>1, <1>3, BestsIntro
  <1> QED
    BY <1>1, <1>2, <1>3, <1>4, <1>5

\* New universes are all as bad as can be.
LEMMA NewUniversesMade ==
    ASSUME NEW S, S \subseteq Uids, 0 \in S, NEW rule \in Rules,
           program \in Texts
    PROVE  /\ NewUniverses(S, rule) \in Snapshots
           /\ NewUniverses(S, rule) # Unreadable
           /\ NewUniverses(S, rule).rule = rule
           /\ DOMAIN NewUniverses(S, rule).best = S
           /\ NewUniverses(S, rule).selected = 0
           /\ Ranked(NewUniverses(S, rule))
  <1> DEFINE best == [u \in S |-> Inf]
  <1>1. best \in Bests
    <2>1. Inf \in Scores
      BY EngineAssumption DEF Inf, Scores
    <2> QED
      BY <2>1, BestsIntro
  <1>2. Defaults(program) \in [Params -> Literals]
    BY EngineAssumption DEF Defaults, Texts
  <1>3. 0 \in Uids
    OBVIOUS
  <1>4. NewUniverses(S, rule) = Snapshot(best, 0, rule, Defaults(program), 0)
    BY DEF NewUniverses
  <1>5. /\ NewUniverses(S, rule) \in Snapshots
        /\ NewUniverses(S, rule) # Unreadable
    BY <1>1, <1>2, <1>3, <1>4, SnapshotMade
  <1>6. /\ NewUniverses(S, rule).best = best
        /\ NewUniverses(S, rule).selected = 0
        /\ NewUniverses(S, rule).rule = rule
    BY <1>4, SnapshotFields
  <1>7. Ranked(NewUniverses(S, rule))
    <2>1. Inf \in Nat
      BY EngineAssumption DEF Inf
    <2> QED
      BY <1>6, <2>1 DEF Ranked
  <1> QED
    BY <1>5, <1>6, <1>7

\* Replacing a literal of a source leaves a source.
LEMMA ReplacedIsText ==
    ASSUME NEW text \in Texts, NEW old, NEW new \in Literals
    PROVE  Replaced(text, old, new) \in Texts
  BY DEF Replaced, Texts

\* Every mutation is a patch of the state it was tried from.
LEMMA MutationIsPatch ==
    ASSUME state \in Snapshots, NEW source \in Texts,
           NEW m \in Mutations(source)
    PROVE  /\ m \in Patches /\ m # Unreadable
           /\ m.state.best = state.best
           /\ m.state.selected = state.selected
  <1>1. Drawn \subseteq Literals
    BY EngineAssumption
  <1>2. ASSUME NEW text \in Texts, NEW tune \in [Params -> Literals],
               NEW segments \in 1..3
        PROVE  LET p == Patch(text, tune, segments)
               IN  /\ p \in Patches /\ p # Unreadable
                   /\ p.state.best = state.best
                   /\ p.state.selected = state.selected
    <2> DEFINE after == Snapshot(state.best, state.selected, state.rule, tune,
                                 state.done)
    <2>1. after \in Snapshots
      BY SnapshotParts, SnapshotMade
    <2>2. after.best = state.best /\ after.selected = state.selected
      BY SnapshotFields
    <2>3. Patch(text, tune, segments) =
              [text |-> text, state |-> after, segments |-> segments]
      BY DEF Patch
    <2> HIDE DEF after
    <2>4. Patch(text, tune, segments) \in Patches
      BY <2>1, <2>3 DEF Patches
    <2> QED
      BY <2>2, <2>3, <2>4, UnreadableAssumption
  <1>3. state.tune \in [Params -> Literals]
    BY SnapshotParts
  <1>4. CASE \E p \in Params, v \in Drawn : m = Tuned(source, p, v)
    <2>1. PICK p \in Params, v \in Drawn : m = Tuned(source, p, v)
      BY <1>4
    <2>2. Replaced(source, source[Target[p]], v) \in Texts
      BY <1>1, ReplacedIsText
    <2>3. [state.tune EXCEPT ![p] = v] \in [Params -> Literals]
      BY <1>1, <1>3
    <2> QED
      BY <1>2, <2>1, <2>2, <2>3 DEF Tuned
  <1>5. CASE \E v \in Drawn, w \in Drawn : m = Reoperated(source, v, w)
    <2>1. PICK v \in Drawn, w \in Drawn : m = Reoperated(source, v, w)
      BY <1>5
    <2>2. Replaced(source, source[Target[OpWeights[1]]], v) \in Texts
      BY <1>1, ReplacedIsText
    <2>3. Replaced(Replaced(source, source[Target[OpWeights[1]]], v),
                   source[Target[OpWeights[2]]], w) \in Texts
      BY <1>1, <2>2, ReplacedIsText
    <2> QED
      BY <1>2, <1>3, <2>1, <2>3 DEF Reoperated
  <1>6. CASE \E v \in Drawn, w \in Drawn, x \in Drawn :
                m = Reweighed(source, v, w, x)
    <2>1. PICK v \in Drawn, w \in Drawn, x \in Drawn :
                m = Reweighed(source, v, w, x)
      BY <1>6
    <2> DEFINE one == Replaced(source, source[Target[ScoreWeights[1]]], v)
               two == Replaced(one, source[Target[ScoreWeights[2]]], w)
               three == Replaced(two, source[Target[ScoreWeights[3]]], x)
    <2>2. one \in Texts
      BY <1>1, ReplacedIsText
    <2>3. two \in Texts
      BY <1>1, <2>2, ReplacedIsText
    <2>4. three \in Texts
      BY <1>1, <2>3, ReplacedIsText
    <2>5. m = Patch(three, state.tune, 3)
      BY <2>1 DEF Reweighed
    <2> HIDE DEF three
    <2> QED
      BY <1>2, <1>3, <2>4, <2>5
  <1> QED
    BY <1>4, <1>5, <1>6 DEF Mutations

-----------------------------------------------------------------------------
(***************************************************************************)
(* Every step keeps the values of the variables in their sets.             *)
(***************************************************************************)
LEMMA ExitTypes ==
    ASSUME Exit
    PROVE  /\ pc' \in Steps /\ cmd' = "none"
           /\ program' = Unreadable /\ mem' = Unreadable
           /\ left' \in Nat /\ round' \in 0..Rounds
           /\ fresh' \in BOOLEAN /\ cand' = Unreadable
  <1>1. 0 \in Nat /\ 0 \in 0..Rounds
    BY EngineAssumption
  <1>2. pc' \in Steps /\ cmd' = "none" /\ fresh' \in BOOLEAN
    BY DEF Exit, Steps
  <1> QED
    BY <1>1, <1>2 DEF Exit

LEMMA NextRoundTypes ==
    ASSUME EngineTypeOK, NextRound
    PROVE  /\ pc' \in Steps
           /\ cmd' \in {cmd, "none"}
           /\ program' \in {program, Unreadable} /\ mem' = Unreadable
           /\ left' \in Nat /\ round' \in 0..Rounds
           /\ fresh' \in BOOLEAN /\ cand' = Unreadable
  <1>1. CASE round + 1 < Rounds
    <2>1. round' \in 0..Rounds /\ left' \in Nat
      BY <1>1, EngineAssumption DEF NextRound, EngineTypeOK
    <2>2. pc' \in Steps /\ fresh' \in BOOLEAN
      BY <1>1 DEF NextRound, EngineTypeOK, Steps
    <2> QED
      BY <1>1, <2>1, <2>2 DEF NextRound
  <1>2. CASE ~(round + 1 < Rounds)
    BY <1>2, ExitTypes DEF NextRound
  <1> QED
    BY <1>1, <1>2

\* Universes in memory, from wherever they come.
LEMMA MemMade ==
    ASSUME EngineTypeOK, Held, RankedInv,
           BeginRun \/ Generation \/ BeginDuo \/ DuoRound
    PROVE  mem' \in Snapshots
  <1> USE EngineAssumption DEF EngineTypeOK
  <1>1. CASE BeginRun
    <2>1. program \in Texts /\ LoadedRule \in Rules
      BY <1>1 DEF BeginRun, Held, LoadedRule
    <2>2. mem' \in Snapshots
      <3>1. CASE Resuming /\ state # Unreadable
        BY <1>1, <2>1, <3>1, SnapshotParts, SnapshotMade DEF BeginRun
      <3>2. CASE ~(Resuming /\ state # Unreadable)
        <4>1. 0 \in Uids
          BY DEF Uids
        <4> QED
          BY <1>1, <2>1, <3>2, <4>1, NewUniversesMade DEF BeginRun
      <3> QED
        BY <3>1, <3>2
    <2> QED
      BY <2>2
  <1>2. CASE Generation
    <2>1. mem \in Snapshots
      BY <1>2 DEF Generation, Held, Growing
    <2>2. mem' \in Snapshots
      <3>1. PICK found \in [DOMAIN mem.best -> Scores], u \in DOMAIN mem.best :
                mem' = Snapshot(Improved(mem.best, found), u, mem.rule,
                                mem.tune, mem.done + 1)
        BY <1>2 DEF Generation
      <3>2. mem.best \in Bests /\ mem.rule \in Rules /\ mem.done + 1 \in Nat
            /\ mem.tune \in [Params -> Literals]
        BY <2>1, SnapshotParts
      <3>3. u \in Uids /\ Improved(mem.best, found) \in Bests
        BY <3>2, BestsElim, ImprovedBetter
      <3> QED
        BY <3>1, <3>2, <3>3, SnapshotMade
    <2> QED
      BY <2>2
  <1>3. CASE BeginDuo
    <2>1. mem' \in Snapshots
      <3>1. CASE /\ state # Unreadable
                 /\ mem' = Snapshot([u \in {state.selected} |-> state.best[u]],
                                    state.selected, state.rule, state.tune,
                                    state.done)
        <4>1. /\ state.selected \in Uids /\ state.rule \in Rules
              /\ state.tune \in [Params -> Literals] /\ state.done \in Nat
              /\ state.best \in [DOMAIN state.best -> Scores]
          BY <3>1, SnapshotParts, BestsElim
        <4>2. state.selected \in DOMAIN state.best
          BY <3>1 DEF RankedInv, Ranked
        <4>3. [u \in {state.selected} |-> state.best[u]] \in Bests
          <5>1. [u \in {state.selected} |-> state.best[u]]
                    \in [{state.selected} -> Scores]
            BY <4>1, <4>2
          <5>2. {state.selected} \subseteq Uids
            BY <4>1
          <5> QED
            BY <5>1, <5>2, BestsIntro
        <4> QED
          BY <3>1, <4>1, <4>3, SnapshotMade
      <3>2. CASE mem' = NewUniverses({0}, DefaultRule)
        <4>1. {0} \subseteq Uids /\ 0 \in {0}
          BY DEF Uids
        <4>2. program \in Texts
          BY <1>3 DEF BeginDuo, Held
        <4> QED
          BY <3>2, <4>1, <4>2, NewUniversesMade
      <3> QED
        BY <1>3, <3>1, <3>2 DEF BeginDuo
    <2> QED
      BY <2>1
  <1>4. CASE DuoRound
    <2>1. mem \in Snapshots
      BY <1>4 DEF DuoRound, Held, Growing
    <2>3. mem' \in Snapshots
      <3>1. ASSUME NEW found \in [DOMAIN mem.best -> Scores],
                   mem' = Snapshot(Improved(mem.best, found), mem.selected,
                                   mem.rule, mem.tune, round + 1)
            PROVE  mem' \in Snapshots
        <4>1. round + 1 \in Nat
          BY <2>1
        <4> QED
          BY <2>1, <3>1, <4>1, SnapshotParts, ImprovedBetter, SnapshotMade
      <3> QED
        BY <1>4, <2>1, <3>1 DEF DuoRound
    <2> QED
      BY <2>3
  <1> QED
    BY <1>1, <1>2, <1>3, <1>4

LEMMA TypeStep ==
    ASSUME EngineTypeOK, Held, RankedInv, Next
    PROVE  EngineTypeOK'
  <1> USE EngineAssumption DEF EngineTypeOK
  <1>1. CASE Start
    <2>1. left' \in Nat /\ commands' \in 0..MaxCommands
      <3>1. left' = RuleRounds \/ left' = 0
        BY <1>1 DEF Start
      <3>2. commands' = commands + 1 /\ commands < MaxCommands
        BY <1>1 DEF Start
      <3> QED
        BY <3>1, <3>2
    <2>2. pc' \in Steps /\ cmd' \in {"fresh", "resume", "rsi", "rule", "duo"}
      BY <1>1 DEF Start, Steps
    <2> QED
      BY <1>1, <2>1, <2>2 DEF Start, disk, textHistory, ruleHistory
  <1>2. CASE BeginRun
    <2>2. mem' \in Snapshots
      BY <1>2, MemMade
    <2>3. fresh' \in BOOLEAN /\ left' \in Nat /\ pc' \in Steps
      BY <1>2 DEF BeginRun, Steps
    <2> QED
      BY <1>2, <2>2, <2>3
         DEF BeginRun, disk, bounds, textHistory, ruleHistory
  <1>3. CASE Generation
    <2>1. left > 0
      BY <1>3 DEF Generation, Held
    <2>2. mem' \in Snapshots
      BY <1>3, MemMade
    <2>3. left' \in Nat /\ pc' \in Steps
      BY <1>3, <2>1 DEF Generation, Steps
    <2> QED
      BY <1>3, <2>2, <2>3
         DEF Generation, disk, bounds, textHistory, ruleHistory
  <1>4. CASE SaveState
    BY <1>4 DEF SaveState, Held, Growing, Steps, bounds, textHistory,
       ruleHistory
  <1>5. CASE SaveRule
    <2>1. mem.rule \in Rules
      BY <1>5, SnapshotParts DEF SaveRule, Held, Growing
    <2>2. forgotten' \in BOOLEAN
      BY <1>5 DEF SaveRule
    <2>3. /\ pc' \in Steps
          /\ cmd' \in {"none", "fresh", "resume", "rsi", "rule", "duo"}
          /\ program' \in Texts \cup {Unreadable}
          /\ mem' \in Snapshots \cup {Unreadable}
          /\ left' \in Nat /\ round' \in 0..Rounds
          /\ fresh' \in BOOLEAN /\ cand' \in Patches \cup {Unreadable}
      <3>1. CASE pc' \in Steps /\ UNCHANGED process
        BY <3>1 DEF process
      <3>2. CASE Exit
        BY <3>2, ExitTypes
      <3> QED
        BY <1>5, <3>1, <3>2 DEF SaveRule, Steps
    <2> QED
      BY <1>5, <2>1, <2>2, <2>3 DEF SaveRule, bounds, textHistory
  <1>6. CASE GatePasses
    BY <1>6 DEF GatePasses, Steps, disk, process, bounds, textHistory,
       ruleHistory
  <1>7. CASE GateFails
    BY <1>7, NextRoundTypes
       DEF GateFails, disk, bounds, textHistory, ruleHistory
  <1>8. CASE Choose
    <2>1. state \in Snapshots /\ script \in Texts
      BY <1>8 DEF Choose, Held
    <2>2. cand' \in Patches /\ pc' \in Steps
      BY <1>8, <2>1, MutationIsPatch DEF Choose, Steps
    <2>3. UNCHANGED <<state, ruleFile, script, backup, cmd, program, mem,
                      left, round, fresh, commands, crashes, vetted, trust,
                      learned, forgotten>>
      BY <1>8 DEF Choose, disk, bounds, textHistory, ruleHistory
    <2> QED
      BY <2>2, <2>3
  <1>9. CASE NoneBetter
    BY <1>9 DEF NoneBetter, ToSearch, Steps, disk, bounds, textHistory,
       ruleHistory
  <1>10. CASE ChildTimesOut
    BY <1>10, ExitTypes
       DEF ChildTimesOut, disk, bounds, textHistory, ruleHistory
  <1>11. CASE Backup
    BY <1>11 DEF Backup, Steps, process, bounds, ruleHistory
  <1>12. CASE Write
    <2>1. cand.text \in Texts
      BY <1>12 DEF Write, Held, Patching, Patches
    <2> QED
      BY <1>12, <2>1 DEF Write, Steps, process, bounds, textHistory,
         ruleHistory
  <1>13. CASE SelftestPasses
    BY <1>13 DEF SelftestPasses, Held, Steps, disk, process, bounds,
       ruleHistory
  <1>14. CASE SelftestFails
    BY <1>14 DEF SelftestFails, Steps, disk, process, bounds, textHistory,
       ruleHistory
  <1>15. CASE Restore
    BY <1>15 DEF Restore, ToSearch, Steps, bounds, textHistory, ruleHistory
  <1>16. CASE TakeOver
    <2>1. cand.state \in Snapshots
      BY <1>16 DEF TakeOver, Held, Patching, Patches
    <2>2. left' \in Nat /\ pc' \in Steps
      BY <1>16 DEF TakeOver, ToSearch, Steps
    <2>3. UNCHANGED <<commands, crashes, vetted, trust, learned, forgotten>>
      BY <1>16 DEF TakeOver, bounds, textHistory, ruleHistory
    <2>4. /\ state' \in Snapshots \cup {Unreadable}
          /\ mem' \in Snapshots \cup {Unreadable}
          /\ cand' \in Patches \cup {Unreadable}
      BY <1>16, <2>1 DEF TakeOver
    <2>5. UNCHANGED <<ruleFile, script, backup, cmd, program, round, fresh>>
      BY <1>16 DEF TakeOver
    <2> QED
      BY <2>2, <2>3, <2>4, <2>5
  <1>17. CASE SearchRound
    <2>1. left' \in Nat
      BY <1>17 DEF SearchRound
    <2>2. /\ ruleFile' \in Rules \cup {Unreadable}
          /\ learned' \in Rules /\ forgotten' \in BOOLEAN
      BY <1>17 DEF SearchRound, ruleHistory
    <2> QED
      BY <1>17, <2>1, <2>2 DEF SearchRound, bounds, textHistory
  <1>18. CASE SearchEnds
    <2>1. NextRound \/ Exit
      BY <1>18 DEF SearchEnds
    <2> QED
      BY <1>18, <2>1, NextRoundTypes, ExitTypes
         DEF SearchEnds, disk, bounds, textHistory, ruleHistory
  <1>19. CASE BeginDuo
    <2>1. mem' \in Snapshots
      BY <1>19, MemMade
    <2>2. fresh' \in BOOLEAN /\ pc' \in Steps
      BY <1>19 DEF BeginDuo, Steps
    <2> QED
      BY <1>19, <2>1, <2>2
         DEF BeginDuo, disk, bounds, textHistory, ruleHistory
  <1>20. CASE DuoRound
    <2>1. round < Rounds
      BY <1>20 DEF DuoRound, Held
    <2>2. round' \in 0..Rounds
      BY <1>20, <2>1 DEF DuoRound
    <2>4. pc' \in Steps
      BY <1>20 DEF DuoRound, Steps
    <2>3. mem' \in Snapshots
      BY <1>20, MemMade
    <2> QED
      BY <1>20, <2>2, <2>3, <2>4
         DEF DuoRound, disk, bounds, textHistory, ruleHistory
  <1>21. CASE LastDuoRoundEmpty
    BY <1>21, ExitTypes
       DEF LastDuoRoundEmpty, disk, bounds, textHistory, ruleHistory
  <1>22. CASE Crash
    <2>1. crashes' \in 0..MaxCrashes
      <3>1. crashes' = crashes + 1 /\ crashes < MaxCrashes
        BY <1>22 DEF Crash
      <3> QED
        BY <3>1
    <2>2. trust' \in {"kept", "cut", "stacked"} /\ forgotten' \in BOOLEAN
      BY <1>22 DEF Crash
    <2>3. /\ state' \in {state, Unreadable}
          /\ ruleFile' \in {ruleFile, Unreadable}
          /\ script' \in {script, Unreadable}
          /\ backup' \in {backup, Unreadable}
      BY <1>22 DEF Crash, Torn
    <2> QED
      BY <1>22, <2>1, <2>2, <2>3, ExitTypes DEF Crash
  <1> QED
    BY <1>1, <1>2, <1>3, <1>4, <1>5, <1>6, <1>7, <1>8, <1>9, <1>10, <1>11,
       <1>12, <1>13, <1>14, <1>15, <1>16, <1>17, <1>18, <1>19, <1>20, <1>21,
       <1>22 DEF Next

-----------------------------------------------------------------------------
(***************************************************************************)
(* Every step finds what it needs.                                         *)
(***************************************************************************)
LEMMA BoundsPositive ==
    0 < Rounds /\ 0 < Gens
  BY EngineAssumption

LEMMA PositiveNotZero ==
    ASSUME NEW n \in Nat, n > 0
    PROVE  n # 0
  OBVIOUS

LEMMA HeldStep ==
    ASSUME EngineTypeOK, Held, RankedInv, Next
    PROVE  Held'
  <1> USE DEF EngineTypeOK, Held, Growing, Patching
  <1>1. ASSUME mem' \in Snapshots
        PROVE  mem' # Unreadable
    BY <1>1, UnreadableAssumption
  <1>2. CASE Exit /\ UNCHANGED disk
    BY <1>2 DEF Exit, disk
  <1>3. CASE NextRound /\ UNCHANGED disk /\ pc \in {"gate", "search"}
             /\ cmd = "rsi"
    BY <1>2, <1>3 DEF NextRound, disk
  <1>4. CASE Start
    <2>1. \/ pc' = "search" /\ cmd' = "rule"
          \/ pc' = "begin duo" /\ cmd' = "duo" /\ left' = 0
          \/ pc' = "begin" /\ cmd' \in {"fresh", "resume", "rsi"}
      BY <1>4 DEF Start
    <2>2. /\ script' = script /\ state' = state /\ program' = script
          /\ script # Unreadable /\ round' = round /\ fresh' = fresh
          /\ round = 0 /\ ~fresh
      BY <1>4 DEF Start, disk
    <2>3. round' < Rounds
      BY <2>2, BoundsPositive
    <2> QED
      BY <2>1, <2>2, <2>3
  <1>5. CASE BeginRun
    <2>1. mem' # Unreadable
      BY <1>1, <1>5, MemMade
    <2>2. /\ pc = "begin" /\ pc' = "evolve" /\ left' = Gens
          /\ UNCHANGED <<script, program, cmd, round>>
      BY <1>5 DEF BeginRun, disk
    <2>3. left' > 0
      BY <2>2, BoundsPositive
    <2> QED
      BY <2>1, <2>2, <2>3
  <1>6. CASE Generation
    BY <1>1, <1>6, MemMade DEF Generation, SaveDue, disk
  <1>7. CASE SaveState
    BY <1>7 DEF SaveState
  <1>8. CASE SaveRule
    <2>1. CASE Exit
      BY <1>8, <2>1 DEF SaveRule, Exit
    <2>2. CASE left > 0 /\ pc' = "evolve" /\ UNCHANGED process
      <3>1. cmd # "duo"
        <4>1. left # 0
          BY <2>2, PositiveNotZero
        <4> QED
          BY <4>1
      <3>2. cmd' \in {"fresh", "resume", "rsi"} /\ left' > 0
        BY <1>8, <2>2, <3>1 DEF SaveRule, process
      <3> QED
        BY <1>8, <2>2, <3>2 DEF SaveRule, process
    <2>3. CASE cmd = "rsi" /\ pc' = "gate" /\ UNCHANGED process
      BY <1>8, <2>3 DEF SaveRule, process
    <2>4. CASE /\ cmd = "duo" /\ round < Rounds
               /\ pc' = "duo" /\ UNCHANGED process
      BY <1>8, <2>4 DEF SaveRule, process
    <2> QED
      BY <1>8, <2>1, <2>2, <2>3, <2>4 DEF SaveRule
  <1>9. CASE GatePasses
    BY <1>9 DEF GatePasses, disk, process
  <1>10. CASE GateFails
    BY <1>3, <1>10 DEF GateFails
  <1>11. CASE Choose
    BY <1>11, MutationIsPatch DEF Choose, disk
  <1>12. CASE NoneBetter
    BY <1>12 DEF NoneBetter, ToSearch, disk
  <1>13. CASE ChildTimesOut
    BY <1>2, <1>13 DEF ChildTimesOut
  <1>14. CASE Backup
    BY <1>14 DEF Backup, process
  <1>15. CASE Write
    BY <1>15, UnreadableAssumption DEF Write, process, Patches
  <1>16. CASE SelftestPasses
    BY <1>16 DEF SelftestPasses, disk, process
  <1>17. CASE SelftestFails
    BY <1>17 DEF SelftestFails, disk, process
  <1>18. CASE Restore
    BY <1>18 DEF Restore, ToSearch
  <1>19. CASE TakeOver
    BY <1>19 DEF TakeOver, ToSearch
  <1>20. CASE SearchRound
    BY <1>20 DEF SearchRound
  <1>21. CASE SearchEnds
    BY <1>2, <1>3, <1>21 DEF SearchEnds
  <1>22. CASE BeginDuo
    BY <1>1, <1>22, MemMade DEF BeginDuo, disk
  <1>23. CASE DuoRound
    BY <1>1, <1>23, MemMade DEF DuoRound, disk
  <1>24. CASE LastDuoRoundEmpty
    BY <1>2, <1>24 DEF LastDuoRoundEmpty
  <1>25. CASE Crash
    BY <1>25 DEF Crash, Exit
  <1> QED
    BY <1>4, <1>5, <1>6, <1>7, <1>8, <1>9, <1>10, <1>11, <1>12, <1>13, <1>14,
       <1>15, <1>16, <1>17, <1>18, <1>19, <1>20, <1>21, <1>22, <1>23, <1>24,
       <1>25 DEF Next

-----------------------------------------------------------------------------
(***************************************************************************)
(* The selected universe stays the best one.                               *)
(***************************************************************************)
LEMMA RankedLike ==
    ASSUME NEW s, NEW t, Ranked(s), t.best = s.best, t.selected = s.selected
    PROVE  Ranked(t)
  BY DEF Ranked

\* The universe that the sort puts first is the best one.
LEMMA GenerationRanks ==
    ASSUME EngineTypeOK, Held, Generation
    PROVE  Ranked(mem')
  <1>1. mem \in Snapshots
    BY DEF EngineTypeOK, Held, Growing, Generation
  <1>2. PICK found \in [DOMAIN mem.best -> Scores], u \in DOMAIN mem.best :
            /\ Leads(u, Improved(mem.best, found))
            /\ mem' = Snapshot(Improved(mem.best, found), u, mem.rule,
                               mem.tune, mem.done + 1)
    BY DEF Generation
  <1>3. mem'.best = Improved(mem.best, found) /\ mem'.selected = u
    BY <1>2, SnapshotFields
  <1>4. u \in DOMAIN Improved(mem.best, found)
    BY <1>1, SnapshotParts, ImprovedBetter
  <1> QED
    BY <1>2, <1>3, <1>4 DEF Ranked, Leads

\* A universe alone is the best one.
LEMMA AloneRanks ==
    ASSUME NEW s \in Snapshots, DOMAIN s.best = {s.selected}
    PROVE  Ranked(s)
  <1>1. s.best[s.selected] \in Scores
    BY SnapshotParts, BestsElim
  <1>2. Scores \subseteq Int
    BY EngineAssumption DEF Scores
  <1>3. s.best[s.selected] \in Int
    BY <1>1, <1>2
  <1>4. s.best[s.selected] <= s.best[s.selected]
    BY <1>3
  <1> QED
    BY <1>4 DEF Ranked

LEMMA RankedStep ==
    ASSUME EngineTypeOK, Held, RankedInv, Next
    PROVE  RankedInv'
  <1> DEFINE Same(v, w) == w = v \/ w = Unreadable
  <1> USE DEF RankedInv
  <1>1. ASSUME Same(state, state'), Same(mem, mem'), Same(cand, cand'),
               cmd' = "duo" /\ pc' \in Growing =>
                   cmd = "duo" /\ pc \in Growing /\ mem' = mem
        PROVE  RankedInv'
    BY <1>1 DEF Ranked
  <1> HIDE DEF RankedInv
  <1>2. CASE BeginRun
    <2>1. Ranked(mem')
      <3>1. CASE Resuming /\ state # Unreadable
        <4>1. mem'.best = state.best /\ mem'.selected = state.selected
          BY <1>2, <3>1, SnapshotFields DEF BeginRun
        <4> QED
          BY <3>1, <4>1, RankedLike DEF RankedInv
      <3>2. CASE ~(Resuming /\ state # Unreadable)
        <4>1. program \in Texts /\ LoadedRule \in Rules
          BY <1>2, EngineAssumption
             DEF BeginRun, Held, LoadedRule, EngineTypeOK
        <4>2. 0 \in Uids
          BY EngineAssumption DEF Uids
        <4> QED
          BY <1>2, <3>2, <4>1, <4>2, NewUniversesMade DEF BeginRun
      <3> QED
        BY <3>1, <3>2
    <2>2. cmd' # "duo"
      BY <1>2 DEF BeginRun, Held
    <2> QED
      BY <1>2, <2>1, <2>2 DEF BeginRun, disk, RankedInv
  <1>3. CASE Generation
    <2>1. cmd' # "duo"
      BY <1>3 DEF Generation, Held
    <2> QED
      BY <1>3, <2>1, GenerationRanks DEF Generation, disk, RankedInv
  <1>4. CASE SaveState
    BY <1>4 DEF SaveState, Held, Growing, RankedInv, Ranked
  <1>5. CASE Choose
    <2>1. state \in Snapshots /\ script \in Texts
      BY <1>5 DEF Choose, Held, EngineTypeOK
    <2>2. /\ cand'.state.best = state.best
          /\ cand'.state.selected = state.selected
      BY <1>5, <2>1, MutationIsPatch DEF Choose
    <2>3. Ranked(state)
      BY <2>1, UnreadableAssumption DEF RankedInv
    <2>4. Ranked(cand'.state)
      BY <2>2, <2>3, RankedLike
    <2>5. pc' \notin Growing
      BY <1>5 DEF Choose, Growing
    <2> QED
      BY <1>5, <2>4, <2>5 DEF Choose, disk, RankedInv
  <1>6. CASE TakeOver
    <2>1. pc' \notin Growing
      BY <1>6 DEF TakeOver, ToSearch, Growing
    <2>2. Ranked(state')
      BY <1>6 DEF TakeOver, Held, Patching, RankedInv
    <2> QED
      BY <1>6, <2>1, <2>2 DEF TakeOver, RankedInv
  <1>7. CASE BeginDuo
    <2>1. DOMAIN mem'.best = {mem'.selected}
      <3>1. CASE mem' = Snapshot([u \in {state.selected} |-> state.best[u]],
                                 state.selected, state.rule, state.tune,
                                 state.done)
        BY <3>1, SnapshotFields
      <3>2. CASE mem' = NewUniverses({0}, DefaultRule)
        <4>1. mem'.best = [u \in {0} |-> Inf] /\ mem'.selected = 0
          BY <3>2, SnapshotFields DEF NewUniverses
        <4> QED
          BY <4>1
      <3> QED
        BY <1>7, <3>1, <3>2 DEF BeginDuo
    <2>2. Ranked(mem')
      BY <1>7, <2>1, MemMade, AloneRanks
    <2> QED
      BY <1>7, <2>1, <2>2 DEF BeginDuo, disk, RankedInv
  <1>8. CASE DuoRound
    <2>1. DOMAIN mem.best = {mem.selected} /\ mem \in Snapshots
      BY <1>8 DEF DuoRound, Held, Growing, RankedInv, EngineTypeOK
    <2>2. DOMAIN mem'.best = {mem'.selected}
      <3>1. ASSUME NEW found \in [DOMAIN mem.best -> Scores],
                   mem' = Snapshot(Improved(mem.best, found), mem.selected,
                                   mem.rule, mem.tune, round + 1)
            PROVE  DOMAIN mem'.best = {mem'.selected}
        <4>1. mem.best \in Bests
          BY <2>1, SnapshotParts
        <4>2. DOMAIN Improved(mem.best, found) = DOMAIN mem.best
          BY <3>1, <4>1, ImprovedBetter
        <4>3. /\ mem'.best = Improved(mem.best, found)
              /\ mem'.selected = mem.selected
          BY <3>1, SnapshotFields
        <4> QED
          BY <2>1, <4>2, <4>3
      <3> QED
        BY <1>8, <2>1, <3>1 DEF DuoRound
    <2>3. Ranked(mem')
      BY <1>8, <2>2, MemMade, AloneRanks
    <2>4. UNCHANGED <<state, cand>>
      BY <1>8 DEF DuoRound, disk
    <2> QED
      BY <2>2, <2>3, <2>4 DEF RankedInv
  <1>9. CASE \/ Start \/ SaveRule \/ GatePasses \/ GateFails \/ NoneBetter
             \/ ChildTimesOut \/ Backup \/ Write \/ SelftestPasses
             \/ SelftestFails \/ Restore \/ SearchRound \/ SearchEnds
             \/ LastDuoRoundEmpty \/ Crash
    <2>1. Same(state, state') /\ Same(mem, mem') /\ Same(cand, cand')
      BY <1>9 DEF Start, SaveRule, GatePasses, GateFails, NoneBetter,
         ChildTimesOut, Backup, Write, SelftestPasses, SelftestFails,
         Restore, SearchRound, SearchEnds, LastDuoRoundEmpty, Crash, Torn,
         NextRound, Exit, ToSearch, disk, process
    <2>2. cmd' = "duo" /\ pc' \in Growing =>
              cmd = "duo" /\ pc \in Growing /\ mem' = mem
      BY <1>9 DEF Start, SaveRule, GatePasses, GateFails, NoneBetter,
         ChildTimesOut, Backup, Write, SelftestPasses, SelftestFails,
         Restore, SearchRound, SearchEnds, LastDuoRoundEmpty, Crash,
         NextRound, Exit, ToSearch, process, Growing
    <2> QED
      BY <1>1, <2>1, <2>2
  <1> QED
    BY <1>2, <1>3, <1>4, <1>5, <1>6, <1>7, <1>8, <1>9 DEF Next

-----------------------------------------------------------------------------
(***************************************************************************)
(* What is in memory or in a patch is at least as good as what is on disk. *)
(***************************************************************************)
LEMMA BestScoreIsNumber ==
    ASSUME NEW s \in Snapshots, Ranked(s)
    PROVE  BestScore(s) \in Int
  <1>1. s.best[s.selected] \in Scores
    BY SnapshotParts, BestsElim DEF Ranked
  <1>2. Scores \subseteq Int
    BY EngineAssumption DEF Scores
  <1> QED
    BY <1>1, <1>2 DEF BestScore

LEMMA SameBestScore ==
    ASSUME NEW s \in Snapshots, Ranked(s), NEW t,
           t.best = s.best, t.selected = s.selected
    PROVE  BestScore(t) <= BestScore(s)
  <1>1. BestScore(t) = BestScore(s)
    BY DEF BestScore
  <1> QED
    BY <1>1, BestScoreIsNumber

\* A generation, and a duo round, keep or better the best score.
LEMMA GrowthKeepsBest ==
    ASSUME EngineTypeOK, Held, RankedInv, mem # Unreadable,
           NEW found \in [DOMAIN mem.best -> Scores],
           NEW u \in DOMAIN mem.best, NEW rule, NEW tune, NEW done,
           Leads(u, Improved(mem.best, found)) \/ u = mem.selected,
           mem' = Snapshot(Improved(mem.best, found), u, rule, tune, done)
    PROVE  BestScore(mem') <= BestScore(mem)
  <1> DEFINE new == Improved(mem.best, found)
             old == mem.selected
  <1>1. mem \in Snapshots /\ Ranked(mem)
    BY DEF EngineTypeOK, RankedInv
  <1>2. mem.best \in Bests /\ old \in DOMAIN mem.best
    BY <1>1, SnapshotParts DEF Ranked
  <1>3. /\ DOMAIN new = DOMAIN mem.best
        /\ \A v \in DOMAIN mem.best :
              new[v] <= mem.best[v] /\ new[v] \in Int /\ mem.best[v] \in Int
    BY <1>2, ImprovedBetter
  <1>4. new[u] <= new[old]
    BY <1>2, <1>3 DEF Leads
  <1>5. new[old] <= mem.best[old]
    BY <1>2, <1>3
  <1>6. new[u] \in Int /\ new[old] \in Int /\ mem.best[old] \in Int
    BY <1>2, <1>3
  <1>7. mem'.best = new /\ mem'.selected = u
    BY SnapshotFields
  <1> HIDE DEF new
  <1>8. new[u] <= mem.best[old]
    BY <1>4, <1>5, <1>6
  <1> QED
    BY <1>7, <1>8 DEF BestScore

LEMMA Transitive ==
    ASSUME NEW a \in Int, NEW b \in Int, NEW c \in Int, a <= b, b <= c
    PROVE  a <= c
  OBVIOUS

LEMMA LineageStep ==
    ASSUME EngineTypeOK, Held, RankedInv, LineageInv, Next,
           EngineTypeOK', RankedInv'
    PROVE  LineageInv'
  <1>1. ASSUME state \in Snapshots
        PROVE  Ranked(state) /\ BestScore(state) \in Int
    BY <1>1, UnreadableAssumption, BestScoreIsNumber DEF RankedInv
  <1>2. ASSUME mem # Unreadable
        PROVE  mem \in Snapshots /\ Ranked(mem) /\ BestScore(mem) \in Int
    BY <1>2, BestScoreIsNumber DEF RankedInv, EngineTypeOK
  <1>3. ASSUME mem' \in Snapshots
        PROVE  BestScore(mem') \in Int
    BY <1>3, UnreadableAssumption, BestScoreIsNumber DEF RankedInv
  <1>4. ASSUME mem # Unreadable, mem' \in Snapshots, UNCHANGED state,
               pc \in Growing, pc' \notin Patching,
               ~fresh' => ~fresh, mem'.tune = mem.tune,
               BestScore(mem') <= BestScore(mem)
        PROVE  LineageInv'
    <2> SUFFICES ASSUME ~fresh', state' # Unreadable
                 PROVE  Follows(mem)' /\ mem'.tune = state'.tune
      BY <1>4 DEF LineageInv
    <2>1. state \in Snapshots
      BY <1>4 DEF EngineTypeOK
    <2>2. Follows(mem) /\ mem.tune = state.tune
      BY <1>4 DEF LineageInv
    <2>3. BestScore(mem') <= BestScore(state)
      BY <1>1, <1>2, <1>3, <1>4, <2>1, <2>2, Transitive DEF Follows
    <2>4. BestScore(state') = BestScore(state)
      BY <1>4
    <2> QED
      BY <1>4, <2>2, <2>3, <2>4 DEF Follows
  <1>5. CASE BeginRun
    <2>1. pc' \notin Patching /\ state' = state
      BY <1>5 DEF BeginRun, Patching, disk
    <2> SUFFICES ASSUME ~fresh', state' # Unreadable
                 PROVE  Follows(mem)' /\ mem'.tune = state'.tune
      BY <2>1 DEF LineageInv
    <2>2. mem' = Snapshot(state.best, state.selected, LoadedRule, state.tune,
                          state.done)
      BY <1>5 DEF BeginRun
    <2>3. /\ mem'.best = state.best /\ mem'.selected = state.selected
          /\ mem'.tune = state.tune
      BY <2>2, SnapshotFields
    <2>4. state \in Snapshots
      BY <2>1 DEF EngineTypeOK
    <2>5. BestScore(mem') <= BestScore(state)
      BY <1>1, <2>3, <2>4, SameBestScore
    <2> QED
      BY <2>1, <2>3, <2>5 DEF Follows
  <1>6. CASE Generation
    <2>1. PICK found \in [DOMAIN mem.best -> Scores], u \in DOMAIN mem.best :
              /\ Leads(u, Improved(mem.best, found))
              /\ mem' = Snapshot(Improved(mem.best, found), u, mem.rule,
                                 mem.tune, mem.done + 1)
      BY <1>6 DEF Generation
    <2>2. mem # Unreadable /\ pc \in Growing /\ pc' \notin Patching
      BY <1>6 DEF Generation, Held, Growing, Patching
    <2>3. mem' \in Snapshots
      BY <1>6, MemMade
    <2>4. mem'.tune = mem.tune
      BY <2>1, SnapshotFields
    <2>5. BestScore(mem') <= BestScore(mem)
      BY <2>1, <2>2, GrowthKeepsBest
    <2>6. UNCHANGED <<state, fresh>>
      BY <1>6 DEF Generation, disk
    <2> QED
      BY <1>4, <2>2, <2>3, <2>4, <2>5, <2>6
  <1>7. CASE SaveState
    <2>1. state' = mem /\ mem' = mem /\ pc' \notin Patching
      BY <1>7 DEF SaveState, Patching
    <2>2. mem \in Snapshots /\ Ranked(mem)
      BY <1>2, <1>7 DEF SaveState, Held, Growing
    <2>3. BestScore(mem) <= BestScore(mem)
      BY <2>2, SameBestScore
    <2> QED
      BY <2>1, <2>3 DEF LineageInv, Follows
  <1>8. CASE SaveRule
    <2>1. CASE pc' \in Growing
      <3>1. UNCHANGED <<state, mem, fresh>> /\ pc' \notin Patching
        BY <1>8, <2>1 DEF SaveRule, process, Exit, Growing, Patching
      <3>2. pc \in Growing
        BY <1>8 DEF SaveRule, Growing
      <3> QED
        BY <3>1, <3>2 DEF LineageInv, Follows
    <2>2. CASE pc' \notin Growing
      <3>1. pc' \notin Patching
        BY <1>8, <2>2 DEF SaveRule, Exit, Patching, Growing
      <3> QED
        BY <2>2, <3>1 DEF LineageInv
    <2> QED
      BY <2>1, <2>2
  <1>9. CASE Choose
    <2>1. state \in Snapshots /\ script \in Texts /\ state' = state
      BY <1>9 DEF Choose, Held, EngineTypeOK, disk
    <2>2. /\ cand'.state.best = state.best
          /\ cand'.state.selected = state.selected
      BY <1>9, <2>1, MutationIsPatch DEF Choose
    <2>3. BestScore(cand'.state) <= BestScore(state)
      BY <1>1, <2>1, <2>2, SameBestScore
    <2>4. pc' \notin Growing
      BY <1>9 DEF Choose, Growing
    <2> QED
      BY <2>1, <2>3, <2>4 DEF LineageInv, Follows
  <1>10. CASE Backup \/ Write \/ SelftestPasses \/ SelftestFails
    <2>1. /\ UNCHANGED <<state, cand>>
          /\ pc \in Patching /\ pc' \notin Growing
      BY <1>10 DEF Backup, Write, SelftestPasses, SelftestFails, disk,
         process, Patching, Growing
    <2> QED
      BY <2>1 DEF LineageInv, Follows
  <1>11. CASE BeginDuo
    <2>1. pc' \notin Patching /\ state' = state
      BY <1>11 DEF BeginDuo, Patching, disk
    <2> SUFFICES ASSUME ~fresh', state' # Unreadable
                 PROVE  Follows(mem)' /\ mem'.tune = state'.tune
      BY <2>1 DEF LineageInv
    <2>2. mem' = Snapshot([u \in {state.selected} |-> state.best[u]],
                          state.selected, state.rule, state.tune, state.done)
      BY <1>11 DEF BeginDuo
    <2>3. /\ mem'.best = [u \in {state.selected} |-> state.best[u]]
          /\ mem'.selected = state.selected /\ mem'.tune = state.tune
      BY <2>2, SnapshotFields
    <2>4. BestScore(mem') = BestScore(state)
      BY <2>3 DEF BestScore
    <2>5. state \in Snapshots
      BY <2>1 DEF EngineTypeOK
    <2>6. BestScore(mem') <= BestScore(state)
      BY <1>1, <2>4, <2>5
    <2> QED
      BY <2>1, <2>3, <2>6 DEF Follows
  <1>12. CASE DuoRound
    <2>1. mem # Unreadable /\ pc \in Growing /\ pc' \notin Patching
      BY <1>12 DEF DuoRound, Held, Growing, Patching
    <2>2. mem' \in Snapshots
      BY <1>12, MemMade
    <2>3. UNCHANGED <<state, fresh>>
      BY <1>12 DEF DuoRound, disk
    <2>4. mem'.tune = mem.tune /\ BestScore(mem') <= BestScore(mem)
      <3>1. ASSUME NEW found \in [DOMAIN mem.best -> Scores],
                   mem' = Snapshot(Improved(mem.best, found), mem.selected,
                                   mem.rule, mem.tune, round + 1)
            PROVE  mem'.tune = mem.tune /\ BestScore(mem') <= BestScore(mem)
        <4>1. mem'.tune = mem.tune
          BY <3>1, SnapshotFields
        <4>2. mem.selected \in DOMAIN mem.best
          BY <1>2, <2>1 DEF Ranked
        <4> QED
          BY <2>1, <3>1, <4>1, <4>2, GrowthKeepsBest
      <3>2. CASE mem' = mem
        <4>1. BestScore(mem) <= BestScore(mem)
          BY <1>2, <2>1, SameBestScore
        <4> QED
          BY <3>2, <4>1
      <3> QED
        BY <1>12, <3>1, <3>2 DEF DuoRound
    <2> QED
      BY <1>4, <2>1, <2>2, <2>3, <2>4
  <1>13. CASE \/ Start \/ GatePasses \/ GateFails \/ NoneBetter
              \/ ChildTimesOut \/ Restore \/ TakeOver \/ SearchRound
              \/ SearchEnds \/ LastDuoRoundEmpty \/ Crash
    <2>1. pc' \notin Growing /\ pc' \notin Patching
      BY <1>13 DEF Start, GatePasses, GateFails, NoneBetter, ChildTimesOut,
         Restore, TakeOver, SearchRound, SearchEnds, LastDuoRoundEmpty,
         Crash, NextRound, Exit, ToSearch, Growing, Patching
    <2> QED
      BY <2>1 DEF LineageInv
  <1> QED
    BY <1>5, <1>6, <1>7, <1>8, <1>9, <1>10, <1>11, <1>12, <1>13 DEF Next

-----------------------------------------------------------------------------
(***************************************************************************)
(* Rollback.  Where a patch is being written, what it replaces is in the   *)
(* backup, and that is the vetted text unless the script was not it.       *)
(***************************************************************************)
LEMMA RollbackStep ==
    ASSUME EngineTypeOK, Held, RollbackInv, Next
    PROVE  RollbackInv'
  <1> USE DEF RollbackInv, RollbackSafe
  <1>1. CASE /\ UNCHANGED <<script, backup, vetted, trust>>
             /\ pc \notin {"selftest", "restore"}
             /\ pc' \notin {"write", "selftest", "restore"}
    BY <1>1
  <1> HIDE DEF RollbackInv, RollbackSafe
  <1>2. CASE Backup
    BY <1>2 DEF Backup, RollbackInv, RollbackSafe
  <1>3. CASE Write
    BY <1>3 DEF Write, textHistory, RollbackInv, RollbackSafe
  <1>4. CASE SelftestPasses
    BY <1>4 DEF SelftestPasses, disk, RollbackInv, RollbackSafe
  <1>5. CASE SelftestFails
    BY <1>5 DEF SelftestFails, disk, textHistory, RollbackInv, RollbackSafe
  <1>6. CASE Restore
    BY <1>6
       DEF Restore, ToSearch, textHistory, RollbackInv, RollbackSafe
  <1>7. CASE Crash
    <2> USE DEF RollbackInv, RollbackSafe
    <2>1. /\ pc' = "idle" /\ vetted' = vetted
          /\ pc \notin {"write", "restore"} => script' = script
          /\ pc # "backup" => backup' = backup
      BY <1>7 DEF Crash, Exit, Torn
    <2>2. CASE pc = "backup" /\ script # vetted
      BY <1>7, <2>1, <2>2 DEF Crash
    <2>3. CASE pc = "backup" /\ script = vetted
      BY <1>7, <2>1, <2>3 DEF Crash
    <2>4. CASE pc \in {"write", "selftest", "restore"} /\ trust = "kept"
      BY <1>7, <2>1, <2>4 DEF Crash
    <2>5. CASE pc \in {"write", "selftest", "restore"} /\ trust # "kept"
      BY <1>7, <2>1, <2>5 DEF Crash
    <2>6. CASE pc \notin {"backup", "write", "selftest", "restore"}
      BY <1>7, <2>1, <2>6 DEF Crash
    <2> QED
      BY <2>2, <2>3, <2>4, <2>5, <2>6
  <1>8. CASE TakeOver
    BY <1>1, <1>8 DEF TakeOver, ToSearch, textHistory
  <1>9. CASE SaveState \/ SaveRule \/ SearchRound
    BY <1>1, <1>9 DEF SaveState, SaveRule, SearchRound, textHistory, Exit
  <1>10. CASE \/ Start \/ BeginRun \/ Generation \/ GatePasses \/ GateFails
              \/ Choose \/ NoneBetter \/ ChildTimesOut \/ SearchEnds
              \/ BeginDuo \/ DuoRound \/ LastDuoRoundEmpty
    <2>1. UNCHANGED <<script, backup, vetted, trust>>
      BY <1>10 DEF Start, BeginRun, Generation, GatePasses, GateFails,
         Choose, NoneBetter, ChildTimesOut, SearchEnds, BeginDuo, DuoRound,
         LastDuoRoundEmpty, disk, textHistory
    <2>2. /\ pc \notin {"selftest", "restore"}
          /\ pc' \notin {"write", "selftest", "restore"}
      BY <1>10 DEF Start, BeginRun, Generation, GatePasses, GateFails,
         Choose, NoneBetter, ChildTimesOut, SearchEnds, BeginDuo, DuoRound,
         LastDuoRoundEmpty, NextRound, Exit, ToSearch
    <2> QED
      BY <1>1, <2>1, <2>2
  <1> QED
    BY <1>2, <1>3, <1>4, <1>5, <1>6, <1>7, <1>8, <1>9, <1>10 DEF Next

-----------------------------------------------------------------------------
(***************************************************************************)
(* The learned rule.                                                       *)
(***************************************************************************)
LEMMA RuleStep ==
    ASSUME EngineTypeOK, Held, RuleInv, Next
    PROVE  RuleInv'
  <1>1. CASE /\ UNCHANGED <<ruleFile, learned, forgotten>>
             /\ ~(cmd' # "duo" /\ pc' \in Growing)
    BY <1>1 DEF RuleInv, RuleKept, LoadedRule
  <1>2. CASE BeginRun
    <2>1. UNCHANGED <<ruleFile, learned, forgotten>>
      BY <1>2 DEF BeginRun, disk, ruleHistory
    <2>2. mem'.rule = LoadedRule
      <3>1. CASE Resuming /\ state # Unreadable
        BY <1>2, <3>1, SnapshotFields DEF BeginRun
      <3>2. CASE ~(Resuming /\ state # Unreadable)
        BY <1>2, <3>2, SnapshotFields DEF BeginRun, NewUniverses
      <3> QED
        BY <3>1, <3>2
    <2> QED
      BY <2>1, <2>2 DEF RuleInv, RuleKept, LoadedRule
  <1>3. CASE Generation
    <2>1. UNCHANGED <<ruleFile, learned, forgotten, cmd>> /\ pc \in Growing
      BY <1>3 DEF Generation, disk, ruleHistory, Growing
    <2>2. mem'.rule = mem.rule
      BY <1>3, SnapshotFields DEF Generation
    <2> QED
      BY <2>1, <2>2 DEF RuleInv, RuleKept, LoadedRule
  <1>4. CASE SaveState
    <2>1. UNCHANGED <<ruleFile, learned, forgotten, cmd, mem>>
          /\ pc \in Growing
      BY <1>4 DEF SaveState, ruleHistory, Growing
    <2> QED
      BY <2>1 DEF RuleInv, RuleKept, LoadedRule
  <1>5. CASE SaveRule
    <2>1. /\ ruleFile' = mem.rule /\ mem.rule \in Rules
          /\ pc \in Growing /\ learned' = learned
      BY <1>5, SnapshotParts DEF SaveRule, Held, Growing, EngineTypeOK
    <2>2. LoadedRule' = mem.rule
      BY <2>1, UnreadableAssumption DEF LoadedRule
    <2>3. forgotten' \/ mem.rule = learned
      <3>1. CASE cmd = "duo"
        BY <1>5, <3>1 DEF SaveRule, RuleInv, RuleKept
      <3>2. CASE cmd # "duo"
        BY <1>5, <2>1, <3>2 DEF SaveRule, RuleInv
      <3> QED
        BY <3>1, <3>2
    <2>4. cmd' # "duo" /\ pc' \in Growing => mem' = mem
      BY <1>5 DEF SaveRule, process, Exit, Growing
    <2> QED
      BY <2>1, <2>2, <2>3, <2>4 DEF RuleInv, RuleKept
  <1>6. CASE SearchRound
    <2>1. ~(pc' \in Growing)
      BY <1>6 DEF SearchRound, Growing
    <2>2. CASE UNCHANGED <<ruleFile, ruleHistory>>
      BY <1>1, <2>1, <2>2 DEF ruleHistory
    <2>3. CASE \E r \in Rules :
                  ruleFile' = r /\ learned' = r /\ forgotten' = FALSE
      BY <2>1, <2>3, UnreadableAssumption DEF RuleInv, RuleKept, LoadedRule
    <2> QED
      BY <1>6, <2>2, <2>3 DEF SearchRound
  <1>7. CASE Crash
    <2>1. pc' = "idle" /\ learned' = learned
      BY <1>7 DEF Crash, Exit
    <2>2. ruleFile' # ruleFile => forgotten'
      BY <1>7 DEF Crash
    <2>3. forgotten => forgotten'
      BY <1>7 DEF Crash
    <2> QED
      BY <2>1, <2>2, <2>3 DEF RuleInv, RuleKept, LoadedRule, Growing
  <1>8. CASE BeginDuo \/ DuoRound \/ LastDuoRoundEmpty
    <2>1. UNCHANGED <<ruleFile, learned, forgotten>>
      BY <1>8 DEF BeginDuo, DuoRound, LastDuoRoundEmpty, disk, ruleHistory
    <2>2. ~(cmd' # "duo" /\ pc' \in Growing)
      BY <1>8 DEF BeginDuo, DuoRound, LastDuoRoundEmpty, Held, Exit, Growing
    <2> QED
      BY <1>1, <2>1, <2>2
  <1>9. CASE \/ Start \/ GatePasses \/ GateFails \/ Choose \/ NoneBetter
             \/ ChildTimesOut \/ Backup \/ Write \/ SelftestPasses
             \/ SelftestFails \/ Restore \/ TakeOver \/ SearchEnds
    <2>1. UNCHANGED <<ruleFile, learned, forgotten>>
      BY <1>9 DEF Start, GatePasses, GateFails, Choose, NoneBetter,
         ChildTimesOut, Backup, Write, SelftestPasses, SelftestFails,
         Restore, TakeOver, SearchEnds, disk, ruleHistory
    <2>2. pc' \notin Growing
      BY <1>9 DEF Start, GatePasses, GateFails, Choose, NoneBetter,
         ChildTimesOut, Backup, Write, SelftestPasses, SelftestFails,
         Restore, TakeOver, SearchEnds, NextRound, Exit, ToSearch, Growing
    <2> QED
      BY <1>1, <2>1, <2>2
  <1> QED
    BY <1>2, <1>3, <1>4, <1>5, <1>6, <1>7, <1>8, <1>9 DEF Next

-----------------------------------------------------------------------------
(***************************************************************************)
(* The invariant, and what follows from it.                                *)
(***************************************************************************)
LEMMA EngineStart == Init => EngineInv
  <1> SUFFICES ASSUME Init
               PROVE  EngineInv
    OBVIOUS
  <1>1. EngineTypeOK
    <2>1. /\ 0 \in Nat /\ 0 \in 0..Rounds /\ 0 \in 0..MaxCommands
          /\ 0 \in 0..MaxCrashes
      BY EngineAssumption
    <2>2. pc \in Steps
      BY DEF Init, Steps
    <2> QED
      BY <2>1, <2>2, EngineAssumption DEF Init, EngineTypeOK
  <1>2. Held
    BY UnreadableAssumption, EngineAssumption
       DEF Init, Held, Growing, Patching
  <1>3. RankedInv
    BY DEF Init, RankedInv
  <1>4. LineageInv
    BY DEF Init, LineageInv, Growing, Patching
  <1>5. RollbackInv
    BY DEF Init, RollbackInv, RollbackSafe
  <1>6. RuleInv
    BY DEF Init, RuleInv, RuleKept, LoadedRule, Growing
  <1> QED
    BY <1>1, <1>2, <1>3, <1>4, <1>5, <1>6 DEF EngineInv

LEMMA EngineStep == EngineInv /\ [Next]_vars => EngineInv'
  <1> SUFFICES ASSUME EngineInv, [Next]_vars
               PROVE  EngineInv'
    OBVIOUS
  <1>1. CASE Next
    BY <1>1, TypeStep, HeldStep, RankedStep, LineageStep, RollbackStep,
       RuleStep DEF EngineInv
  <1>2. CASE UNCHANGED vars
    <2> USE <1>2 DEF vars, disk, process, bounds, textHistory, ruleHistory
    <2>1. EngineTypeOK'
      BY DEF EngineInv, EngineTypeOK
    <2>2. Held'
      BY DEF EngineInv, Held
    <2>3. RankedInv' /\ LineageInv'
      BY DEF EngineInv, RankedInv, LineageInv, Follows
    <2>4. RollbackInv' /\ RuleInv'
      BY DEF EngineInv, RollbackInv, RollbackSafe, RuleInv, RuleKept,
         LoadedRule
    <2> QED
      BY <2>1, <2>2, <2>3, <2>4 DEF EngineInv
  <1> QED
    BY <1>1, <1>2

\* The parts of the invariant hold together at every step of the engine,
\* whatever was killed, torn, rejected or resumed before.
THEOREM EngineInvariance == Spec => []EngineInv
  BY EngineStart, EngineStep, PTL DEF Spec

\* The variables keep to their sets: no unreadable file is ever evolved,
\* patched or written as if it were one.
THEOREM EngineTypes == Spec => []EngineTypeOK
  <1>1. EngineInv => EngineTypeOK
    BY DEF EngineInv
  <1> QED
    BY <1>1, EngineInvariance, PTL

\* _safe_apply_patch: the source is the last text that passed its self test
\* or, after a crash cut an installation short, that text is at hand.
THEOREM RollbackIsSafe == Spec => []RollbackSafe
  <1>1. EngineInv => RollbackSafe
    BY DEF EngineInv, RollbackInv
  <1> QED
    BY <1>1, EngineInvariance, PTL

\* save_state after us.sort, and every other write of state.json: the
\* selected universe of a saved state has no better one beside it.
THEOREM SelectedStaysBest == Spec => []SelectedIsBest
  <1>1. EngineInv => SelectedIsBest
    BY DEF EngineInv, RankedInv, Ranked, SelectedIsBest, BestScore
  <1> QED
    BY <1>1, EngineInvariance, PTL

\* load_update_rule in run_multiverse: runs and patches leave the learned
\* rule in force.
THEOREM RuleStaysKept == Spec => []RuleKept
  <1>1. EngineInv => RuleKept
    BY DEF EngineInv, RuleInv
  <1> QED
    BY <1>1, EngineInvariance, PTL

\* Only SaveState, TakeOver and a crash write state.json.
LEMMA StateWrites ==
    ASSUME [Next]_vars
    PROVE  \/ state' = state \/ SaveState \/ TakeOver
           \/ state' = Unreadable
  BY DEF Next, vars, disk, Start, BeginRun, Generation, SaveRule, GatePasses,
     GateFails, Choose, NoneBetter, ChildTimesOut, Backup, Write,
     SelftestPasses, SelftestFails, Restore, SearchRound, SearchEnds,
     BeginDuo, DuoRound, LastDuoRoundEmpty, Crash, Torn

\* The best score of the state directory never gets worse while a run, a
\* patch or a duo-loop carries on from it.
THEOREM BestStaysKept == Spec => BestKept
  <1>1. ASSUME EngineInv, [Next]_vars, state # Unreadable,
               state' # Unreadable, ~fresh
        PROVE  BestScore(state') <= BestScore(state)
    <2>1. state \in Snapshots /\ Ranked(state)
      BY <1>1 DEF EngineInv, EngineTypeOK, RankedInv
    <2>2. CASE state' = state
      BY <2>1, <2>2, SameBestScore
    <2>3. CASE SaveState
      BY <1>1, <2>3 DEF SaveState, EngineInv, LineageInv, Follows, Growing
    <2>4. CASE TakeOver
      BY <1>1, <2>4 DEF TakeOver, EngineInv, LineageInv, Follows, Patching
    <2> QED
      BY <1>1, <2>2, <2>3, <2>4, StateWrites
  <1>2. EngineInv /\ [Next]_vars =>
            [state # Unreadable /\ state' # Unreadable /\ ~fresh
               => BestScore(state') <= BestScore(state)]_vars
    BY <1>1
  <1> QED
    BY <1>2, EngineInvariance, PTL DEF Spec, BestKept

\* What a patch makes of the meta parameters reaches the state of a run that
\* goes on only together with the patch's source.
THEOREM StateKeepsToScript == Spec => StateFollowsScript
  <1>1. ASSUME EngineInv, [Next]_vars, state # Unreadable,
               state' # Unreadable, ~fresh, state'.tune # state.tune
        PROVE  script = cand.text
    <2>1. CASE SaveState
      BY <1>1, <2>1 DEF SaveState, EngineInv, LineageInv, Growing
    <2>2. CASE TakeOver
      BY <1>1, <2>2 DEF TakeOver, EngineInv, Held
    <2> QED
      BY <1>1, <2>1, <2>2, StateWrites
  <1>2. EngineInv /\ [Next]_vars =>
            [state # Unreadable /\ state' # Unreadable /\ ~fresh
               /\ state'.tune # state.tune
               => script = cand.text]_vars
    BY <1>1
  <1> QED
    BY <1>2, EngineInvariance, PTL DEF Spec, StateFollowsScript

-----------------------------------------------------------------------------
(***************************************************************************)
(* How much a patch changes.  The number of places is not assumed finite,  *)
(* so that the places changed are few has to be counted from none.         *)
(***************************************************************************)
Changed(new, old) == {i \in Places : new[i] # old[i]}

AtMost(S, n) == IsFiniteSet(S) /\ Cardinality(S) <= n

\* A patch that is not yet written changes as many segments as it says.
SmallInv ==
    pc \in {"backup", "write"} => AtMost(Changed(cand.text, script), cand.segments)

\* One replacement more changes one place more.
LEMMA OneMore ==
    ASSUME NEW source, NEW text \in Texts, NEW old, NEW new, NEW n \in Nat,
           AtMost(Changed(text, source), n)
    PROVE  AtMost(Changed(Replaced(text, old, new), source), n + 1)
  <1> DEFINE all == Changed(text, source) \cup {First(text, old)}
             now == Changed(Replaced(text, old, new), source)
  <1>1. IsFiniteSet(Changed(text, source)) /\ Cardinality(Changed(text, source)) <= n
    BY DEF AtMost
  <1>2. IsFiniteSet(all) /\ Cardinality(all) <= n + 1
    <2>1. IsFiniteSet(all)
          /\ Cardinality(all) = IF First(text, old) \in Changed(text, source)
                                THEN Cardinality(Changed(text, source))
                                ELSE Cardinality(Changed(text, source)) + 1
      BY <1>1, FS_AddElement
    <2>2. Cardinality(Changed(text, source)) \in Nat
      BY <1>1, FS_CardinalityType
    <2> QED
      BY <1>1, <2>1, <2>2
  <1>3. now \subseteq all
    <2> SUFFICES ASSUME NEW i \in Places, i # First(text, old)
                 PROVE  Replaced(text, old, new)[i] = text[i]
      BY DEF Changed
    <2> QED
      BY DEF Replaced, Texts
  <1> HIDE DEF all, now
  <1>4. IsFiniteSet(now) /\ Cardinality(now) <= Cardinality(all)
    BY <1>2, <1>3, FS_Subset
  <1>5. Cardinality(now) \in Nat /\ Cardinality(all) \in Nat
    BY <1>2, <1>4, FS_CardinalityType
  <1>6. Cardinality(now) <= n + 1
    BY <1>2, <1>4, <1>5
  <1> QED
    BY <1>4, <1>6 DEF AtMost, now

\* A mutation changes at most the segments it is made of, wherever the
\* literals it replaces occur first.
LEMMA MutationIsSmall ==
    ASSUME state \in Snapshots, NEW source \in Texts,
           NEW m \in Mutations(source)
    PROVE  AtMost(Changed(m.text, source), m.segments)
  <1>1. Drawn \subseteq Literals
    BY EngineAssumption
  <1>2. AtMost(Changed(source, source), 0)
    <2>1. Changed(source, source) = {}
      BY DEF Changed
    <2> QED
      BY <2>1, FS_EmptySet DEF AtMost
  <1>3. \A text, tune, segments :
           /\ Patch(text, tune, segments).text = text
           /\ Patch(text, tune, segments).segments = segments
    BY DEF Patch
  <1>4. ASSUME NEW old, NEW new \in Drawn
        PROVE  LET one == Replaced(source, old, new)
               IN  one \in Texts /\ AtMost(Changed(one, source), 1)
    <2>1. AtMost(Changed(Replaced(source, old, new), source), 0 + 1)
      BY <1>2, OneMore
    <2> QED
      BY <1>1, <2>1, ReplacedIsText
  <1>5. CASE \E p \in Params, v \in Drawn : m = Tuned(source, p, v)
    BY <1>3, <1>4, <1>5 DEF Tuned
  <1>6. CASE \E v \in Drawn, w \in Drawn : m = Reoperated(source, v, w)
    <2>1. PICK v \in Drawn, w \in Drawn : m = Reoperated(source, v, w)
      BY <1>6
    <2> DEFINE one == Replaced(source, source[Target[OpWeights[1]]], v)
               two == Replaced(one, source[Target[OpWeights[2]]], w)
    <2>2. one \in Texts /\ AtMost(Changed(one, source), 1)
      BY <1>4
    <2>3. m.text = two /\ m.segments = 2
      BY <1>3, <2>1 DEF Reoperated
    <2> HIDE DEF one
    <2>4. AtMost(Changed(two, source), 1 + 1)
      BY <2>2, OneMore
    <2> QED
      BY <2>3, <2>4
  <1>7. CASE \E v \in Drawn, w \in Drawn, x \in Drawn :
                m = Reweighed(source, v, w, x)
    <2>1. PICK v \in Drawn, w \in Drawn, x \in Drawn :
                m = Reweighed(source, v, w, x)
      BY <1>7
    <2> DEFINE one == Replaced(source, source[Target[ScoreWeights[1]]], v)
               two == Replaced(one, source[Target[ScoreWeights[2]]], w)
               three == Replaced(two, source[Target[ScoreWeights[3]]], x)
    <2>2. one \in Texts /\ AtMost(Changed(one, source), 1)
      BY <1>4
    <2>3. m.text = three /\ m.segments = 3
      BY <1>3, <2>1 DEF Reweighed
    <2> HIDE DEF one
    <2>4. two \in Texts /\ AtMost(Changed(two, source), 1 + 1)
      BY <1>1, <2>2, OneMore, ReplacedIsText
    <2> HIDE DEF two
    <2>5. AtMost(Changed(three, source), 2 + 1)
      BY <2>4, OneMore
    <2> QED
      BY <2>3, <2>5
  <1> QED
    BY <1>5, <1>6, <1>7 DEF Mutations

\* Between its choice and its write nothing touches the patch or the source.
LEMMA SmallStep ==
    ASSUME EngineInv, SmallInv, [Next]_vars
    PROVE  SmallInv'
  <1>1. CASE Choose
    <2>1. PICK m \in Mutations(script) : cand' = m
      BY <1>1 DEF Choose
    <2>2. script' = script /\ state \in Snapshots /\ script \in Texts
      BY <1>1 DEF Choose, EngineInv, EngineTypeOK, Held, disk
    <2> QED
      BY <2>1, <2>2, MutationIsSmall DEF SmallInv
  <1>2. CASE Backup
    BY <1>2 DEF Backup, SmallInv, process
  <1>3. CASE UNCHANGED vars
    BY <1>3 DEF vars, disk, process, SmallInv
  <1>4. CASE /\ [Next]_vars /\ ~Choose /\ ~Backup /\ ~UNCHANGED vars
    <2>1. pc' \notin {"backup", "write"}
      BY <1>4 DEF Next, Start, BeginRun, Generation, SaveState, SaveRule,
         GatePasses, GateFails, NoneBetter, ChildTimesOut, Write,
         SelftestPasses, SelftestFails, Restore, TakeOver, SearchRound,
         SearchEnds, BeginDuo, DuoRound, LastDuoRoundEmpty, Crash, Exit,
         NextRound, ToSearch
    <2> QED
      BY <2>1 DEF SmallInv
  <1> QED
    BY <1>1, <1>2, <1>3, <1>4

\* The patch is applied to the source as earlier patches left it: what it
\* writes differs from that in its own segments alone.
THEOREM PatchesStack == Spec => PatchesAccumulate
  <1>1. Init => SmallInv
    BY DEF Init, SmallInv
  <1>2. EngineInv /\ SmallInv /\ [Next]_vars => SmallInv'
    BY SmallStep
  <1>3. ASSUME EngineInv, SmallInv, [Next]_vars, pc = "write", pc' = "selftest"
        PROVE  Cardinality({i \in Places : script'[i] # script[i]}) <= cand.segments
    <2>1. Write
      BY <1>3 DEF Next, vars, Start, BeginRun, Generation, SaveState, SaveRule,
         GatePasses, GateFails, Choose, NoneBetter, ChildTimesOut, Backup,
         SelftestPasses, SelftestFails, Restore, TakeOver, SearchRound,
         SearchEnds, BeginDuo, DuoRound, LastDuoRoundEmpty, Crash, Exit
    <2>2. script' = cand.text
      BY <2>1 DEF Write
    <2> QED
      BY <1>3, <2>2 DEF SmallInv, AtMost, Changed
  <1>4. EngineInv /\ SmallInv /\ [Next]_vars =>
            [pc = "write" /\ pc' = "selftest"
               => Cardinality({i \in Places : script'[i] # script[i]})
                    <= cand.segments]_vars
    BY <1>3
  <1> QED
    BY <1>1, <1>2, <1>4, EngineInvariance, PTL DEF Spec, PatchesAccumulate
=============================================================================
