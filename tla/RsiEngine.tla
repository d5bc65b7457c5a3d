----------------------------- MODULE RsiEngine ------------------------------
(***************************************************************************)
(* The engine of unified_rsi_extended.py: commands that share a state      *)
(* directory and, in the case of rsi-loop, rewrite the engine's own source *)
(* file.  evolve grows the universes, update-rule searches a better update *)
(* rule, duo-loop grows the selected universe alone, and rsi-loop repeats  *)
(* evolve, hard gate, self-patch, update-rule search.                      *)
(*                                                                         *)
(* One process at a time works on the directory.  It may be killed at any  *)
(* step, and a file killed in the middle of its write_text is torn.        *)
(* Nothing here tells a torn file from an absent one: both are Unreadable. *)
(*                                                                         *)
(* A score is a number of which less is better, MaxScore standing for inf. *)
(* The source is the places where a literal of it occurs, in their order.  *)
(* Of the meta parameters, Params are those that evolution leaves alone.   *)
(***************************************************************************)
EXTENDS Integers, FiniteSets

CONSTANTS
    Unreadable,
    Rules, DefaultRule,     \* update rules
    MaxScore,
    NeedsHelper,            \* scores of programs that call a library helper
    Universes,              \* n_univ, for evolve and rsi-loop
    Gens, SaveEvery,        \* gens of a run, save_every
    Rounds, RuleRounds,     \* rounds, update_rule_rounds
    Places, Literals,       \* where the source has a literal, and which
    InitialText,
    Params,                 \* meta parameters
    Target,                 \* the place of a parameter's or weight's value
    OpWeights,              \* <<"insert_assign", "list_manip">>
    ScoreWeights,           \* <<SCORE_W_HOLD, SCORE_W_STRESS, SCORE_W_TRAIN>>
    Levels,                 \* levels
    Drawn,                  \* the literals a mutation may draw
    MaxCommands, MaxDone, MaxCrashes    \* bounds

Scores == 0 .. MaxScore
Inf == MaxScore
Uids == 0 .. Universes - 1
Texts == [Places -> Literals]

ASSUME EngineAssumption ==
    /\ MaxScore \in Nat
    /\ Universes \in Nat \ {0}
    /\ Gens \in Nat \ {0} /\ SaveEvery \in Nat
    /\ Rounds \in Nat \ {0} /\ RuleRounds \in Nat
    /\ DefaultRule \in Rules
    /\ Places \subseteq Nat
    /\ Drawn \subseteq Literals
    /\ InitialText \in Texts
    /\ \A p \in Params : Target[p] \in Places
    /\ \A i \in 1..2 : Target[OpWeights[i]] \in Places
    /\ \A i \in 1..3 : Target[ScoreWeights[i]] \in Places
    /\ MaxCommands \in Nat /\ MaxDone \in Nat /\ MaxCrashes \in Nat

\* GlobalState, as far as it is kept here: what its universes have reached,
\* the rule and the parameters of their meta state, generations_done.
Snapshots ==
    [best : UNION {[S -> Scores] : S \in SUBSET Uids},
     selected : Uids, rule : Rules, tune : [Params -> Literals], done : Nat]

\* A candidate of run_deep_autopatch: code, state, how much it replaces.
Patches == [text : Texts, state : Snapshots, segments : 1..3]

ASSUME UnreadableAssumption ==
    Unreadable \notin Rules \cup Texts \cup Snapshots \cup Patches

VARIABLES
    state,      \* state.json
    ruleFile,   \* update_rule.json
    script,     \* the engine's own source file
    backup,     \* its .py.bak
    pc, cmd,    \* the command that runs, if any
    program,    \* the text the process was loaded from
    mem,        \* its universes
    left,       \* generations, or rounds of the search, still to go
    round,
    fresh,      \* mem does not go back to the state on disk
    cand,       \* the patch chosen
    commands, crashes,
    vetted,     \* history: the last text that passed the self test
    trust,      \* history: see RollbackSafe
    learned,    \* history: the last rule a search saved
    forgotten   \* history: a crash or a duo-loop took it away

disk == <<state, ruleFile, script, backup>>
process == <<cmd, program, mem, left, round, fresh, cand>>
bounds == <<commands, crashes>>
textHistory == <<vetted, trust>>
ruleHistory == <<learned, forgotten>>
vars == <<disk, pc, process, bounds, textHistory, ruleHistory>>

-----------------------------------------------------------------------------
(***************************************************************************)
(* What the files say.  load_state gives up on whatever it cannot read,    *)
(* load_update_rule falls back on the default rule.                        *)
(***************************************************************************)
LoadedRule == IF ruleFile = Unreadable THEN DefaultRule ELSE ruleFile

Defaults(text) == [p \in Params |-> text[Target[p]]]

Snapshot(best, selected, rule, tune, done) ==
    [best |-> best, selected |-> selected, rule |-> rule, tune |-> tune,
     done |-> done]

\* _current_best_score: that of the selected universe.
BestScore(snapshot) == snapshot.best[snapshot.selected]

Init ==
    /\ state = Unreadable
    /\ ruleFile = Unreadable
    /\ script = InitialText
    /\ backup = Unreadable
    /\ pc = "idle" /\ cmd = "none"
    /\ program = Unreadable
    /\ mem = Unreadable
    /\ left = 0 /\ round = 0
    /\ fresh = FALSE
    /\ cand = Unreadable
    /\ commands = 0 /\ crashes = 0
    /\ vetted = InitialText /\ trust = "kept"
    /\ learned = DefaultRule /\ forgotten = FALSE

\* The process ends, and what it held in memory with it.
Exit ==
    /\ pc' = "idle" /\ cmd' = "none"
    /\ program' = Unreadable
    /\ mem' = Unreadable
    /\ left' = 0 /\ round' = 0
    /\ fresh' = FALSE
    /\ cand' = Unreadable

(***************************************************************************)
(* A command starts: python must be able to parse the source.              *)
(***************************************************************************)
Start ==
    /\ pc = "idle"
    /\ script # Unreadable
    /\ commands < MaxCommands
    /\ \E c \in {"fresh", "resume", "rsi", "rule", "duo"} :
          /\ cmd' = c
          /\ pc' = IF c = "rule" THEN "search"
                   ELSE IF c = "duo" THEN "begin duo" ELSE "begin"
          /\ left' = IF c = "rule" THEN RuleRounds ELSE 0
    /\ program' = script
    /\ commands' = commands + 1
    /\ UNCHANGED <<disk, mem, round, fresh, cand, crashes, textHistory,
                   ruleHistory>>

(***************************************************************************)
(* run_multiverse.  A resumed run gives every universe the rule of         *)
(* update_rule.json; rsi-loop resumes from its second round on.            *)
(***************************************************************************)
Resuming == cmd = "resume" \/ (cmd = "rsi" /\ round > 0)

NewUniverses(uids, rule) ==
    Snapshot([u \in uids |-> Inf], 0, rule, Defaults(program), 0)

\* Mutant of BeginRun: a resumed run keeps the rule of its state.
BeginRunWithSavedRule ==
    /\ pc = "begin"
    /\ IF Resuming /\ state # Unreadable
       THEN mem' = state /\ fresh' = FALSE
       ELSE mem' = NewUniverses(Uids, LoadedRule) /\ fresh' = TRUE
    /\ left' = Gens
    /\ pc' = "evolve"
    /\ UNCHANGED <<disk, cmd, program, round, cand, bounds, textHistory,
                   ruleHistory>>

BeginRun ==
    /\ pc = "begin"
    /\ IF Resuming /\ state # Unreadable
       THEN /\ state.done + Gens <= MaxDone
            /\ mem' = Snapshot(state.best, state.selected, LoadedRule,
                               state.tune, state.done)
            /\ fresh' = FALSE
       ELSE /\ mem' = NewUniverses(Uids, LoadedRule)
            /\ fresh' = TRUE
    /\ left' = Gens
    /\ pc' = "evolve"
    /\ UNCHANGED <<disk, cmd, program, round, cand, bounds, textHistory,
                   ruleHistory>>

\* Mutant of Improved: the best of the latest generation.
ImprovedOrNot(best, found) == [u \in DOMAIN best |-> found[u]]

\* Universe.step takes a score only when it is better.
Improved(best, found) ==
    [u \in DOMAIN best |-> IF found[u] < best[u] THEN found[u] ELSE best[u]]

\* The universe that us.sort puts first.
Leads(u, best) == \A v \in DOMAIN best : best[u] <= best[v]

SaveDue(done, togo) == togo = 0 \/ (SaveEvery > 0 /\ done % SaveEvery = 0)

Generation ==
    /\ pc = "evolve"
    /\ \E found \in [DOMAIN mem.best -> Scores] : \E u \in DOMAIN mem.best :
          /\ Leads(u, Improved(mem.best, found))
          /\ mem' = Snapshot(Improved(mem.best, found), u, mem.rule, mem.tune,
                             mem.done + 1)
    /\ left' = left - 1
    /\ pc' = IF SaveDue(mem.done + 1, left - 1) THEN "save" ELSE "evolve"
    /\ UNCHANGED <<disk, cmd, program, round, fresh, cand, bounds,
                   textHistory, ruleHistory>>

(***************************************************************************)
(* save_state: first state.json, then the rule of its first universe over  *)
(* update_rule.json.                                                       *)
(***************************************************************************)
SaveState ==
    /\ pc = "save"
    /\ state' = mem
    /\ fresh' = FALSE
    /\ pc' = "save rule"
    /\ UNCHANGED <<ruleFile, script, backup, cmd, program, mem, left, round,
                   cand, bounds, textHistory, ruleHistory>>

SaveRule ==
    /\ pc = "save rule"
    /\ ruleFile' = mem.rule
    /\ forgotten' = (forgotten \/ (cmd = "duo" /\ mem.rule # LoadedRule))
    /\ IF left > 0 THEN pc' = "evolve" /\ UNCHANGED process
       ELSE IF cmd = "rsi" THEN pc' = "gate" /\ UNCHANGED process
       ELSE IF cmd = "duo" /\ round < Rounds
            THEN pc' = "duo" /\ UNCHANGED process
            ELSE Exit
    /\ UNCHANGED <<state, script, backup, bounds, textHistory, learned>>

-----------------------------------------------------------------------------
(***************************************************************************)
(* rsi-loop.  The gate runs the best program without the library helpers   *)
(* it was evolved with; when there is no best program there is no gate.    *)
(* A round that fails it goes to the next one without patch and search.    *)
(***************************************************************************)
GateOk(score) == score = Inf \/ score \notin NeedsHelper

NextRound ==
    IF round + 1 < Rounds
    THEN /\ pc' = "begin"
         /\ round' = round + 1
         /\ mem' = Unreadable /\ cand' = Unreadable
         /\ left' = 0
         /\ UNCHANGED <<cmd, program, fresh>>
    ELSE Exit

GatePasses ==
    /\ pc = "gate"
    /\ GateOk(BestScore(mem))
    /\ pc' = "autopatch"
    /\ UNCHANGED <<disk, process, bounds, textHistory, ruleHistory>>

GateFails ==
    /\ pc = "gate"
    /\ ~GateOk(BestScore(mem))
    /\ NextRound
    /\ UNCHANGED <<disk, bounds, textHistory, ruleHistory>>

(***************************************************************************)
(* run_deep_autopatch reads source and state and tries mutations of them.  *)
(* A mutation looks its literal up where the value is assigned, but        *)
(* _replace_source_segment replaces the first place that has this literal. *)
(***************************************************************************)
First(text, literal) ==
    CHOOSE i \in Places :
        /\ text[i] = literal
        /\ \A j \in Places : text[j] = literal => i <= j

Replaced(text, old, new) ==
    IF \A i \in Places : text[i] # old
    THEN text
    ELSE [text EXCEPT ![First(text, old)] = new]

Patch(text, tune, segments) ==
    [text |-> text,
     state |-> Snapshot(state.best, state.selected, state.rule, tune,
                        state.done),
     segments |-> segments]

\* _mutate_hyperparameter, and the value in the meta state of the universes.
Tuned(source, p, new) ==
    Patch(Replaced(source, source[Target[p]], new),
          [state.tune EXCEPT ![p] = new], 1)

\* _mutate_operator
Reoperated(source, v, w) ==
    Patch(Replaced(Replaced(source, source[Target[OpWeights[1]]], v),
                   source[Target[OpWeights[2]]], w),
          state.tune, 2)

\* _mutate_evaluation
Reweighed(source, v, w, x) ==
    Patch(Replaced(Replaced(Replaced(source,
                   source[Target[ScoreWeights[1]]], v),
                   source[Target[ScoreWeights[2]]], w),
                   source[Target[ScoreWeights[3]]], x),
          state.tune, 3)

\* Mutant of Mutations: the source the process was loaded from.
StaleMutations(source) ==
    {Tuned(program, p, v) : p \in Params, v \in Drawn}

Mutations(source) ==
    {m \in {Tuned(source, p, v) : p \in Params, v \in Drawn} : 1 \in Levels}
    \cup
    {m \in {Reoperated(source, v, w) : v \in Drawn, w \in Drawn} :
        2 \in Levels /\ m.text # source}
    \cup
    {m \in {Reweighed(source, v, w, x) : v \in Drawn, w \in Drawn,
                                         x \in Drawn} :
        3 \in Levels /\ m.text # source}

ToSearch == pc' = "search" /\ left' = RuleRounds

(***************************************************************************)
(* Every attempt evolves a mutation in a child on a clone of the state     *)
(* directory, on data of its own: which one comes out best, or none, is    *)
(* left to chance.  The child's time limit is not caught.                  *)
(***************************************************************************)
Choose ==
    /\ pc = "autopatch"
    /\ \E m \in Mutations(script) :
          /\ cand' = m
          /\ pc' = IF m.text = script THEN "take over" ELSE "backup"
    /\ UNCHANGED <<disk, cmd, program, mem, left, round, fresh, bounds,
                   textHistory, ruleHistory>>

NoneBetter ==
    /\ pc = "autopatch"
    /\ ToSearch
    /\ UNCHANGED <<disk, cmd, program, mem, round, fresh, cand, bounds,
                   textHistory, ruleHistory>>

ChildTimesOut ==
    /\ pc = "autopatch"
    /\ Exit
    /\ UNCHANGED <<disk, bounds, textHistory, ruleHistory>>

\* _safe_apply_patch
Backup ==
    /\ pc = "backup"
    /\ backup' = script
    /\ trust' = IF script = vetted THEN "kept" ELSE "stacked"
    /\ pc' = "write"
    /\ UNCHANGED <<state, ruleFile, script, process, bounds, vetted,
                   ruleHistory>>

Write ==
    /\ pc = "write"
    /\ script' = cand.text
    /\ pc' = "selftest"
    /\ UNCHANGED <<state, ruleFile, backup, process, bounds, textHistory,
                   ruleHistory>>

SelftestPasses ==
    /\ pc = "selftest"
    /\ vetted' = script /\ trust' = "kept"
    /\ pc' = "take over"
    /\ UNCHANGED <<disk, process, bounds, ruleHistory>>

\* Mutant of SelftestFails: the backup is not copied back.
SelftestFailsForGood ==
    /\ pc = "selftest"
    /\ ToSearch
    /\ UNCHANGED <<disk, cmd, program, mem, round, fresh, cand, bounds,
                   textHistory, ruleHistory>>

SelftestFails ==
    /\ pc = "selftest"
    /\ pc' = "restore"
    /\ UNCHANGED <<disk, process, bounds, textHistory, ruleHistory>>

\* Mutant of Restore: the state is written whatever became of the patch.
RestoreThenTakeOver ==
    /\ pc = "restore"
    /\ script' = backup
    /\ pc' = "take over"
    /\ UNCHANGED <<state, ruleFile, backup, process, bounds, textHistory,
                   ruleHistory>>

Restore ==
    /\ pc = "restore"
    /\ script' = backup
    /\ ToSearch
    /\ UNCHANGED <<state, ruleFile, backup, cmd, program, mem, round, fresh,
                   cand, bounds, textHistory, ruleHistory>>

\* The state the patch was tried from, with the patch's parameter.
TakeOver ==
    /\ pc = "take over"
    /\ state' = cand.state
    /\ ToSearch
    /\ UNCHANGED <<ruleFile, script, backup, cmd, program, mem, round, fresh,
                   cand, bounds, textHistory, ruleHistory>>

(***************************************************************************)
(* run_update_rule_search saves each rule that beats those before it.      *)
(***************************************************************************)
\* Mutant of SearchRound: the rounds are counted down past zero.
SearchRoundOnAndOn ==
    /\ pc = "search"
    /\ left' = left - 1
    /\ UNCHANGED <<disk, pc, cmd, program, mem, round, fresh, cand, bounds,
                   textHistory, ruleHistory>>

SearchRound ==
    /\ pc = "search"
    /\ left > 0
    /\ left' = left - 1
    /\ \/ \E r \in Rules :
             /\ ruleFile' = r
             /\ learned' = r /\ forgotten' = FALSE
       \/ UNCHANGED <<ruleFile, ruleHistory>>
    /\ UNCHANGED <<state, script, backup, pc, cmd, program, mem, round, fresh,
                   cand, bounds, textHistory>>

SearchEnds ==
    /\ pc = "search"
    /\ left = 0
    /\ IF cmd = "rsi" THEN NextRound ELSE Exit
    /\ UNCHANGED <<disk, bounds, textHistory, ruleHistory>>

-----------------------------------------------------------------------------
(***************************************************************************)
(* run_duo_loop takes the selected universe of a state of its mode, with   *)
(* the rule saved in it, or starts one with the default rule.              *)
(***************************************************************************)
BeginDuo ==
    /\ pc = "begin duo"
    /\ \/ /\ state # Unreadable
          /\ mem' = Snapshot([u \in {state.selected} |-> state.best[u]],
                             state.selected, state.rule, state.tune,
                             state.done)
          /\ fresh' = FALSE
       \/ /\ mem' = NewUniverses({0}, DefaultRule)
          /\ fresh' = TRUE
    /\ pc' = "duo"
    /\ UNCHANGED <<disk, cmd, program, left, round, cand, bounds, textHistory,
                   ruleHistory>>

\* A round in which no candidate is worth a full evaluation saves nothing.
DuoRound ==
    /\ pc = "duo"
    /\ round' = round + 1
    /\ \/ /\ \E found \in [DOMAIN mem.best -> Scores] :
                mem' = Snapshot(Improved(mem.best, found), mem.selected,
                                mem.rule, mem.tune, round + 1)
          /\ pc' = "save"
          /\ UNCHANGED <<cmd, program, left, fresh, cand>>
       \/ /\ round + 1 < Rounds
          /\ pc' = "duo"
          /\ UNCHANGED <<cmd, program, mem, left, fresh, cand>>
    /\ UNCHANGED <<disk, bounds, textHistory, ruleHistory>>

LastDuoRoundEmpty ==
    /\ pc = "duo"
    /\ round + 1 = Rounds
    /\ Exit
    /\ UNCHANGED <<disk, bounds, textHistory, ruleHistory>>

(***************************************************************************)
(* The process is killed, and the file it was writing may be torn.         *)
(***************************************************************************)
Torn(file, torn, steps) == IF torn /\ pc \in steps THEN Unreadable ELSE file

Crash ==
    /\ pc # "idle"
    /\ crashes < MaxCrashes
    /\ crashes' = crashes + 1
    /\ \E torn \in BOOLEAN :
          /\ state' = Torn(state, torn, {"save", "take over"})
          /\ ruleFile' = Torn(ruleFile, torn /\ (pc = "search" => left > 0),
                              {"save rule", "search"})
          /\ script' = Torn(script, torn, {"write", "restore"})
          /\ backup' = Torn(backup, torn, {"backup"})
    /\ trust' = IF pc = "backup" /\ script # vetted THEN "stacked"
                ELSE IF pc \in {"write", "selftest", "restore"}
                          /\ trust = "kept" THEN "cut" ELSE trust
    /\ forgotten' = (forgotten \/ ruleFile' # ruleFile)
    /\ Exit
    /\ UNCHANGED <<commands, vetted, learned>>

Next ==
    \/ Start \/ BeginRun \/ Generation \/ SaveState \/ SaveRule
    \/ GatePasses \/ GateFails
    \/ Choose \/ NoneBetter \/ ChildTimesOut
    \/ Backup \/ Write \/ SelftestPasses \/ SelftestFails \/ Restore
    \/ TakeOver \/ SearchRound \/ SearchEnds
    \/ BeginDuo \/ DuoRound \/ LastDuoRoundEmpty
    \/ Crash

Spec == Init /\ [][Next]_vars
-----------------------------------------------------------------------------
(***************************************************************************)
(* The values of the variables.                                            *)
(***************************************************************************)
Steps ==
    {"idle", "begin", "evolve", "save", "save rule", "gate", "autopatch",
     "backup", "write", "selftest", "restore", "take over", "search",
     "begin duo", "duo"}

EngineTypeOK ==
    /\ state \in Snapshots \cup {Unreadable}
    /\ ruleFile \in Rules \cup {Unreadable}
    /\ script \in Texts \cup {Unreadable}
    /\ backup \in Texts \cup {Unreadable}
    /\ pc \in Steps
    /\ cmd \in {"none", "fresh", "resume", "rsi", "rule", "duo"}
    /\ program \in Texts \cup {Unreadable}
    /\ mem \in Snapshots \cup {Unreadable}
    /\ left \in Nat
    /\ round \in 0..Rounds
    /\ fresh \in BOOLEAN
    /\ cand \in Patches \cup {Unreadable}
    /\ commands \in 0..MaxCommands
    /\ crashes \in 0..MaxCrashes
    /\ vetted \in Texts
    /\ trust \in {"kept", "cut", "stacked"}
    /\ learned \in Rules
    /\ forgotten \in BOOLEAN

(***************************************************************************)
(* Rollback safety.  Outside of a self test that is being decided the      *)
(* source is the last text that passed one, until a crash cuts an          *)
(* installation short ("cut").  Even then that text is at hand, as the     *)
(* source or as its backup, until a patch is begun on top of the source    *)
(* that the crash left and takes the backup for itself ("stacked").        *)
(***************************************************************************)
RollbackSafe ==
    /\ trust = "kept" /\ pc \notin {"selftest", "restore"} => script = vetted
    /\ trust # "stacked" => vetted \in {script, backup}

(***************************************************************************)
(* The selected universe of a saved state, which the self-patch takes its  *)
(* baseline from and the duo-loop takes alone, has no better one beside it. *)
(***************************************************************************)
SelectedIsBest ==
    state # Unreadable =>
        \A u \in DOMAIN state.best : BestScore(state) <= state.best[u]

(***************************************************************************)
(* Whatever command works on it, from evolve to a patch or a duo-loop, the *)
(* best score of the state directory never gets worse, unless a run that   *)
(* started anew saves for the first time, or a crash tore the state.       *)
(***************************************************************************)
BestKept ==
    [][state # Unreadable /\ state' # Unreadable /\ ~fresh
         => BestScore(state') <= BestScore(state)]_vars

(***************************************************************************)
(* A rule that a search saved stays the rule of the directory through the  *)
(* runs and patches that follow, whose states were saved with older rules; *)
(* a torn rule file and a duo-loop are what makes the engine forget it.    *)
(***************************************************************************)
RuleKept ==
    forgotten \/ LoadedRule = learned

(***************************************************************************)
(* The state of a run that goes on takes over a parameter of a patch only  *)
(* when the patch is what the source file holds: nothing is left of a      *)
(* patch that the self test rejected.                                      *)
(***************************************************************************)
StateFollowsScript ==
    [][state # Unreadable /\ state' # Unreadable /\ ~fresh
         /\ state'.tune # state.tune
         => script = cand.text]_vars

(***************************************************************************)
(* A patch leaves what earlier patches wrote in force: it changes at most  *)
(* the segments it is made of, though the process that writes it was       *)
(* loaded before those patches.                                            *)
(***************************************************************************)
PatchesAccumulate ==
    [][pc = "write" /\ pc' = "selftest"
         => Cardinality({i \in Places : script'[i] # script[i]})
              <= cand.segments]_vars

(***************************************************************************)
(* A parameter that a patch changes is changed in the program: once the    *)
(* patched source has passed its self test, the place the program takes    *)
(* the parameter's value from has the value the state takes over.          *)
(***************************************************************************)
PatchReachesProgram ==
    pc = "take over" /\ state # Unreadable =>
        \A p \in Params : cand.state.tune[p] # state.tune[p] =>
            script[Target[p]] = cand.state.tune[p]
=============================================================================
