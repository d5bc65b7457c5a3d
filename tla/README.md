# A verified model of the Self-Improving Research Kernel

This directory holds TLA+ modules for the parts of the repository that keep state
across steps, processes and failures:

* the closed loop of `scripts/closed_rsi`, which changes its own source tree, with
  its patch transaction, its quarantine, and the proxy objectives it retains;
* the record the cognitive core keeps of its own emergence: which skill led to
  which goal, which achievement to which skill;
* the THDSE swarm, whose workers find contradictions and whose parent spreads the
  walls made of them;
* the unified RSI engine, `unified_rsi_extended.py`, which evolves programs over
  a state directory and patches its own source file;
* the three-tier memory of the shared runtime, whose records have handles in an
  arena.

TLC checks them on small instances; TLAPS proves every safety property that the
runs check, for all values of the constants, and the termination arguments behind
the liveness properties.

## The system

| Component | State it keeps | Operations | Interacts with |
|---|---|---|---|
| **Patch transaction** `scripts/closed_rsi/loop.py` `apply_candidate`, `validate`; `generators/immutable_guard.py` | the working tree; originals of the files being patched | guard, screen, collect, write, validate, roll back | pytest subprocesses; called by the loop and by quarantine |
| **Closed loop** `loop.py` `run`, `load_state`, `save_state`; `records.py` | history in memory and in `closed_rsi_state.json`; budgets; kill-switch file; clock | generation, attempt, record, save, stop, explore | patch transaction, generators, state file, operator |
| **Quarantine** `loop.py` `run_quarantine_exploration`; `gates/rollback.py` | a copy of the tree, records per depth | copy, chain of attempts without rollback | patch transaction; its records go to the loop's history |
| **Generators** `generators/*.py` | none: they read the tree and the history | invent candidates, families from failure residue | loop |
| **Evaluators, anti-cheat** `evaluators/capability.py`, `shared/capability_benchmarks.py` | none | judge sources, derive cases from residue | gates of the transaction |
| **Proxy objectives, self play, archive** `generators/proxy_objectives.py`, `self_play.py`, `behavior_archive.py` | `retained_proxy`, `proxy_promotion_events`, `behavior_archive` in the history | invent a proxy, rank candidates, score the accepted one on unseen seeds, judge and retain the proxy | loop, evaluators |
| **Experiment drivers** `scripts/*.py`, `cli.py` | reports | run loops in disposable copies | loop |
| **Memory and arena** `shared/deep_memory.py`, `shared/arena_manager.py`, `bridges/memory_architecture_bridge.py` | episodes, facts, procedures; the head and slots of an arena; a table of handles per tier | remember, recall, assert, register, consolidate; allocate | every bridge allocates from the same arena |
| **Shared runtime, the rest** `shared/` | learners, encoder tables | learn, encode | bridges, THDSE, cognitive core |
| **Bridges** `bridges/` | registries, counters | translate between THDSE and the cognitive core | both |
| **THDSE swarm** `thdse/src/swarm` | walls each agent replays (`_agent_wall_history`), the ledger of walls (`_wall_ledger`), the decoder's log, stagnation count | rounds of worker processes, consensus, targeted broadcast of walls, reconciliation of drift | synthesis (in workers), decoder (in the parent) |
| **Unified RSI engine** `Cognitive-Core-Engine-Test/unified_rsi_extended.py` | `state.json`, `update_rule.json`, its own source and the `.py.bak` of it | evolve, search an update rule, duo-loop, rsi-loop with gate, self-patch, self test and rollback | child processes that evolve a patched clone; the cognitive core falls back on its governance functions |
| **THDSE synthesis, decoding, analysis** `thdse/src` | axiom store, wall archive, vocabulary | synthesise, refine, expand | hdc_core (Rust) |
| **Causal chains, skill-derived goals** `core/causal_chain.py`, `agi_modules/goal_generator.py`, `core/orchestrator.py` of the cognitive core | event log and chains; pending goals, links of skills to goals, active goals | record an event, give a skill its goals, assign tasks, credit achievements | registrar (births), agents (rewards), AGI tracker (depth) |
| **Cognitive core, the rest** `Cognitive-Core-Engine-Test` | shared memory, skills, tools, adoption queue, evaluation rules | rounds, proposals, critic, adoption, registrar | bridges |

The behaviours that are hard, and the properties that make each part correct:

* *Patch transaction.* Files are written one by one, any of a dozen gates and any
  write may fail, and each failure must bring back every byte, files that did not
  exist included. Correct if a rejection leaves no trace and a promotion is whole,
  green and narrows nothing. The guard before it turns down candidates that name a
  file of the judging code, as far as it recognises the name.
* *Closed loop.* The history is saved after each attempt, the gates read it back
  from disk, the process may be stopped politely (kill switch, clock) or not.
  Correct if tree and saved history agree between runs, tests of accepted
  candidates survive later candidates, the gates judge by the failures a family was
  invented from, a stop is bounded and a run ends. Some of this holds with
  conditions only, which the properties name.
* *Quarantine.* The same transaction without rollback, on a tree that drifts.
  Correct if it ends, never repeats itself and never accepts on a red tree.
* *Causal chains.* Goals become tasks a cycle after they were made, under names
  that may be drawn twice, for agents that share tasks; the cause of a birth is
  written into it after its goals were recorded. Correct if causes never loop,
  every chain verifies, an event is filed once, and the skill credited is the
  skill of the cause.
* *Proxy retention.* A proxy is judged after the candidate it favored was promoted,
  on seeds of its own; acceptance, retention and events become durable in one
  save, and a run that is cut down repeats a generation. Correct if what is
  retained has an acceptance behind it, seeds are used once, and what was retained
  is not lost or exchanged on the way.
* *THDSE swarm.* Workers are new processes that know only what is replayed to
  them; what an agent knows is recorded twice; a wall reaches its makers at once
  and the others some rounds later. Correct if both records agree, each wall
  reaches everybody once, unchanged, neither too early nor too late.
* *Unified engine.* Four files written one after the other by processes that may be
  killed in between, one of them the program itself. Correct if a source that
  passed its self test can always be had back, rules and scores are not lost to
  older ones, and a rejected patch leaves nothing in the state.
* *Memory.* A record is stored, then its handle allocated; a consolidation promotes
  episodes one by one and hands out handles at the end; each step raises when
  something is full. Correct if a handle that is found is the record's own and a
  promotion that was reported stands.
* *Governance.* The package `cognitive_core_engine.governance` cannot be imported
  (its `__init__` names a module that does not exist), and the orchestrator goes on
  with the functions of the unified engine (orchestrator.py:48-69). Its proposals
  of levels 1 and 2 carry no metrics, so none is ever adopted (423-434).

`PROJECT.json` lists every component, with those left out, and each hazard at
its line.

## Modules

    KeepOnlyGreen  (abstract)            SourceTree  (tree, candidates, tests)
          ^                                   ^
          | refined by                        | extended by
          +-------------- PatchTransaction ---+
                            ^         ^
              composed in   |         |  composed in
                      ClosedLoop   Quarantine

    ProxyRetention  (the loop's history, seen from its proxies)

    CausalChain  (log and chains)  <--- extended by ---  Emergence

    WallBroadcast  (abstract)      <--- refined by  ---  Swarm

    RsiEngine  (commands over a state directory and the source)

    DeepMemory  (three tiers, their handles, the arena)

    PatchTransactionProofs, ClosedLoopProofs, QuarantineProofs,
    ProxyRetentionProofs, EmergenceProofs, SwarmProofs,
    RsiEngineProofs, DeepMemoryProofs                     theorems
    MCTree, MCPatchTransaction, MCClosedLoop, MCQuarantine, MCProxyRetention,
    MCEmergence, MCSwarm, MCRsiEngine, MCDeepMemory       instances for TLC

**SourceTree** has the data. A file is `Absent` or the set of items its text
defines, pieces of source and test node ids. A candidate is a target, a test
file and extra files (`Files[c]`), what its transform adds to and drops from
the target, and the full text it writes elsewhere. A test passes if the items it
needs are in the tree and none it clashes with is. So every verdict of the suite
follows from the tree: a green tree can be turned red by a later candidate, a
test can vanish when its file is overwritten.

**KeepOnlyGreen** is the promise of the loop's module docstring and of the
repository README: the tree moves in one indivisible step, to a patched, green
tree that collects every test it had.

**PatchTransaction** is `apply_candidate`. `step` says where the method stands:

| Action | Code in `loop.py` |
|---|---|
| `Begin`, `GuardReject` | call; the immutable gate's early return (997-1029) |
| `ReadOriginals` | originals of target, test and extra files (1030-1039) |
| `ScreenReject`, `ScreenPass` | no change, anti-cheat, reference gates (1046-1069) |
| `CollectBefore`, `CollectBeforeFails` | node ids before; dry run (1070-1075) |
| `WriteFile`, `WriteFails` | one `write_text` each (1077-1082) |
| `CollectAfter`, `CollectAfterFails` | node ids after, superset gate (1083-1090) |
| `DiagnosticsPass`, `DiagnosticsFail` | `validate` up to line 962 |
| `SuitePass`, `SuiteFails` | full and broad suites, generator improvement (963-993, 1091-1105) |
| `Fail`, `RestoreFile` | the except clause, one file each (1106-1125) |
| `Return` | the record (1126-1147) |

A subprocess gate may fail on a good tree (`run_command` cuts it off at
`timeout_s` and reports exit code 124); it passes only on a tree that deserves
it. A write that fails may leave the file truncated. `base` is a history variable, the tree when
the method was called. The guard compares names with patterns: target and test file
are resolved against the root first, extra files are taken as the candidate spells
them, so `Guarded` has the paths whose name contains a pattern and `Spelled[c]` those
that candidate `c` names so that one is found. `Judge` is the boundary README.md
speaks of. `Evaluating` are the steps in which capability evaluation runs operators of
the candidate in the loop's own process, without a timeout (evaluators/capability.py:126,
capability_benchmarks.py:706, called from loop.py:709 and 1097).

**ClosedLoop** is `run` over several processes. `mem` and `disk` are the history
in memory and in the file; `accepted` is a sequence, so that the tree can be
replayed from it. Each action is a stretch of `run` between two points where the
kill switch, the clock or a crash can be noticed. The order of the candidates in
a generation (ranking scores, digests, proxies) is left open here. `Crash` may
happen in any state: a kill, an interrupt, which `except Exception` lets
through, an exception of the rollback, or one of the delayed proxy evaluation
between a promotion and its save; the file being written, the state file
included, may be left cut short. `Proposes` stands for the families invented
from failure residue, a function of the failures recorded; the gates apply it to
the file, the generators to the memory, as the code does. History variables:
`drawn` and `turned` are the failures a generation was invented from and those it
has turned down since; `harmed` says that some run was cut down where it was `Exposed`,
while files were written, restored or not yet judged or an acceptance was not saved,
or that the file of the history was torn.

**Quarantine** is `run_quarantine_exploration`: depths of candidates on a copy,
`Rollback = FALSE`, nothing saved. In ClosedLoop it is the action `Explore`,
which adds records of the candidates `Explores` to the history: all that run
gets back from it, the copy being deleted.

**CausalChain** is `CausalChainTracker`. An event is a record in a sequence,
its identifier the place there (the code's counter grows by one per event); a
chain is a sequence of identifiers. `Recorded` is `_append_event`, `Verified` is
`verify_chain` and `MaxChainDepth` is `max_chain_depth`.

**Emergence** is what `Orchestrator.run_recursive_cycle` does around the tracker.
It is sequential; `pc` says where the cycle stands.

| Action | Code |
|---|---|
| `RunRound` | `_assign_tasks` and `run_round`: legacy tasks, at most two pending goals, some of them replaced by generated ones, agents take tasks in turn; which results are above 0.1 is left open |
| `Birth`, `NoBirth` | at most one skill is registered, one candidate being proposed per cycle (`max_candidates` is 1, orchestrator.py:257); `record_skill_birth` |
| `GoalFromSkill` | `on_skill_registered` for one capability, `record_goal_from_skill` |
| `Credit` | a rewarded goal: first link of that name, first goal event of that name, `record_goal_achieved`, and the cause written into the birth of this cycle |
| `PassOver` | a result that is no achievement |
| `EndCycle` | achieved goals leave the active set; next round |

A goal's name is a capability, a stem (difficulty and the first eight characters
of the skill's name, `rsi_g20_` for every skill of generation 20) and a tail: none,
or a random one when the name is taken. Rewards are above the threshold or not.

**ProxyRetention** is `run` once more, with the part of the history that
ClosedLoop leaves out; in return an attempt is accepted or not by chance, and only
the guard's findings restrict the order of the candidates. The identity of a
proxy is what its digest is made of (generation, size of the archive, number of
tasks, number of records), digests being taken as injective.

| Action | Code |
|---|---|
| `Start`, `Rank` | `load_state`; `rank_candidates_with_open_ended_proxy` (loop.py:334): tasks, proxy, ranking with guarded candidates last |
| `Reject`, `Accept` | `apply_candidate` and the signatures that are archived before its verdict is looked at (loop.py:1332-1336) |
| `Evaluate` | `delayed_proxy_ground_truth_results` (1149), outside any `try`; results are left to chance |
| `Judge` | `judge_proxy_promotion` and what is retained (1372-1399) |
| `SaveAccepted`, `SaveRejected`, `SaveExplored` | `save_state` (1405, 1410, 1432) |
| `LastGeneration`, `Explore`, `Finish`, `Crash` | the ends of the loop; quarantine records; a kill or an exception, with the file that is being saved torn or not |

`consulted` is a history variable: the seeds of the judgments that reached the
file.

**WallBroadcast** is what the swarm promises of walls: a wall is published to its
makers, later everybody who lacks it gets it in one step, and none is forgotten.

**Swarm** is `SwarmOrchestrator.run`. The parent waits for all workers of a round,
so a round is sequential.

| Action | Code in `thdse/src/swarm/orchestrator.py` |
|---|---|
| `Collect` | `_collect_candidates`: a worker per agent, built anew, any number of candidates from those whose corpus is a dictionary (paths do not reach workers, 647) |
| `NoConsensus`, `Satisfied`, `Contradicted` | `compute_swarm_consensus` over the baseline (the first `int(n * 0.8)` agents), `_decode_consensus`, then broadcast of the source or of a wall to the clique (471-501) |
| `Heretics` | candidates of the other agents are decoded, with the same log (503-524) |
| `ReconcileWall`, `Reconciled` | `_reconcile_drift`, one ledger entry each (700-733) |
| `EndRound` | stagnation and last round (533-566) |
| `Abort` | an exception out of `future.result()` |

Which candidates resonate and what the decoder finds are left to chance. The vector
a wall is made of is named by the decode it was logged in, since `_decode_consensus`
reads the latest V_error of the whole log.

**RsiEngine** is the commands of `unified_rsi_extended.py` on one state directory.
The source is the sequence of places that hold a literal; a parameter has a place
the program takes its value from.

| Action | Code in `unified_rsi_extended.py` |
|---|---|
| `Start` | `main`; python must be able to parse the source |
| `BeginRun`, `Generation` | `run_multiverse`: resume or start, `Universe.step`, sort |
| `SaveState`, `SaveRule` | the two files of `save_state` (4323-4337) |
| `GatePasses`, `GateFails` | `_hard_gate_ok` in `run_rsi_loop` (6082-6098) |
| `Choose`, `NoneBetter`, `ChildTimesOut` | the attempts of `run_deep_autopatch`: any mutation may come out best; the child's `TimeoutExpired` is not caught |
| `Backup`, `Write`, `SelftestPasses`, `SelftestFails`, `Restore` | `_safe_apply_patch` (5323-5341) |
| `TakeOver` | the state with the patch's parameter (5467-5475) |
| `SearchRound`, `SearchEnds` | `run_update_rule_search`, the end of a round of `run_rsi_loop` |
| `BeginDuo`, `DuoRound`, `LastDuoRoundEmpty` | `run_duo_loop` |
| `Crash` | a kill; the file that is being written is torn or not |

`vetted`, `trust`, `learned`, `forgotten` are history variables: the last source that
passed a self test and whether a crash put it at risk, the last rule a search saved
and whether a tear or a duo-loop took it away.

**DeepMemory** is the memory bridge with the stores and the arena under it. Calls are
synchronous; `pc` opens `consolidate`, because it raises between two of its steps.

| Action | Code |
|---|---|
| `RememberEvent` | `remember_event` (memory_architecture_bridge.py:89) with `EpisodicMemory.store`: evict, store, allocate; without room in the arena it raises after storing |
| `Recall` | `EpisodicMemory.recall`: the best are rehearsed; which ones is left open |
| `AssertFact` | `assert_fact` of bridge and store (102, deep_memory.py:195): raises at capacity, else merge with the first fact that is alike, else append; a handle if there is none |
| `RegisterProcedure` | `register_procedure` (121) |
| `BeginConsolidation`, `Promote`, `PromotionFails` | `DeepMemory.consolidate` (339), a candidate each |
| `HandOut`, `ReportConsolidation` | the rest of the bridge's `consolidate` (200-211) |
| `AllocateElsewhere` | `alloc_cce` by other components |

`Alike` is the relation "cosine at least 0.98" on texts, which need not be transitive.
Which of the least rehearsed episodes is evicted depends on time stamps, which may
be equal, and is left open. The ids of facts and procedures are their places, those
of episodes a counter. `arena` has what was written to each handle; source lists
are sets; the candidates of a consolidation are a set of places, of which the least
comes next, since nothing is evicted on the way. `reported` is a history variable. The code under `src/` that
is not a test calls `recall` nowhere, so in the agent loop nothing is rehearsed and
consolidations find no candidates; the model takes the memory's interface as it is
offered.

## What TLC checks

The instance (MCTree) is a repository of seven paths and eleven candidates chosen to
collide: `same` overwrites the test file of `new` and its test fails next to
`new`'s helper, `undo` drops what `new`'s test needs, `break` breaks the
repository's own test, `judge` names a gate as an extra file, `alias` the same gate
by a name in which no pattern is found, `tune` the file of the guard itself, `cheat`,
`idle` and `vague` fall to the anti-cheat, no-change and generator-improvement
checks, `family` belongs to a family invented from the failure of `break` that is
renamed by a failure of `same`. Each run takes the candidates it is about.

| Run | What it shows |
|---|---|
| `patch_transaction` | transactions, one after the other without end, over eight candidates: exact rollback (`RollbackIsExact`), and that the file-by-file transaction implements KeepOnlyGreen, whose step is a whole promotion |
| `closed_loop` | two runs of two generations of at most three candidates, a crash anywhere: history and tree agree between runs that were not cut down where it shows (`ResumesUnlessHarmed`), tests survive (`AcceptedTestsSurvive`), at most one promotion after a stop request (`StopBounded`), the gates know the failures a generation was invented from and those it has met since, no others (`CasesFollowDraw`), and every run ends that does not stay inside a candidate's code (`RunStops`, liveness) |
| `quarantine` | three depths of two candidates: no candidate twice (`OneRecordEach`), the exploration ends unless it stays inside a candidate's code (`ExplorationEnds`, liveness) |
| `proxy_retention` | two runs of two generations, two crashes anywhere, torn saves: no retained proxy without its acceptance (`RetainedBacked`), no seed judged on twice (`SeedsUnseen`), and the proxy retained first stays, as long as its file is not torn (`RetainedForGood`) |
| `emergence` | four cycles of four agents, skills with one or three capabilities, two possible tails: chains verify, events are filed once, causes go back in time, so that no event causes itself (`CausesDescend`), credit and cause agree (`CreditMatchesCause`), a goal has one round (`OneChance`) in which its achievement will be noticed (`WillBeSeen`) |
| `swarm` | four rounds of two baseline agents and a heretic: ledger and replay lists agree (`ReplayMatchesLedger`), outsiders are spared for the grace period (`SparedUntilGrace`), drift is bounded (`DriftBounded`), only reconciled walls come out of order (`LateOnlyByReconciliation`), the swarm implements WallBroadcast, and its run ends (`RunEnds`, liveness) |
| `rsi_engine` | three commands in any order, two kills: the vetted source can be had back (`RollbackSafe`), learned rules and best scores are kept (`RuleKept`, `BestKept`), the state takes over only patches that are in the source (`StateFollowsScript`), and a patch leaves earlier ones in force (`PatchesAccumulate`) |
| `deep_memory` | three events, two facts, a procedure, an arena of four: a handle found for a record leads to that record's vector and is no other record's of any tier, and no record lacks one unless a store is full (`HandlesSound`); what was reported as promoted is a source of a fact like it, and no two facts are alike (`PromotionsStand`) |

Deadlock is checked in `patch_transaction`, where another candidate may always
begin, and in `deep_memory`, where a consolidation may. The others stop where the program stops: when the process has been
started `MaxRuns` or `MaxCommands` times, the exploration or the swarm's run is
over, the engine's source is torn, or the caller of `run_recursive_cycle` has made
its fixed number of rounds.

*Bounds.* In `closed_loop`, two runs let the second start from what the first kept, and
tree and history are compared after each; two generations are needed for one candidate
to build on another in one run, three attempts for a rejection before and after
another, and for a family to be offered after the failure it is invented from and
renamed by a second one.
In `emergence`, four agents on three tasks share one, three capabilities are one
more than the goals that are injected, and four cycles let a skill born from a
goal's achievement get a goal of the same name, itself achieved; with one stem and
two tails names collide as early as they can. In `swarm`, three agents are two of the
baseline and a heretic, the fewest with a clique of several agents and somebody
outside it; two candidates let one agent be a clique alone; interval 2, grace 1
and four rounds make walls of even and odd rounds wait for different times.
In `rsi_engine`, two universes can overtake each other, three commands allow
a patch, a crash in the next, and a third on top of what it left; nine places
are those of the parameters plus two earlier ones with the same literals, as the
file has them; one new literal suffices, since two equal ones collide most; scores
have three values, the last standing for none. In `proxy_retention`, two runs of two
generations let a second judgment follow the first in the same process, in the
next, or after a crash took the first away; a candidate accepted by a version
without an archive makes the archive count records instead of signatures; one new
and one returning candidate, and one that the guard ranks last.
In `deep_memory`, three events force an eviction, three
contents of which two are alike only to the third make merging depend on order, two
facts fill the store in the middle of a consolidation, and four handles run out with
records of every tier waiting.
With candidates that collide pairwise, more of them add combinations of the same
collisions. The theorems below remove the bounds for what they state.

*Fairness.* It is weak fairness of the steps the process takes by itself: `RunStep`,
`ExploreStep`, and `Next` of Swarm. A gate that is a subprocess has a timeout
(`run_command`), and no step blocks on the operator. But the capability gates run
operators of the candidate in the loop's process with no timeout (loop.py:709, 1097, 1161;
evaluators/capability.py:126), and so does the delayed proxy evaluation; an operator that
loops keeps the run for good, whatever budget it was started with. `FairSpec` of
ClosedLoop and Quarantine therefore has no fairness in these steps (`InCandidate`,
`Evaluating`), and the liveness properties say that a run ends or stays in one of them.
What runs in the same process during invention (operator_synthesis.py:221) is built
from sketches whose loops are over finite sequences. Swarm's parent is one thread, and
its `future.result()` is taken to return or raise; `as_completed` has no timeout.
Starting a run, dropping the kill switch and crashing have no fairness.

## Where the code differs from what is said of it

Four runs check a statement of the repository and fail.

* `interrupted`. "The next run continues from the last accepted version"
  (README.md:17). The rollback is in `except Exception` (loop.py:1106). Ctrl-C
  or a kill between the first write and the last gate leaves the unjudged patch,
  and the next run takes the tree as it finds it.
* `judge`. The evaluators, gates and the orchestrator "are all protected by
  `immutable_guard`: any patch that tries to write inside that boundary is rejected"
  (README.md:35). The guard looks for patterns in names. Target and test file are
  resolved first (immutable_guard.py:137-147), the keys of `extra_files` are not
  (172-175): another name of the same file is not recognised (`alias`). The guard's own
  file is in `generators/`, which is mutable (57-60), so it may be named plainly (`tune`).
  The dotted pattern of line 36 is found in no file name; the anti-cheat check
  knows the file it stands for. No generator of the repository makes such a candidate.
* `causal_depth`. "The length of the longest causal chain (number of events)"
  (causal_chain.py:180), of which the core's RESULTS.md:157 says "Depth ≥ 2 =
  genuine recursion". Siblings are appended to one chain, so a skill with three
  goals has depth 4 where no path of causes is longer than 2. A second skill never
  enters a chain: births are recorded without a cause, and the one written in
  later does not reach the chains.
* `patch_target`. A self-patch is labelled "L1:<param>" and reported as "[RSI]
  Self-modified!" (unified_rsi_extended.py:5242, 5475). The literal is looked up
  where the parameter is assigned, but `_replace_source_segment` (5202) replaces
  the first place that has the same text: for `adapt_steps`, the 8 of the usage
  text. The self test passes, the program is what it was, and `state.json` has the
  new value.

Other differences, met while modelling and visible in the modules, without a run:

* "Proxy objectives are retained only when delayed ground-truth judgment
  improves on two unseen seed sets. A zero count reports a plateau, not a
  fabricated breakthrough" (growth_report.py:185). The seeds are derived from the
  new proxy and its candidate, the retained proxy has results for its own seeds
  only, and a proxy whose seeds the retained one has no results for is turned down
  (proxy_objectives.py:338). So the first proxy that scores on both seeds is
  retained for good (`RetainedForGood`, and theorem `Plateau` for every instance),
  unless the file of the history is torn.
* "Every run has explicit budgets" (loop.py:15), but none is looked at while an operator
  of a candidate is evaluated in the process of the loop: see *Fairness*.
* "Ensure newly consolidated facts have arena handles"
  (memory_architecture_bridge.py:202). The loop under this comment runs after all
  candidates were promoted; when one of them finds the semantic store full, the
  call raises and the facts it has asserted have no handles, with room in the arena.
  The episodes remain candidates, so later consolidations raise too.
* "Dedupe: if an almost-identical fact exists, merge sources"
  (deep_memory.py:206). The capacity is looked at first (202): a full store refuses
  the very facts it holds.
* A torn `closed_rsi_state.json` is read as an empty history (records.py:117), and
  the next save makes the loss final.
* A family is invented from the history at the start of a generation and judged on
  cases derived from the history at that moment (loop.py:751); one more rejection can
  rename the family, and the gate finds no cases for a candidate that had some.
  `CasesFollowDraw` is what can be relied on: only rejections of its own generation do
  this, never what earlier runs left in the file. In
  quarantine the state file is never written (1224), so families drawn from the
  exploration's own failures are always turned down.
* "Skill-derived goal names unique" (the core's RESULTS.md:164): the random tail of a
  taken name is not compared with the names again (goal_generator.py:165).
* The V_error of a contradiction is the latest of the decoder's whole log
  (thdse orchestrator.py:780): the wall broadcast can be that of another vector, of an
  earlier round, or of a heretic. `about` in the ledger shows it; the docs take it
  for the vector's own (thdse/README.md:255).
* Corpora given as paths do not reach the workers (647), and a consensus that
  is broadcast extends the vocabulary of agents in the parent, which do not search
  (742).
* `duo-loop` keeps one universe, writes the rule saved with it over a rule learned
  since, and counts its generations from zero (5738-5751, 6028-6039), where line 29
  says it "keeps state in the existing state directory".
* The first round of `rsi-loop` starts anew (6081); "Reloading..." reloads nothing
  (6125); a patch is measured against a score of less evolution, without a
  control (5431); the gate runs the best program without the library helpers
  it was evolved with (6091); the stagnation branch cannot be taken (6101).
* Every event is said to be mirrored in the arena (memory_architecture_bridge.py:4),
  but a record is stored before the allocation that may raise.

## What is proved

The theorems hold for every value of the constants that satisfies the named
assumptions of the modules. They are typing assumptions, with few that carry
meaning: a candidate's files are distinct and at least two, an empty history
proposes no family, a list of capabilities has none twice, runs have at least one
round or generation, a parameter's value has a place in the source, and markers
like `NoCandidate` or `Torn` are no data. Of what the encoder finds alike they say
that it is symmetric and reflexive: similarity is the cosine of vectors that `_unit`
brings to length one, null vectors included.

*PatchTransactionProofs.* `PatchInv` is inductive. Exact rollback alone is not:
while a file is restored one must know that the originals are those of `base`
(`Remembers`), that nothing outside the candidate's files changed
(`StaysInside`) and how far writing or restoring has got (`Progress`). The
superset gate's knowledge must still be true two steps later (`Superset`).
`Rollbacks`, `Promotions`, `DryRuns` and `TypeCorrect` follow.
`Refinement` then maps the tree to `keptTree`, which ignores the candidate in
flight: `SuitePass` is the promotion, every other step a stutter, and without
`Rollback` it is false, which the hypothesis says. The last part is about how far a
call still has to go: `CallShrinks` (its place among the steps, then the files it
has left) and `StaysThere` (a call makes no file disappear) serve the two modules
that compose the transaction.

*ClosedLoopProofs.* `LoopInv` adds to PatchInv what the loop knows of the
history: in an attempt the file equals the memory, the failures in it are those of the
draw and of the generation since (`DrawnFrom`), a dry run has an empty
history, at most one promotion follows a stop request. It is inductive with
crashes and any number of runs (`LoopInvariance`), and gives
`LoopTypeCorrect`, `TransactionStands`, `CaseBankStands`, `KillSwitchStops`,
`LoopDryRuns` (that a dry run writes nothing is proved and not run). Without
crashes the loop is a behaviour of PatchTransaction
(`LoopIsTransactions`), hence implements KeepOnlyGreen (`LoopRefinement`).
`AcceptedTestsStand` shows that the tests of every accepted candidate are still
collected and green between candidates. It needs `Green(Tree0)`: nothing in the
code runs the suite before the first candidate.

`RunsResume` is that a run starts from the tree which the saved history makes of the
first one (`ResumesUnlessHarmed`), where candidates are rolled back and the history is
saved. Both theorems hold with crashes: `harmed` never goes away (`HarmStays`), and a
crash that leaves it false was in a place where the tree is the one of the last verdict
and the file is whole (`HarmlessCrash`). No acceptance is only in
memory while another candidate is at work (`AllSaved`). What a history makes (`Replay`) is a recursive function, and the
prover has neither its existence nor induction. Both come from the least number
principle: if some history had no solution of the recursion there would be a shortest
one, which its predecessor's solution extends (`ReplayExists`); if two solutions
differed there would be a first place where they do (`ReplaysAgree`). Then one more
acceptance is one more `Apply` (`ReplayFacts`), and the invariant (`Resumption`) says of
memory and file which of the two the tree is of at each place of the loop.

`RunsAreFinite` is the argument behind `RunStops`: what is left of a run is a list of
five numbers (generations, stage of the generation, candidates, step of the
call, files), ordered by the first place where two lists differ. Every
step of the run makes it shorter; rejections, acceptances, the
surroundings and crashes do not make it longer; the order is well founded. No one number
would do, since a candidate may have any number of files and the candidates a
generation draws are not known before. It bounds the steps of a run, not the time
an operator takes inside one. `RunsAreNeverStuck` is the other half: every target a
generation has drawn stays there (`TargetsThere`), so that a candidate that may be
tried can be begun, and a call that is done has a record.

*QuarantineProofs.* An exploration keeps `PatchInv` of the transaction, since every
step is a step of it or leaves it alone; `Fresh` adds that the candidate that is being
tried has no record yet. `OneRecordEver` and `QuarantinePromotes`, that what is
accepted on the copy was written whole onto a green tree, follow for every depth and
budget. `ExplorationsAreFinite` and `ExplorationsAreNeverStuck` are as
in the loop, with depths for generations; that targets stay does not need rollback.

*ProxyRetentionProofs.* `RetentionInv` says of memory and file separately that what is
retained is backed (`MemoryBacked`, `RetainedBacked`), that the proxy at work is of
the generation to come (`Dated`), how far the memory may be ahead of the file
(`InStep`), and that a consulted seed belongs to an acceptance on disk
(`Consulted`). Two proxies that have a seed in common are the same proxy for the
same candidate, and a new proxy's generation is past those of all acceptances, so
no seed comes back (`OwnSeeds`): hence `SeedsStayUnseen`, and `Plateau`, which is
`RetainedForGood` for every number of runs, generations and crashes.

*SwarmProofs.* `SwarmInv` relates the three records of a wall: the ledger in the order of
rounds (`LedgerOK`), what agents replay (`HeldAsApplied`, `InLedger`, `Distinct`),
and the window in which an entry may be incomplete (`Window`), which needs a lemma
on the next multiple of the interval (`ModStep`). While the cursor passes, entries
before it are spread if they are old enough (`Visited`). From it follow
`ReplaysMatch`, `OutsidersSpared`, `DriftStaysBounded`, `OrderKept`, `WallsStand`
(what a wall is made of never changes) and the refinement of WallBroadcast, with
`Contradicted` as the publication and each `ReconcileWall` as a spread or a stutter.
`SwarmRunsAreFinite` counts the stages left, and within a reconciliation the walls not
looked at: every step makes the pair less, though progress sets the count of idle
rounds back and the ledger grows.

*RsiEngineProofs.* `EngineInv` has a part for each promise: what is in memory at which
step (`Held`), order of scores (`RankedInv`), how memory and candidate descend
from the state on disk (`LineageInv`), where the vetted source is at every step of an
installation and after every crash (`RollbackInv`), and the rule (`RuleInv`). It is
inductive for any source, commands, crashes and torn files, and gives
`RollbackIsSafe`, `SelectedStaysBest`, `RuleStaysKept`, `BestStaysKept`,
`StateKeepsToScript` and `EngineTypes`. `PatchesStack` says that a patch changes at
most as many segments as it is made of (`PatchesAccumulate`): replacements are
counted one by one (`OneMore`), each in the text the one before left, and the text
is unchanged until it is written (`SmallInv`). The number of places need not be finite.

*EmergenceProofs.* From `EmergenceAssumption`, which is typing but for this: a
list of capabilities has no capability twice, as the registrar builds it, and the
empty tail is not a random one. Chains verify only because of what the whole
log looks like, so `EmergenceInv` adds to the types: the log is in the order of
rounds (`LogInOrder`); a birth is caused by an achievement of its own round or
by nothing, a goal by a birth of its round, an achievement by a goal of an earlier
round (`CauseShape`); `latest` is a birth of this round (`LatestBirth`); a goal
that is pending or rewarded was created in an earlier round than the one that
will credit it (`OnTheirWay`); chains are increasing and hold every event once
(`ChainsOK`). `OnTheirWay` is the heart: the first event of a name is at least as
old as the one the agents worked on, so that writing an achievement into
a birth of the same round cannot close a loop, whatever names were drawn twice.
`ChainsAlwaysVerify`, `CausesAlwaysDescend`, `EventsFiledOnce` and
`EmergenceTypes` follow. `CausesNeverLoop` says that no set of events is closed
under a cause for each: an event with the least time would have an earlier one
(`MinOfNat`, from the well-foundedness of `<` on the naturals). The first place of
an element in a sequence (`SelectInSeq`) is a least number too, and is handled by
the same lemma.

In the same module: a rewarded goal is looked up in two structures, and each lookup
takes the first of its name. They agree because links and goal events are appended
together: `CreditsInv` says that they have the same names (`SameNames`) and that the
first link and the first event of a name have one skill (`SameSkills`). For what
holds only while no name was drawn twice it adds that a name then has one event
(`DrawnOnce`), and that a goal is pending in the round of its creation and rewarded
or achieved in the next (`OnTime`): pending and achieved goals are then of different
rounds, so that the end of a cycle removes none that is about to be worked on.
`CreditAlwaysMatches`, `OnlyOneChance` and `RewardsAreSeen` follow. A step changes
no event that is there but for the cause of a birth (`EventsStay`), which carries
what was said of old events over to the next state.

*DeepMemoryProofs.* `MemoryInv` adds to the properties what a step can rely on: ids of
episodes and sources are in the past (`IdsPast`), so that the handle of a new episode
is nobody else's and an evicted id is never met again; what this consolidation has
promoted is kept already, though not yet reported; facts are not alike (`FactsApart`).
The operators are dealt with first, among them eviction (`RemoveAt`) and
the first fact that is alike. A merge
leaves the text of a fact alone, so its sources stay alike to it; a new fact is
appended because none is alike, so facts stay apart. Every step that allocates either has
room, and then the new handle is past all others, or leaves the record without one and the
arena full, which it stays. `MemoryTyped`, `HandlesLeadHome` and `PromotedStaysKnown`
follow for every capacity, also where Alike is not transitive.

## What is only model-checked, what is not modelled

* Liveness (`RunStops`, `ExplorationEnds`, `RunEnds`): TLAPS does neither fairness nor
  ENABLED. What they rest on is proved (the three theorems on finite runs, and that loop
  and exploration are never stuck); the last step, that a run which goes on and cannot go
  on for ever comes to its end, is TLC's on the instances. The first two do not promise
  an end to a run that stays inside a candidate's operator.
* `ResumesFromLastAccepted`, without the condition on cut runs: it is false, and a run
  shows it.
* Two known losses of the engine, which the properties except: `RuleKept` the duo-loop, which
  writes over a learned rule, `BestKept` fresh saves after a torn state file. The
  hazards name both.
* Of the tracker: the events of the algorithm environment, which have no cause and
  cause nothing, and two kinds of events the cycle never records.
* Text. Sources, tests and JSON are sets of items and names. What a generator
  writes, what an evaluator computes and how pytest's output is parsed are left
  out (`Collected` takes node ids as given).
* Ranking and self play order the candidates; every order is allowed but for the
  guarded ones. What a proxy scores, novelty and the results of seeds are left open.
* Swarm: that `Contradicted` and `ReconcileWall` take several statements in the code,
  which an exception in between would show only in a run that is given up; vocabularies, phases, resonance, decoding, the wire format of `protocol.py`,
  `swarm_serl.py`, and the hooks that only tests call.
* Engine: what evolution computes, `operators_lib.json` and the MAP-Elites files,
  parameters that evolution adapts itself, and the commands meta-meta, task-switch,
  transfer-bench, report and invention.
* The rest of `shared/` (encoders, learners, reasoning) and of the bridges (one call
  each), THDSE synthesis, decoding and projection (vector algebra, SMT), the virtual
  machine of omega_forge, experiment drivers, benchmarks and reports: data transformations
  without a protocol of their own, and most of the repository's lines.
* Two loops on one repository at once: no lock exists and none is modelled.
* The components in `PROJECT.json` with status `not_modelled`.

## Plan

Done: SourceTree, KeepOnlyGreen, PatchTransaction, ClosedLoop, Quarantine,
ProxyRetention; CausalChain, Emergence; WallBroadcast, Swarm; RsiEngine; proofs for
each of them. DeepMemory. Every safety property that a run checks has
its theorem. Given up: a Governance module, since no proposal of its levels can be
adopted.

Left, in this order:

1. The meta-meta and task-switch commands of the unified engine.
2. The moment between a proxy's judgment and its save in the composition of ClosedLoop and
   ProxyRetention, which are kept apart now.
