--------------------------- MODULE ProxyRetention ---------------------------
(***************************************************************************)
(* Open-ended proxies of the closed loop (run, proxy_objectives.py): each  *)
(* generation invents a proxy objective and ranks its candidates by it.    *)
(* When a candidate is accepted, the candidate is scored on two seeds that *)
(* the ranking has not seen, and on them the proxy is judged against the   *)
(* one retained so far.  The retained proxy, the events of its promotion,  *)
(* and the behavior archive, from which proxies get their identity, are    *)
(* part of the history that is saved after every attempt.                  *)
(*                                                                         *)
(* Gates and tree are those of ClosedLoop; here an attempt is accepted or  *)
(* not, and the generators may offer any candidates.  Digests are taken to *)
(* be injective: the id of a proxy is what it is a digest of.  Of rejected *)
(* and explored records and of the archive only their number matters.      *)
(***************************************************************************)
EXTENDS Naturals, Sequences, FiniteSets

CONSTANTS
    Candidate,
    Guarded,        \* candidates the immutable guard has findings for
    Past,           \* candidates accepted before there was an archive
    MaxTasks,       \* max_tasks of propose_self_play_tasks
    MaxCandidates, MaxGenerations,      \* budgets of a run
    MaxScore, MaxExplored, MaxRuns, MaxCrashes,     \* bounds
    NoProxy, Torn

ASSUME RetentionAssumption ==
    /\ Guarded \subseteq Candidate
    /\ Past \in Seq(Candidate)
    /\ MaxTasks \in Nat
    /\ MaxCandidates \in Nat /\ MaxGenerations \in Nat
    /\ MaxScore \in Nat /\ MaxExplored \in Nat
    /\ MaxRuns \in Nat /\ MaxCrashes \in Nat

Scores == 0 .. MaxScore

\* proxies[0], by what its id is made of: archived is len(archive.signatures),
\* records is state_size.
Proxies == [generation : Nat, archived : Nat, tasks : 1 .. MaxTasks, records : Nat]

\* The two halves of a digest of the proxy's id and the favored candidate.
SeedLabels == [proxy : Proxies, favored : Candidate, half : 1 .. 2]

\* Mutant of Labels: the seeds are derived from the candidate alone.
LabelsOfCandidate(p, c) == [proxy : {NoProxy}, favored : {c}, half : 1 .. 2]

Labels(p, c) == [proxy : {p}, favored : {c}, half : 1 .. 2]

\* ground_truth_seed_results, the two in the order of the labels.
Results == [1 .. 2 -> Scores]

Retained ==
    [proxy : Proxies, results : Results, generation : Nat, favored : Candidate]

\* An entry of proxy_promotion_events.
Events == [proxy : Proxies, results : Results]

\* closed_rsi_state.json, as far as it matters here.
Histories ==
    [accepted : Seq(Candidate), rejected : Nat, explored : Nat, archive : Nat,
     retained : Retained \cup {NoProxy}, events : Seq(Events)]

ASSUME MarkersAssumption ==
    /\ NoProxy \notin Retained
    /\ Torn \notin Histories

VARIABLES
    pc,         \* where run stands
    mem, disk,  \* the history in memory and in the state file
    proxy,      \* selected_proxy
    untried,    \* the candidates offered and not yet attempted
    budget,     \* of max_candidates
    left,       \* generations to go
    favored,    \* the candidate accepted
    results,    \* of its delayed evaluation
    runs, crashes,
    consulted   \* history: labels of the judgments on disk

process == <<proxy, untried, budget, left, favored, results>>
vars == <<pc, mem, disk, process, runs, crashes, consulted>>

-----------------------------------------------------------------------------
History(accepted) ==
    [accepted |-> accepted, rejected |-> 0, explored |-> 0, archive |-> 0,
     retained |-> NoProxy, events |-> <<>>]

StateSize(h) == Len(h.accepted) + h.rejected + h.explored

\* BehaviorArchive.from_state: without signatures, one per record.
Archived(h) == IF h.archive = 0 THEN StateSize(h) ELSE h.archive

\* active_generation grows with every acceptance and with nothing else.
NextGenerationOf(h) == Len(h.accepted) + 1

Invented(h, tasks) ==
    [generation |-> NextGenerationOf(h), archived |-> Archived(h),
     tasks |-> tasks, records |-> StateSize(h)]

\* Mutant of Promoted: a seed the old proxy was not scored on counts as 0.
PromotedOnMissing(old) ==
    \A half \in 1 .. 2 :
        IF old # NoProxy /\ Labels(proxy, favored) \subseteq Labels(old.proxy, old.favored)
        THEN results[half] > old.results[half]
        ELSE results[half] > 0

\* judge_proxy_promotion.  The first proxy must beat zero on both seeds.  Any
\* other must beat the retained one on the seeds of its own judgment, and the
\* retained one must have been scored on these.
Promoted(old) ==
    \/ old = NoProxy /\ \A half \in 1 .. 2 : results[half] > 0
    \/ /\ old # NoProxy
       /\ Labels(proxy, favored) \subseteq Labels(old.proxy, old.favored)
       /\ \A half \in 1 .. 2 : results[half] > old.results[half]

\* Mutant of Judged: the generation noted is the active one, not the new one.
JudgedBeforeActive(h) ==
    LET kept == [h EXCEPT
            !.retained = [proxy |-> proxy, results |-> results,
                          generation |-> Len(h.accepted), favored |-> favored],
            !.events = Append(@, [proxy |-> proxy, results |-> results])]
        next == IF Promoted(h.retained) THEN kept ELSE h
    IN  [next EXCEPT !.accepted = Append(@, favored)]

\* The history with the judgment and the candidate that brought it about.
Judged(h) ==
    LET kept == [h EXCEPT
            !.retained = [proxy |-> proxy, results |-> results,
                          generation |-> proxy.generation, favored |-> favored],
            !.events = Append(@, [proxy |-> proxy, results |-> results])]
        next == IF Promoted(h.retained) THEN kept ELSE h
    IN  [next EXCEPT !.accepted = Append(@, favored)]

Init ==
    /\ pc = "idle"
    /\ disk = History(Past)
    /\ mem = History(<<>>)
    /\ proxy = NoProxy
    /\ untried = {}
    /\ budget = 0 /\ left = 0
    /\ favored = NoProxy
    /\ results = NoProxy
    /\ runs = 0 /\ crashes = 0
    /\ consulted = {}

\* What the generation worked with is not looked at again.
Forget ==
    /\ proxy' = NoProxy
    /\ untried' = {}
    /\ budget' = 0
    /\ favored' = NoProxy
    /\ results' = NoProxy

\* The process ends; what it had in memory is gone.
Exit ==
    /\ pc' = "idle"
    /\ mem' = History(<<>>)
    /\ left' = 0
    /\ Forget

\* Mutant of Loaded: the file is taken for what it should be.
LoadedAsIs == disk

\* load_state: a file that cannot be read is an empty history.
Loaded == IF disk = Torn THEN History(<<>>) ELSE disk

Start ==
    /\ pc = "idle"
    /\ runs < MaxRuns
    /\ runs' = runs + 1
    /\ mem' = Loaded
    /\ left' = MaxGenerations
    /\ pc' = "generation"
    /\ UNCHANGED <<disk, proxy, untried, budget, favored, results, crashes, consulted>>

\* The candidates of a generation and the proxy that will rank them.
Rank(offered, tasks) ==
    /\ pc = "generation"
    /\ left > 0
    /\ offered # {}
    /\ proxy' = Invented(mem, tasks)
    /\ untried' = offered
    /\ budget' = MaxCandidates
    /\ left' = left - 1
    /\ pc' = "candidate"
    /\ UNCHANGED <<mem, disk, favored, results, runs, crashes, consulted>>

\* Guarded candidates rank behind all others.
MayAttempt(c) ==
    /\ pc = "candidate"
    /\ budget > 0
    /\ c \in untried
    /\ c \in Guarded => untried \subseteq Guarded

\* Its signatures, one per task, are in the archive before its verdict is known.
Signed == [mem EXCEPT !.archive = @ + proxy.tasks]

Reject(c) ==
    /\ MayAttempt(c)
    /\ mem' = [Signed EXCEPT !.rejected = @ + 1]
    /\ untried' = untried \ {c}
    /\ budget' = budget - 1
    /\ pc' = "save rejected"
    /\ UNCHANGED <<disk, proxy, left, favored, results, runs, crashes, consulted>>

Accept(c) ==
    /\ MayAttempt(c)
    /\ c \notin Guarded
    /\ mem' = Signed
    /\ favored' = c
    /\ untried' = untried \ {c}
    /\ budget' = budget - 1
    /\ pc' = "delayed"
    /\ UNCHANGED <<disk, proxy, left, results, runs, crashes, consulted>>

\* delayed_proxy_ground_truth_results; what the seeds bring is left open.
Evaluate ==
    /\ pc = "delayed"
    /\ results' \in Results
    /\ pc' = "judge"
    /\ UNCHANGED <<mem, disk, proxy, untried, budget, left, favored, runs, crashes,
                   consulted>>

Judge ==
    /\ pc = "judge"
    /\ mem' = Judged(mem)
    /\ pc' = "save accepted"
    /\ UNCHANGED <<disk, process, runs, crashes, consulted>>

\* save_state after a rejection: the next candidate of the generation.
SaveRejected ==
    /\ pc = "save rejected"
    /\ disk' = mem
    /\ pc' = "candidate"
    /\ UNCHANGED <<mem, process, runs, crashes, consulted>>

\* save_state after an acceptance, which ends the generation.
SaveAccepted ==
    /\ pc = "save accepted"
    /\ disk' = mem
    /\ consulted' = consulted \cup Labels(proxy, favored)
    /\ pc' = "generation"
    /\ Forget
    /\ UNCHANGED <<mem, left, runs, crashes>>

\* The last generation, one without candidates, or one without a promotion.
LastGeneration ==
    /\ \/ pc = "generation"
       \/ pc = "candidate" /\ (budget = 0 \/ untried = {})
    /\ pc' = "explore"
    /\ left' = 0
    /\ Forget
    /\ UNCHANGED <<mem, disk, runs, crashes, consulted>>

\* The records of the quarantine leave no signatures.
Explore(n) ==
    /\ pc = "explore"
    /\ mem' = [mem EXCEPT !.explored = @ + n]
    /\ pc' = "save explored"
    /\ UNCHANGED <<disk, process, runs, crashes, consulted>>

SaveExplored ==
    /\ pc = "save explored"
    /\ disk' = mem
    /\ pc' = "explored"
    /\ UNCHANGED <<mem, process, runs, crashes, consulted>>

\* The run returns: stopped before a generation, without exploring, or after.
Finish ==
    /\ pc \in {"generation", "explore", "explored"}
    /\ Exit
    /\ UNCHANGED <<disk, runs, crashes, consulted>>

\* A kill, or an exception of the delayed evaluation, which no try is around.
Crash ==
    /\ pc # "idle"
    /\ crashes < MaxCrashes
    /\ crashes' = crashes + 1
    /\ Exit
    /\ \/ UNCHANGED <<disk, consulted>>
       \/ /\ pc \in {"save rejected", "save accepted", "save explored"}
          /\ disk' = Torn
          /\ consulted' = {}
    /\ UNCHANGED runs

Next ==
    \/ Start
    \/ \E offered \in SUBSET Candidate, tasks \in 1 .. MaxTasks : Rank(offered, tasks)
    \/ \E c \in Candidate : Reject(c) \/ Accept(c)
    \/ Evaluate \/ Judge
    \/ SaveRejected \/ SaveAccepted \/ SaveExplored
    \/ LastGeneration
    \/ \E n \in 1 .. MaxExplored : Explore(n)
    \/ Finish \/ Crash

Spec == Init /\ [][Next]_vars
-----------------------------------------------------------------------------
Running == {"generation", "candidate", "save rejected", "delayed", "judge",
            "save accepted", "explore", "save explored", "explored"}

\* Where the candidates of the proxy are being tried and judged.
Ranked == {"candidate", "save rejected", "delayed", "judge", "save accepted"}

RetentionTypeOK ==
    /\ pc \in {"idle"} \cup Running
    /\ mem \in Histories
    /\ disk \in Histories \cup {Torn}
    /\ proxy \in Proxies \cup {NoProxy}
    /\ pc \in Ranked => proxy \in Proxies
    /\ untried \subseteq Candidate
    /\ budget \in Nat /\ left \in Nat
    /\ favored \in Candidate \cup {NoProxy}
    /\ pc \in {"delayed", "judge", "save accepted"} => favored \in Candidate
    /\ pc \in {"judge", "save accepted"} => results \in Results
    /\ runs \in Nat /\ crashes \in Nat

(***************************************************************************)
(* Backing: the retained proxy of a history was promoted in the generation *)
(* it names, for the candidate accepted there, on seeds of its own that    *)
(* brought something, and the last event is that promotion.                *)
(***************************************************************************)
Backed(h) ==
    h.retained # NoProxy =>
        LET r == h.retained IN
        /\ r.generation \in DOMAIN h.accepted
        /\ h.accepted[r.generation] = r.favored
        /\ r.proxy.generation = r.generation
        /\ \A half \in 1 .. 2 : r.results[half] > 0
        /\ Len(h.events) > 0
        /\ h.events[Len(h.events)] = [proxy |-> r.proxy, results |-> r.results]

(***************************************************************************)
(* The state file never holds a retained proxy without the acceptance it   *)
(* came from: the two are made in memory one after the other and saved at  *)
(* once, crashes between them included.                                    *)
(***************************************************************************)
RetainedBacked == disk # Torn => Backed(disk)

(***************************************************************************)
(* "Two deterministic held-out seed labels unused": the seeds on which a   *)
(* proxy is about to be judged are none of those of a judgment on disk,    *)
(* though runs start again in the generation where others left off.        *)
(***************************************************************************)
SeedsUnseen ==
    pc = "delayed" => Labels(proxy, favored) \cap consulted = {}

(***************************************************************************)
(* The plateau of judge_proxy_promotion: as long as the file stays         *)
(* readable a proxy once retained is retained for good, whatever later     *)
(* proxies bring, because each is judged on seeds of its own for which the *)
(* retained one has no results.                                            *)
(***************************************************************************)
RetainedForGood ==
    [][disk # Torn /\ disk' # Torn /\ disk.retained # NoProxy
       => disk'.retained = disk.retained]_vars
=============================================================================
