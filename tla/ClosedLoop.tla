----------------------------- MODULE ClosedLoop -----------------------------
(***************************************************************************)
(* ClosedRecursiveSelfImprovementLoop.run: generations of candidates drawn *)
(* from the tree and from the history, tried one by one by apply_candidate *)
(* (PatchTransaction), the history saved after each, over several runs of  *)
(* the process.  A run stops by itself, for the kill-switch file, for the  *)
(* wall clock, or is cut down anywhere (Crash).                            *)
(*                                                                         *)
(* The order in which a generation tries its candidates comes from ranking *)
(* scores and digests: it is left open.  active_generation and active_base *)
(* change only with "accepted", to its length and its last name: they are  *)
(* not kept apart.                                                         *)
(***************************************************************************)
EXTENDS PatchTransaction, SequencesExt

CONSTANTS
    SelfAuthored,   \* candidates of families invented from failure residue
    Proposes,       \* Proposes[h]: those a history h of failures proposes
    Explores,       \* those a quarantine exploration may bring a record of;
                    \*   {} under the conservative exploration_policy
    Persistence,    \* self.persistence
    MaxCandidates,  \* arguments of run
    MaxGenerations,
    MaxRuns,        \* bound: how often the process is started
    CanCrash        \* bound: whether it may be cut down

ASSUME ClosedLoopAssumption ==
    /\ SelfAuthored \subseteq Candidate
    /\ Proposes \in [SUBSET Candidate -> SUBSET SelfAuthored]
    /\ Proposes[{}] = {}
    /\ Explores \subseteq Candidate
    /\ Persistence \in BOOLEAN
    /\ MaxCandidates \in Nat
    /\ MaxGenerations \in Nat
    /\ MaxRuns \in Nat
    /\ CanCrash \in BOOLEAN

VARIABLES
    loop,       \* where run stands
    mem,        \* state, in memory
    disk,       \* closed_rsi_state.json
    offered,    \* candidates of this generation not tried yet
    budget,     \* how many of them may still be tried
    gensLeft,   \* generations left
    killSwitch, \* STOP_CLOSED_RSI exists
    expired,    \* wall_seconds have passed
    runs,       \* starts so far
    late,       \* history: promotions of this run since killSwitch was set
    drawn,      \* history: the failures this generation was invented from
    turned,     \* history: those it has turned down since
    harmed      \* history: a run was cut down where that left its mark

past == <<drawn, turned, harmed>>
loopVars == <<loop, mem, disk, offered, budget, gensLeft, runs, late, past>>
vars == <<patchVars, loopVars, killSwitch, expired>>

Empty == [accepted |-> <<>>, rejected |-> {}, explored |-> {}]

\* A file cut short while it was written, which json.loads cannot read.
Torn == [Empty EXCEPT !.accepted = <<NoCandidate>>]

History ==
    [accepted : Seq(Candidate), rejected : SUBSET Candidate,
     explored : SUBSET Candidate]

\* load_state: read_json answers an unreadable file with its default.
Load(file) == IF file = Torn THEN Empty ELSE file

\* failure_residue_history: rejected and quarantined records feed families.
Failures(state) == state.rejected \cup state.explored

Proposed(state) == Proposes[Failures(state)]

\* invent_candidates: the edits the tree does not have yet, and the families
\* that the failures so far suggest.
Offered ==
    {c \in Candidate :
        /\ tree[Target(c)] # Absent
        /\ ~(Adds[c] \subseteq tree[Target(c)])
        /\ c \in SelfAuthored => c \in Proposed(mem)}

\* capability_case_bank, called by the gates without a state: it reads disk.
CaseBank == Proposed(Load(disk))

\* Mutant of Saved: the loop breaks before an acceptance is saved.
SavedUnlessAccepted == IF Persistence /\ loop # "accepted" THEN mem ELSE disk

\* Mutant of Saved: only acceptances are worth a write.
SavedWhenAccepted == IF Persistence /\ loop = "accepted" THEN mem ELSE disk

\* save_state
Saved == IF Persistence THEN mem ELSE disk

LoopTypeOK ==
    /\ TypeOK
    /\ loop \in {"down", "generation", "candidate", "attempt", "accepted",
                 "rejected", "wrapup", "explored", "closing"}
    /\ step # "idle" => loop = "attempt"
    /\ mem \in History
    /\ disk \in History \cup {Torn}
    /\ offered \subseteq Candidate
    /\ budget \in 0 .. MaxCandidates
    /\ gensLeft \in 0 .. MaxGenerations
    /\ killSwitch \in BOOLEAN
    /\ expired \in BOOLEAN
    /\ runs \in 0 .. MaxRuns
    /\ late \in Nat
    /\ drawn \subseteq Candidate
    /\ turned \subseteq Candidate
    /\ harmed \in BOOLEAN

LoopInit ==
    /\ PatchInit
    /\ loop = "down"
    /\ mem = Empty
    /\ disk = Empty
    /\ offered = {}
    /\ budget = 0
    /\ gensLeft = 0
    /\ killSwitch = FALSE
    /\ expired = FALSE
    /\ runs = 0
    /\ late = 0
    /\ drawn = {}
    /\ turned = {}
    /\ harmed = FALSE

\* run is about to call save_state.
Saving == {"accepted", "rejected", "explored"}

\* What a write cut short leaves of the tree; unlink leaves nothing half done.
HalfWritten ==
    LET p == Files[cur][at]
    IN  IF step = "write" \/ (step = "restore" /\ orig[p] # Absent)
        THEN {[tree EXCEPT ![p] = {}]}
        ELSE {}

\* What was only in memory is gone with the process.
Forget ==
    /\ mem' = Empty
    /\ offered' = {}
    /\ budget' = 0
    /\ gensLeft' = 0
    /\ drawn' = {}
    /\ turned' = {}

(***************************************************************************)
(* The process.                                                            *)
(***************************************************************************)

Start ==
    /\ loop = "down"
    /\ runs < MaxRuns
    /\ loop' = "generation"
    /\ mem' = Load(disk)
    /\ gensLeft' = MaxGenerations
    /\ expired' = FALSE
    /\ runs' = runs + 1
    /\ late' = 0
    /\ UNCHANGED <<patchVars, disk, offered, budget, killSwitch, past>>

\* Mutant of Stopped: the kill switch is only looked at when a run ends.
StoppedByClock == expired

\* Asked at the top of each generation and before exploring, nowhere else.
Stopped == killSwitch \/ expired

NextGeneration ==
    /\ loop = "generation"
    /\ gensLeft > 0
    /\ ~Stopped
    /\ Offered # {}
    /\ loop' = "candidate"
    /\ offered' = Offered
    /\ drawn' = Failures(mem)
    /\ turned' = {}
    /\ budget' = MaxCandidates
    /\ gensLeft' = gensLeft - 1
    /\ UNCHANGED <<patchVars, mem, disk, killSwitch, expired, runs, late, harmed>>

\* Budget spent, stopped, or nothing left to invent.
Plateau ==
    /\ loop = "generation"
    /\ gensLeft = 0 \/ Stopped \/ Offered = {}
    /\ loop' = "wrapup"
    /\ UNCHANGED <<patchVars, mem, disk, offered, budget, gensLeft, killSwitch,
                   expired, runs, late, past>>

\* Mutant of MayTry: one candidate too many.
MayTryOneMore == offered # {}

\* candidates[:max_candidates] has another one.
MayTry == offered # {} /\ budget > 0

Attempt(c) ==
    /\ loop = "candidate"
    /\ MayTry
    /\ c \in offered
    /\ Begin(c)
    /\ loop' = "attempt"
    /\ offered' = offered \ {c}
    /\ budget' = budget - 1
    /\ UNCHANGED <<mem, disk, gensLeft, killSwitch, expired, runs, late, past>>

\* Mutant of Exhausted: the loop waits for candidates it may not try.
NoneOffered == offered = {}

Exhausted == offered = {} \/ budget = 0

NoPromotion ==
    /\ loop = "candidate"
    /\ Exhausted
    /\ loop' = "wrapup"
    /\ UNCHANGED <<patchVars, mem, disk, offered, budget, gensLeft, killSwitch,
                   expired, runs, late, past>>

\* apply_candidate at work.
Work ==
    /\ loop = "attempt"
    /\ PatchStep
    /\ UNCHANGED <<loopVars, killSwitch, expired>>

\* self_authored_task_gate: a family without cases is turned down.
PassDiagnostics ==
    /\ loop = "attempt"
    /\ DiagnosticsPass
    /\ cur \in SelfAuthored => cur \in CaseBank
    /\ UNCHANGED <<loopVars, killSwitch, expired>>

\* The record of apply_candidate, appended before save_state is called.
RecordAccepted ==
    /\ loop = "attempt"
    /\ verdict = "accepted"
    /\ Return
    /\ loop' = "accepted"
    /\ mem' = [mem EXCEPT !.accepted = Append(@, cur)]
    /\ late' = IF killSwitch THEN late + 1 ELSE late
    /\ UNCHANGED <<disk, offered, budget, gensLeft, killSwitch, expired, runs, past>>

RecordRejected ==
    /\ loop = "attempt"
    /\ verdict = "rejected"
    /\ Return
    /\ loop' = "rejected"
    /\ turned' = turned \cup {cur}
    /\ mem' = [mem EXCEPT !.rejected = @ \cup {cur}]
    /\ UNCHANGED <<disk, offered, budget, gensLeft, killSwitch, expired, runs,
                   late, drawn, harmed>>

\* run_quarantine_exploration: the tree it works on is a copy.
Explore ==
    /\ loop = "wrapup"
    /\ ~Stopped
    /\ \E found \in SUBSET Explores \ {{}} :
          mem' = [mem EXCEPT !.explored = @ \cup found]
    /\ loop' = "explored"
    /\ UNCHANGED <<patchVars, disk, offered, budget, gensLeft, killSwitch,
                   expired, runs, late, past>>

\* After a promotion the next generation, after a rejection the next
\* candidate, after exploring the summary, which nothing reads again.
Save ==
    /\ loop \in Saving
    /\ disk' = Saved
    /\ loop' = CASE loop = "accepted" -> "generation"
                 [] loop = "rejected" -> "candidate"
                 [] loop = "explored" -> "closing"
    /\ UNCHANGED <<patchVars, mem, offered, budget, gensLeft, killSwitch,
                   expired, runs, late, past>>

Finish ==
    /\ loop \in {"wrapup", "closing"}
    /\ loop' = "down"
    /\ Forget
    /\ UNCHANGED <<patchVars, disk, killSwitch, expired, runs, late, harmed>>

\* Where it cannot be cut down without a trace: files are written or not yet
\* judged, or judged and the acceptance not saved.
Exposed ==
    \/ step \in {"write", "recollect", "diagnose", "suite", "restore"}
    \/ verdict = "accepted"
    \/ loop = "accepted"

\* The process is killed or interrupted, or an exception leaves run: one that
\* "except Exception" does not catch (KeyboardInterrupt), one raised by the
\* rollback itself, or one raised by the delayed proxy evaluation between an
\* acceptance and its save.  The file being written may be cut short.
Crash ==
    /\ CanCrash
    /\ loop # "down"
    /\ tree' \in {tree} \cup HalfWritten
    /\ disk' \in {disk} \cup (IF loop \in Saving /\ Persistence THEN {Torn} ELSE {})
    /\ harmed' = (harmed \/ Exposed \/ disk' = Torn)
    /\ step' = "idle"
    /\ cur' = NoCandidate
    /\ at' = 1
    /\ orig' = Tree0
    /\ before' = {}
    /\ verdict' = "none"
    /\ base' = tree'
    /\ loop' = "down"
    /\ Forget
    /\ UNCHANGED <<killSwitch, expired, runs, late>>

(***************************************************************************)
(* Its surroundings.                                                       *)
(***************************************************************************)

DropKillSwitch ==
    /\ ~killSwitch
    /\ killSwitch' = TRUE
    /\ late' = 0
    /\ UNCHANGED <<patchVars, loop, mem, disk, offered, budget, gensLeft,
                   expired, runs, past>>

LiftKillSwitch ==
    /\ killSwitch
    /\ killSwitch' = FALSE
    /\ late' = 0
    /\ UNCHANGED <<patchVars, loop, mem, disk, offered, budget, gensLeft,
                   expired, runs, past>>

Expire ==
    /\ loop # "down"
    /\ ~expired
    /\ expired' = TRUE
    /\ UNCHANGED <<patchVars, loopVars, killSwitch>>

\* What a run does by itself once it is started.
RunStep ==
    \/ NextGeneration \/ Plateau
    \/ \E c \in Candidate : Attempt(c)
    \/ NoPromotion \/ Work \/ PassDiagnostics
    \/ RecordAccepted \/ RecordRejected
    \/ Explore \/ Save \/ Finish

Next ==
    \/ Start \/ RunStep \/ Crash
    \/ DropKillSwitch \/ LiftKillSwitch \/ Expire

Spec == LoopInit /\ [][Next]_vars

\* The loop's own process is running operators that a candidate defines: in
\* the capability gates, in the delayed proxy evaluation after an acceptance,
\* or in those of an exploration.
InCandidate ==
    \/ Evaluating
    \/ loop = "accepted" /\ Last(mem.accepted) \in Evaluated
    \/ loop = "wrapup" /\ Explores \cap Evaluated # {}

\* Everything else run waits for returns: its own code does, and a gate's
\* process is cut off at timeout_s.
FairSpec == Spec /\ WF_vars(RunStep /\ ~InCandidate)

-----------------------------------------------------------------------------
(***************************************************************************)
(* Properties.                                                             *)
(***************************************************************************)

\* The tree that a history of acceptances makes out of the first one.
Replay(accepted) ==
    LET after[i \in 0 .. Len(accepted)] ==
            IF i = 0 THEN Tree0 ELSE Apply(accepted[i], after[i - 1])
    IN  after[Len(accepted)]

\* Between runs the tree is exactly what the saved history says was accepted,
\* however many candidates were tried, rejected and rolled back, and also
\* where runs were cut down, unless while files were written, restored or not
\* yet judged, or while an acceptance or the file of the history was saved.
ResumesUnlessHarmed ==
    loop = "down" /\ ~harmed => tree = Replay(Load(disk).accepted)

\* The same however the runs ended, as README.md says it: the next run
\* continues from the last accepted version.
ResumesFromLastAccepted ==
    loop = "down" => tree = Replay(Load(disk).accepted)

\* Between candidates the suite passes, and it still collects the tests that
\* any accepted candidate came with, those of candidates that later ones
\* overwrite, extend or build on included; a run cut down over a written but
\* not yet judged file is the exception.
AcceptedTestsSurvive ==
    step = "idle" /\ ~harmed =>
        /\ Green(tree)
        /\ \A c \in ToSet(mem.accepted) :
              Source[c][TestPath(c)] \cap Test \subseteq Collected(tree)

\* The gates read the failures on disk, not those that a candidate's family
\* was invented from.  While a candidate is judged, the ones on disk are those
\* its generation was drawn from and those it has turned down since, and no
\* others, whatever runs left in the file and however they were cut down: only
\* rejections of its own generation can rename a family away from its cases.
CasesFollowDraw ==
    loop = "attempt" /\ Persistence => Failures(Load(disk)) = drawn \cup turned

\* Setting the kill switch lets at most the generation at work promote.
StopBounded == killSwitch => late <= 1

\* A dry run neither writes to the tree nor accepts anything.
DryRunPromotesNothing ==
    DryRun => tree = Tree0 /\ Load(disk).accepted = <<>>

\* Every run comes to its end, whatever is drawn, kept and turned down, unless
\* it stays for ever inside the code of a candidate it evaluates.
RunStops == <>[]InCandidate \/ (loop # "down" ~> loop = "down")
=============================================================================
