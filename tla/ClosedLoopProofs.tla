-------------------------- MODULE ClosedLoopProofs --------------------------
(***************************************************************************)
(* ClosedLoop, proved for every set of candidates and every budget.  With  *)
(* crashes: the transaction's invariant, the case bank, the kill switch,   *)
(* dry runs; that no accepted test is ever lost, and that a new run starts *)
(* from the tree that the saved history makes, as long as no run was cut   *)
(* down where that leaves its mark.  Without: the loop is a sequence of    *)
(* transactions, so it implements KeepOnlyGreen.  In any case a run gets   *)
(* nearer to its end with every step and is never stuck.                   *)
(***************************************************************************)
EXTENDS ClosedLoop, PatchTransactionProofs

(***************************************************************************)
(* The inductive invariant, beyond that of the transaction.                *)
(***************************************************************************)

Flags == killSwitch \in BOOLEAN /\ expired \in BOOLEAN /\ harmed \in BOOLEAN

LoopState ==
    /\ loop \in {"down", "generation", "candidate", "attempt", "accepted",
                 "rejected", "wrapup", "explored", "closing"}
    /\ step # "idle" => loop = "attempt"
    /\ mem \in History
    /\ disk \in History \cup {Torn}
    /\ offered \subseteq Candidate
    /\ budget \in 0 .. MaxCandidates
    /\ gensLeft \in 0 .. MaxGenerations
    /\ Flags
    /\ runs \in 0 .. MaxRuns
    /\ late \in Nat
    /\ drawn \subseteq Candidate
    /\ turned \subseteq Candidate

\* Memory is ahead of the disk only between a record and its save.
InSync ==
    loop \notin Saving \cup {"down"} /\ Persistence => Load(disk) = mem

\* After a promotion the switch is looked at before another candidate is.
StopsSoon ==
    killSwitch =>
        /\ late <= 1
        /\ loop \in {"candidate", "attempt", "rejected"} => late = 0

NothingAccepted ==
    DryRun => mem.accepted = <<>> /\ Load(disk).accepted = <<>>

\* Only its own rejections add to the failures a generation was drawn from.
DrawnFrom ==
    loop \in {"candidate", "attempt", "rejected"} =>
        Failures(mem) = drawn \cup turned

LoopInv ==
    /\ PatchInv
    /\ LoopState
    /\ InSync
    /\ StopsSoon
    /\ NothingAccepted
    /\ DrawnFrom

-----------------------------------------------------------------------------

\* Histories, and the unreadable file which is none.
LEMMA HistoryFacts ==
    /\ Empty \in History
    /\ Torn \notin History
    /\ \A file \in History : Load(file) = file
    /\ Load(Torn) = Empty
    /\ \A file \in History \cup {Torn} : Load(file) \in History
<1>1. Empty \in History
  BY DEF Empty, History
<1>2. Torn \notin History
  <2>1. Torn.accepted = <<NoCandidate>>
    BY DEF Torn, Empty
  <2>2. <<NoCandidate>>[1] = NoCandidate /\ 1 \in 1 .. Len(<<NoCandidate>>)
    OBVIOUS
  <2>3. <<NoCandidate>> \notin Seq(Candidate)
    BY <2>2, PatchTransactionAssumption
  <2> QED
    BY <2>1, <2>3 DEF History
<1> QED
  BY <1>1, <1>2 DEF Load

LEMMA RecordFacts ==
    ASSUME NEW h \in History, NEW c \in Candidate
    PROVE  /\ [h EXCEPT !.accepted = Append(@, c)] \in History
           /\ [h EXCEPT !.rejected = @ \cup {c}] \in History
           /\ [h EXCEPT !.accepted = Append(@, c)].accepted = Append(h.accepted, c)
           /\ [h EXCEPT !.rejected = @ \cup {c}].accepted = h.accepted
<1> DEFINE longer == Append(h.accepted, c)
<1>1. h.accepted \in Seq(Candidate)
  BY DEF History
<1>2. longer \in Seq(Candidate)
  BY <1>1
<1> HIDE DEF longer
<1>3. /\ [h EXCEPT !.accepted = longer] \in History
      /\ [h EXCEPT !.accepted = longer].accepted = longer
  BY <1>2 DEF History
<1>4. /\ [h EXCEPT !.rejected = @ \cup {c}] \in History
      /\ [h EXCEPT !.rejected = @ \cup {c}].accepted = h.accepted
  BY DEF History
<1> QED
  BY <1>3, <1>4 DEF longer

LEMMA FrameInv ==
    ASSUME PatchInv, UNCHANGED patchVars
    PROVE  PatchInv'
BY NextInv

LEMMA LoopInitInv == LoopInit => LoopInv
<1> SUFFICES ASSUME LoopInit PROVE LoopInv
  OBVIOUS
<1>1. PatchInv
  BY InitInv DEF LoopInit
<1>2. step = "idle" /\ Load(disk) = Empty
  BY HistoryFacts DEF LoopInit, PatchInit
<1>3. LoopState
  <2>1. Flags
    BY Zenon DEF LoopInit, Flags
  <2> QED
    BY <2>1, <1>2, HistoryFacts, ClosedLoopAssumption DEF LoopInit, LoopState
<1>4. InSync /\ StopsSoon /\ NothingAccepted /\ DrawnFrom
  BY <1>2 DEF LoopInit, InSync, DrawnFrom, StopsSoon, NothingAccepted, Empty
<1> QED
  BY <1>1, <1>3, <1>4 DEF LoopInv

LEMMA StartInv == LoopInv /\ Start => LoopInv'
<1> SUFFICES ASSUME LoopInv, Start PROVE LoopInv'
  OBVIOUS
<1> USE DEF LoopInv, Start
<1>1. PatchInv'
  BY FrameInv
<1>2. Load(disk) \in History
  BY HistoryFacts DEF LoopState
<1>3. Flags'
  BY DEF LoopState, Flags, past
<1>4. LoopState'
  BY <1>2, <1>3, ClosedLoopAssumption DEF LoopState, patchVars, past
<1> QED
  BY <1>1, <1>4 DEF InSync, DrawnFrom, StopsSoon, NothingAccepted, past,
     Saving, Load

LEMMA NextGenerationInv == LoopInv /\ NextGeneration => LoopInv'
<1> SUFFICES ASSUME LoopInv, NextGeneration PROVE LoopInv'
  OBVIOUS
<1> USE DEF LoopInv, NextGeneration
<1>1. PatchInv'
  BY FrameInv
<1>2. Offered \subseteq Candidate /\ Failures(mem) \subseteq Candidate
  BY DEF Offered, Failures, LoopState, History
<1>3. LoopState'
  BY <1>2, ClosedLoopAssumption DEF past, Flags, LoopState, patchVars
<1> QED
  BY <1>1, <1>3 DEF InSync, DrawnFrom, StopsSoon, NothingAccepted, past,
     Saving, Stopped, Load

\* The steps that only move on to the end of the run.
LEMMA WindDownInv == LoopInv /\ (Plateau \/ NoPromotion \/ Finish) => LoopInv'
<1> SUFFICES ASSUME LoopInv, Plateau \/ NoPromotion \/ Finish PROVE LoopInv'
  OBVIOUS
<1> USE DEF LoopInv
<1>1. UNCHANGED patchVars
  BY DEF Plateau, NoPromotion, Finish
<1>2. PatchInv'
  BY <1>1, FrameInv
<1>3. LoopState'
  BY <1>1, HistoryFacts, ClosedLoopAssumption DEF past, Flags, LoopState, patchVars, Plateau, NoPromotion, Finish, Forget
<1>4. Empty.accepted = <<>>
  BY DEF Empty
<1> QED
  BY <1>2, <1>3, <1>4 DEF InSync, DrawnFrom, StopsSoon, NothingAccepted,
     past, Saving, Load, Plateau, NoPromotion, Finish, Forget

LEMMA AttemptInv ==
    ASSUME LoopInv, NEW c \in Candidate, Attempt(c)
    PROVE  LoopInv'
<1> USE DEF LoopInv, Attempt
<1>1. PatchInv'
  BY BeginInv
<1>2. LoopState'
  BY ClosedLoopAssumption DEF past, Flags, LoopState, MayTry, Begin
<1> QED
  BY <1>1, <1>2 DEF InSync, DrawnFrom, StopsSoon, NothingAccepted, past,
     Saving, Load

\* apply_candidate at work leaves the loop's own state alone.
LEMMA WorkInv == LoopInv /\ (Work \/ PassDiagnostics) => LoopInv'
<1> SUFFICES ASSUME LoopInv, Work \/ PassDiagnostics PROVE LoopInv'
  OBVIOUS
<1> USE DEF LoopInv
<1>1. PatchNext /\ loop = "attempt" /\ UNCHANGED <<loopVars, killSwitch, expired>>
  BY DEF Work, PassDiagnostics, PatchNext
<1>2. PatchInv'
  BY <1>1, NextInv
<1> QED
  BY <1>1, <1>2 DEF loopVars, Flags, LoopState, InSync, DrawnFrom, StopsSoon,
     NothingAccepted, past, Saving, Load

LEMMA RecordAcceptedInv == LoopInv /\ RecordAccepted => LoopInv'
<1> SUFFICES ASSUME LoopInv, RecordAccepted PROVE LoopInv'
  OBVIOUS
<1> USE DEF LoopInv, RecordAccepted
<1>1. PatchInv'
  BY ReturnInv
<1>2. cur \in Candidate /\ step' = "idle"
  BY DEF PatchInv, TypeOK, Verdicts, Return
<1>3. mem' \in History
  BY <1>2, RecordFacts DEF LoopState
<1>4. LoopState'
  BY <1>2, <1>3 DEF past, Flags, LoopState
<1>5. ~DryRun
  BY DEF PatchInv, Verdicts
<1> QED
  BY <1>1, <1>4, <1>5 DEF InSync, DrawnFrom, StopsSoon, NothingAccepted,
     past, Saving, LoopState

LEMMA RecordRejectedInv == LoopInv /\ RecordRejected => LoopInv'
<1> SUFFICES ASSUME LoopInv, RecordRejected PROVE LoopInv'
  OBVIOUS
<1> USE DEF LoopInv, RecordRejected
<1>1. PatchInv'
  BY ReturnInv
<1>2. cur \in Candidate /\ step' = "idle"
  BY DEF PatchInv, TypeOK, Verdicts, Return
<1>3. mem' \in History /\ mem'.accepted = mem.accepted
  BY <1>2, RecordFacts DEF LoopState
<1>4. LoopState'
  BY <1>2, <1>3 DEF past, Flags, LoopState
<1>5. DrawnFrom'
  <2>1. mem'.rejected = mem.rejected \cup {cur} /\ mem'.explored = mem.explored
    BY DEF LoopState, History
  <2> QED
    BY <2>1 DEF DrawnFrom, PatchInv, Verdicts, Failures
<1> QED
  BY <1>1, <1>3, <1>4, <1>5 DEF InSync, StopsSoon, NothingAccepted, Saving, Load

LEMMA ExploreInv == LoopInv /\ Explore => LoopInv'
<1> SUFFICES ASSUME LoopInv, Explore PROVE LoopInv'
  OBVIOUS
<1> USE DEF LoopInv, Explore
<1>1. PatchInv'
  BY FrameInv
<1>2. PICK found \in SUBSET Explores : mem' = [mem EXCEPT !.explored = @ \cup found]
  OBVIOUS
<1>3. mem' \in History /\ mem'.accepted = mem.accepted
  BY <1>2, ClosedLoopAssumption DEF LoopState, History
<1>4. LoopState'
  BY <1>3 DEF past, Flags, LoopState, patchVars
<1> QED
  BY <1>1, <1>3, <1>4 DEF InSync, DrawnFrom, StopsSoon, NothingAccepted,
     past, Saving, Load

LEMMA SaveInv == LoopInv /\ Save => LoopInv'
<1> SUFFICES ASSUME LoopInv, Save PROVE LoopInv'
  OBVIOUS
<1> USE DEF LoopInv, Save
<1>1. PatchInv'
  BY FrameInv
<1>2. LoopState'
  BY DEF past, Flags, LoopState, patchVars, Saving, Saved
<1>3. Persistence => Load(disk') = mem
  BY HistoryFacts DEF LoopState, Saved
<1>4. DryRun => Load(disk').accepted = <<>>
  BY <1>3 DEF NothingAccepted, Saved
<1> QED
  BY <1>1, <1>2, <1>3, <1>4 DEF InSync, DrawnFrom, StopsSoon,
     NothingAccepted, past, Saving, Load

\* Wherever the process is cut down, what is left is a tree some candidate was
\* being written to, and a file that load_state can live with.
LEMMA CrashInv == LoopInv /\ Crash => LoopInv'
<1> SUFFICES ASSUME LoopInv, Crash PROVE LoopInv'
  OBVIOUS
<1> USE DEF LoopInv, Crash
<1>1. tree \in Tree
  BY DEF PatchInv, TypeOK
<1>2. ASSUME tree' # tree
      PROVE  /\ step \in {"write", "restore"}
             /\ tree' = [tree EXCEPT ![Files[cur][at]] = {}]
             /\ Files[cur][at] \in Touched(cur)
             /\ Files[cur][at] \in Path
  <2>1. step \in {"write", "restore"} /\ tree' = [tree EXCEPT ![Files[cur][at]] = {}]
    BY <1>2 DEF HalfWritten
  <2>2. cur \in Candidate /\ at \in 1 .. Len(Files[cur])
    BY <2>1 DEF PatchInv, TypeOK
  <2> QED
    BY <2>1, <2>2, FilesFacts
<1>3. tree' \in Tree
  BY <1>1, <1>2 DEF Tree, File
<1>4. harmed' \in BOOLEAN
  BY Zenon
<1>5. DryRun => tree' = Tree0
  BY <1>2 DEF PatchInv, Verdicts, Patching
<1>6. PatchInv'
  <2>1. TypeOK'
    BY <1>3, TreeFacts DEF TypeOK, Steps
  <2> QED
    BY <1>5, <2>1 DEF PatchInv, Remembers, StaysInside, Progress,
       Superset, Verdicts, RollbackIsExact, PromotionIsWhole, Screening, Patching
<1>7. LoopState'
  BY <1>4, HistoryFacts, ClosedLoopAssumption DEF past, Flags, LoopState, Forget
<1>8. DryRun => Load(disk').accepted = <<>>
  BY HistoryFacts DEF NothingAccepted, Empty
<1> QED
  BY <1>6, <1>7, <1>8 DEF InSync, DrawnFrom, StopsSoon, NothingAccepted,
     past, Forget, Empty

LEMMA SurroundingsInv ==
    LoopInv /\ (DropKillSwitch \/ LiftKillSwitch \/ Expire) => LoopInv'
<1> SUFFICES ASSUME LoopInv, DropKillSwitch \/ LiftKillSwitch \/ Expire
             PROVE  LoopInv'
  OBVIOUS
<1> USE DEF LoopInv, DropKillSwitch, LiftKillSwitch, Expire
<1>1. UNCHANGED <<patchVars, loop, mem, disk, drawn, turned, harmed>>
  BY DEF loopVars, past
<1>2. PatchInv'
  BY <1>1, FrameInv
<1>3. Flags'
  BY <1>1 DEF LoopState, Flags
<1>4. LoopState'
  BY <1>1, <1>3 DEF LoopState, patchVars, loopVars
<1> QED
  BY <1>1, <1>2, <1>4 DEF InSync, DrawnFrom, StopsSoon, NothingAccepted, Load,
     loopVars

LEMMA LoopNextInv == LoopInv /\ [Next]_vars => LoopInv'
<1> SUFFICES ASSUME LoopInv, [Next]_vars PROVE LoopInv'
  OBVIOUS
<1>1. ASSUME NEW c \in Candidate, Attempt(c) PROVE LoopInv'
  BY <1>1, AttemptInv
<1>2. CASE UNCHANGED vars
  <2>1. PatchInv'
    BY <1>2, FrameInv DEF vars, LoopInv
  <2> QED
    BY <1>2, <2>1 DEF vars, loopVars, patchVars, LoopInv, Flags, LoopState,
       InSync, DrawnFrom, StopsSoon, NothingAccepted, past, Load
<1> QED
  BY <1>1, <1>2, StartInv, NextGenerationInv, WindDownInv, WorkInv,
     RecordAcceptedInv, RecordRejectedInv, ExploreInv, SaveInv, CrashInv,
     SurroundingsInv DEF Next, RunStep

THEOREM LoopInvariance == Spec => []LoopInv
<1> QED
  BY LoopInitInv, LoopNextInv, PTL DEF Spec

\* The loop's variables keep their types, crashes and torn files included.
THEOREM LoopTypeCorrect == Spec => []LoopTypeOK
<1>1. LoopInv => LoopTypeOK
  BY DEF LoopInv, PatchInv, LoopState, Flags, LoopTypeOK
<1> QED
  BY <1>1, LoopInvariance, PTL

\* The transaction's invariant holds in the loop, runs cut down and started
\* again on the tree they left included.
THEOREM TransactionStands == Spec => []PatchInv
BY LoopInvariance, PTL DEF LoopInv

\* The failures that the gates read from disk are those the generation at work
\* was drawn from and those it has turned down itself, whenever runs crash and
\* whatever they leave of the file.
THEOREM CaseBankStands == Spec => []CasesFollowDraw
<1>1. LoopInv => CasesFollowDraw
  BY DEF LoopInv, InSync, DrawnFrom, CasesFollowDraw, Saving
<1> QED
  BY <1>1, LoopInvariance, PTL

\* However late the kill switch is seen, it is seen after one promotion.
THEOREM KillSwitchStops == Spec => []StopBounded
<1>1. LoopInv => StopBounded
  BY DEF LoopInv, StopsSoon, StopBounded
<1> QED
  BY <1>1, LoopInvariance, PTL

\* No number of dry runs promotes anything, in the tree or in the history.
THEOREM LoopDryRuns == Spec => []DryRunPromotesNothing
<1>1. LoopInv => DryRunPromotesNothing
  BY DEF LoopInv, PatchInv, Verdicts, NothingAccepted, DryRunPromotesNothing
<1> QED
  BY <1>1, LoopInvariance, PTL

-----------------------------------------------------------------------------
(***************************************************************************)
(* The loop without crashes.                                               *)
(***************************************************************************)

LEMMA LoopStepIsPatchStep ==
    ASSUME ~CanCrash, [Next]_vars
    PROVE  [PatchNext]_patchVars
<1>1. ASSUME NEW c \in Candidate, Attempt(c) PROVE PatchNext
  BY <1>1 DEF Attempt, PatchNext
<1>2. CASE Work \/ PassDiagnostics
  BY <1>2 DEF Work, PassDiagnostics, PatchNext
<1>3. CASE RecordAccepted \/ RecordRejected
  BY <1>3 DEF RecordAccepted, RecordRejected, PatchNext
<1>4. CASE Start \/ NextGeneration \/ Plateau \/ NoPromotion \/ Explore
           \/ Save \/ Finish
  BY <1>4 DEF Start, NextGeneration, Plateau, NoPromotion, Explore, Save, Finish
<1>5. CASE DropKillSwitch \/ LiftKillSwitch \/ Expire
  BY <1>5 DEF DropKillSwitch, LiftKillSwitch, Expire
<1>6. CASE UNCHANGED vars
  BY <1>6 DEF vars
<1> QED
  BY <1>1, <1>2, <1>3, <1>4, <1>5, <1>6 DEF Next, RunStep, Crash

\* Runs that are not cut down are a sequence of transactions.
THEOREM LoopIsTransactions == ~CanCrash => (Spec => PatchSpec)
<1> SUFFICES ASSUME ~CanCrash PROVE Spec => PatchSpec
  OBVIOUS
<1>1. LoopInit => PatchInit
  BY DEF LoopInit
<1>2. [Next]_vars => [PatchNext]_patchVars
  BY LoopStepIsPatchStep
<1> QED
  BY <1>1, <1>2, PTL DEF Spec, PatchSpec

\* So, rolling back and not cut down, the loop implements KeepOnlyGreen over
\* any number of runs.
THEOREM LoopRefinement == ~CanCrash /\ Rollback => (Spec => KeepsOnlyGreen)
BY LoopIsTransactions, Refinement

-----------------------------------------------------------------------------
(***************************************************************************)
(* What is left of the promises where runs are cut down.                   *)
(***************************************************************************)

\* Once a run has left its mark, it is there for good.
LEMMA HarmStays == LoopInv /\ [Next]_vars /\ harmed => harmed'
<1> SUFFICES ASSUME [Next]_vars, harmed PROVE harmed'
  OBVIOUS
<1>1. CASE Crash
  BY <1>1, Zenon DEF Crash
<1>2. CASE NextGeneration \/ RecordRejected \/ Finish
  BY <1>2 DEF NextGeneration, RecordRejected, Finish
<1>3. CASE Start \/ Plateau \/ NoPromotion \/ RecordAccepted \/ Explore \/ Save
  BY <1>3 DEF Start, Plateau, NoPromotion, RecordAccepted, Explore, Save, past
<1>4. ASSUME NEW c \in Candidate, Attempt(c) PROVE harmed'
  BY <1>4 DEF Attempt, past
<1>5. CASE Work \/ PassDiagnostics \/ DropKillSwitch \/ LiftKillSwitch \/ Expire
           \/ UNCHANGED vars
  BY <1>5 DEF Work, PassDiagnostics, DropKillSwitch, LiftKillSwitch, Expire,
     vars, loopVars, past
<1> QED
  BY <1>1, <1>2, <1>3, <1>4, <1>5 DEF Next, RunStep

\* Cut down elsewhere, a run leaves the tree and the file as they were when the
\* candidate at work was called.
LEMMA HarmlessCrash ==
    ASSUME Rollback, LoopInv, Crash, ~harmed'
    PROVE  base' = base /\ disk' = disk /\ loop # "accepted"
<1>1. ~Exposed /\ disk' # Torn
  BY Zenon DEF Crash
<1>2. disk' = disk /\ loop # "accepted"
  BY <1>1 DEF Crash, Exposed
<1>3. HalfWritten = {}
  BY <1>1 DEF HalfWritten, Exposed
<1>4. base' = tree
  BY <1>3 DEF Crash
<1>5. step \in {"idle", "guard"} \cup Screening \/ (step = "done" /\ verdict = "rejected")
  BY <1>1 DEF Exposed, LoopInv, PatchInv, TypeOK, Steps, Verdicts, Screening
<1>6. tree = base
  BY <1>5 DEF LoopInv, PatchInv, StaysInside, RollbackIsExact
<1> QED
  BY <1>2, <1>4, <1>6

\* Every accepted test, and the suite, as of the last tree at rest.
Survival ==
    /\ Green(base)
    /\ \A c \in ToSet(mem.accepted) \cup ToSet(Load(disk).accepted) :
          Source[c][TestPath(c)] \cap Test \subseteq Collected(base)

\* The tests a patch comes with are collected once it is applied: the test
\* file is none of the candidate's other files.
LEMMA OwnTestsCollected ==
    ASSUME NEW c \in Candidate, NEW t \in Tree
    PROVE  Source[c][TestPath(c)] \cap Test \subseteq Collected(Apply(c, t))
<1> DEFINE p == TestPath(c)
<1>1. 1 \in 1 .. Len(Files[c]) /\ 2 \in 1 .. Len(Files[c])
  BY FilesFacts
<1>2. p # Target(c)
  BY <1>1, SourceTreeAssumption DEF TestPath, Target
<1>3. p \in Path /\ p \in Touched(c)
  BY <1>1, FilesFacts DEF TestPath
<1>4. Apply(c, t)[p] = Source[c][p]
  BY <1>2, <1>3 DEF Apply, Patched
<1>5. Source[c][p] \in SUBSET Item
  BY <1>3, SourceTreeAssumption
<1>6. Source[c][p] # Absent
  BY <1>5, SourceTreeAssumption
<1>7. Source[c][p] \subseteq Items(Apply(c, t))
  BY <1>3, <1>4, <1>6 DEF Items
<1> QED
  BY <1>7 DEF Collected

LEMMA LongerHistory ==
    ASSUME NEW h \in History, NEW c \in Candidate
    PROVE  ToSet([h EXCEPT !.accepted = Append(@, c)].accepted)
               = ToSet(h.accepted) \cup {c}
<1>1. h.accepted \in Seq(Candidate)
  BY DEF History
<1>2. [h EXCEPT !.accepted = Append(@, c)].accepted = Append(h.accepted, c)
  BY RecordFacts
<1>3. ASSUME NEW s \in Seq(Candidate)
      PROVE  ToSet(Append(s, c)) = ToSet(s) \cup {c}
  <2>1. /\ DOMAIN s = 1 .. Len(s) /\ Len(s) \in Nat
        /\ DOMAIN Append(s, c) = 1 .. Len(s) + 1
        /\ \A i \in 1 .. Len(s) : Append(s, c)[i] = s[i]
        /\ Append(s, c)[Len(s) + 1] = c
    OBVIOUS
  <2>2. 1 .. Len(s) + 1 = (1 .. Len(s)) \cup {Len(s) + 1}
    BY <2>1
  <2> QED
    BY <2>1, <2>2 DEF ToSet
<1> QED
  BY <1>1, <1>2, <1>3

LEMMA NoHistory == ToSet(Empty.accepted) = {}
BY DEF ToSet, Empty

LEMMA SurvivalNext ==
    ASSUME Rollback, LoopInv, Survival, [Next]_vars, ~harmed'
    PROVE  Survival'
<1> USE DEF Survival
<1> DEFINE Listed == ToSet(mem.accepted) \cup ToSet(Load(disk).accepted)
<1>1. ASSUME base' = base, Listed' \subseteq Listed
      PROVE  Survival'
  BY <1>1
<1>2. ASSUME NEW c \in Candidate, Attempt(c) PROVE Survival'
  <2>1. base' = base
    BY <1>2 DEF Attempt, Begin, LoopInv, PatchInv, StaysInside
  <2> QED
    BY <1>1, <1>2, <2>1 DEF Attempt, Load
<1>3. CASE Work \/ PassDiagnostics
  <2>1. base' = base
    BY <1>3 DEF Work, PassDiagnostics, PatchStep, DiagnosticsPass, GuardReject,
       ReadOriginals, ScreenReject, ScreenPass, CollectBefore,
       CollectBeforeFails, WriteFile, WriteFails, CollectAfter,
       CollectAfterFails, DiagnosticsFail, SuitePass, SuiteFails, RestoreFile,
       Fail
  <2> QED
    BY <1>1, <1>3, <2>1 DEF Work, PassDiagnostics, loopVars, Load
<1>4. CASE RecordAccepted
  <2>1. /\ base' = tree /\ cur \in Candidate /\ base \in Tree
        /\ tree = Apply(cur, base) /\ Green(tree)
        /\ Collected(base) \subseteq Collected(tree)
    BY <1>4 DEF RecordAccepted, Return, LoopInv, PatchInv, TypeOK,
       PromotionIsWhole
  <2>2. Listed' = Listed \cup {cur}
    BY <1>4, <2>1, LongerHistory DEF RecordAccepted, LoopInv, LoopState, Load
  <2>3. Source[cur][TestPath(cur)] \cap Test \subseteq Collected(tree)
    BY <2>1, OwnTestsCollected
  <2> QED
    BY <2>1, <2>2, <2>3
<1>5. CASE RecordRejected
  <2>1. base' = base
    BY <1>5 DEF RecordRejected, Return, LoopInv, PatchInv, RollbackIsExact
  <2>2. mem'.accepted = mem.accepted
    BY <1>5, RecordFacts DEF RecordRejected, Return, LoopInv, LoopState,
       PatchInv, TypeOK
  <2> QED
    BY <1>1, <1>5, <2>1, <2>2 DEF RecordRejected, Load
<1>6. CASE Explore
  <2>1. mem'.accepted = mem.accepted
    BY <1>6 DEF Explore, LoopInv, LoopState, History
  <2> QED
    BY <1>1, <1>6, <2>1 DEF Explore, Load, patchVars
<1>7. CASE Start \/ NextGeneration \/ Plateau \/ NoPromotion
  <2>1. base' = base /\ disk' = disk /\ (mem' = mem \/ mem' = Load(disk))
    BY <1>7 DEF Start, NextGeneration, Plateau, NoPromotion, patchVars
  <2> QED
    BY <1>1, <2>1 DEF Load
<1>8. CASE Save
  <2>1. base' = base /\ mem' = mem /\ (disk' = disk \/ disk' = mem)
    BY <1>8 DEF Save, Saved, patchVars
  <2>2. Load(mem) = mem
    BY HistoryFacts DEF LoopInv, LoopState
  <2> QED
    BY <1>1, <2>1, <2>2 DEF Load
<1>9. CASE Finish
  BY <1>1, <1>9, NoHistory DEF Finish, Forget, Load, patchVars
<1>10. CASE DropKillSwitch \/ LiftKillSwitch \/ Expire
  BY <1>1, <1>10 DEF DropKillSwitch, LiftKillSwitch, Expire, Load, patchVars,
     loopVars
<1>11. CASE UNCHANGED vars
  BY <1>1, <1>11 DEF vars, Load, patchVars, loopVars
<1>12. CASE Crash
  <2>1. base' = base /\ disk' = disk /\ mem' = Empty
    BY <1>12, HarmlessCrash DEF Crash, Forget
  <2> QED
    BY <1>1, <2>1, NoHistory DEF Load
<1> QED
  BY <1>2, <1>3, <1>4, <1>5, <1>6, <1>7, <1>8, <1>9, <1>10, <1>11, <1>12
     DEF Next, RunStep

\* On a repository whose suite passes to begin with, at rest it passes for
\* ever, and no test that an accepted candidate came with is ever lost:
\* neither to later candidates nor to later runs, also where runs are cut down
\* without leaving their mark.
THEOREM AcceptedTestsStand ==
    Rollback /\ Green(Tree0) => (Spec => []AcceptedTestsSurvive)
<1> SUFFICES ASSUME Rollback, Green(Tree0)
             PROVE  Spec => []AcceptedTestsSurvive
  OBVIOUS
<1>1. LoopInit => Survival
  BY NoHistory, HistoryFacts DEF LoopInit, PatchInit, Survival
<1>2. LoopInv /\ (harmed \/ Survival) /\ [Next]_vars => harmed' \/ Survival'
  BY SurvivalNext, HarmStays
<1>3. LoopInv /\ (harmed \/ Survival) => AcceptedTestsSurvive
  BY DEF LoopInv, PatchInv, StaysInside, Survival, AcceptedTestsSurvive
<1> QED
  BY <1>1, <1>2, <1>3, LoopInvariance, PTL DEF Spec

(***************************************************************************)
(* Replay is a recursive function, so it has to be shown that there is one *)
(* function, and only one, that solves the recursion.                      *)
(***************************************************************************)
Replays(t, s, n) ==
    t = [i \in 0 .. n |-> IF i = 0 THEN Tree0 ELSE Apply(s[i], t[i - 1])]

\* Every nonempty set of naturals has a least element.
LEMMA LeastNumber ==
    ASSUME NEW S \in SUBSET Nat, S # {}
    PROVE  \E n \in S : \A m \in S : n <= m
<1>1. IsWellFoundedOn(Less, Nat)
  BY NatLessThanWellFounded DEF OpToRel, Less
<1>2. \E n \in S : \A m \in S : ~(<<m, n>> \in Less)
  BY <1>1, WFMin
<1>3. PICK n \in S : \A m \in S : ~(<<m, n>> \in Less)
  BY <1>2
<1>4. ASSUME NEW m \in S, m < n
      PROVE  FALSE
  <2>1. <<m, n>> \in Less
    BY <1>4 DEF Less
  <2> QED
    BY <1>3, <2>1
<1> QED
  BY <1>4

\* The recursion has a solution: take the shortest history without one.
LEMMA ReplayExists ==
    ASSUME NEW s, NEW n \in Nat
    PROVE  \E t : Replays(t, s, n)
<1> DEFINE Without == {m \in Nat : ~\E t : Replays(t, s, m)}
<1> SUFFICES ASSUME n \in Without PROVE FALSE
  OBVIOUS
<1>1. PICK m \in Without : \A k \in Without : m <= k
  <2>1. Without \in SUBSET Nat /\ Without # {}
    OBVIOUS
  <2> HIDE DEF Without
  <2> QED
    BY <2>1, LeastNumber
<1>2. CASE m = 0
  <2> DEFINE t == [i \in 0 .. 0 |-> Tree0]
  <2>1. Replays(t, s, 0)
    BY DEF Replays
  <2> QED
    BY <1>1, <1>2, <2>1
<1>3. CASE m # 0
  <2>1. m - 1 \in Nat /\ m - 1 \notin Without
    BY <1>1, <1>3
  <2>2. PICK u : Replays(u, s, m - 1)
    BY <2>1
  <2> DEFINE t == [i \in 0 .. m |-> IF i = m THEN Apply(s[m], u[m - 1]) ELSE u[i]]
  <2>3. ASSUME NEW i \in 0 .. m
        PROVE  t[i] = IF i = 0 THEN Tree0 ELSE Apply(s[i], t[i - 1])
    <3>1. CASE i = m
      <4>1. m - 1 \in 0 .. m /\ m - 1 # m
        BY <2>1
      <4> QED
        BY <1>3, <3>1, <4>1
    <3>2. CASE i # m
      <4>1. i \in 0 .. m - 1
        BY <3>2, <1>1
      <4>2. u[i] = IF i = 0 THEN Tree0 ELSE Apply(s[i], u[i - 1])
        BY <2>2, <4>1 DEF Replays
      <4>3. i # 0 => i - 1 \in 0 .. m /\ i - 1 # m
        BY <4>1, <1>1
      <4> QED
        BY <3>2, <4>2, <4>3
    <3> QED
      BY <3>1, <3>2
  <2>4. Replays(t, s, m)
    BY <2>3 DEF Replays
  <2> QED
    BY <1>1, <2>4
<1> QED
  BY <1>2, <1>3

\* Replays of two sequences agree as far as the sequences do.
LEMMA ReplaysAgree ==
    ASSUME NEW n \in Nat, NEW s, NEW t, Replays(t, s, n),
           NEW r, NEW u, Replays(u, r, n + 1),
           \A i \in 1 .. n : s[i] = r[i]
    PROVE  t[n] = u[n]
<1> DEFINE Apart == {i \in Nat : i <= n /\ t[i] # u[i]}
<1> SUFFICES ASSUME n \in Apart PROVE FALSE
  OBVIOUS
<1>1. PICK k \in Apart : \A i \in Apart : k <= i
  <2>1. Apart \in SUBSET Nat /\ Apart # {}
    OBVIOUS
  <2> HIDE DEF Apart
  <2> QED
    BY <2>1, LeastNumber
<1>2. k \in 0 .. n /\ k \in 0 .. n + 1
  BY <1>1
<1>3. /\ t[k] = IF k = 0 THEN Tree0 ELSE Apply(s[k], t[k - 1])
      /\ u[k] = IF k = 0 THEN Tree0 ELSE Apply(r[k], u[k - 1])
  BY <1>2 DEF Replays
<1>4. k # 0 => k - 1 \in Nat /\ k - 1 <= n /\ ~(k <= k - 1) /\ k \in 1 .. n
  BY <1>2
<1>5. k # 0 => t[k - 1] = u[k - 1] /\ s[k] = r[k]
  BY <1>1, <1>4
<1> QED
  BY <1>1, <1>3, <1>5

\* Replaying a history is replaying its beginning, then its last candidate.
LEMMA ReplayFacts ==
    /\ Replay(<<>>) = Tree0
    /\ \A s \in Seq(Candidate), c \in Candidate :
          Replay(Append(s, c)) = Apply(c, Replay(s))
<1>1. ASSUME NEW s, Len(s) \in Nat
      PROVE  \E t : Replays(t, s, Len(s)) /\ Replay(s) = t[Len(s)]
  <2>1. \E t : Replays(t, s, Len(s))
    BY <1>1, ReplayExists
  <2> DEFINE chosen == CHOOSE t : Replays(t, s, Len(s))
  <2>2. Replays(chosen, s, Len(s))
    BY <2>1
  <2>3. Replay(s) = chosen[Len(s)]
    BY DEF Replay, Replays
  <2> QED
    BY <2>2, <2>3
<1>2. Replay(<<>>) = Tree0
  <2>1. Len(<<>>) = 0
    OBVIOUS
  <2>2. PICK t : Replays(t, <<>>, 0) /\ Replay(<<>>) = t[0]
    BY <1>1, <2>1
  <2> QED
    BY <2>2 DEF Replays
<1>3. ASSUME NEW s \in Seq(Candidate), NEW c \in Candidate
      PROVE  Replay(Append(s, c)) = Apply(c, Replay(s))
  <2> DEFINE r == Append(s, c)
             n == Len(s)
  <2>1. /\ n \in Nat /\ Len(r) = n + 1 /\ r[n + 1] = c
        /\ \A i \in 1 .. n : s[i] = r[i]
    OBVIOUS
  <2> HIDE DEF r, n
  <2>2. PICK t : Replays(t, s, n) /\ Replay(s) = t[n]
    BY <1>1, <2>1 DEF n
  <2>3. PICK u : Replays(u, r, n + 1) /\ Replay(r) = u[n + 1]
    BY <1>1, <2>1
  <2>4. t[n] = u[n]
    <3>1. \A i \in 1 .. n : s[i] = r[i]
      BY <2>1
    <3> QED
      BY <2>1, <2>2, <2>3, <3>1, ReplaysAgree
  <2>5. u[n + 1] = Apply(c, u[n])
    BY <2>1, <2>3 DEF Replays
  <2> QED
    BY <2>2, <2>3, <2>4, <2>5 DEF r
<1> QED
  BY <1>2, <1>3

\* What the tree at rest is a replay of.
Resumption ==
    base = Replay(IF loop = "down" THEN Load(disk).accepted ELSE mem.accepted)

\* No acceptance waits to be saved while another candidate is at work.
AllSaved ==
    loop \notin {"down", "accepted"} => Load(disk).accepted = mem.accepted

LEMMA AllSavedNext ==
    ASSUME Persistence, LoopInv, AllSaved, [Next]_vars
    PROVE  AllSaved'
<1>1. CASE Start
  BY <1>1, HistoryFacts DEF Start, AllSaved, Load
<1>2. CASE NextGeneration \/ Plateau \/ NoPromotion
  BY <1>2 DEF NextGeneration, Plateau, NoPromotion, AllSaved, Load
<1>3. ASSUME NEW c \in Candidate, Attempt(c) PROVE AllSaved'
  BY <1>3 DEF Attempt, AllSaved, Load
<1>4. CASE RecordAccepted \/ Finish \/ Crash
  BY <1>4 DEF RecordAccepted, Finish, Crash, AllSaved
<1>5. CASE RecordRejected
  <2>1. mem'.accepted = mem.accepted
    BY <1>5, RecordFacts DEF RecordRejected, Return, LoopInv, LoopState,
       PatchInv, TypeOK
  <2> QED
    BY <1>5, <2>1 DEF RecordRejected, AllSaved, Load
<1>6. CASE Explore
  <2>1. mem'.accepted = mem.accepted
    BY <1>6 DEF Explore, LoopInv, LoopState, History
  <2> QED
    BY <1>6, <2>1 DEF Explore, AllSaved, Load
<1>7. CASE Save
  BY <1>7, HistoryFacts DEF Save, Saved, AllSaved, LoopInv, LoopState
<1>8. CASE Work \/ PassDiagnostics \/ DropKillSwitch \/ LiftKillSwitch \/ Expire
           \/ UNCHANGED vars
  BY <1>8 DEF Work, PassDiagnostics, DropKillSwitch, LiftKillSwitch, Expire,
     vars, loopVars, AllSaved, Load
<1> QED
  BY <1>1, <1>2, <1>3, <1>4, <1>5, <1>6, <1>7, <1>8 DEF Next, RunStep

\* Only an accepted candidate moves the tree at rest, and it is recorded with
\* it; a run cut down between a record and its save leaves its mark.
LEMMA ResumptionNext ==
    ASSUME Rollback, Persistence, LoopInv, AllSaved, Resumption, [Next]_vars,
           ~harmed'
    PROVE  Resumption'
<1> DEFINE kept == IF loop = "down" THEN Load(disk).accepted ELSE mem.accepted
<1>1. base = Replay(kept)
  BY DEF Resumption
<1> HIDE DEF kept
<1>2. ASSUME base' = base, kept' = kept
      PROVE  Resumption'
  BY <1>1, <1>2 DEF Resumption, kept
<1>3. ASSUME NEW c \in Candidate, Attempt(c) PROVE Resumption'
  <2>1. base' = base
    BY <1>3 DEF Attempt, Begin, LoopInv, PatchInv, StaysInside
  <2> QED
    BY <1>2, <1>3, <2>1 DEF Attempt, Load, kept
<1>4. CASE Work \/ PassDiagnostics
  <2>1. base' = base
    BY <1>4 DEF Work, PassDiagnostics, PatchStep, DiagnosticsPass, GuardReject,
       ReadOriginals, ScreenReject, ScreenPass, CollectBefore,
       CollectBeforeFails, WriteFile, WriteFails, CollectAfter,
       CollectAfterFails, DiagnosticsFail, SuitePass, SuiteFails, RestoreFile,
       Fail
  <2> QED
    BY <1>2, <1>4, <2>1 DEF Work, PassDiagnostics, loopVars, Load, kept
<1>5. CASE RecordAccepted
  <2>1. base' = tree /\ cur \in Candidate /\ tree = Apply(cur, base)
    BY <1>5 DEF RecordAccepted, Return, LoopInv, PatchInv, TypeOK,
       PromotionIsWhole
  <2>2. kept = mem.accepted /\ kept \in Seq(Candidate)
    BY <1>5 DEF RecordAccepted, LoopInv, LoopState, History, kept
  <2>3. loop' # "down" /\ mem'.accepted = Append(kept, cur)
    BY <1>5, <2>1, <2>2, RecordFacts DEF RecordAccepted, LoopInv, LoopState
  <2>4. Replay(Append(kept, cur)) = Apply(cur, Replay(kept))
    BY <2>1, <2>2, ReplayFacts
  <2> QED
    BY <1>1, <2>1, <2>3, <2>4 DEF Resumption
<1>6. CASE RecordRejected
  <2>1. base' = base
    BY <1>6 DEF RecordRejected, Return, LoopInv, PatchInv, RollbackIsExact
  <2>2. mem'.accepted = mem.accepted
    BY <1>6, RecordFacts DEF RecordRejected, Return, LoopInv, LoopState,
       PatchInv, TypeOK
  <2> QED
    BY <1>2, <1>6, <2>1, <2>2 DEF RecordRejected, kept
<1>7. CASE Explore
  <2>1. mem'.accepted = mem.accepted
    BY <1>7 DEF Explore, LoopInv, LoopState, History
  <2> QED
    BY <1>2, <1>7, <2>1 DEF Explore, kept, patchVars
<1>8. CASE Start
  BY <1>2, <1>8 DEF Start, Load, kept, patchVars
<1>9. CASE NextGeneration \/ Plateau \/ NoPromotion
  BY <1>2, <1>9 DEF NextGeneration, Plateau, NoPromotion, kept, patchVars
<1>10. CASE Save
  <2>1. loop' # "down" /\ loop # "down"
    BY <1>10 DEF Save, Saving
  <2> QED
    BY <1>2, <1>10, <2>1 DEF Save, kept, patchVars
<1>11. CASE Finish
  <2>1. Load(disk) = mem
    BY <1>11 DEF Finish, LoopInv, InSync, Saving
  <2> QED
    BY <1>2, <1>11, <2>1 DEF Finish, Load, kept, patchVars
<1>12. CASE DropKillSwitch \/ LiftKillSwitch \/ Expire
  BY <1>2, <1>12 DEF DropKillSwitch, LiftKillSwitch, Expire, Load, kept,
     patchVars, loopVars
<1>13. CASE UNCHANGED vars
  BY <1>2, <1>13 DEF vars, Load, kept, patchVars, loopVars
<1>14. CASE Crash
  <2>1. base' = base /\ disk' = disk /\ loop \notin {"down", "accepted"}
    BY <1>14, HarmlessCrash DEF Crash
  <2>2. kept' = kept
    BY <1>14, <2>1 DEF Crash, AllSaved, Load, kept
  <2> QED
    BY <1>2, <2>1, <2>2
<1> QED
  BY <1>3, <1>4, <1>5, <1>6, <1>7, <1>8, <1>9, <1>10, <1>11, <1>12, <1>13,
     <1>14 DEF Next, RunStep

\* Between runs the tree is what the saved history makes of the first one,
\* however many candidates came and went, and wherever runs were cut down, as
\* long as that was not over files written, restored or not yet judged, nor
\* over an acceptance or a file not yet saved.
THEOREM RunsResume ==
    Rollback /\ Persistence => (Spec => []ResumesUnlessHarmed)
<1> SUFFICES ASSUME Rollback, Persistence
             PROVE  Spec => []ResumesUnlessHarmed
  OBVIOUS
<1>1. LoopInit => Resumption /\ AllSaved
  BY HistoryFacts, ReplayFacts DEF LoopInit, PatchInit, Resumption, AllSaved, Empty
<1>2. LoopInv /\ AllSaved /\ [Next]_vars => AllSaved'
  BY AllSavedNext
<1>3. LoopInv /\ AllSaved /\ (harmed \/ Resumption) /\ [Next]_vars
         => harmed' \/ Resumption'
  BY ResumptionNext, HarmStays
<1>4. LoopInv /\ (harmed \/ Resumption) => ResumesUnlessHarmed
  BY DEF LoopInv, LoopState, PatchInv, StaysInside, Resumption,
     ResumesUnlessHarmed
<1> QED
  BY <1>1, <1>2, <1>3, <1>4, LoopInvariance, PTL DEF Spec

-----------------------------------------------------------------------------
(***************************************************************************)
(* A run comes to its end: how far it still has to go.  Candidates, files  *)
(* and generations are limited, but by no number the run knows from the    *)
(* start, since each generation offers what the tree then gives.           *)
(***************************************************************************)

\* Where a generation, or the end of the run, stands.
Stage ==
    CASE loop \in {"candidate", "attempt", "rejected"} -> 6
      [] loop = "accepted" -> 5
      [] loop = "generation" -> 4
      [] loop = "wrapup" -> 3
      [] loop = "explored" -> 2
      [] loop = "closing" -> 1
      [] OTHER -> 0

\* Where the candidate at work stands: in its call, or waiting for its save.
Turn ==
    CASE loop = "attempt" -> 2 + Place
      [] loop = "rejected" -> 1
      [] OTHER -> 0

Left == <<gensLeft, Stage, budget, Turn, FilesLeft>>

\* Every step the run takes brings it nearer to its end, and nothing that
\* happens around it throws it back: not a rejection, not an acceptance that
\* begins another generation, not a crash.
RunShrinks ==
    [][/\ RunStep => <<Left', Left>> \in Shorter(5)
       /\ ~Start => Left' = Left \/ <<Left', Left>> \in Shorter(5)]_vars

LeftOK ==
    /\ gensLeft \in Nat /\ Stage \in Nat /\ budget \in Nat
    /\ Turn \in Nat /\ Place \in Nat /\ FilesLeft \in Nat

LEMMA LeftFacts == LoopInv => LeftOK
<1> SUFFICES ASSUME LoopInv PROVE LeftOK
  OBVIOUS
<1>1. gensLeft \in Nat /\ budget \in Nat
  BY ClosedLoopAssumption DEF LoopInv, LoopState
<1>2. Place \in Nat /\ FilesLeft \in Nat
  BY PlaceFacts DEF LoopInv, PatchInv
<1>3. Stage \in Nat
  BY DEF Stage
<1>4. Turn \in Nat
  BY <1>2 DEF Turn
<1> QED
  BY <1>1, <1>2, <1>3, <1>4 DEF LeftOK

\* What must hold of the parts for the whole to be shorter.
LEMMA LeftShorter ==
    ASSUME LeftOK, LeftOK',
           \/ gensLeft' < gensLeft
           \/ gensLeft' = gensLeft /\ Stage' < Stage
           \/ gensLeft' = gensLeft /\ Stage' = Stage /\ budget' < budget
           \/ gensLeft' = gensLeft /\ Stage' = Stage /\ budget' = budget /\ Turn' < Turn
           \/ /\ gensLeft' = gensLeft /\ Stage' = Stage /\ budget' = budget /\ Turn' = Turn
              /\ FilesLeft' < FilesLeft
    PROVE  <<Left', Left>> \in Shorter(5)
  BY FiveShorter DEF LeftOK, Left

LEMMA RunStepShrinks ==
    ASSUME LoopInv, LeftOK, LeftOK', RunStep
    PROVE  <<Left', Left>> \in Shorter(5)
<1>1. gensLeft \in Nat /\ budget \in Nat
  BY DEF LeftOK
<1>2. CASE NextGeneration
  BY <1>1, <1>2, LeftShorter DEF NextGeneration
<1>3. CASE Plateau \/ NoPromotion \/ Explore
  <2>1. gensLeft' = gensLeft /\ Stage' < Stage
    BY <1>3 DEF Plateau, NoPromotion, Explore, Stage
  <2> QED
    BY <2>1, LeftShorter
<1>4. ASSUME NEW c \in Candidate, Attempt(c) PROVE <<Left', Left>> \in Shorter(5)
  <2>1. gensLeft' = gensLeft /\ Stage' = Stage /\ budget' < budget
    BY <1>1, <1>4 DEF Attempt, Stage
  <2> QED
    BY <2>1, LeftShorter
<1>5. CASE Work \/ PassDiagnostics
  <2>1. /\ UNCHANGED <<gensLeft, budget, loop>> /\ loop = "attempt"
        /\ PatchStep \/ DiagnosticsPass
    BY <1>5 DEF Work, PassDiagnostics, loopVars
  <2>2. Place' < Place \/ (Place' = Place /\ FilesLeft' < FilesLeft)
    BY <2>1, CallShrinks DEF LoopInv, PatchInv
  <2>3. Place \in Nat /\ Place' \in Nat
    BY DEF LeftOK
  <2>4. Stage' = Stage
    BY <2>1 DEF Stage
  <2>5. Turn' < Turn \/ (Turn' = Turn /\ FilesLeft' < FilesLeft)
    BY <2>1, <2>2, <2>3 DEF Turn
  <2> QED
    BY <2>1, <2>4, <2>5, LeftShorter
<1>6. CASE RecordAccepted
  <2>1. gensLeft' = gensLeft /\ Stage' < Stage
    BY <1>6 DEF RecordAccepted, Stage
  <2> QED
    BY <2>1, LeftShorter
<1>7. CASE RecordRejected
  <2>1. gensLeft' = gensLeft /\ Stage' = Stage /\ budget' = budget
    BY <1>7 DEF RecordRejected, Stage
  <2>2. Place \in Nat
    BY DEF LeftOK
  <2>3. Turn' < Turn
    BY <1>7, <2>2 DEF RecordRejected, Turn
  <2> QED
    BY <2>1, <2>3, LeftShorter
<1>8. CASE Save
  <2>1. UNCHANGED <<gensLeft, budget>>
    BY <1>8 DEF Save
  <2>2. CASE loop = "rejected"
    <3>1. Stage' = Stage /\ Turn' < Turn
      BY <1>8, <2>2 DEF Save, Stage, Turn
    <3> QED
      BY <2>1, <3>1, LeftShorter
  <2>3. CASE loop # "rejected"
    <3>1. Stage' < Stage
      BY <1>8, <2>3 DEF Save, Saving, Stage
    <3> QED
      BY <2>1, <3>1, LeftShorter
  <2> QED
    BY <2>2, <2>3
<1>9. CASE Finish
  <2>1. gensLeft' <= gensLeft /\ Stage' < Stage
    BY <1>1, <1>9 DEF Finish, Forget, Stage
  <2>2. gensLeft' \in Nat
    BY <1>9 DEF Finish, Forget
  <2> QED
    BY <1>1, <2>1, <2>2, LeftShorter
<1> QED
  BY <1>2, <1>3, <1>4, <1>5, <1>6, <1>7, <1>8, <1>9 DEF RunStep

\* A crash leaves nothing to do, and what happens around the run nothing more.
LEMMA OthersKeepLeft ==
    ASSUME LoopInv, LeftOK, LeftOK',
           Crash \/ DropKillSwitch \/ LiftKillSwitch \/ Expire \/ UNCHANGED vars
    PROVE  Left' = Left \/ <<Left', Left>> \in Shorter(5)
<1>1. CASE Crash
  <2>1. gensLeft' = 0 /\ Stage' = 0
    BY <1>1 DEF Crash, Forget, Stage
  <2>2. Stage > 0
    BY <1>1 DEF Crash, Stage, LoopInv, LoopState
  <2>3. gensLeft \in Nat
    BY DEF LeftOK
  <2>4. gensLeft' < gensLeft \/ (gensLeft' = gensLeft /\ Stage' < Stage)
    BY <2>1, <2>2, <2>3
  <2> QED
    BY <2>4, LeftShorter
<1>2. CASE DropKillSwitch \/ LiftKillSwitch \/ Expire \/ UNCHANGED vars
  <2>1. UNCHANGED <<gensLeft, loop, budget, step, cur, at>>
    BY <1>2 DEF DropKillSwitch, LiftKillSwitch, Expire, vars, loopVars, patchVars
  <2> QED
    BY <2>1 DEF Left, Stage, Turn, Place, FilesLeft
<1> QED
  BY <1>1, <1>2

(***************************************************************************)
(* No run goes on for ever: what is left of it is a list of five numbers,  *)
(* which every step of the run makes shorter, nothing else makes longer,   *)
(* and which cannot be made shorter without end.                           *)
(***************************************************************************)
THEOREM RunsAreFinite ==
    /\ IsWellFoundedOn(Shorter(5), [1 .. 5 -> Nat])
    /\ Spec => [](Left \in [1 .. 5 -> Nat])
    /\ Spec => RunShrinks
<1>1. IsWellFoundedOn(Shorter(5), [1 .. 5 -> Nat])
  BY ShorterIsWellFounded
<1>2. LeftOK => Left \in [1 .. 5 -> Nat]
  BY DEF LeftOK, Left
<1>3. ASSUME LoopInv, LeftOK, LeftOK', [Next]_vars
      PROVE  [/\ RunStep => <<Left', Left>> \in Shorter(5)
              /\ ~Start => Left' = Left \/ <<Left', Left>> \in Shorter(5)]_vars
  BY <1>3, RunStepShrinks, OthersKeepLeft DEF Next
<1>4. Spec => [](Left \in [1 .. 5 -> Nat])
  BY <1>2, LeftFacts, LoopInvariance, PTL
<1>5. Spec => RunShrinks
  BY <1>3, LeftFacts, LoopInvariance, PTL DEF Spec, RunShrinks
<1> QED
  BY <1>1, <1>4, <1>5

-----------------------------------------------------------------------------
(***************************************************************************)
(* A run is never stuck: where it stands it has a step to take.            *)
(***************************************************************************)

\* What a generation has drawn can still be begun, whatever was tried since:
\* no call leaves a target missing, rolled back or not.
TargetsThere ==
    /\ loop \in {"candidate", "attempt", "rejected"} =>
          \A c \in offered : tree[Target(c)] # Absent
    /\ loop = "attempt" =>
          step # "idle" /\ \A c \in offered : base[Target(c)] # Absent

LEMMA TargetsInit == LoopInit => TargetsThere
  BY DEF LoopInit, TargetsThere

LEMMA TargetsStep ==
    ASSUME LoopInv, TargetsThere, [Next]_vars
    PROVE  TargetsThere'
<1>1. offered \subseteq Candidate /\ \A c \in Candidate : Target(c) \in Path
  <2>1. \A c \in Candidate : Target(c) \in Path
    BY FilesFacts
  <2> QED
    BY <2>1 DEF LoopInv, LoopState
<1>2. CASE NextGeneration
  BY <1>2 DEF NextGeneration, Offered, TargetsThere, patchVars
<1>3. ASSUME NEW c \in Candidate, Attempt(c) PROVE TargetsThere'
  BY <1>3 DEF Attempt, Begin, TargetsThere
<1>4. CASE Work \/ PassDiagnostics
  <2>1. /\ PatchStep \/ DiagnosticsPass
        /\ loop = "attempt" /\ UNCHANGED <<loop, offered>>
    BY <1>4 DEF Work, PassDiagnostics, loopVars
  <2>2. base' = base /\ step' # "idle"
    BY <2>1, CallGoesOn
  <2>3. \A c \in offered : tree'[Target(c)] # Absent
    BY <1>1, <2>1, StaysThere DEF LoopInv, TargetsThere
  <2> QED
    BY <2>1, <2>2, <2>3 DEF TargetsThere
<1>5. CASE RecordRejected
  BY <1>5 DEF RecordRejected, Return, TargetsThere
<1>6. CASE Save
  BY <1>6 DEF Save, Saving, TargetsThere, patchVars
<1>7. CASE Start \/ Plateau \/ NoPromotion \/ RecordAccepted \/ Explore \/ Finish \/ Crash
  BY <1>7 DEF Start, Plateau, NoPromotion, RecordAccepted, Explore, Finish, Crash,
     TargetsThere
<1>8. CASE DropKillSwitch \/ LiftKillSwitch \/ Expire \/ UNCHANGED vars
  <2>1. UNCHANGED <<loop, offered, tree, step, base>>
    BY <1>8 DEF DropKillSwitch, LiftKillSwitch, Expire, vars, loopVars, patchVars
  <2> QED
    BY <2>1 DEF TargetsThere
<1> QED
  BY <1>2, <1>3, <1>4, <1>5, <1>6, <1>7, <1>8 DEF Next, RunStep

\* The guards of RunStep where they leave something out.  At the other places
\* of run, and at the other steps of apply_candidate, one alternative or the
\* other is always open.
HasAStep ==
    /\ loop = "candidate" =>
          Exhausted \/ (MayTry /\ step = "idle" /\ \E c \in offered : tree[Target(c)] # Absent)
    /\ loop = "attempt" =>
          step # "idle" /\ (step = "done" => verdict \in {"accepted", "rejected"})

(***************************************************************************)
(* The loop is never left with candidates it may try and cannot, nor with  *)
(* a call that has no record to return.                                    *)
(***************************************************************************)
THEOREM RunsAreNeverStuck == Spec => []HasAStep
<1>1. LoopInv /\ TargetsThere /\ [Next]_vars => TargetsThere'
  BY TargetsStep
<1>2. LoopInv /\ TargetsThere => HasAStep
  BY ClosedLoopAssumption DEF LoopInv, LoopState, PatchInv, Verdicts, TargetsThere,
     HasAStep, Exhausted, MayTry
<1> QED
  BY <1>1, <1>2, TargetsInit, LoopInvariance, PTL DEF Spec
=============================================================================
