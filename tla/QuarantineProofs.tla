-------------------------- MODULE QuarantineProofs --------------------------
(***************************************************************************)
(* Quarantine, proved for every set of candidates, depth and budget: the   *)
(* transaction's invariant holds without rollback, and a candidate has at  *)
(* most one record however deep the chain, and an exploration gets nearer  *)
(* to its end with every step and is never stuck.                          *)
(***************************************************************************)
EXTENDS Quarantine, PatchTransactionProofs

-----------------------------------------------------------------------------
(***************************************************************************)
(* The inductive invariant.                                                *)
(***************************************************************************)
\* The candidate at work is one that no record names.
Fresh == phase = "attempt" => step # "idle" /\ cur \notin Attempted

QuarantineInv == PatchInv /\ QuarantineTypeOK /\ Fresh /\ OneRecordEach

-----------------------------------------------------------------------------
\* Those attempted are those with a record, there being no third verdict.
LEMMA AttemptedNamed ==
    ASSUME records \in Seq(Record)
    PROVE  Attempted = {records[i].name : i \in DOMAIN records}
<1>1. \A i \in DOMAIN records : records[i].verdict \in {"accepted", "rejected"}
  <2>1. \A i \in DOMAIN records : records[i] \in Record
    OBVIOUS
  <2> QED
    BY <2>1 DEF Record
<1> QED
  BY <1>1, Zenon DEF Attempted, Recorded

LEMMA PatchFrame ==
    ASSUME PatchInv, UNCHANGED patchVars
    PROVE  PatchInv'
  BY NextInv

LEMMA InitQuarantine == QuarantineInit => QuarantineInv
<1> SUFFICES ASSUME QuarantineInit PROVE QuarantineInv
  OBVIOUS
<1>1. PatchInv
  BY InitInv DEF QuarantineInit
<1>2. QuarantineTypeOK
  <2>1. records \in Seq(Record) /\ step = "idle"
    BY DEF QuarantineInit, PatchInit
  <2>2. halted \in BOOLEAN
    BY Zenon DEF QuarantineInit
  <2> QED
    BY <1>1, <2>1, <2>2, QuarantineAssumption
    DEF QuarantineInit, PatchInv, QuarantineTypeOK
<1> QED
  BY <1>1, <1>2 DEF QuarantineInit, QuarantineInv, Fresh, OneRecordEach

\* Steps between candidates, and the kill switch.
LEMMA BetweenInv ==
    ASSUME QuarantineInv, NextDepth \/ EndExploration \/ DepthDone \/ Halt
    PROVE  QuarantineInv'
<1>1. UNCHANGED <<patchVars, records>>
  BY DEF NextDepth, EndExploration, DepthDone, Halt, exploreVars
<1>2. PatchInv'
  BY <1>1, PatchFrame DEF QuarantineInv
<1>3. TypeOK'
  BY <1>2 DEF PatchInv
<1>4. QuarantineTypeOK'
  <2> USE <1>1, <1>3 DEF QuarantineInv, QuarantineTypeOK, patchVars
  <2>1. CASE NextDepth
    BY <2>1, QuarantineAssumption DEF NextDepth, Drawn
  <2>2. CASE EndExploration
    BY <2>2 DEF EndExploration
  <2>3. CASE DepthDone
    BY <2>3 DEF DepthDone
  <2>4. CASE Halt
    BY <2>4 DEF Halt, exploreVars
  <2> QED
    BY <2>1, <2>2, <2>3, <2>4
<1>5. Fresh'
  <2>1. phase' = "attempt" => phase = "attempt"
    BY DEF NextDepth, EndExploration, DepthDone, Halt, exploreVars
  <2>2. Attempted' = Attempted
    BY <1>1 DEF Attempted, Recorded
  <2> QED
    BY <1>1, <2>1, <2>2 DEF QuarantineInv, Fresh, patchVars
<1>6. OneRecordEach'
  BY <1>1 DEF QuarantineInv, OneRecordEach
<1> QED
  BY <1>2, <1>4, <1>5, <1>6 DEF QuarantineInv

LEMMA TryInv ==
    ASSUME QuarantineInv, NEW c \in Candidate, Try(c)
    PROVE  QuarantineInv'
<1>1. PatchInv'
  BY BeginInv DEF QuarantineInv, Try
<1>2. TypeOK'
  BY <1>1 DEF PatchInv
<1>3. QuarantineTypeOK'
  BY <1>2, QuarantineAssumption DEF Try, MayTry, QuarantineInv, QuarantineTypeOK
<1>4. Attempted' = Attempted
  BY DEF Try, Attempted, Recorded
<1>5. Fresh'
  BY <1>4 DEF Try, Begin, Untried, Fresh
<1>6. OneRecordEach'
  BY DEF Try, QuarantineInv, OneRecordEach
<1> QED
  BY <1>1, <1>3, <1>5, <1>6 DEF QuarantineInv

LEMMA WorkInv ==
    ASSUME QuarantineInv, Work \/ PassDiagnostics
    PROVE  QuarantineInv'
<1>1. /\ PatchStep \/ DiagnosticsPass
      /\ UNCHANGED <<phase, depth, ranked, tried, records, halted>>
      /\ phase = "attempt"
  BY DEF Work, PassDiagnostics, exploreVars
<1>2. PatchInv'
  BY <1>1, NextInv DEF QuarantineInv, PatchNext
<1>3. QuarantineTypeOK'
  BY <1>1, <1>2 DEF PatchInv, QuarantineInv, QuarantineTypeOK
<1>4. Attempted' = Attempted
  BY <1>1 DEF Attempted, Recorded
<1>5. Fresh'
  BY <1>1, <1>4, CallGoesOn DEF QuarantineInv, Fresh
<1>6. OneRecordEach'
  BY <1>1 DEF QuarantineInv, OneRecordEach
<1> QED
  BY <1>2, <1>3, <1>5, <1>6 DEF QuarantineInv

LEMMA FileRecordInv ==
    ASSUME QuarantineInv, FileRecord
    PROVE  QuarantineInv'
<1> DEFINE entry == [name |-> cur, depth |-> depth, verdict |-> verdict]
<1>1. PatchInv'
  BY ReturnInv DEF QuarantineInv, FileRecord
<1>2. /\ step = "done" /\ step' = "idle"
      /\ records' = Append(records, entry)
      /\ records \in Seq(Record)
      /\ phase = "attempt" /\ phase' = "candidate"
  BY DEF FileRecord, Return, QuarantineInv, QuarantineTypeOK
<1>3. cur \in Candidate /\ verdict \in {"accepted", "rejected"}
  BY <1>2 DEF QuarantineInv, PatchInv, TypeOK, Verdicts
<1>4. depth \in Nat
  BY QuarantineAssumption DEF QuarantineInv, QuarantineTypeOK
<1>5. entry \in Record
  BY <1>3, <1>4 DEF Record
<1> HIDE DEF entry
<1>6. /\ records' \in Seq(Record)
      /\ DOMAIN records = 1 .. Len(records) /\ Len(records) \in Nat
      /\ DOMAIN records' = 1 .. Len(records) + 1
      /\ \A i \in DOMAIN records : records'[i] = records[i]
      /\ records'[Len(records) + 1] = entry
  BY <1>2, <1>5
<1>7. QuarantineTypeOK'
  BY <1>1, <1>2, <1>6 DEF FileRecord, PatchInv, QuarantineInv, QuarantineTypeOK
<1>8. Fresh'
  BY <1>2 DEF Fresh
<1>9. OneRecordEach'
  <2>1. \A i \in DOMAIN records : records[i].name # cur
    BY <1>2, AttemptedNamed DEF QuarantineInv, Fresh
  <2>2. entry.name = cur
    BY DEF entry
  <2>3. \A i, j \in DOMAIN records : records[i].name = records[j].name => i = j
    BY DEF QuarantineInv, OneRecordEach
  <2> SUFFICES ASSUME NEW i \in DOMAIN records', NEW j \in DOMAIN records',
                      records'[i].name = records'[j].name
               PROVE  i = j
    BY DEF OneRecordEach
  <2>4. /\ i \in DOMAIN records \/ i = Len(records) + 1
        /\ j \in DOMAIN records \/ j = Len(records) + 1
    BY <1>6
  <2> QED
    BY <1>6, <2>1, <2>2, <2>3, <2>4
<1> QED
  BY <1>1, <1>7, <1>8, <1>9 DEF QuarantineInv

LEMMA StepInv == QuarantineInv /\ [Next]_vars => QuarantineInv'
<1> SUFFICES ASSUME QuarantineInv, [Next]_vars PROVE QuarantineInv'
  OBVIOUS
<1>1. CASE Next
  BY <1>1, BetweenInv, TryInv, WorkInv, FileRecordInv DEF Next, ExploreStep
<1>2. CASE UNCHANGED vars
  <2>1. UNCHANGED <<patchVars, phase, depth, ranked, tried, records, halted>>
    BY <1>2 DEF vars, exploreVars
  <2>2. PatchInv'
    BY <2>1, PatchFrame DEF QuarantineInv
  <2>3. QuarantineTypeOK'
    BY <2>1, <2>2 DEF PatchInv, QuarantineInv, QuarantineTypeOK, patchVars
  <2>4. Fresh' /\ OneRecordEach'
    BY <2>1 DEF QuarantineInv, Fresh, OneRecordEach, Attempted, Recorded, patchVars
  <2> QED
    BY <2>2, <2>3, <2>4 DEF QuarantineInv
<1> QED
  BY <1>1, <1>2

-----------------------------------------------------------------------------
(***************************************************************************)
(* QuarantineInv is an invariant of run_quarantine_exploration.            *)
(***************************************************************************)
THEOREM QuarantineInvariance == Spec => []QuarantineInv
  BY InitQuarantine, StepInv, PTL DEF Spec

(***************************************************************************)
(* Types: the budget of a depth, the depth and the records stay in bounds. *)
(***************************************************************************)
THEOREM QuarantineTypes == Spec => []QuarantineTypeOK
<1>1. QuarantineInv => QuarantineTypeOK
  BY DEF QuarantineInv
<1> QED
  BY <1>1, QuarantineInvariance, PTL

(***************************************************************************)
(* attempted: no candidate is tried at two depths, whatever is drawn there. *)
(***************************************************************************)
THEOREM OneRecordEver == Spec => []OneRecordEach
<1>1. QuarantineInv => OneRecordEach
  BY DEF QuarantineInv
<1> QED
  BY <1>1, QuarantineInvariance, PTL

(***************************************************************************)
(* On a copy that is never rolled back an acceptance still is a whole      *)
(* patch on the copy as it then was, green, with no test lost.             *)
(***************************************************************************)
THEOREM QuarantinePromotes == Spec => []PromotionIsWhole
<1>1. QuarantineInv => PromotionIsWhole
  BY DEF QuarantineInv, PatchInv
<1> QED
  BY <1>1, QuarantineInvariance, PTL

-----------------------------------------------------------------------------
(***************************************************************************)
(* An exploration comes to its end.                                        *)
(***************************************************************************)

\* Where a depth stands.
Stage ==
    CASE phase \in {"candidate", "attempt"} -> 2
      [] phase = "depth" -> 1
      [] OTHER -> 0

DepthsLeft == ExplorationDepth - depth
TriesLeft == MaxCandidates - tried

Left == <<DepthsLeft, Stage, TriesLeft, Place, FilesLeft>>

\* Every step brings the exploration nearer to its end, and the stop that may
\* come at any time does not throw it back.
ExplorationShrinks ==
    [][/\ ExploreStep => <<Left', Left>> \in Shorter(5)
       /\ Halt => Left' = Left]_vars

LeftOK ==
    /\ DepthsLeft \in Nat /\ Stage \in Nat /\ TriesLeft \in Nat
    /\ Place \in Nat /\ FilesLeft \in Nat

LEMMA LeftFacts == QuarantineInv => LeftOK
<1> SUFFICES ASSUME QuarantineInv PROVE LeftOK
  OBVIOUS
<1>1. DepthsLeft \in Nat /\ TriesLeft \in Nat
  BY QuarantineAssumption DEF QuarantineInv, QuarantineTypeOK, DepthsLeft, TriesLeft
<1>2. Place \in Nat /\ FilesLeft \in Nat
  BY PlaceFacts DEF QuarantineInv, QuarantineTypeOK
<1>3. Stage \in Nat
  BY DEF Stage
<1> QED
  BY <1>1, <1>2, <1>3 DEF LeftOK

\* What must hold of the parts for the whole to be shorter.
LEMMA LeftShorter ==
    ASSUME LeftOK, LeftOK',
           \/ DepthsLeft' < DepthsLeft
           \/ depth' = depth /\ Stage' < Stage
           \/ depth' = depth /\ Stage' = Stage /\ TriesLeft' < TriesLeft
           \/ depth' = depth /\ Stage' = Stage /\ tried' = tried /\ Place' < Place
           \/ /\ depth' = depth /\ Stage' = Stage /\ tried' = tried /\ Place' = Place
              /\ FilesLeft' < FilesLeft
    PROVE  <<Left', Left>> \in Shorter(5)
<1>1. /\ depth' = depth => DepthsLeft' = DepthsLeft
      /\ tried' = tried => TriesLeft' = TriesLeft
  BY DEF DepthsLeft, TriesLeft
<1> QED
  BY <1>1, FiveShorter DEF LeftOK, Left

LEMMA ExploreStepShrinks ==
    ASSUME QuarantineInv, LeftOK, LeftOK', ExploreStep
    PROVE  <<Left', Left>> \in Shorter(5)
<1>1. /\ depth \in Nat /\ ExplorationDepth \in Nat
      /\ tried \in Nat /\ MaxCandidates \in Nat
  BY QuarantineAssumption DEF QuarantineInv, QuarantineTypeOK
<1>2. CASE NextDepth
  <2>1. DepthsLeft' < DepthsLeft
    BY <1>1, <1>2 DEF NextDepth, DepthsLeft
  <2> QED
    BY <2>1, LeftShorter
<1>3. CASE EndExploration \/ DepthDone
  <2>1. depth' = depth /\ Stage' < Stage
    BY <1>3 DEF EndExploration, DepthDone, Stage
  <2> QED
    BY <2>1, LeftShorter
<1>4. ASSUME NEW c \in Candidate, Try(c) PROVE <<Left', Left>> \in Shorter(5)
  <2>1. depth' = depth /\ Stage' = Stage
    BY <1>4 DEF Try, Stage
  <2>2. TriesLeft' < TriesLeft
    BY <1>1, <1>4 DEF Try, TriesLeft
  <2> QED
    BY <2>1, <2>2, LeftShorter
<1>5. CASE Work \/ PassDiagnostics
  <2>1. UNCHANGED <<depth, tried, phase>> /\ (PatchStep \/ DiagnosticsPass)
    BY <1>5 DEF Work, PassDiagnostics, exploreVars
  <2>2. Place' < Place \/ (Place' = Place /\ FilesLeft' < FilesLeft)
    BY <2>1, CallShrinks DEF QuarantineInv, QuarantineTypeOK
  <2>3. Stage' = Stage
    BY <2>1 DEF Stage
  <2> QED
    BY <2>1, <2>2, <2>3, LeftShorter
<1>6. CASE FileRecord
  <2>1. UNCHANGED <<depth, tried>> /\ Stage' = Stage
    BY <1>6 DEF FileRecord, Stage
  <2>2. Place' < Place
    BY <1>6 DEF FileRecord, Return, Place
  <2> QED
    BY <2>1, <2>2, LeftShorter
<1> QED
  BY <1>2, <1>3, <1>4, <1>5, <1>6 DEF ExploreStep

(***************************************************************************)
(* No exploration goes on for ever: what is left of it is a list of five   *)
(* numbers, which every step makes shorter, which a stop does not make     *)
(* longer, and which cannot be made shorter without end.                   *)
(***************************************************************************)
THEOREM ExplorationsAreFinite ==
    /\ IsWellFoundedOn(Shorter(5), [1 .. 5 -> Nat])
    /\ Spec => [](Left \in [1 .. 5 -> Nat])
    /\ Spec => ExplorationShrinks
<1>1. IsWellFoundedOn(Shorter(5), [1 .. 5 -> Nat])
  BY ShorterIsWellFounded
<1>2. LeftOK => Left \in [1 .. 5 -> Nat]
  BY DEF LeftOK, Left
<1>3. ASSUME QuarantineInv, LeftOK, LeftOK', [Next]_vars
      PROVE  [/\ ExploreStep => <<Left', Left>> \in Shorter(5)
              /\ Halt => Left' = Left]_vars
  <2>1. ExploreStep => <<Left', Left>> \in Shorter(5)
    BY <1>3, ExploreStepShrinks
  <2>2. Halt => Left' = Left
    BY DEF Halt, exploreVars, patchVars, Left, DepthsLeft, TriesLeft, Stage, Place,
       FilesLeft
  <2> QED
    BY <2>1, <2>2
<1>4. Spec => [](Left \in [1 .. 5 -> Nat])
  BY <1>2, LeftFacts, QuarantineInvariance, PTL
<1>5. Spec => ExplorationShrinks
  BY <1>3, LeftFacts, QuarantineInvariance, PTL DEF Spec, ExplorationShrinks
<1> QED
  BY <1>1, <1>4, <1>5

-----------------------------------------------------------------------------
(***************************************************************************)
(* It is never stuck on the way.                                           *)
(***************************************************************************)

\* What a depth has drawn can still be begun, though nothing is rolled back.
TargetsThere ==
    /\ phase \in {"candidate", "attempt"} => \A c \in ranked : tree[Target(c)] # Absent
    /\ phase = "attempt" => \A c \in ranked : base[Target(c)] # Absent

LEMMA TargetsStep ==
    ASSUME QuarantineInv, TargetsThere, [Next]_vars
    PROVE  TargetsThere'
<1>1. ranked \subseteq Candidate /\ \A c \in Candidate : Target(c) \in Path
  <2>1. \A c \in Candidate : Target(c) \in Path
    BY FilesFacts
  <2> QED
    BY <2>1 DEF QuarantineInv, QuarantineTypeOK
<1>2. CASE NextDepth
  BY <1>2 DEF NextDepth, Drawn, TargetsThere, patchVars
<1>3. ASSUME NEW c \in Candidate, Try(c) PROVE TargetsThere'
  BY <1>3 DEF Try, Begin, TargetsThere
<1>4. CASE Work \/ PassDiagnostics
  <2>1. /\ PatchStep \/ DiagnosticsPass
        /\ phase = "attempt" /\ UNCHANGED <<phase, ranked>>
    BY <1>4 DEF Work, PassDiagnostics, exploreVars
  <2>2. base' = base
    BY <2>1, CallGoesOn
  <2>3. \A c \in ranked : tree'[Target(c)] # Absent
    BY <1>1, <2>1, StaysThere DEF QuarantineInv, TargetsThere
  <2> QED
    BY <2>1, <2>2, <2>3 DEF TargetsThere
<1>5. CASE FileRecord
  BY <1>5 DEF FileRecord, Return, TargetsThere
<1>6. CASE EndExploration \/ DepthDone
  BY <1>6 DEF EndExploration, DepthDone, TargetsThere
<1>7. CASE Halt \/ UNCHANGED vars
  <2>1. UNCHANGED <<phase, ranked, tree, base>>
    BY <1>7 DEF Halt, vars, exploreVars, patchVars
  <2> QED
    BY <2>1 DEF TargetsThere
<1> QED
  BY <1>2, <1>3, <1>4, <1>5, <1>6, <1>7 DEF Next, ExploreStep

\* The guards of ExploreStep where they leave something out.  At the other
\* places one alternative or the other is always open.
HasAStep ==
    /\ phase = "candidate" =>
          \/ Spent
          \/ /\ MayTry /\ step = "idle"
             /\ \E c \in Untried : c \in Candidate /\ tree[Target(c)] # Absent
    /\ phase = "attempt" =>
          step # "idle" /\ (step = "done" => verdict \in {"accepted", "rejected"})

(***************************************************************************)
(* A depth is never left with candidates it may try and cannot: none of    *)
(* those tried before takes the target of another away.                    *)
(***************************************************************************)
THEOREM ExplorationsAreNeverStuck == Spec => []HasAStep
<1>1. QuarantineInit => TargetsThere
  BY DEF QuarantineInit, TargetsThere
<1>2. QuarantineInv /\ TargetsThere /\ [Next]_vars => TargetsThere'
  BY TargetsStep
<1>3. QuarantineInv /\ TargetsThere => HasAStep
  BY QuarantineAssumption DEF QuarantineInv, QuarantineTypeOK, Fresh, PatchInv, Verdicts,
     TargetsThere, HasAStep, Spent, MayTry, Untried
<1> QED
  BY <1>1, <1>2, <1>3, QuarantineInvariance, PTL DEF Spec
=============================================================================
