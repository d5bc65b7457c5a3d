----------------------- MODULE PatchTransactionProofs -----------------------
(***************************************************************************)
(* PatchTransaction, proved for every set of candidates, files and tests:  *)
(* PatchInv is inductive, and under Rollback the file-by-file transaction  *)
(* implements the one-step promotions of KeepOnlyGreen.  At the end, how   *)
(* far a call still has to go, for the modules that compose it.            *)
(***************************************************************************)
EXTENDS PatchTransaction, WellFoundedInduction, TLAPS

LEMMA TreeFacts == Tree0 \in Tree
BY SourceTreeAssumption

\* The files of a candidate are paths, at least the target and the test.
LEMMA FilesFacts ==
    ASSUME NEW c \in Candidate
    PROVE  /\ Files[c] \in Seq(Path)
           /\ Len(Files[c]) \in Nat
           /\ Len(Files[c]) >= 2
           /\ \A i \in 1 .. Len(Files[c]) : Files[c][i] \in Path
           /\ Target(c) \in Touched(c)
           /\ Touched(c) \subseteq Path
           /\ \A p \in Touched(c) : \E i \in 1 .. Len(Files[c]) : p = Files[c][i]
           /\ \A i \in 1 .. Len(Files[c]) : Files[c][i] \in Touched(c)
<1>1. /\ Files[c] \in Seq(Path)
      /\ Len(Files[c]) \in Nat
      /\ Len(Files[c]) >= 2
  BY SourceTreeAssumption
<1>2. \A i \in 1 .. Len(Files[c]) : Files[c][i] \in Path
  BY <1>1
<1>3. 1 \in 1 .. Len(Files[c])
  BY <1>1
<1> QED
  BY <1>1, <1>2, <1>3 DEF Target, Touched

\* Patching a file that is there yields a file that is there.
LEMMA PatchedIsText ==
    ASSUME NEW c \in Candidate, NEW p \in Path, NEW old \in File,
           p = Target(c) => old # Absent
    PROVE  Patched(c, p, old) \in SUBSET Item
<1>1. CASE p = Target(c)
  <2>1. old \in SUBSET Item
    BY <1>1 DEF File
  <2>2. Adds[c] \in SUBSET Item
    BY SourceTreeAssumption
  <2> QED
    BY <1>1, <2>1, <2>2 DEF Patched
<1>2. CASE p # Target(c)
  <2>1. Source[c][p] \in SUBSET Item
    BY SourceTreeAssumption
  <2> QED
    BY <1>2, <2>1 DEF Patched
<1> QED
  BY <1>1, <1>2

LEMMA CollectedIsTests == \A t : Collected(t) \subseteq Test
  BY DEF Collected

-----------------------------------------------------------------------------

LEMMA InitInv == PatchInit => PatchInv
<1> SUFFICES ASSUME PatchInit PROVE PatchInv
  OBVIOUS
<1> USE DEF PatchInit
<1>1. TypeOK
  BY TreeFacts DEF TypeOK, Steps
<1> QED
  BY <1>1 DEF PatchInv, Remembers, StaysInside, Progress, Superset, Verdicts,
     RollbackIsExact, PromotionIsWhole, Screening, Patching

\* Beginning a candidate on the tree as it is.
LEMMA BeginInv ==
    ASSUME PatchInv, NEW c \in Candidate, Begin(c)
    PROVE  PatchInv'
<1> USE DEF Begin, PatchInv
<1>1. TypeOK'
  BY DEF TypeOK, Steps
<1>2. Touched(c) \subseteq Path
  BY FilesFacts
<1>3. tree = base
  BY DEF StaysInside
<1> QED
  BY <1>1, <1>2, <1>3 DEF Remembers, StaysInside, Progress, Superset, Verdicts,
     RollbackIsExact, PromotionIsWhole, Screening, Patching

\* The immutable guard turns the candidate down before anything is read.
LEMMA GuardRejectInv ==
    ASSUME PatchInv, GuardReject
    PROVE  PatchInv'
<1> USE DEF GuardReject, PatchInv
<1>1. TypeOK'
  BY DEF TypeOK, Steps
<1> QED
  BY <1>1 DEF Remembers, StaysInside, Progress, Superset, Verdicts,
     RollbackIsExact, PromotionIsWhole, Screening, Patching

\* What is read is what apply_candidate found: nothing is written before.
LEMMA ReadOriginalsInv ==
    ASSUME PatchInv, ReadOriginals
    PROVE  PatchInv'
<1> USE DEF ReadOriginals, PatchInv
<1>1. cur \in Candidate /\ Touched(cur) \subseteq Path
  BY FilesFacts DEF TypeOK
<1>2. tree = base
  BY DEF StaysInside
<1>3. orig' \in Tree
  BY DEF TypeOK, Tree, File
<1>4. TypeOK'
  BY <1>3 DEF TypeOK, Steps
<1>5. Remembers'
  <2>1. \A p \in Touched(cur) : orig'[p] = base[p]
    BY <1>1, <1>2
  <2> QED
    BY <2>1 DEF Remembers, StaysInside
<1> QED
  BY <1>4, <1>5 DEF StaysInside, Progress, Superset, Verdicts,
     RollbackIsExact, PromotionIsWhole, Screening, Patching

\* Passing a gate that writes nothing, before the patch is written.
LEMMA ScreenPassInv ==
    ASSUME PatchInv, ScreenPass
    PROVE  PatchInv'
<1> USE DEF ScreenPass, PatchInv
<1>1. TypeOK'
  BY DEF TypeOK, Steps
<1> QED
  BY <1>1 DEF Remembers, StaysInside, Progress, Superset, Verdicts,
     RollbackIsExact, PromotionIsWhole, Screening, Patching

LEMMA CollectBeforeInv ==
    ASSUME PatchInv, CollectBefore
    PROVE  PatchInv'
<1> USE DEF CollectBefore, MayWrite, PatchInv
<1>1. cur \in Candidate /\ Len(Files[cur]) \in Nat /\ Len(Files[cur]) >= 2
  BY FilesFacts DEF TypeOK
<1>2. TypeOK'
  BY <1>1, CollectedIsTests DEF TypeOK, Steps
<1>3. tree = base
  BY DEF StaysInside, Screening
<1> QED
  BY <1>2, <1>3 DEF Remembers, StaysInside, Progress, Superset, Verdicts,
     RollbackIsExact, PromotionIsWhole, Screening, Patching

\* However a step between the guard and the record fails, and whatever it
\* leaves in the candidate's own files, the rollback starts from originals
\* that are all there.
LEMMA UnwindInv ==
    ASSUME PatchInv, step \in Screening \cup Patching, Unwind,
           tree' \in Tree,
           \A p \in Path \ Touched(cur) : tree'[p] = tree[p],
           step \in Screening => tree' = tree,
           UNCHANGED <<cur, orig, before, base>>
    PROVE  PatchInv'
<1> USE DEF Unwind, PatchInv
<1>1. cur \in Candidate /\ Len(Files[cur]) \in Nat /\ Len(Files[cur]) >= 2
  BY FilesFacts DEF TypeOK, Screening, Patching
<1>2. TypeOK'
  BY <1>1 DEF TypeOK, Steps
<1>3. \A p \in Path \ Touched(cur) : tree'[p] = base[p]
  BY DEF StaysInside, Screening, Patching
<1>4. step \in Screening => tree' = base
  BY DEF StaysInside
<1>5. DryRun => step \in Screening
  BY DEF Verdicts, Patching, Screening
<1> QED
  BY <1>2, <1>3, <1>4, <1>5 DEF Remembers, StaysInside, Progress,
     Superset, Verdicts, RollbackIsExact, PromotionIsWhole, Screening, Patching

LEMMA FailInv ==
    ASSUME PatchInv, step \in Screening \cup Patching, Fail
    PROVE  PatchInv'
BY UnwindInv DEF Fail, PatchInv, TypeOK

\* The one failure that may leave something behind: a file cut short.
LEMMA WriteFailsInv ==
    ASSUME PatchInv, WriteFails
    PROVE  PatchInv'
<1> USE DEF WriteFails, PatchInv
<1>1. cur \in Candidate /\ at \in 1 .. Len(Files[cur])
  BY DEF TypeOK
<1>2. Files[cur][at] \in Touched(cur) /\ Files[cur][at] \in Path
  BY <1>1, FilesFacts
<1>3. tree' \in Tree
  BY <1>2 DEF TypeOK, Tree, File
<1>4. \A p \in Path \ Touched(cur) : tree'[p] = tree[p]
  BY <1>2 DEF TypeOK, Tree
<1> QED
  BY <1>3, <1>4, UnwindInv DEF Screening, Patching

\* One more file written, and the whole patch once the last one is.
LEMMA WriteFileInv ==
    ASSUME PatchInv, WriteFile
    PROVE  PatchInv'
<1> USE DEF WriteFile, PatchInv
<1> DEFINE n == Len(Files[cur])
           file(i) == Files[cur][i]
<1>1. /\ cur \in Candidate /\ n \in Nat /\ at \in 1 .. n
      /\ \A i \in 1 .. n : file(i) \in Path /\ file(i) \in Touched(cur)
      /\ Touched(cur) \subseteq Path
      /\ \A p \in Touched(cur) : \E i \in 1 .. n : p = file(i)
      /\ tree \in Tree /\ base \in Tree /\ orig \in Tree
  BY FilesFacts DEF TypeOK
<1>2. orig[file(at)] = base[file(at)] /\ base[Target(cur)] # Absent
  BY <1>1 DEF Remembers, Patching
<1>3. Patched(cur, file(at), orig[file(at)]) \in SUBSET Item
  <2>1. orig[file(at)] \in File
    BY <1>1 DEF Tree
  <2>2. file(at) = Target(cur) => orig[file(at)] # Absent
    BY <1>2
  <2> QED
    BY <1>1, <2>1, <2>2, PatchedIsText
<1>4. tree' = [tree EXCEPT ![file(at)] = Patched(cur, file(at), base[file(at)])]
  BY <1>2
<1>5. tree' \in Tree
  BY <1>1, <1>2, <1>3, <1>4 DEF Tree, File
<1>6. \A p \in Path \ Touched(cur) : tree'[p] = base[p]
  BY <1>1, <1>4 DEF StaysInside, Tree
<1>7. \A i \in 1 .. at : tree'[file(i)] = Patched(cur, file(i), base[file(i)])
  <2>1. SUFFICES ASSUME NEW i \in 1 .. at
                 PROVE  tree'[file(i)] = Patched(cur, file(i), base[file(i)])
    OBVIOUS
  <2>2. file(i) \in Path
    BY <1>1
  <2>3. CASE file(i) = file(at)
    BY <1>1, <1>4, <2>2, <2>3 DEF Tree
  <2>4. CASE file(i) # file(at)
    <3>1. i \in 1 .. at - 1
      BY <1>1, <2>4
    <3>2. tree[file(i)] = Patched(cur, file(i), base[file(i)])
      BY <3>1 DEF Progress
    <3> QED
      BY <1>1, <1>4, <2>2, <2>4, <3>2 DEF Tree
  <2> QED
    BY <2>3, <2>4
<1>8. CASE Past(at)
  <2>1. at = n /\ step' = "recollect" /\ at' = 1
    BY <1>1, <1>8 DEF Past
  <2>2. \A p \in Touched(cur) : tree'[p] = Patched(cur, p, base[p])
    BY <1>1, <1>7, <2>1
  <2>3. tree' = Apply(cur, base)
    BY <1>1, <1>5, <1>6, <2>2 DEF Apply, Tree
  <2>4. TypeOK'
    BY <1>1, <1>5, <2>1 DEF TypeOK, Steps
  <2> QED
    BY <1>6, <2>1, <2>3, <2>4 DEF Remembers, StaysInside, Progress,
       Superset, Verdicts, RollbackIsExact, PromotionIsWhole, Screening, Patching
<1>9. CASE ~Past(at)
  <2>1. at < n /\ step' = "write" /\ at' = at + 1
    BY <1>1, <1>9 DEF Past
  <2>2. at' \in 1 .. n /\ at' - 1 = at
    BY <1>1, <2>1
  <2>3. TypeOK'
    BY <1>1, <1>5, <2>1, <2>2 DEF TypeOK, Steps
  <2>4. Progress'
    BY <1>7, <2>1, <2>2 DEF Progress
  <2> QED
    BY <1>6, <2>1, <2>3, <2>4 DEF Remembers, StaysInside,
       Superset, Verdicts, RollbackIsExact, PromotionIsWhole, Screening, Patching
<1> QED
  BY <1>8, <1>9

\* The tests collected before are still collected.
LEMMA CollectAfterInv ==
    ASSUME PatchInv, CollectAfter
    PROVE  PatchInv'
<1> USE DEF CollectAfter, PatchInv
<1>1. TypeOK'
  BY DEF TypeOK, Steps
<1>2. Superset'
  BY DEF Superset, NotNarrowed, Patching
<1> QED
  BY <1>1, <1>2 DEF Remembers, StaysInside, Progress, Verdicts,
     RollbackIsExact, PromotionIsWhole, Screening, Patching

LEMMA DiagnosticsPassInv ==
    ASSUME PatchInv, DiagnosticsPass
    PROVE  PatchInv'
<1> USE DEF DiagnosticsPass, PatchInv
<1>1. TypeOK'
  BY DEF TypeOK, Steps
<1> QED
  BY <1>1 DEF Remembers, StaysInside, Progress, Superset, Verdicts,
     RollbackIsExact, PromotionIsWhole, Screening, Patching

\* What is kept is the whole patch, judged as it now lies on disk.
LEMMA SuitePassInv ==
    ASSUME PatchInv, SuitePass
    PROVE  PatchInv'
<1> USE DEF SuitePass, PatchInv
<1>1. TypeOK'
  BY DEF TypeOK, Steps
<1>2. PromotionIsWhole'
  BY DEF PromotionIsWhole, Progress, Superset, FullSuite, Patching
<1> QED
  BY <1>1, <1>2 DEF Remembers, StaysInside, Progress, Superset, Verdicts,
     RollbackIsExact, Screening, Patching

\* One more file taken back, and the tree as it was once the last one is.
LEMMA RestoreFileInv ==
    ASSUME PatchInv, RestoreFile
    PROVE  PatchInv'
<1> USE DEF RestoreFile, PatchInv, PutBack
<1> DEFINE n == Len(Files[cur])
           file(i) == Files[cur][i]
<1>1. /\ cur \in Candidate /\ n \in Nat /\ at \in 1 .. n
      /\ \A i \in 1 .. n : file(i) \in Path /\ file(i) \in Touched(cur)
      /\ Touched(cur) \subseteq Path
      /\ \A p \in Touched(cur) : \E i \in 1 .. n : p = file(i)
      /\ tree \in Tree /\ base \in Tree /\ orig \in Tree
  BY FilesFacts DEF TypeOK
<1>2. tree' = [tree EXCEPT ![file(at)] = base[file(at)]]
  BY <1>1 DEF Remembers
<1>3. tree' \in Tree
  BY <1>1, <1>2 DEF Tree
<1>4. \A p \in Path \ Touched(cur) : tree'[p] = base[p]
  BY <1>1, <1>2 DEF StaysInside, Tree
<1>5. \A i \in 1 .. at : tree'[file(i)] = base[file(i)]
  <2>1. SUFFICES ASSUME NEW i \in 1 .. at
                 PROVE  tree'[file(i)] = base[file(i)]
    OBVIOUS
  <2>2. file(i) \in Path
    BY <1>1
  <2>3. CASE file(i) = file(at)
    BY <1>1, <1>2, <2>2, <2>3 DEF Tree
  <2>4. CASE file(i) # file(at)
    <3>1. i \in 1 .. at - 1
      BY <1>1, <2>4
    <3>2. tree[file(i)] = base[file(i)]
      BY <3>1 DEF Progress
    <3> QED
      BY <1>1, <1>2, <2>2, <2>4, <3>2 DEF Tree
  <2> QED
    BY <2>3, <2>4
<1>6. CASE Past(at)
  <2>1. at = n /\ step' = "done" /\ at' = 1
    BY <1>1, <1>6 DEF Past
  <2>2. \A p \in Touched(cur) : tree'[p] = base[p]
    BY <1>1, <1>5, <2>1
  <2>3. tree' = base
    BY <1>1, <1>3, <1>4, <2>2 DEF Tree
  <2>4. TypeOK'
    BY <1>1, <1>3, <2>1 DEF TypeOK, Steps
  <2> QED
    BY <1>4, <2>1, <2>3, <2>4 DEF Remembers, StaysInside, Progress,
       Superset, Verdicts, RollbackIsExact, PromotionIsWhole, Screening, Patching
<1>7. CASE ~Past(at)
  <2>1. at < n /\ step' = "restore" /\ at' = at + 1
    BY <1>1, <1>7 DEF Past
  <2>2. at' \in 1 .. n /\ at' - 1 = at
    BY <1>1, <2>1
  <2>3. TypeOK'
    BY <1>1, <1>3, <2>1, <2>2 DEF TypeOK, Steps
  <2>4. Progress'
    BY <1>5, <2>1, <2>2 DEF Progress, Patching
  <2> QED
    BY <1>4, <2>1, <2>3, <2>4 DEF Remembers, StaysInside,
       Superset, Verdicts, RollbackIsExact, PromotionIsWhole, Screening, Patching
<1> QED
  BY <1>6, <1>7

LEMMA ReturnInv ==
    ASSUME PatchInv, Return
    PROVE  PatchInv'
<1> USE DEF Return, PatchInv
<1>1. TypeOK'
  BY TreeFacts DEF TypeOK, Steps
<1> QED
  BY <1>1 DEF Remembers, StaysInside, Progress, Superset, Verdicts,
     RollbackIsExact, PromotionIsWhole, Screening, Patching

-----------------------------------------------------------------------------

LEMMA NextInv == PatchInv /\ [PatchNext]_patchVars => PatchInv'
<1> SUFFICES ASSUME PatchInv, [PatchNext]_patchVars PROVE PatchInv'
  OBVIOUS
<1>1. ASSUME NEW c \in Candidate, Begin(c) PROVE PatchInv'
  BY <1>1, BeginInv
<1>2. CASE GuardReject
  BY <1>2, GuardRejectInv
<1>3. CASE ReadOriginals
  BY <1>3, ReadOriginalsInv
<1>4. CASE ScreenReject
  BY <1>4, FailInv DEF ScreenReject, Screening
<1>5. CASE ScreenPass
  BY <1>5, ScreenPassInv
<1>6. CASE CollectBefore
  BY <1>6, CollectBeforeInv
<1>7. CASE CollectBeforeFails
  BY <1>7, FailInv DEF CollectBeforeFails, Screening
<1>8. CASE WriteFile
  BY <1>8, WriteFileInv
<1>9. CASE WriteFails
  BY <1>9, WriteFailsInv
<1>10. CASE CollectAfter
  BY <1>10, CollectAfterInv
<1>11. CASE CollectAfterFails
  BY <1>11, FailInv DEF CollectAfterFails, Patching
<1>12. CASE DiagnosticsPass
  BY <1>12, DiagnosticsPassInv
<1>13. CASE DiagnosticsFail
  BY <1>13, FailInv DEF DiagnosticsFail, Patching
<1>14. CASE SuitePass
  BY <1>14, SuitePassInv
<1>15. CASE SuiteFails
  BY <1>15, FailInv DEF SuiteFails, Patching
<1>16. CASE RestoreFile
  BY <1>16, RestoreFileInv
<1>17. CASE Return
  BY <1>17, ReturnInv
<1>18. CASE UNCHANGED patchVars
  BY <1>18 DEF patchVars, PatchInv, TypeOK, Remembers, StaysInside, Progress,
     Superset, Verdicts, RollbackIsExact, PromotionIsWhole
<1> QED
  BY <1>1, <1>2, <1>3, <1>4, <1>5, <1>6, <1>7, <1>8, <1>9, <1>10, <1>11,
     <1>12, <1>13, <1>14, <1>15, <1>16, <1>17, <1>18
     DEF PatchNext, PatchStep

\* PatchInv is an invariant: with it, in every state of every sequence of
\* candidates, apply_candidate can still restore what it read, and what its
\* gates found is still true of the tree.
THEOREM Invariance == PatchSpec => []PatchInv
<1>1. PatchInit => PatchInv
  BY InitInv
<1>2. PatchInv /\ [PatchNext]_patchVars => PatchInv'
  BY NextInv
<1> QED
  BY <1>1, <1>2, PTL DEF PatchSpec

\* Every variable of apply_candidate keeps its type: in particular the file
\* about to be written or restored is one of the candidate's.
THEOREM TypeCorrect == PatchSpec => []TypeOK
BY Invariance, PTL DEF PatchInv

\* A candidate rejected at any step leaves the tree it found.
THEOREM Rollbacks == PatchSpec => []RollbackIsExact
BY Invariance, PTL DEF PatchInv

\* A candidate accepted is wholly written, on a tree that passes its suite
\* and still collects the tests it collected before.
THEOREM Promotions == PatchSpec => []PromotionIsWhole
BY Invariance, PTL DEF PatchInv

\* A dry run leaves the working tree alone for ever.
THEOREM DryRuns == PatchSpec => []DryRunWritesNothing
<1>1. PatchInv => DryRunWritesNothing
  BY DEF PatchInv, Verdicts, DryRunWritesNothing
<1> QED
  BY <1>1, Invariance, PTL

-----------------------------------------------------------------------------

\* KeepOnlyGreen speaks of the same patches and the same suite.
LEMMA SameVocabulary ==
    /\ \A c : Kept!Target(c) = Target(c)
    /\ \A c, t : Kept!Apply(c, t) = Apply(c, t)
    /\ \A t : Kept!Green(t) = Green(t)
    /\ \A t : Kept!Collected(t) = Collected(t)
BY DEF Kept!Target, Kept!Apply, Kept!Green, Kept!Collected, Kept!Touched,
   Kept!Patched, Kept!Passes, Kept!Items, Target, Apply, Green, Collected,
   Touched, Patched, Passes, Items

\* The record of an accepted candidate is the moment of its promotion.
LEMMA SuitePassPromotes ==
    ASSUME PatchInv, SuitePass
    PROVE  Kept!Next
<1> USE DEF SuitePass, PatchInv
<1>1. cur \in Candidate
  BY DEF TypeOK
<1>2. keptTree = base /\ keptTree' = tree
  BY DEF keptTree
<1>3. tree = Apply(cur, base) /\ base[Target(cur)] # Absent
  BY DEF Progress, Remembers, Patching
<1>4. Green(tree) /\ Collected(base) \subseteq Collected(tree)
  BY DEF FullSuite, Superset, Patching
<1>5. Kept!Promote(cur)
  BY <1>2, <1>3, <1>4, SameVocabulary DEF Kept!Promote
<1> QED
  BY <1>1, <1>5 DEF Kept!Next

\* Every step of apply_candidate is a promotion or leaves the kept tree.
LEMMA StepSimulation ==
    ASSUME Rollback, PatchInv, [PatchNext]_patchVars
    PROVE  [Kept!Next]_keptTree
<1>1. CASE SuitePass
  BY <1>1, SuitePassPromotes
<1>2. CASE Return
  <2>1. verdict = "rejected" => tree = base
    BY <1>2 DEF PatchInv, RollbackIsExact, Return
  <2> QED
    BY <1>2, <2>1 DEF Return, keptTree, PatchInv, Verdicts
<1>3. ASSUME NEW c \in Candidate, Begin(c) PROVE keptTree' = keptTree
  BY <1>3 DEF Begin, keptTree, PatchInv, StaysInside
<1>4. CASE UNCHANGED patchVars
  BY <1>4 DEF patchVars, keptTree
<1>5. CASE GuardReject \/ ReadOriginals
  BY <1>5 DEF GuardReject, ReadOriginals, keptTree
<1>6. CASE ScreenReject \/ CollectBeforeFails \/ CollectAfterFails
           \/ DiagnosticsFail \/ SuiteFails
  BY <1>6 DEF ScreenReject, CollectBeforeFails, CollectAfterFails,
     DiagnosticsFail, SuiteFails, Fail, Unwind, keptTree
<1>7. CASE ScreenPass \/ CollectBefore \/ CollectAfter \/ DiagnosticsPass
  BY <1>7 DEF ScreenPass, CollectBefore, CollectAfter, DiagnosticsPass, keptTree
<1>8. CASE WriteFile
  BY <1>8 DEF WriteFile, keptTree
<1>9. CASE WriteFails
  BY <1>9 DEF WriteFails, Unwind, keptTree
<1>10. CASE RestoreFile
  BY <1>10 DEF RestoreFile, keptTree, PatchInv, Verdicts
<1> QED
  BY <1>1, <1>2, <1>3, <1>4, <1>5, <1>6, <1>7, <1>8, <1>9, <1>10
     DEF PatchNext, PatchStep

\* With rollback, apply_candidate implements KeepOnlyGreen: to a reader who
\* looks between candidates the tree only moves by whole, green,
\* test-preserving promotions, however many candidates fail in between.
THEOREM Refinement == Rollback => (PatchSpec => KeepsOnlyGreen)
<1> SUFFICES ASSUME Rollback PROVE PatchSpec => KeepsOnlyGreen
  OBVIOUS
<1>1. PatchInit => Kept!Init
  BY DEF PatchInit, Kept!Init, keptTree
<1>2. PatchInv /\ [PatchNext]_patchVars => [Kept!Next]_keptTree
  BY StepSimulation
<1> QED
  BY <1>1, <1>2, Invariance, PTL DEF PatchSpec, KeepsOnlyGreen, Kept!Spec

-----------------------------------------------------------------------------
(***************************************************************************)
(* How far a call still has to go.  Remaining work is a list of numbers,   *)
(* the first of which weighs most: the number of files is not bounded, so  *)
(* that no single number would do.                                         *)
(***************************************************************************)
Less == {p \in Nat \X Nat : p[1] < p[2]}

Shorter(n) == LexProductOrdering(Less, Nat, n)

\* A list of numbers does not get shorter for ever.
LEMMA ShorterIsWellFounded ==
    ASSUME NEW n \in Nat
    PROVE  IsWellFoundedOn(Shorter(n), [1 .. n -> Nat])
<1>1. IsWellFoundedOn(Less, Nat)
  BY NatLessThanWellFounded DEF OpToRel, Less
<1>2. IsWellFoundedOn(LexProductOrdering(Less, Nat, n), [1 .. n -> Nat])
  BY <1>1, WFLexProductOrdering
<1> QED
  BY <1>2 DEF Shorter

\* A list is shorter if at the first place where it differs it is less.
LEMMA ShorterAt ==
    ASSUME NEW n \in Nat, NEW new \in [1 .. n -> Nat], NEW old \in [1 .. n -> Nat],
           NEW j \in 1 .. n, new[j] < old[j],
           \A i \in 1 .. j - 1 : new[i] = old[i]
    PROVE  <<new, old>> \in Shorter(n)
<1>1. <<new[j], old[j]>> \in Less
  BY SMT DEF Less
<1> DEFINE ff == <<new, old>>
<1>2. ff \in [1 .. n -> Nat] \X [1 .. n -> Nat] /\ ff[1] = new /\ ff[2] = old
  OBVIOUS
<1>3. \E k \in 1 .. n :
         /\ \A i \in 1 .. k - 1 : ff[1][i] = ff[2][i]
         /\ <<ff[1][k], ff[2][k]>> \in Less
  BY <1>1, <1>2
<1> HIDE DEF ff
<1>4. ff \in LexProductOrdering(Less, Nat, n)
  BY <1>2, <1>3, Zenon DEF LexProductOrdering
<1> QED
  BY <1>4 DEF Shorter, ff

LEMMA FiveShorter ==
    ASSUME NEW a1 \in Nat, NEW a2 \in Nat, NEW a3 \in Nat, NEW a4 \in Nat, NEW a5 \in Nat,
           NEW b1 \in Nat, NEW b2 \in Nat, NEW b3 \in Nat, NEW b4 \in Nat, NEW b5 \in Nat,
           \/ b1 < a1
           \/ b1 = a1 /\ b2 < a2
           \/ b1 = a1 /\ b2 = a2 /\ b3 < a3
           \/ b1 = a1 /\ b2 = a2 /\ b3 = a3 /\ b4 < a4
           \/ b1 = a1 /\ b2 = a2 /\ b3 = a3 /\ b4 = a4 /\ b5 < a5
    PROVE  <<<<b1, b2, b3, b4, b5>>, <<a1, a2, a3, a4, a5>>>> \in Shorter(5)
<1> DEFINE old == <<a1, a2, a3, a4, a5>>
           new == <<b1, b2, b3, b4, b5>>
<1>1. old \in [1 .. 5 -> Nat] /\ new \in [1 .. 5 -> Nat]
  OBVIOUS
<1>2. \E j \in 1 .. 5 : new[j] < old[j] /\ \A i \in 1 .. j - 1 : new[i] = old[i]
  <2>1. CASE b1 < a1
    <3>1. 1 \in 1 .. 5 /\ new[1] < old[1] /\ 1 .. 1 - 1 = {}
      BY <2>1
    <3> QED
      BY <3>1
  <2>2. CASE b1 = a1 /\ b2 < a2
    <3>1. 2 \in 1 .. 5 /\ new[2] < old[2] /\ \A i \in 1 .. 2 - 1 : new[i] = old[i]
      BY <2>2
    <3> QED
      BY <3>1
  <2>3. CASE b1 = a1 /\ b2 = a2 /\ b3 < a3
    <3>1. 3 \in 1 .. 5 /\ new[3] < old[3] /\ \A i \in 1 .. 3 - 1 : new[i] = old[i]
      BY <2>3
    <3> QED
      BY <3>1
  <2>4. CASE b1 = a1 /\ b2 = a2 /\ b3 = a3 /\ b4 < a4
    <3>1. 4 \in 1 .. 5 /\ new[4] < old[4] /\ \A i \in 1 .. 4 - 1 : new[i] = old[i]
      BY <2>4
    <3> QED
      BY <3>1
  <2>5. CASE b1 = a1 /\ b2 = a2 /\ b3 = a3 /\ b4 = a4 /\ b5 < a5
    <3>1. 5 \in 1 .. 5 /\ new[5] < old[5] /\ \A i \in 1 .. 5 - 1 : new[i] = old[i]
      BY <2>5
    <3> QED
      BY <3>1
  <2> QED
    BY <2>1, <2>2, <2>3, <2>4, <2>5
<1> QED
  <2> HIDE DEF old, new
  <2>1. <<new, old>> \in Shorter(5)
    BY <1>1, <1>2, ShorterAt
  <2> QED
    BY <2>1 DEF old, new

\* The steps a call has left at most, but for the files it goes through.
Place ==
    CASE step = "guard" -> 9
      [] step = "screen" -> 8
      [] step = "collect" -> 7
      [] step = "write" -> 6
      [] step = "recollect" -> 5
      [] step = "diagnose" -> 4
      [] step = "suite" -> 3
      [] step = "restore" -> 2
      [] step = "done" -> 1
      [] OTHER -> 0

\* The files that are still to be written, or to be put back.
FilesLeft == IF step \in {"write", "restore"} THEN Len(Files[cur]) - at ELSE 0

LEMMA PlaceFacts ==
    ASSUME TypeOK
    PROVE  Place \in Nat /\ FilesLeft \in Nat
<1>1. Place \in Nat
  BY DEF TypeOK, Steps, Place
<1>2. CASE step \in {"write", "restore"}
  <2>1. cur \in Candidate /\ at \in 1 .. Len(Files[cur])
    BY <1>2 DEF TypeOK
  <2>2. Len(Files[cur]) \in Nat
    BY <2>1, FilesFacts
  <2> QED
    BY <1>1, <1>2, <2>1, <2>2 DEF FilesLeft
<1> QED
  BY <1>1, <1>2 DEF FilesLeft

\* Every step of a call brings it nearer to its record, whatever the gates
\* say and whatever has to be put back.
LEMMA CallShrinks ==
    ASSUME TypeOK, PatchStep \/ DiagnosticsPass
    PROVE  Place' < Place \/ (Place' = Place /\ FilesLeft' < FilesLeft)
<1>1. CASE GuardReject \/ ReadOriginals \/ ScreenPass \/ CollectBefore \/ CollectAfter
           \/ DiagnosticsPass \/ SuitePass
  BY <1>1 DEF GuardReject, ReadOriginals, ScreenPass, CollectBefore, CollectAfter,
     DiagnosticsPass, SuitePass, Place
<1>2. CASE ScreenReject \/ CollectBeforeFails \/ WriteFails \/ CollectAfterFails
           \/ DiagnosticsFail \/ SuiteFails
  <2>1. /\ step \in {"screen", "collect", "write", "recollect", "diagnose", "suite"}
        /\ step' \in {"restore", "done"}
    BY <1>2 DEF ScreenReject, CollectBeforeFails, WriteFails, CollectAfterFails,
       DiagnosticsFail, SuiteFails, Fail, Unwind
  <2> QED
    BY <2>1 DEF Place
<1>3. CASE WriteFile \/ RestoreFile
  <2>1. cur' = cur /\ step \in {"write", "restore"}
    BY <1>3 DEF WriteFile, RestoreFile
  <2>2. cur \in Candidate /\ at \in 1 .. Len(Files[cur])
    BY <2>1 DEF TypeOK
  <2>3. Len(Files[cur]) \in Nat
    BY <2>2, FilesFacts
  <2>4. CASE Past(at)
    BY <1>3, <2>4 DEF WriteFile, RestoreFile, Place
  <2>5. CASE ~Past(at)
    <3>1. step' = step /\ at' = at + 1
      BY <1>3, <2>5 DEF WriteFile, RestoreFile
    <3>2. FilesLeft' < FilesLeft
      BY <2>1, <2>2, <2>3, <3>1 DEF FilesLeft
    <3> QED
      BY <3>1, <3>2 DEF Place
  <2> QED
    BY <2>4, <2>5
<1> QED
  BY <1>1, <1>2, <1>3 DEF PatchStep

\* A call keeps to its candidate, remembers the tree it began on, and does
\* not return by itself.
LEMMA CallGoesOn ==
    ASSUME PatchStep \/ DiagnosticsPass
    PROVE  UNCHANGED <<cur, base>> /\ step # "idle" /\ step' # "idle"
<1>1. CASE GuardReject \/ ReadOriginals \/ ScreenPass \/ CollectBefore \/ CollectAfter
           \/ DiagnosticsPass \/ SuitePass
  BY <1>1 DEF GuardReject, ReadOriginals, ScreenPass, CollectBefore, CollectAfter,
     DiagnosticsPass, SuitePass
<1>2. CASE ScreenReject \/ CollectBeforeFails \/ WriteFails \/ CollectAfterFails
           \/ DiagnosticsFail \/ SuiteFails
  BY <1>2 DEF ScreenReject, CollectBeforeFails, WriteFails, CollectAfterFails,
     DiagnosticsFail, SuiteFails, Fail, Unwind
<1>3. CASE WriteFile \/ RestoreFile
  BY <1>3 DEF WriteFile, RestoreFile
<1> QED
  BY <1>1, <1>2, <1>3 DEF PatchStep

\* A call makes no file disappear that was there when it began.
LEMMA StaysThere ==
    ASSUME PatchInv, PatchStep \/ DiagnosticsPass, NEW p \in Path,
           tree[p] # Absent, base[p] # Absent
    PROVE  tree'[p] # Absent
<1>1. tree \in Tree /\ orig \in Tree
  BY DEF PatchInv, TypeOK
<1>2. CASE UNCHANGED tree
  BY <1>2
<1>3. CASE WriteFile
  <2> DEFINE q == Files[cur][at]
  <2>1. cur \in Candidate /\ at \in 1 .. Len(Files[cur])
    BY <1>3 DEF WriteFile, PatchInv, TypeOK
  <2>2. q \in Path /\ q \in Touched(cur) /\ Target(cur) \in Touched(cur)
    BY <2>1, FilesFacts
  <2>3. q = Target(cur) => orig[q] # Absent
    BY <1>3, <2>2 DEF WriteFile, PatchInv, Remembers, Patching
  <2>4. orig[q] \in File
    BY <1>1, <2>2 DEF Tree
  <2>5. Patched(cur, q, orig[q]) # Absent
    BY <2>1, <2>2, <2>3, <2>4, PatchedIsText, SourceTreeAssumption
  <2> QED
    BY <1>1, <1>3, <2>5 DEF WriteFile, Tree
<1>4. CASE WriteFails
  <2>1. {} # Absent
    BY SourceTreeAssumption
  <2> QED
    BY <1>1, <1>4, <2>1 DEF WriteFails, Tree
<1>5. CASE RestoreFile
  <2> DEFINE q == Files[cur][at]
  <2>1. cur \in Candidate /\ at \in 1 .. Len(Files[cur])
    BY <1>5 DEF RestoreFile, PatchInv, TypeOK
  <2>2. q \in Touched(cur)
    BY <2>1, FilesFacts
  <2>3. orig[q] = base[q]
    BY <1>5, <2>2 DEF RestoreFile, PatchInv, Remembers
  <2> QED
    BY <1>1, <1>5, <2>3 DEF RestoreFile, PutBack, Tree
<1> QED
  BY <1>2, <1>3, <1>4, <1>5 DEF PatchStep, DiagnosticsPass, GuardReject, ReadOriginals,
     ScreenReject, ScreenPass, CollectBefore, CollectBeforeFails, CollectAfter,
     CollectAfterFails, DiagnosticsFail, SuitePass, SuiteFails, Fail
=============================================================================
