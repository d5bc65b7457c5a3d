-------------------------- MODULE PatchTransaction --------------------------
(***************************************************************************)
(* ClosedRecursiveSelfImprovementLoop.apply_candidate: one candidate patch *)
(* is screened, written file by file, judged by the gates, and kept or     *)
(* rolled back file by file.  One action per step that reads the tree,     *)
(* writes it or may raise; everything a step raises is caught by the one   *)
(* "except Exception" of the method, which is the operator Fail.           *)
(*                                                                         *)
(* A subprocess gate may fail on a good tree (it is cut off at timeout_s,  *)
(* exit code 124) but passes only on a tree that deserves it.              *)
(***************************************************************************)
EXTENDS SourceTree

CONSTANTS
    NoCandidate,
    Flagged,        \* candidates whose text the immutable guard finds fault with
    Guarded,        \* paths whose name, from the root, contains a pattern
    Spelled,        \* Spelled[c]: those whose name, as c spells it, does
    Judge,          \* what README.md calls the immutable boundary
    Cheats,         \* candidates the anti-cheat or reference gates catch
    Unproductive,   \* candidates with an empty generator_improvement
    Evaluated,      \* capability candidates: the loop's process runs their code
    DryRun,         \* self.dry_run
    Rollback        \* self.rollback

ASSUME PatchTransactionAssumption ==
    /\ NoCandidate \notin Candidate
    /\ Flagged \subseteq Candidate
    /\ Guarded \subseteq Path
    /\ Spelled \in [Candidate -> SUBSET Path]
    /\ Judge \subseteq Path
    /\ Cheats \subseteq Candidate
    /\ Unproductive \subseteq Candidate
    /\ Evaluated \subseteq Candidate
    /\ DryRun \in BOOLEAN
    /\ Rollback \in BOOLEAN

VARIABLES
    tree,       \* the files on disk
    step,       \* where apply_candidate stands
    cur,        \* the candidate it was called with
    at,         \* the next of Files[cur] to write or to restore
    orig,       \* original_target, original_test and original_extra
    before,     \* pre_nodeids
    verdict,    \* record.accepted, once there is a record
    base        \* history: the tree when apply_candidate was called

patchVars == <<tree, step, cur, at, orig, before, verdict, base>>

Steps == {"idle", "guard", "screen", "collect", "write", "recollect",
          "diagnose", "suite", "restore", "done"}

TypeOK ==
    /\ tree \in Tree
    /\ step \in Steps
    /\ cur \in Candidate \cup {NoCandidate}
    /\ step # "idle" => cur \in Candidate
    /\ at \in Nat
    /\ step \in {"write", "restore"} => at \in 1 .. Len(Files[cur])
    /\ orig \in Tree
    /\ before \subseteq Test
    /\ verdict \in {"none", "accepted", "rejected"}
    /\ base \in Tree

PatchInit ==
    /\ tree = Tree0
    /\ step = "idle"
    /\ cur = NoCandidate
    /\ at = 1
    /\ orig = Tree0
    /\ before = {}
    /\ verdict = "none"
    /\ base = Tree0

(***************************************************************************)
(* What the guard and the screening gates look for.                        *)
(***************************************************************************)

\* candidate_immutable_boundary_findings: a path or a text it must not name.
\* Target and test file are resolved against the root before they are held
\* against the patterns; the extra files are taken as the candidate spells them.
OutOfBounds(c) ==
    \/ c \in Flagged
    \/ {Target(c), TestPath(c)} \cap Guarded # {}
    \/ Extras(c) \cap Spelled[c] # {}

\* rewritten == original_target and not missing_extra
NoChange(c) ==
    /\ Patched(c, Target(c), tree[Target(c)]) = tree[Target(c)]
    /\ \A p \in Extras(c) : tree[p] # Absent

\* The tests of the candidate's own test file, which the focused gate runs.
FocusedGreen(c) == \A x \in Source[c][TestPath(c)] \cap Test : Passes(x, tree)

\* Mutant of NotNarrowed: it compares how many tests there are.
NotFewer == Cardinality(before) <= Cardinality(Collected(tree))

\* test_collection_superset_gate
NotNarrowed == before \subseteq Collected(tree)

\* full_pytest, repeat_full_pytest and, under broad_gate, the broad gates;
\* its mutant is FocusedGreen, a promotion on the candidate's own tests.
FullSuite(c) == Green(tree)

\* "dry run cannot promote without full pytest"
MayWrite == ~DryRun

\* Mutant of PutBack: files the candidate created are not unlinked.
PutBackExisting(p) ==
    IF orig[p] = Absent THEN tree ELSE [tree EXCEPT ![p] = orig[p]]

PutBack(p) == [tree EXCEPT ![p] = orig[p]]

\* Mutant of Past: one file too many.
PastEnd(i) == i > Len(Files[cur])

\* Nothing is left to write or to restore after Files[cur][i].
Past(i) == i >= Len(Files[cur])

(***************************************************************************)
(* The steps.                                                              *)
(***************************************************************************)

\* Generators offer only targets they have read, so the target is there.
Begin(c) ==
    /\ step = "idle"
    /\ tree[Target(c)] # Absent
    /\ step' = "guard"
    /\ cur' = c
    /\ base' = tree
    /\ UNCHANGED <<tree, at, orig, before, verdict>>

\* The except clause: roll back if asked to, and record a rejection.
Unwind ==
    /\ step' = IF ~DryRun /\ Rollback THEN "restore" ELSE "done"
    /\ at' = 1
    /\ verdict' = "rejected"

Fail == Unwind /\ UNCHANGED <<tree, cur, orig, before, base>>

\* The immutable gate returns its record before anything is read or tried.
GuardReject ==
    /\ step = "guard"
    /\ OutOfBounds(cur)
    /\ step' = "done"
    /\ verdict' = "rejected"
    /\ UNCHANGED <<tree, cur, at, orig, before, base>>

ReadOriginals ==
    /\ step = "guard"
    /\ ~OutOfBounds(cur)
    /\ orig' = [p \in Path |-> IF p \in Touched(cur) THEN tree[p] ELSE Absent]
    /\ step' = "screen"
    /\ UNCHANGED <<tree, cur, at, before, verdict, base>>

ScreenReject ==
    /\ step = "screen"
    /\ NoChange(cur) \/ cur \in Cheats
    /\ Fail

ScreenPass ==
    /\ step = "screen"
    /\ ~NoChange(cur)
    /\ cur \notin Cheats
    /\ step' = "collect"
    /\ UNCHANGED <<tree, cur, at, orig, before, verdict, base>>

CollectBefore ==
    /\ step = "collect"
    /\ MayWrite
    /\ before' = Collected(tree)
    /\ step' = "write"
    /\ at' = 1
    /\ UNCHANGED <<tree, cur, orig, verdict, base>>

\* Collection fails, or this is a dry run, which never gets past this point.
CollectBeforeFails ==
    /\ step = "collect"
    /\ Fail

\* Target, test file, extra files, in that order.  "at" is the next one.
WriteFile ==
    /\ step = "write"
    /\ LET p == Files[cur][at]
       IN  tree' = [tree EXCEPT ![p] = Patched(cur, p, orig[p])]
    /\ IF Past(at)
       THEN step' = "recollect" /\ at' = 1
       ELSE step' = step /\ at' = at + 1
    /\ UNCHANGED <<cur, orig, before, verdict, base>>

\* write_text truncates first: a failed write may leave the file empty.
WriteFails ==
    /\ step = "write"
    /\ tree' \in {tree, [tree EXCEPT ![Files[cur][at]] = {}]}
    /\ Unwind
    /\ UNCHANGED <<cur, orig, before, base>>

CollectAfter ==
    /\ step = "recollect"
    /\ NotNarrowed
    /\ step' = "diagnose"
    /\ UNCHANGED <<tree, cur, at, orig, before, verdict, base>>

CollectAfterFails ==
    /\ step = "recollect"
    /\ Fail

\* compile, focused, self-authored, capability, schema and external gates.
DiagnosticsPass ==
    /\ step = "diagnose"
    /\ FocusedGreen(cur)
    /\ step' = "suite"
    /\ UNCHANGED <<tree, cur, at, orig, before, verdict, base>>

DiagnosticsFail ==
    /\ step = "diagnose"
    /\ Fail

SuitePass ==
    /\ step = "suite"
    /\ FullSuite(cur)
    /\ cur \notin Unproductive
    /\ step' = "done"
    /\ verdict' = "accepted"
    /\ UNCHANGED <<tree, cur, at, orig, before, base>>

\* A test fails or times out, or nothing is said to improve the generator.
SuiteFails ==
    /\ step = "suite"
    /\ Fail

RestoreFile ==
    /\ step = "restore"
    /\ tree' = PutBack(Files[cur][at])
    /\ IF Past(at)
       THEN step' = "done" /\ at' = 1
       ELSE step' = step /\ at' = at + 1
    /\ UNCHANGED <<cur, orig, before, verdict, base>>

\* The record has been handed to the caller.
Return ==
    /\ step = "done"
    /\ step' = "idle"
    /\ cur' = NoCandidate
    /\ at' = 1
    /\ orig' = Tree0
    /\ before' = {}
    /\ verdict' = "none"
    /\ base' = tree
    /\ UNCHANGED tree

\* Operators of the candidate run inside the loop's process, by the capability
\* gates and once more for the delta: unlike a gate's process, no timeout_s
\* cuts them off.
Evaluating == cur \in Evaluated /\ step \in {"diagnose", "suite"}

\* The steps apply_candidate takes by itself, DiagnosticsPass apart: what
\* the self-authored gate sees is up to the caller.
PatchStep ==
    \/ GuardReject \/ ReadOriginals \/ ScreenReject \/ ScreenPass
    \/ CollectBefore \/ CollectBeforeFails \/ WriteFile \/ WriteFails
    \/ CollectAfter \/ CollectAfterFails \/ DiagnosticsFail
    \/ SuitePass \/ SuiteFails \/ RestoreFile

PatchNext ==
    \/ \E c \in Candidate : Begin(c)
    \/ PatchStep
    \/ DiagnosticsPass
    \/ Return

PatchSpec == PatchInit /\ [][PatchNext]_patchVars

-----------------------------------------------------------------------------
(***************************************************************************)
(* Properties.                                                             *)
(***************************************************************************)

\* A rejected candidate leaves the tree exactly as apply_candidate found it,
\* files that did not exist before included, whichever step rejected it.
RollbackIsExact ==
    Rollback /\ step = "done" /\ verdict = "rejected" => tree = base

\* An accepted candidate is the whole patch and nothing but the patch, on a
\* tree that passes its suite and still collects every test it had.
PromotionIsWhole ==
    step = "done" /\ verdict = "accepted" =>
        /\ tree = Apply(cur, base)
        /\ Green(tree)
        /\ Collected(base) \subseteq Collected(tree)

\* No promotion writes to the code that decides whether changes are safe:
\* "any patch that tries to write inside that boundary is rejected"
\* (README.md).  It is not so where a guarded file is spelled in another way,
\* nor for judging code that no pattern names.
BoundaryHolds ==
    step = "done" /\ verdict = "accepted" => Touched(cur) \cap Judge = {}

\* A dry run never writes to the tree.
DryRunWritesNothing == DryRun => tree = Tree0

\* The tree as a reader who ignores the candidate in flight should see it.
keptTree == IF step = "done" /\ verdict = "accepted" THEN tree ELSE base

Kept == INSTANCE KeepOnlyGreen WITH kept <- keptTree

\* Seen so, the tree only ever changes by whole, green, test-preserving
\* promotions: file-by-file writing and rollback implement one atomic step.
KeepsOnlyGreen == Kept!Spec

-----------------------------------------------------------------------------
(***************************************************************************)
(* Why they hold: what each step may rely on.                              *)
(***************************************************************************)

Screening == {"screen", "collect"}
Patching == {"write", "recollect", "diagnose", "suite"}

\* While a candidate may be written or rolled back its originals are kept,
\* and its target was there.
Remembers ==
    step \in Screening \cup Patching \cup {"restore"} =>
        /\ \A p \in Touched(cur) : orig[p] = base[p]
        /\ base[Target(cur)] # Absent

\* Whatever is going on, it goes on in the candidate's own files.
StaysInside ==
    /\ step # "idle" =>
          \A p \in Path \ Touched(cur) : tree[p] = base[p]
    /\ step \in {"idle", "guard"} \cup Screening => tree = base
    /\ step = "guard" => base[Target(cur)] # Absent

\* How far the patch has been written, or taken back.
Progress ==
    /\ step = "write" =>
          \A i \in 1 .. at - 1 :
              tree[Files[cur][i]] = Patched(cur, Files[cur][i], base[Files[cur][i]])
    /\ step \in Patching \ {"write"} => tree = Apply(cur, base)
    /\ step = "restore" =>
          \A i \in 1 .. at - 1 : tree[Files[cur][i]] = base[Files[cur][i]]

Superset ==
    /\ step \in Patching => before = Collected(base)
    /\ step \in {"diagnose", "suite"} => before \subseteq Collected(tree)

Verdicts ==
    /\ step \notin {"restore", "done"} => verdict = "none"
    /\ step = "restore" => verdict = "rejected" /\ Rollback
    /\ step \in Patching \cup {"restore"} => ~DryRun
    /\ step = "done" => verdict \in {"accepted", "rejected"}
    /\ DryRun => base = Tree0 /\ tree = Tree0 /\ verdict # "accepted"

\* The inductive invariant: each gate's knowledge is still true when the
\* next step uses it, and the rollback can always reach the tree it left.
PatchInv ==
    /\ TypeOK
    /\ Remembers
    /\ StaysInside
    /\ Progress
    /\ Superset
    /\ Verdicts
    /\ RollbackIsExact
    /\ PromotionIsWhole
=============================================================================
