----------------------------- MODULE Quarantine -----------------------------
(***************************************************************************)
(* run_quarantine_exploration: chains of candidates tried in a disposable  *)
(* copy of the repository, by a loop that neither rolls back nor persists. *)
(* The tree of this module is the copy, Tree0 what was copied.  The copy   *)
(* is thrown away; its records go into the history of ClosedLoop           *)
(* (Explore).                                                              *)
(*                                                                         *)
(* Each depth draws its candidates once, from the copy and from the        *)
(* records so far; the digest order in which they are tried is left open.  *)
(***************************************************************************)
EXTENDS PatchTransaction

CONSTANTS
    SelfAuthored,       \* as in ClosedLoop
    Proposes,
    MaxCandidates,      \* max_candidates, per depth
    ExplorationDepth    \* self.exploration_depth

ASSUME QuarantineAssumption ==
    /\ ~DryRun
    /\ ~Rollback
    /\ SelfAuthored \subseteq Candidate
    /\ Proposes \in [SUBSET Candidate -> SUBSET SelfAuthored]
    /\ Proposes[{}] = {}
    /\ MaxCandidates \in Nat
    /\ ExplorationDepth \in Nat

VARIABLES
    phase,      \* where the exploration stands
    depth,      \* chain depth
    ranked,     \* the candidates drawn at this depth
    tried,      \* tried_at_depth
    records,    \* one per candidate tried: its name, depth and verdict
    halted      \* the kill switch is set or the wall clock has run out

exploreVars == <<phase, depth, ranked, tried, records>>
vars == <<patchVars, exploreVars, halted>>

Record == [name : Candidate, depth : Nat, verdict : {"accepted", "rejected"}]

Recorded(v) == {records[i].name : i \in {j \in DOMAIN records : records[j].verdict = v}}
Attempted == Recorded("accepted") \cup Recorded("rejected")

\* invent_candidates of the quarantine loop, on the copy as it is now.
Drawn ==
    {c \in Candidate :
        /\ tree[Target(c)] # Absent
        /\ ~(Adds[c] \subseteq tree[Target(c)])
        /\ c \in SelfAuthored => c \in Proposes[Recorded("rejected")]}

\* Mutant of Untried: what an earlier depth tried is not skipped.
UntriedHere ==
    ranked \ {records[i].name : i \in {j \in DOMAIN records : records[j].depth = depth}}

Untried == ranked \ Attempted

\* Mutant of MayTry: one candidate too many.
MayTryOneMore == tried <= MaxCandidates

\* tried_at_depth >= max_candidates breaks the depth off.
MayTry == tried < MaxCandidates

\* Mutant of Spent: the depth waits for candidates it may not try.
NoneUntried == Untried = {}

Spent == tried = MaxCandidates \/ Untried = {}

QuarantineTypeOK ==
    /\ TypeOK
    /\ phase \in {"depth", "candidate", "attempt", "over"}
    /\ step # "idle" => phase = "attempt"
    /\ depth \in 0 .. ExplorationDepth
    /\ ranked \subseteq Candidate
    /\ tried \in 0 .. MaxCandidates
    /\ records \in Seq(Record)
    /\ halted \in BOOLEAN

QuarantineInit ==
    /\ PatchInit
    /\ phase = "depth"
    /\ depth = 0
    /\ ranked = {}
    /\ tried = 0
    /\ records = <<>>
    /\ halted = FALSE

NextDepth ==
    /\ phase = "depth"
    /\ depth < ExplorationDepth
    /\ ~halted
    /\ Drawn # {}
    /\ phase' = "candidate"
    /\ depth' = depth + 1
    /\ ranked' = Drawn
    /\ tried' = 0
    /\ UNCHANGED <<patchVars, records, halted>>

EndExploration ==
    /\ phase = "depth"
    /\ depth = ExplorationDepth \/ halted \/ Drawn = {}
    /\ phase' = "over"
    /\ UNCHANGED <<patchVars, depth, ranked, tried, records, halted>>

Try(c) ==
    /\ phase = "candidate"
    /\ MayTry
    /\ c \in Untried
    /\ Begin(c)
    /\ phase' = "attempt"
    /\ tried' = tried + 1
    /\ UNCHANGED <<depth, ranked, records, halted>>

\* A depth at which nothing was left to try ends the exploration.
DepthDone ==
    /\ phase = "candidate"
    /\ Spent
    /\ phase' = IF tried = 0 THEN "over" ELSE "depth"
    /\ UNCHANGED <<patchVars, depth, ranked, tried, records, halted>>

Work ==
    /\ phase = "attempt"
    /\ PatchStep
    /\ UNCHANGED <<exploreVars, halted>>

\* The quarantine loop never saves: its gates read a history of nothing.
CaseBank == Proposes[{}]

PassDiagnostics ==
    /\ phase = "attempt"
    /\ DiagnosticsPass
    /\ cur \in SelfAuthored => cur \in CaseBank
    /\ UNCHANGED <<exploreVars, halted>>

\* An acceptance does not end the depth: the next candidate builds on it.
FileRecord ==
    /\ phase = "attempt"
    /\ Return
    /\ records' = Append(records, [name |-> cur, depth |-> depth, verdict |-> verdict])
    /\ phase' = "candidate"
    /\ UNCHANGED <<depth, ranked, tried, halted>>

Halt ==
    /\ phase # "over"
    /\ ~halted
    /\ halted' = TRUE
    /\ UNCHANGED <<patchVars, exploreVars>>

ExploreStep ==
    \/ NextDepth \/ EndExploration
    \/ \E c \in Candidate : Try(c)
    \/ DepthDone \/ Work \/ PassDiagnostics \/ FileRecord

Next == ExploreStep \/ Halt

Spec == QuarantineInit /\ [][Next]_vars

\* As in ClosedLoop: a gate's process is cut off, a candidate's operators run
\* inside the loop's own process are not.
FairSpec == Spec /\ WF_vars(ExploreStep /\ ~Evaluating)

-----------------------------------------------------------------------------
(***************************************************************************)
(* Properties.                                                             *)
(***************************************************************************)

\* However deep the chain, each candidate has one record: a candidate that
\* failed is not tried again on a tree that has moved on.
OneRecordEach ==
    \A i, j \in DOMAIN records : records[i].name = records[j].name => i = j

\* The exploration ends, whatever is drawn at each depth, unless it stays for
\* ever inside the code of a candidate it evaluates.
ExplorationEnds == <>[]Evaluating \/ <>(phase = "over")
=============================================================================
