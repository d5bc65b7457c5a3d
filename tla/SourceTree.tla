----------------------------- MODULE SourceTree -----------------------------
(***************************************************************************)
(* The working tree that the closed loop patches, and the candidates it    *)
(* patches it with (scripts/closed_rsi/records.py, CandidatePatch).        *)
(*                                                                         *)
(* A file is Absent or a set of items: the pieces of source (functions,    *)
(* markers, registry entries) and the test node ids that its text defines. *)
(* The text itself is abstracted; a test's verdict depends on the items    *)
(* the tree holds.                                                         *)
(***************************************************************************)
EXTENDS Naturals, Sequences, FiniteSets

CONSTANTS
    Candidate,      \* candidate patches
    Path,           \* paths under the repository root
    Item,           \* pieces of source and test node ids
    Test,           \* the items that are test node ids
    Absent,         \* the value of a path that holds no file
    Files,          \* Files[c]: target, test file, then the extra files
    Adds,           \* Adds[c], Drops[c]: what the transform of c puts into
    Drops,          \*   and takes out of its target
    Source,         \* Source[c][p]: the full text c writes at a non-target p
    Needs,          \* Needs[x]: the items test x needs to find in the tree
    Clash,          \* Clash[x]: the items that make test x fail
    Tree0           \* the tree before the first run

File == (SUBSET Item) \cup {Absent}
Tree == [Path -> File]

ASSUME SourceTreeAssumption ==
    /\ Test \subseteq Item
    /\ Absent \notin SUBSET Item
    /\ Files \in [Candidate -> Seq(Path)]
    /\ \A c \in Candidate : Len(Files[c]) >= 2
    /\ \A c \in Candidate : \A i, j \in 1 .. Len(Files[c]) :
          Files[c][i] = Files[c][j] => i = j
    /\ Adds \in [Candidate -> SUBSET Item]
    /\ Drops \in [Candidate -> SUBSET Item]
    /\ Source \in [Candidate -> [Path -> SUBSET Item]]
    /\ Needs \in [Test -> SUBSET Item]
    /\ Clash \in [Test -> SUBSET Item]
    /\ Tree0 \in Tree

Target(c) == Files[c][1]
TestPath(c) == Files[c][2]
Extras(c) == {Files[c][i] : i \in 3 .. Len(Files[c])}
Touched(c) == {Files[c][i] : i \in 1 .. Len(Files[c])}

\* What c leaves at p when the file read there before the patch was old.
Patched(c, p, old) ==
    IF p = Target(c) THEN (old \ Drops[c]) \cup Adds[c] ELSE Source[c][p]

\* The whole patch applied to tree t.
Apply(c, t) ==
    [p \in Path |-> IF p \in Touched(c) THEN Patched(c, p, t[p]) ELSE t[p]]

Items(t) == UNION {t[p] : p \in {q \in Path : t[q] # Absent}}

\* pytest --collect-only: the node ids the tree defines.
Collected(t) == Items(t) \cap Test

Passes(x, t) == Needs[x] \subseteq Items(t) /\ Clash[x] \cap Items(t) = {}

\* python -m pytest -q exits 0 on t.
Green(t) == \A x \in Collected(t) : Passes(x, t)
=============================================================================
