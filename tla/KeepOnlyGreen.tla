--------------------------- MODULE KeepOnlyGreen ----------------------------
(***************************************************************************)
(* What the closed loop promises about the working tree: it changes in one *)
(* indivisible step, to a patched tree on which the whole suite passes and *)
(* that still collects every test collected before.  A candidate that does *)
(* not get there leaves no trace (scripts/closed_rsi/loop.py, module       *)
(* docstring, points 4 to 6).                                              *)
(***************************************************************************)
EXTENDS SourceTree

VARIABLE kept       \* the tree a reader of the repository may rely on

Init == kept = Tree0

Promote(c) ==
    /\ kept[Target(c)] # Absent
    /\ kept' = Apply(c, kept)
    /\ Green(kept')
    /\ Collected(kept) \subseteq Collected(kept')

Next == \E c \in Candidate : Promote(c)

Spec == Init /\ [][Next]_kept
=============================================================================
