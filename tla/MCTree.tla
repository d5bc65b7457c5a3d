------------------------------- MODULE MCTree -------------------------------
(***************************************************************************)
(* A small repository and candidates for TLC.  Between them they are kept, *)
(* and are turned down at every gate, depending on what was kept           *)
(* before: "same" overwrites the test file of "new", "undo" takes out what *)
(* "new" put in, "break" what the repository needs; "judge" writes to a    *)
(* gate, and "alias" too, by another of its names; "tune" writes to the    *)
(* guard itself; "idle" changes nothing, "vague" improves no generator.    *)
(***************************************************************************)
EXTENDS Naturals, Sequences, FiniteSets, TLC

\* A file with no text is {}; a path without a file is not a set of items.
MCAbsent == {"no file"}

CONSTANT Chosen     \* those of the candidates that a run is about

MCCandidate == Chosen

MCPath == {"src", "tests", "test_new", "test_other", "helper",
           "gate", "guard"}

MCTest == {"t_base", "t_new", "t_same", "t_other"}

MCItem == {"f_base", "f_new", "f_same", "f_other", "help", "rule", "new_rule"} \cup MCTest

MCFiles ==
    [c \in MCCandidate |->
        CASE c = "new"   -> <<"src", "test_new", "helper">>
          [] c = "same"  -> <<"src", "test_new">>
          [] c \in {"judge", "alias"} -> <<"src", "test_other", "gate">>
          [] c = "tune"  -> <<"src", "test_other", "guard">>
          [] OTHER       -> <<"src", "test_other">>]

MCAdds ==
    [c \in MCCandidate |->
        CASE c = "new"  -> {"f_new"}
          [] c = "same" -> {"f_same"}
          [] c = "idle" -> {"f_base"}
          [] OTHER      -> {"f_other"}]

MCDrops ==
    [c \in MCCandidate |->
        CASE c = "undo"  -> {"f_new"}
          [] c = "break" -> {"f_base"}
          [] OTHER       -> {}]

MCSource ==
    [c \in MCCandidate |-> [p \in MCPath |->
        CASE p = "helper"               -> {"help"}
          [] p = "test_new" /\ c = "new" -> {"t_new"}
          [] p = "test_new"             -> {"t_same"}
          [] p = "test_other"           -> {"t_other"}
          [] OTHER                      -> {"new_rule"}]]

MCNeeds ==
    [x \in MCTest |->
        CASE x = "t_base" -> {"f_base"}
          [] x = "t_new"  -> {"f_new", "help"}
          [] x = "t_same" -> {"f_same"}
          [] OTHER        -> {"f_other"}]

\* The tests of the repository were written before the helper existed.
MCClash == [x \in MCTest |-> IF x = "t_same" THEN {"help"} ELSE {}]

\* README.md counts the guard among the judging code; its patterns do not.
MCJudge == {"gate", "guard"}

MCGuarded == {"gate"}

MCSpelled == [c \in MCCandidate |-> IF c = "alias" THEN {} ELSE MCGuarded]

MCTree0 ==
    [p \in MCPath |->
        CASE p = "src"   -> {"f_base"}
          [] p = "tests" -> {"t_base"}
          [] p \in MCJudge -> {"rule"}
          [] OTHER       -> MCAbsent]

\* "family" repairs a family invented from the failure of "break"; once there
\* is a failure of "same" too, the commonest terms, and the family, are others.
MCSelfAuthored == {"family"} \cap Chosen

MCProposes ==
    [h \in SUBSET MCCandidate |->
        IF "break" \in h /\ "same" \notin h THEN MCSelfAuthored ELSE {}]
=============================================================================
