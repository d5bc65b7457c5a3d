---------------------------- MODULE MCDeepMemory ----------------------------
(***************************************************************************)
(* A memory for TLC: three contents of one subject, the second alike to    *)
(* the first and to the third, which are not alike.                        *)
(***************************************************************************)
EXTENDS DeepMemory

CONSTANTS tea, either, coffee, breakfast

MCContents == {tea, either, coffee}
MCSubjects == {breakfast}
MCKey == MCSubjects \X MCContents

MCAlike == {pair \in MCKey \X MCKey :
               \/ pair[1] = pair[2]
               \/ <<breakfast, either>> \in {pair[1], pair[2]}}

\* Alike treats the two the same.
MCSymmetry == Permutations({tea, coffee})
=============================================================================
