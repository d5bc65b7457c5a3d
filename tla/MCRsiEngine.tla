---------------------------- MODULE MCRsiEngine -----------------------------
(***************************************************************************)
(* An engine for TLC.  Its source has nine literals: the 8 of the usage    *)
(* text and the 0.4 of the critic come before the adapt_steps and the      *)
(* SCORE_W_STRESS that have the same literal, as in the file.              *)
(***************************************************************************)
EXTENDS RsiEngine

MCPlaces == 1..9
MCLiterals == {"8", "0.4", "0.1971", "0.1", "0.2", "0.45", "0.0", "x"}
MCInitialText ==
    <<"8", "0.4", "0.45", "0.4", "0.0", "0.1971", "8", "0.1", "0.2">>
MCParams == {"crossover_rate", "adapt_steps"}
MCTarget ==
    [crossover_rate |-> 6, adapt_steps |-> 7,
     insert_assign |-> 8, list_manip |-> 9,
     SCORE_W_HOLD |-> 3, SCORE_W_STRESS |-> 4, SCORE_W_TRAIN |-> 5]
MCOpWeights == <<"insert_assign", "list_manip">>
MCScoreWeights == <<"SCORE_W_HOLD", "SCORE_W_STRESS", "SCORE_W_TRAIN">>
=============================================================================
