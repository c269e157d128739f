---------------------------- MODULE MCLocalShell ----------------------------
(* Values for the constants of LocalShell. *)
EXTENDS LocalShell, TLC

OneStage == {<<"gen">>, <<"nofile">>}
TwoStages == {<<"missing", "copy">>}
ThreeStages == {<<"gen", "copy", "take">>}
Internal == {<<"exit">>, <<"cd">>, <<"rc">>, <<"cd", "copy">>}

AllLines == OneStage \cup TwoStages \cup ThreeStages \cup Internal
=============================================================================
