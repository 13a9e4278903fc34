----------------------------- MODULE MCTaskWatch -----------------------------
(***************************************************************************)
(* Two watches that report into one conversation.  Not everything happens  *)
(* at once: one marker meets everything that can interfere with it, the    *)
(* composer included; two markers meet each other with one failing call,   *)
(* or with a turn of the composer and a restart of the app.                *)
(***************************************************************************)
EXTENDS TaskWatch, TLC

CONSTANTS w1, w2, c1

MCWatches == {w1, w2}
OneConversation == {c1}
Shared(w) == c1

None == [i \in Interferences |-> 0]
Alone == [fresh |-> {w1}, budget |-> [i \in Interferences |-> 1]]
TwoAndAFault == [fresh |-> MCWatches, budget |-> [None EXCEPT !["faults"] = 1]]
TwoAndARestart ==
    [fresh |-> MCWatches, budget |-> [None EXCEPT !["restarts"] = 1, !["sends"] = 1]]
MCTrials == {Alone, TwoAndAFault, TwoAndARestart}

OneDeath == {[fresh |-> {w1}, budget |-> [None EXCEPT !["deaths"] = 1]]}
==============================================================================
