---------------------------- MODULE MCTurnControl ----------------------------
(* Activations of handleSendMessage in one conversation: with two, a running
   turn and a message behind it; with three also the reservation of one being
   sent by another; with four a reservation that waits behind that one. *)
EXTENDS TurnControl, TLC

CONSTANTS t1, t2, t3, t4, c1

TwoTurns == {t1, t2}
ThreeTurns == {t1, t2, t3}
FourTurns == {t1, t2, t3, t4}
MCConversations == {c1}
MCNeeds == {{}}
MCCompatible(m, n) == TRUE

Symmetry == Permutations(Typed)
==============================================================================
