--------------------------- MODULE ConversationIds ---------------------------
(* Conversations, and the value that stands for "no turn" where the code keeps
   no entry in a map from conversations to turns. *)
EXTENDS TurnIds

CONSTANTS Conversations, NoTurn, NoConv

ASSUME NoTurnAssumption == NoTurn \notin Turns
==============================================================================
