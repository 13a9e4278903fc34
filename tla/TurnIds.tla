------------------------------- MODULE TurnIds -------------------------------
(* The ids of root turns.  The desktop app draws a fresh UUID for every turn
   it starts, so an id is never used twice. *)
CONSTANT Turns
==============================================================================
