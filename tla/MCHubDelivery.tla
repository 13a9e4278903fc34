--------------------------- MODULE MCHubDelivery ----------------------------
(* An ordinary result and an urgent one, or two ordinary ones, which then meet in a
   summary; two ticks that may overlap. *)
EXTENDS HubDelivery

CONSTANTS ordinary, second, urgent, k1, k2
=============================================================================
