-------------------------- MODULE MCTelegramPolling --------------------------
(* Two loops over five updates, one of which is not for the app. *)
EXTENDS TelegramPolling

CONSTANTS l1, l2

MCLoops == {l1, l2}
==============================================================================
