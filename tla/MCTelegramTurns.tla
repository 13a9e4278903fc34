--------------------------- MODULE MCTelegramTurns ---------------------------
(***************************************************************************)
(* Three messages, one of them for Telegram's own conversation and two for *)
(* another one, a queue of one place, so that it fills up.                 *)
(***************************************************************************)
EXTENDS TelegramTurns

CONSTANTS m1, m2, m3, home, work

MCMessages == {m1, m2, m3}
MCConversations == {home, work}
MCTo(m) == IF m = m1 THEN Unrouted ELSE work
MCInterferences == {"faults", "error", "missing", "deaths", "sends", "stops"}
One(S) == [i \in MCInterferences |-> IF i \in S THEN 1 ELSE 0]
MCMissing == {One({"missing"})}
MCBudgets == {One({"missing", "sends"}), One({"faults", "deaths"}), One({"stops", "sends"}),
              One({"error", "missing"}), One({"deaths", "stops"}), One({"missing", "stops", "faults"})}
==============================================================================
