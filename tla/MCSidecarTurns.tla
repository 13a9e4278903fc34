--------------------------- MODULE MCSidecarTurns ---------------------------
(* The smallest instance in which a turn waits for another one: two turns, two
   conversations, one folder that both may need, one stop. Folders that contain
   each other and engine sessions are left to MCExecutionLeases. *)
EXTENDS SidecarTurns

CONSTANTS t1, t2, c1, c2, proj, sub

MCTurns == {t1, t2}
MCConversations == {c1, c2}
MCSessions == {}
MCFolders == {<<proj>>, <<proj, sub>>}
MCLower == (proj :> proj) @@ (sub :> sub)
=============================================================================
