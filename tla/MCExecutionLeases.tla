-------------------------- MODULE MCExecutionLeases --------------------------
(* Three turns, one engine session and three folders: a project, a folder in
   it, and the same project spelled in another letter case. *)
EXTENDS ExecutionLeases, TLC

CONSTANTS r1, r2, r3, s1, proj, Proj, sub

MCTurns == {r1, r2, r3}
MCSessions == {s1}
MCFolders == {<<proj>>, <<Proj>>, <<proj, sub>>}
MCLower == (proj :> proj) @@ (Proj :> proj) @@ (sub :> sub)

==============================================================================
