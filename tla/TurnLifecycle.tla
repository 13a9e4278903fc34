---------------------------- MODULE TurnLifecycle ----------------------------
(***************************************************************************)
(* Which turn of a conversation the sidecar is executing                   *)
(* (sidecar/src/turnLifecycle.ts).  The entry of a turn lives from the     *)
(* claim until every process of the turn has ended; the terminal event of  *)
(* the engine is only recorded in it.                                      *)
(*                                                                         *)
(* Turn ids are UUIDs and are sent once, so the set of finished ids never  *)
(* needs its cap of 512 and is the set of turns whose entry is "finished". *)
(***************************************************************************)
EXTENDS ConversationIds

VARIABLES entry,      \* entry[t]: not in the map, in the map, in `finished`
          convOf,     \* the conversation of the entry
          stopping,   \* its `stopping` flag
          terminal,   \* the type of its recorded terminal event
          owners      \* owners[c]: the turn that owns conversation c

lifecycleVars == <<entry, convOf, stopping, terminal, owners>>

LifecycleInit ==
    /\ entry = [t \in Turns |-> "none"]
    /\ convOf = [t \in Turns |-> NoConv]
    /\ stopping = [t \in Turns |-> FALSE]
    /\ terminal = [t \in Turns |-> "none"]
    /\ owners = [c \in Conversations |-> NoTurn]

Live(t) == entry[t] = "live"

CanClaim(t, c) == entry[t] = "none" /\ owners[c] = NoTurn

Claim(t, c) ==
    /\ CanClaim(t, c)
    /\ entry' = [entry EXCEPT ![t] = "live"]
    /\ convOf' = [convOf EXCEPT ![t] = c]
    /\ owners' = [owners EXCEPT ![c] = t]
    /\ UNCHANGED <<stopping, terminal>>

IsStopping(t) == Live(t) /\ stopping[t]

MarkStopping(t) ==
    /\ Live(t)
    /\ stopping' = [stopping EXCEPT ![t] = TRUE]
    /\ UNCHANGED <<entry, convOf, terminal, owners>>

(* An error remains an error even if the engine then reports done. *)
RecordTerminal(t, type) ==
    /\ Live(t)
    /\ terminal' = [terminal EXCEPT ![t] = IF @ = "error" THEN "error" ELSE type]
    /\ UNCHANGED <<entry, convOf, stopping, owners>>

(* The type of the one terminal line the turn ends with. *)
Outcome(t) ==
    IF stopping[t] THEN "turn_stopped"
    ELSE IF terminal[t] = "error" THEN "error" ELSE "done"

Finish(t) ==
    /\ Live(t)
    /\ entry' = [entry EXCEPT ![t] = "finished"]
    /\ owners' = [c \in Conversations |-> IF c = convOf[t] /\ owners[c] = t
                                          THEN NoTurn ELSE owners[c]]
    /\ UNCHANGED <<convOf, stopping, terminal>>
==============================================================================
