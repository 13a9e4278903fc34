------------------------- MODULE ConversationControl -------------------------
(***************************************************************************)
(* What the app keeps per conversation (src/conversationControl.ts on top  *)
(* of src/conversationTurnGate.ts): the turn that owns it, the run shown   *)
(* for it, the messages reserved for later and the pause of its automatic  *)
(* sending.  A message is named by the turn id its submission drew.        *)
(***************************************************************************)
EXTENDS ConversationIds, Filters

VARIABLES owner,      \* owner[c]: the turn in the gate
          run,        \* run[c]: the RunView: its turn and its state
          queue,      \* queue[c]: PendingSends, [id, mode]
          paused,     \* paused[c]: "no" or the reason of the pause
          allPaused   \* every conversation is paused

controlVars == <<owner, run, queue, paused, allPaused>>

Modes == {"queue", "steer"}
Pauses == {"no", "user", "failure"}
RunStates == {"none", "running", "stopping", "stopped", "completed", "failed"}

ControlInit ==
    /\ owner = [c \in Conversations |-> NoTurn]
    /\ run = [c \in Conversations |-> [turn |-> NoTurn, state |-> "none"]]
    /\ queue = [c \in Conversations |-> <<>>]
    /\ paused = [c \in Conversations |-> "no"]
    /\ allPaused = FALSE

IsActive(c) == owner[c] # NoTurn
Accepts(c, t) == owner[c] = t
IsStoppingRun(c) == run[c].state = "stopping"
CanAutoRun(c) == ~allPaused /\ paused[c] = "no" /\ ~IsActive(c)

Waits(c, id) == \E i \in DOMAIN queue[c] : queue[c][i].id = id

(* Reserving the same message twice keeps its first place. *)
Enqueue(c, id, mode) ==
    queue' = [queue EXCEPT ![c] = IF Waits(c, id) THEN @
                                  ELSE Append(@, [id |-> id, mode |-> mode])]

Without(c, id) == Kept(queue[c], {i \in DOMAIN queue[c] : queue[c][i].id # id})

ClaimRun(c, t) ==
    /\ ~IsActive(c)
    /\ owner' = [owner EXCEPT ![c] = t]
    /\ run' = [run EXCEPT ![c] = [turn |-> t, state |-> "running"]]

(* The runs of the conversations in C that have an owner are being stopped. *)
StoppingRuns(C) ==
    run' = [c \in Conversations |-> IF c \in C /\ IsActive(c)
                                    THEN [run[c] EXCEPT !.state = "stopping"]
                                    ELSE run[c]]

(* Deliberately wrong: whoever finishes frees the conversation. *)
FreeRunOfAnyone(c, t, state) ==
    /\ owner' = [owner EXCEPT ![c] = NoTurn]
    /\ run' = [run EXCEPT ![c].state = state]

(* finish: only the owner frees its conversation; a late one changes nothing. *)
FreeRun(c, t, state) ==
    IF Accepts(c, t)
    THEN /\ owner' = [owner EXCEPT ![c] = NoTurn]
         /\ run' = [run EXCEPT ![c].state = state]
    ELSE UNCHANGED <<owner, run>>

Pause(c, reason) == paused' = [paused EXCEPT ![c] = reason]

(* The pause that finish leaves behind: a failure pauses what nobody paused. *)
PauseOnFailure(c, t, state) ==
    IF Accepts(c, t) /\ state = "failed" /\ paused[c] = "no"
    THEN Pause(c, "failure") ELSE UNCHANGED paused
==============================================================================
