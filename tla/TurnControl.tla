----------------------------- MODULE TurnControl -----------------------------
(***************************************************************************)
(* How the app starts, stops, steers and recovers turns (src/App.tsx), on  *)
(* top of ConversationControl and against a sidecar that keeps the         *)
(* contract of turns.                                                      *)
(*                                                                         *)
(* Every call of handleSendMessage is an activation with the turn id it    *)
(* draws.  Between two of its awaits anything else may run: other sends,   *)
(* the stop button, events of the sidecar, a recovery.  The calls into     *)
(* Rust run concurrently there, so a stop may overtake the message it is   *)
(* about; what the sidecar writes back arrives in order.                   *)
(*                                                                         *)
(* The stop generations are kept as one flag per activation and per        *)
(* steering: a stop since it started.  The sidecar's steps between accept  *)
(* and report are invisible here, so "accepted" stands for all of them.    *)
(***************************************************************************)
EXTENDS ConversationControl, TurnContract, Naturals

CONSTANTS MaxStops,      \* bound: presses of a stop button
          MaxFlushes,    \* bound: presses of "send now"
          MaxRecoveries, \* bound: engine recoveries
          MaxPresses,    \* bound: all of these together
          Typed,         \* bound: activations that may come from the composer
          Faults         \* what may fail: "prepare", "invoke", "persist", "crash"

ASSUME TypedAssumption == Typed \subseteq Turns

VARIABLES at,            \* where the activation is
          on,            \* its conversation
          from,          \* the reservation it sends (NoTurn: a new message)
          drained,       \* the effect that sends reservations called it
          mode,          \* its send mode
          stale,         \* a stop came after it started
          known,         \* turns in turnToConvMap
          finishing,     \* finishing[t]: callers of finishStoppedTurn under way
          journal,       \* the row of the turn in long_tasks
          calls,         \* calls into Rust under way: <<"send" or "stop", t>>
          lines,         \* lines[t]: what the sidecar wrote about t, unread
          steer,         \* steer[c]: the run of applySteering
          recovery,      \* recoverExecution: its state and the runs it ends
          spent,         \* stops, flushes and recoveries so far (bounds)
          withdrawn,     \* reservations the user gave up, by a stop or one by one
          hit            \* activations that a stop or a recovery found on their way

appVars == <<at, on, from, drained, mode, stale, known, finishing, journal, steer,
             recovery, spent, withdrawn, hit>>
wireVars == <<calls, lines>>
turnControlVars == <<controlVars, contractVars, appVars, wireVars>>

Preparing == {"new", "prep"}                      \* has not claimed
Claimed == {"owned", "saving", "journalled"}      \* has claimed, not sent
Over == {"queued", "gone", "thrown", "dropped", "ended", "delivered"}
Places == {"free", "sent", "finishing"} \cup Preparing \cup Claimed \cup Over

NoSteer == [st |-> "idle", item |-> NoTurn, turn |-> NoTurn, stale |-> FALSE]
NoRecovery == [st |-> "no", runs |-> {}]

TurnControlInit ==
    /\ ControlInit /\ ContractInit
    /\ at = [t \in Turns |-> "free"]
    /\ on = [t \in Turns |-> NoConv]
    /\ from = [t \in Turns |-> NoTurn]
    /\ drained = [t \in Turns |-> FALSE]
    /\ mode = [t \in Turns |-> "queue"]
    /\ stale = [t \in Turns |-> FALSE]
    /\ known = {}
    /\ finishing = [t \in Turns |-> {}]
    /\ journal = [t \in Turns |-> "none"]
    /\ calls = {}
    /\ lines = [t \in Turns |-> <<>>]
    /\ steer = [c \in Conversations |-> NoSteer]
    /\ recovery = NoRecovery
    /\ spent = [stops |-> 0, flushes |-> 0, recoveries |-> 0]
    /\ withdrawn = {}
    /\ hit = {}

Goto(t, place) == at' = [at EXCEPT ![t] = place]
Recovering == recovery.st # "no"

(* The user presses a button, as often as the bounds allow. *)
Presses(what, max) ==
    /\ spent[what] < max /\ spent.stops + spent.flushes + spent.recoveries < MaxPresses
    /\ spent' = [spent EXCEPT ![what] = @ + 1]

(* The message an activation carries. *)
Message(t) == IF from[t] = NoTurn THEN t ELSE from[t]

(* applySteering has not returned: it waits for the stop or for its send. *)
Busy(c) == \/ steer[c].st \in {"stopping", "go"}
           \/ steer[c].st = "sending" /\ at[steer[c].turn] \notin Over
-----------------------------------------------------------------------------
(* handleSendMessage is called. *)
Start(t, c, place, item, m, auto) ==
    /\ at[t] = "free" /\ ~Recovering
    /\ Goto(t, place)
    /\ on' = [on EXCEPT ![t] = c]
    /\ from' = [from EXCEPT ![t] = item]
    /\ mode' = [mode EXCEPT ![t] = m]
    /\ drained' = [drained EXCEPT ![t] = auto]

sendFrame == <<stale, known, finishing, journal, recovery, withdrawn, hit>>

(* The composer: the settings are read first, for every message. *)
Submit(t, c, m) ==
    /\ Start(t, c, "new", NoTurn, m, FALSE)
    /\ UNCHANGED <<controlVars, contractVars, wireVars, sendFrame, steer, spent>>

(* The effect that sends the next reservation of an idle conversation. It runs
   whenever something is painted, also while a send of the same reservation is
   still being prepared. During a recovery the send throws at once. *)
Drain(c) ==
    /\ queue[c] # <<>> /\ CanAutoRun(c) /\ ~Busy(c)
    /\ IF Recovering
       THEN Pause(c, "user") /\ UNCHANGED <<at, on, from, mode, drained>>
       ELSE /\ \E t \in Turns :
                  Start(t, c, "prep", Head(queue[c]).id, Head(queue[c]).mode, TRUE)
            /\ UNCHANGED paused
    /\ UNCHANGED <<owner, run, queue, allPaused, contractVars, wireVars, sendFrame,
                   steer, spent>>

(* "Continue" for a paused conversation: unpause, then send its next
   reservation unless a turn is running or the engine is being recovered. *)
Resume(c) ==
    /\ paused[c] # "no"
    /\ Pause(c, "no")
    /\ IF queue[c] # <<>> /\ ~IsActive(c) /\ ~Recovering
       THEN \E t \in Turns :
               Start(t, c, "prep", Head(queue[c]).id, Head(queue[c]).mode, FALSE)
       ELSE UNCHANGED <<at, on, from, mode, drained>>
    /\ UNCHANGED <<owner, run, queue, allPaused, contractVars, wireVars, sendFrame,
                   steer, spent>>

ResumeAutomation ==
    /\ allPaused
    /\ allPaused' = FALSE
    /\ UNCHANGED <<owner, run, queue, paused, contractVars, appVars, wireVars>>

(* The user gives up the next reservation. *)
CancelQueuedSend(c) ==
    /\ queue[c] # <<>>
    /\ queue' = [queue EXCEPT ![c] = Tail(@)]
    /\ withdrawn' = withdrawn \cup {Head(queue[c]).id}
    /\ UNCHANGED <<owner, run, paused, allPaused, contractVars, wireVars, at, on, from, drained,
                   mode, stale, known, finishing, journal, steer, recovery, spent,
                   hit>>
-----------------------------------------------------------------------------
(* requestConversationStop, for the conversations in C: pause, mark the run,
   and send the stop of a turn that has reached Rust. *)
Dispatched(t) == at[t] \in {"sent", "delivered"}

StopCalls(C) == {<<"stop", owner[c]>> : c \in {d \in C : IsActive(d) /\ Dispatched(owner[d])}}

RequestStop(C) ==
    /\ paused' = [c \in Conversations |-> IF c \in C THEN "user" ELSE paused[c]]
    /\ StoppingRuns(C)
    /\ calls' = calls \cup StopCalls(C)

(* The activations a stop finds: each is dropped at its claim, because it
   captured an older generation, or at its next check. *)
Hit(C) == {t \in Turns : on[t] \in C /\ at[t] \in Preparing \cup Claimed}

Steering(c) == {queue[c][i].id : i \in {j \in DOMAIN queue[c] : queue[c][j].mode = "steer"}}

OrdinaryOnly(C) ==
    queue' = [c \in Conversations |->
                IF c \in C THEN Kept(queue[c], {i \in DOMAIN queue[c] : queue[c][i].mode # "steer"})
                           ELSE queue[c]]

(* Deliberately wrong: the pressed stop does not advance the generation. *)
OutdatesNothing(C, S) == UNCHANGED <<stale, steer>>

(* Generations advance: activations in S and steerings of C are outdated. *)
Outdates(C, S) ==
    /\ stale' = [t \in Turns |-> stale[t] \/ t \in S]
    /\ steer' = [c \in Conversations |-> IF c \in C /\ steer[c].st \in {"stopping", "go"}
                                         THEN [steer[c] EXCEPT !.stale = TRUE] ELSE steer[c]]

(* stopConversation for every conversation in C; S are the activations whose
   generation it outdates. *)
StopConversations(C, S) ==
    /\ Presses("stops", MaxStops)
    /\ Outdates(C, S)
    /\ OrdinaryOnly(C)
    /\ RequestStop(C)
    /\ withdrawn' = withdrawn \cup UNION {Steering(c) : c \in C}
    /\ hit' = hit \cup S
    /\ UNCHANGED <<owner, contractVars, lines, at, on, from, drained, mode, known, finishing,
                   journal, recovery>>

StopConversation(c) ==
    /\ StopConversations({c}, Hit({c}))
    /\ UNCHANGED allPaused

(* handleHardStop: pause everything, stop what runs or has reservations. *)
HardStop ==
    /\ allPaused' = TRUE
    /\ StopConversations({c \in Conversations : IsActive(c) \/ queue[c] # <<>>},
                         Hit(Conversations))
-----------------------------------------------------------------------------
(* applySteering up to its first await: stop the running turn first. *)
BeginSteering(c, item) ==
    /\ steer' = [steer EXCEPT ![c] =
                   [st |-> IF IsActive(c) THEN "stopping" ELSE "go", item |-> item,
                    turn |-> owner[c], stale |-> FALSE]]
    /\ RequestStop({c})

(* "Send now" for the next reservation. *)
FlushQueueNow(c) ==
    /\ Presses("flushes", MaxFlushes)
    /\ queue[c] # <<>> /\ ~Busy(c)
    /\ BeginSteering(c, Head(queue[c]).id)
    /\ UNCHANGED <<owner, queue, allPaused, contractVars, lines, at, on, from, drained, mode,
                   sendFrame>>

(* Deliberately wrong: an instruction that is no longer wanted is not given up. *)
SteeringSendsOrWaits(c) ==
    /\ steer[c].st = "go"
    /\ ~steer[c].stale /\ Waits(c, steer[c].item) /\ ~Recovering /\ ~IsActive(c)
    /\ \E t \in Turns :
          /\ Start(t, c, "prep", steer[c].item, "steer", FALSE)
          /\ steer' = [steer EXCEPT ![c].st = "sending", ![c].turn = t]
    /\ UNCHANGED <<controlVars, contractVars, wireVars, sendFrame, spent>>

(* The stop was confirmed and nothing changed since: the instruction is sent,
   if it is still reserved, no turn was started meanwhile and no recovery runs. *)
SteeringSends(c) ==
    /\ steer[c].st = "go"
    /\ IF ~steer[c].stale /\ Waits(c, steer[c].item) /\ ~Recovering /\ ~IsActive(c)
       THEN \E t \in Turns :
               /\ Start(t, c, "prep", steer[c].item, "steer", FALSE)
               /\ steer' = [steer EXCEPT ![c].st = "sending", ![c].turn = t]
       ELSE /\ steer' = [steer EXCEPT ![c] = NoSteer]
            /\ UNCHANGED <<at, on, from, mode, drained>>
    /\ UNCHANGED <<controlVars, contractVars, wireVars, sendFrame, spent>>

(* Thirty seconds without confirmation: the instruction stays reserved. *)
SteeringTimesOut(c) ==
    /\ steer[c].st = "stopping"
    /\ steer' = [steer EXCEPT ![c] = NoSteer]
    /\ UNCHANGED <<controlVars, contractVars, wireVars, sendFrame, spent, at, on, from, mode, drained>>

(* What the waiters for the end of t are told. *)
Confirmed(t) ==
    [c \in Conversations |-> IF steer[c].st = "stopping" /\ steer[c].turn = t
                             THEN [steer[c] EXCEPT !.st = "go"] ELSE steer[c]]

(* Deliberately wrong: who waits for a stop that was refused goes on. *)
RejectedGoesOn(t) == Confirmed(t)

Rejected(t) ==
    [c \in Conversations |-> IF steer[c].st = "stopping" /\ steer[c].turn = t
                             THEN NoSteer ELSE steer[c]]
-----------------------------------------------------------------------------
(* The settings are read. A running turn makes the message a reservation, which
   a steering message at once begins to apply; preparing it may also fail. *)
Route(t) ==
    LET c == on[t] IN
    /\ at[t] = "new"
    /\ IF IsActive(c)
       THEN /\ Goto(t, "queued")
            /\ Enqueue(c, t, mode[t])
            /\ IF mode[t] = "steer" /\ ~Busy(c)
               THEN BeginSteering(c, t)
               ELSE UNCHANGED <<run, paused, calls, steer>>
       ELSE /\ Goto(t, "prep")
            /\ UNCHANGED <<run, queue, paused, calls, steer>>
    /\ UNCHANGED <<owner, allPaused, contractVars, lines, on, from, drained, mode, sendFrame, spent>>

(* Reading settings, memory, messages or history fails before the claim: the
   error goes to the caller, and the effect pauses the conversation on it. *)
PreparationFails(t) ==
    /\ "prepare" \in Faults
    /\ at[t] \in Preparing
    /\ Goto(t, IF from[t] = NoTurn THEN "thrown" ELSE "gone")
    /\ IF drained[t] THEN Pause(on[t], "user") ELSE UNCHANGED paused
    /\ UNCHANGED <<owner, run, queue, allPaused, contractVars, wireVars, on, from, drained, mode,
                   sendFrame, steer, spent>>

(* Deliberately wrong: a new message that loses the race is not kept. *)
LosesRaceForgetting(t) ==
    /\ Goto(t, IF from[t] = NoTurn THEN "queued" ELSE "gone")
    /\ UNCHANGED queue

(* Another send took the conversation meanwhile: a new message is reserved. *)
LosesRace(t) ==
    /\ Goto(t, IF from[t] = NoTurn THEN "queued" ELSE "gone")
    /\ IF from[t] = NoTurn THEN Enqueue(on[t], t, mode[t]) ELSE UNCHANGED queue

(* The messages and the history are read: give up if a stop came since, else
   take the conversation and, unless everything is paused, unpause it. *)
Claim(t) ==
    LET c == on[t] IN
    /\ at[t] = "prep"
    /\ \/ stale[t] /\ Goto(t, "dropped") /\ UNCHANGED <<owner, run, queue, paused, known>>
       \/ ~stale[t] /\ IsActive(c) /\ LosesRace(t) /\ UNCHANGED <<owner, run, paused, known>>
       \/ /\ ~stale[t] /\ ClaimRun(c, t)
          /\ Goto(t, "owned")
          /\ known' = known \cup {t}
          /\ IF allPaused THEN UNCHANGED paused ELSE Pause(c, "no")
          /\ queue' = [queue EXCEPT ![c] = Without(c, from[t])]
    /\ UNCHANGED <<allPaused, contractVars, wireVars, on, from, drained, mode, stale, finishing,
                   journal, recovery, withdrawn, hit, steer, spent>>

(* The catch of handleSendMessage, with what it leaves to the caller: the turn
   is forgotten, the conversation freed and paused, a reservation reserved
   again, a new message thrown back to the composer. *)
Catch(t) ==
    LET c == on[t] IN
    /\ Goto(t, IF from[t] = NoTurn THEN "thrown" ELSE "gone")
    /\ known' = known \ {t}
    /\ FreeRun(c, t, "completed")
    /\ Pause(c, "user")
    /\ IF from[t] = NoTurn THEN UNCHANGED queue ELSE Enqueue(c, from[t], mode[t])

MustEnd(t) == ~Accepts(on[t], t) \/ IsStoppingRun(on[t])

(* The send itself acknowledges a stop that came before it reached Rust. *)
BeginFinishing(t) ==
    /\ Goto(t, "finishing")
    /\ finishing' = [finishing EXCEPT ![t] = @ \cup {"send"}]
    /\ UNCHANGED <<owner, run, queue, paused, known>>

checkFrame == <<allPaused, contractVars, lines, on, from, drained, mode, stale, recovery,
                withdrawn, hit, steer, spent>>

(* The session id and the folder are read (line 3131 and the first line of
   sendOwnedMessage). *)
CheckOwner(t) ==
    /\ at[t] = "owned"
    /\ \/ MustEnd(t) /\ BeginFinishing(t)
       \/ ~MustEnd(t) /\ Recovering /\ Catch(t) /\ UNCHANGED finishing
       \/ /\ ~MustEnd(t) /\ ~Recovering
          /\ Goto(t, "saving")
          /\ UNCHANGED <<owner, run, queue, paused, known, finishing>>
    /\ UNCHANGED <<checkFrame, calls, journal>>

(* Deliberately wrong: the request is handed over without having been written. *)
SaveRequestUnwritten(t) ==
    /\ at[t] = "saving" /\ ~MustEnd(t)
    /\ Goto(t, "journalled")
    /\ UNCHANGED <<owner, run, queue, paused, known, finishing, checkFrame, calls, journal>>

(* The messages are saved and the request is written to the journal. That the
   turn still owns its conversation is looked at before, not after saving: the
   row may also be written for a turn that was ended meanwhile. *)
SaveRequest(t) ==
    /\ at[t] = "saving"
    /\ \/ ~Accepts(on[t], t) /\ Catch(t) /\ UNCHANGED <<finishing, journal>>
       \/ IsStoppingRun(on[t]) /\ BeginFinishing(t) /\ UNCHANGED journal
       \/ /\ ~IsStoppingRun(on[t])
          /\ Goto(t, "journalled")
          /\ journal' = [journal EXCEPT ![t] = "running"]
          /\ UNCHANGED <<owner, run, queue, paused, known, finishing>>
    /\ UNCHANGED <<checkFrame, calls>>

(* Reading or saving fails after the claim. *)
SendingFails(t) ==
    /\ "prepare" \in Faults
    /\ at[t] \in {"owned", "saving"}
    /\ Catch(t)
    /\ UNCHANGED <<checkFrame, calls, journal, finishing>>

(* The journal is written: the last check, and the call in the same stretch. *)
Dispatch(t) ==
    /\ at[t] = "journalled"
    /\ \/ /\ ~Accepts(on[t], t) \/ Recovering
          /\ Catch(t) /\ UNCHANGED <<finishing, calls>>
       \/ /\ Accepts(on[t], t) /\ MustEnd(t) /\ ~Recovering
          /\ BeginFinishing(t) /\ UNCHANGED calls
       \/ /\ ~MustEnd(t) /\ ~Recovering
          /\ Goto(t, "sent")
          /\ calls' = calls \cup {<<"send", t>>}
          /\ UNCHANGED <<owner, run, queue, paused, known, finishing>>
    /\ UNCHANGED <<checkFrame, journal>>
-----------------------------------------------------------------------------
(* The call into Rust fails: no channel, or the sidecar is gone. *)
InvokeFails(t) ==
    /\ "invoke" \in Faults
    /\ at[t] = "sent" /\ (<<"send", t>> \in calls \/ phase[t] = "lost")
    /\ Catch(t)
    /\ calls' = calls \ {<<"send", t>>}
    /\ UNCHANGED <<checkFrame, journal, finishing>>

(* The message reaches the sidecar, which accepts the turn or refuses it. *)
DeliverSend(t) ==
    /\ <<"send", t>> \in calls
    /\ calls' = calls \ {<<"send", t>>}
    /\ Goto(t, "delivered")
    /\ IF \E u \in Turns : phase[u] = "accepted" /\ conv[u] = on[t]
       THEN /\ RefuseTurn(t)
            /\ lines' = [lines EXCEPT ![t] = Append(@, "terminal")]
       ELSE /\ \E n \in Needs : AcceptTurn(t, on[t], n)
            /\ UNCHANGED lines
    /\ UNCHANGED <<controlVars, on, from, drained, mode, sendFrame, steer, spent>>

(* A message that was lost in a dying sidecar: the call itself had succeeded. *)
SendIsLost(t) ==
    /\ at[t] = "sent" /\ phase[t] = "lost"
    /\ Goto(t, "delivered")
    /\ UNCHANGED <<controlVars, contractVars, wireVars, on, from, drained, mode, sendFrame,
                   steer, spent>>

(* The stop reaches the sidecar; one that finds no turn is refused, whether it
   came too late or overtook its message. *)
DeliverStop(t) ==
    /\ <<"stop", t>> \in calls
    /\ calls' = calls \ {<<"stop", t>>}
    /\ IF phase[t] = "accepted"
       THEN AskStop(t) /\ UNCHANGED lines
       ELSE /\ lines' = [lines EXCEPT ![t] = Append(@, "rejected")]
            /\ UNCHANGED contractVars
    /\ UNCHANGED <<controlVars, appVars>>

(* The call that carries the stop fails: the waiters are told. *)
StopCallFails(t) ==
    /\ "invoke" \in Faults
    /\ <<"stop", t>> \in calls
    /\ calls' = calls \ {<<"stop", t>>}
    /\ steer' = Rejected(t)
    /\ UNCHANGED <<controlVars, contractVars, lines, at, on, from, drained, mode, sendFrame, spent>>

(* The turn ends in the sidecar, which writes its one terminal line. *)
SidecarReports(t) ==
    /\ Report(t)
    /\ lines' = [lines EXCEPT ![t] = Append(@, "terminal")]
    /\ UNCHANGED <<controlVars, appVars, calls>>

(* The sidecar dies: its turns end without a line, and messages on their way
   into it may be lost. Rust starts another one. *)
Dies(lost) ==
    /\ lost \subseteq calls
    /\ calls' = calls \ lost
    /\ phase' = [t \in Turns |-> IF phase[t] = "accepted" \/ <<"send", t>> \in lost
                                 THEN "lost" ELSE phase[t]]
    /\ UNCHANGED <<conv, needs, asked, lines>>

SidecarDies ==
    /\ "crash" \in Faults
    /\ \E t \in Turns : phase[t] = "accepted"
    /\ \E lost \in SUBSET calls : Dies(lost)
    /\ UNCHANGED <<controlVars, appVars>>
-----------------------------------------------------------------------------
Hears(t, line) ==
    /\ lines[t] # <<>> /\ Head(lines[t]) = line
    /\ lines' = [lines EXCEPT ![t] = Tail(@)]

(* Deliberately wrong: what a turn says while it is being stopped is ignored. *)
RoutedUnlessStopping(t) == t \in known /\ Accepts(on[t], t) /\ ~IsStoppingRun(on[t])

(* An event is routed to the conversation its turn was started for, and only
   while the turn owns it. *)
Routed(t) == t \in known /\ Accepts(on[t], t)

(* interrupt_rejected: the run stays marked as stopping, the waiters learn it. *)
HearRejected(t) ==
    /\ Hears(t, "rejected")
    /\ steer' = IF Routed(t) THEN Rejected(t) ELSE steer
    /\ UNCHANGED <<controlVars, contractVars, calls, at, on, from, drained, mode, sendFrame, spent>>

(* done, error or turn_stopped: the journal is closed; a run that was being
   stopped is finished as stopped, any other frees its conversation. *)
HearTerminal(t) ==
    LET c == on[t]
        outcome == IF phase[t] = "completed" THEN "completed" ELSE "failed"
    IN
    /\ Hears(t, "terminal")
    /\ IF ~Routed(t)
       THEN UNCHANGED <<owner, run, paused, known, finishing, journal>>
       ELSE /\ journal' = IF phase[t] = "stopped" THEN journal
                          ELSE [journal EXCEPT ![t] = "closed"]
            /\ IF phase[t] = "stopped" \/ IsStoppingRun(c)
               THEN /\ finishing' = [finishing EXCEPT ![t] = @ \cup {"event"}]
                    /\ UNCHANGED <<owner, run, paused, known>>
               ELSE /\ known' = known \ {t}
                    /\ FreeRun(c, t, outcome)
                    /\ PauseOnFailure(c, t, outcome)
                    /\ UNCHANGED finishing
    /\ UNCHANGED <<queue, allPaused, contractVars, calls, at, on, from, drained, mode, stale,
                   recovery, withdrawn, hit, steer, spent>>

(* finishStoppedTurn has saved the messages and closed the journal: free the
   conversation and confirm the stop, unless another caller has done so. *)
FinishStopped(t, caller) ==
    /\ caller \in finishing[t]
    /\ finishing' = [finishing EXCEPT ![t] = @ \ {caller}]
    /\ journal' = [journal EXCEPT ![t] = IF @ = "none" THEN @ ELSE "closed"]
    /\ FreeRun(on[t], t, "stopped")
    /\ IF Accepts(on[t], t) THEN known' = known \ {t} /\ steer' = Confirmed(t)
                             ELSE UNCHANGED <<known, steer>>
    /\ IF caller = "send" THEN Goto(t, "ended") ELSE UNCHANGED at
    /\ UNCHANGED <<queue, paused, allPaused, contractVars, wireVars, on, from, drained, mode,
                   stale, recovery, withdrawn, hit, spent>>

(* It could not save: the lock stays for an event or a recovery, and goes with
   the error of a send that never reached Rust. *)
FinishStoppedFails(t, caller) ==
    /\ "persist" \in Faults
    /\ caller \in finishing[t]
    /\ finishing' = [finishing EXCEPT ![t] = @ \ {caller}]
    /\ steer' = IF caller = "event" THEN Rejected(t) ELSE steer
    /\ IF caller = "send" THEN Catch(t)
                          ELSE UNCHANGED <<at, known, owner, run, paused, queue>>
    /\ UNCHANGED <<allPaused, contractVars, wireVars, on, from, drained, mode, stale, journal,
                   recovery, withdrawn, hit, spent>>
-----------------------------------------------------------------------------
ActiveConversations == {c \in Conversations : IsActive(c)}

(* recoverExecution up to its first await: everything is paused, every send
   that has not claimed is outdated, every run is marked as stopping. *)
BeginRecovery ==
    /\ ~Recovering /\ Presses("recoveries", MaxRecoveries)
    /\ recovery' = [st |-> "saving", runs |-> {owner[c] : c \in ActiveConversations}]
    /\ allPaused' = TRUE
    /\ Outdates(ActiveConversations, Hit(Conversations))
    /\ paused' = [c \in Conversations |-> IF IsActive(c) THEN "user" ELSE paused[c]]
    /\ StoppingRuns(Conversations)
    /\ OrdinaryOnly(ActiveConversations)
    /\ withdrawn' = withdrawn \cup UNION {Steering(c) : c \in ActiveConversations}
    /\ hit' = hit \cup Hit(Conversations)
    /\ UNCHANGED <<owner, contractVars, wireVars, at, on, from, drained, mode, known, finishing,
                   journal>>

(* Rust kills the process tree and starts another sidecar; then the runs that
   were active are finished as stopped. *)
RecoveryKills ==
    /\ recovery.st = "saving"
    /\ recovery' = [recovery EXCEPT !.st = "finishing"]
    /\ Dies(calls)
    /\ finishing' = [t \in Turns |-> IF t \in recovery.runs
                                     THEN finishing[t] \cup {"recover"} ELSE finishing[t]]
    /\ UNCHANGED <<controlVars, at, on, from, drained, mode, stale, known, journal, steer, spent,
                   withdrawn, hit>>

(* The processes could not be ended: locks and pauses are kept. *)
RecoveryFails ==
    /\ "crash" \in Faults
    /\ recovery.st = "saving"
    /\ recovery' = NoRecovery
    /\ UNCHANGED <<controlVars, contractVars, wireVars, at, on, from, drained, mode, stale, known,
                   finishing, journal, steer, spent, withdrawn, hit>>

RecoveryEnds ==
    /\ recovery.st = "finishing"
    /\ \A t \in recovery.runs : "recover" \notin finishing[t]
    /\ recovery' = NoRecovery
    /\ UNCHANGED <<controlVars, contractVars, wireVars, at, on, from, drained, mode, stale, known,
                   finishing, journal, steer, spent, withdrawn, hit>>
-----------------------------------------------------------------------------
UserStep ==
    \/ \E t \in Typed, c \in Conversations, m \in Modes : Submit(t, c, m)
    \/ \E c \in Conversations :
          Resume(c) \/ CancelQueuedSend(c) \/ StopConversation(c) \/ FlushQueueNow(c)
    \/ HardStop \/ ResumeAutomation \/ BeginRecovery

SendStep(t) ==
    Route(t) \/ Claim(t) \/ CheckOwner(t) \/ SaveRequest(t) \/ Dispatch(t)

FaultStep(t) ==
    \/ PreparationFails(t) \/ SendingFails(t) \/ InvokeFails(t) \/ StopCallFails(t)
    \/ \E caller \in {"send", "event", "recover"} : FinishStoppedFails(t, caller)

WireStep(t) ==
    \/ DeliverSend(t) \/ SendIsLost(t) \/ DeliverStop(t) \/ SidecarReports(t)
    \/ HearRejected(t) \/ HearTerminal(t)
    \/ \E caller \in {"send", "event", "recover"} : FinishStopped(t, caller)

SteerStep(c) == Drain(c) \/ SteeringSends(c) \/ SteeringTimesOut(c)

RecoveryStep == RecoveryKills \/ RecoveryFails \/ RecoveryEnds

TurnControlNext ==
    \/ UserStep \/ SidecarDies \/ RecoveryStep
    \/ \E t \in Turns : SendStep(t) \/ FaultStep(t) \/ WireStep(t)
    \/ \E c \in Conversations : SteerStep(c)

TurnControlSpec == TurnControlInit /\ [][TurnControlNext]_turnControlVars
-----------------------------------------------------------------------------
TurnControlTypeOK ==
    /\ owner \in [Conversations -> Turns \cup {NoTurn}]
    /\ run \in [Conversations -> [turn : Turns \cup {NoTurn}, state : RunStates]]
    /\ queue \in [Conversations -> Seq([id : Turns, mode : Modes])]
    /\ paused \in [Conversations -> Pauses] /\ allPaused \in BOOLEAN
    /\ at \in [Turns -> Places]
    /\ on \in [Turns -> Conversations \cup {NoConv}]
    /\ from \in [Turns -> Turns \cup {NoTurn}]
    /\ drained \in [Turns -> BOOLEAN]
    /\ mode \in [Turns -> Modes] /\ stale \in [Turns -> BOOLEAN]
    /\ known \subseteq Turns
    /\ finishing \in [Turns -> SUBSET {"send", "event", "recover"}]
    /\ journal \in [Turns -> {"none", "running", "closed"}]
    /\ calls \subseteq {"send", "stop"} \X Turns
    /\ lines \in [Turns -> Seq({"terminal", "rejected"})]
    /\ \A c \in Conversations :
          /\ IsActive(c) => owner[c] = run[c].turn /\ on[owner[c]] = c
          /\ IsActive(c) <=> run[c].state \in {"running", "stopping"}
          /\ \A i, j \in DOMAIN queue[c] : i # j => queue[c][i].id # queue[c][j].id
    /\ \A t \in Turns :
          /\ at[t] \in Claimed /\ Accepts(on[t], t) => t \in known
          /\ "send" \in finishing[t] <=> at[t] = "finishing"

InSidecar(t) == phase[t] = "accepted" \/ <<"send", t>> \in calls

(* While the sidecar works on a turn, or its message is on the way there, the
   turn owns its conversation in the app: no stop, timeout, refused or failed
   call, late event or recovery frees a conversation whose engine still runs,
   or shows it as stopped, so the next message cannot start beside it. *)
LockCoversExecution ==
    \A t \in Turns : InSidecar(t) => owner[on[t]] = t

(* A stop wins over everything that was under way when it came: a send that
   still read its history, waited for the journal or stood before its last
   check is not handed to the sidecar afterwards. *)
StopWins ==
    [][\A t \in hit : at[t] # "sent" => at'[t] # "sent"]_turnControlVars

(* Whatever executes can be found after a crash of the app: its request was
   written to the journal before it was sent, and the row stays open until the
   sidecar has reported the turn or was killed. *)
ExecutionIsJournalled ==
    \A t \in Turns : InSidecar(t) => journal[t] = "running"

Carries(t, m) == at[t] # "free" /\ Message(t) = m

(* No message of the user disappears: after every race it is on its way, in
   the conversation, reserved, back in the composer, or given up by a stop, a
   cancel or a recovery that found it on its way. *)
NothingLost ==
    \A m \in Turns : at[m] # "free" /\ from[m] = NoTurn =>
        \/ m \in withdrawn \/ Waits(on[m], m) \/ at[m] \in {"thrown", "dropped"}
        \/ \E t \in Turns :
              /\ Carries(t, m)
              /\ at[t] \in Preparing \cup Claimed
                            \cup {"sent", "delivered", "finishing", "ended"}

(* A steering message is sent only into a conversation whose previous turn has
   ended; until then it stays reserved. *)
SteeringWaits ==
    [][\A c \in Conversations : steer[c].st = "stopping" /\ steer'[c].st = "go" =>
          ~InSidecar(steer[c].turn)]_turnControlVars

(* A reservation the user cancelled is not sent any more. *)
CancelledIsNotSent ==
    [][\A t \in Turns : from[t] \in withdrawn /\ at[t] = "prep" => at'[t] # "owned"]_turnControlVars

(* Ordinary reservations are first in, first out: one whose send failed goes
   back ahead of those that were reserved behind it. *)
ReturnsToItsPlace ==
    [][\A t \in Turns :
          from[t] # NoTurn /\ mode[t] = "queue" /\ at[t] \in Claimed /\ at'[t] = "gone"
          => Head(queue'[on[t]]).id = from[t]]_turnControlVars
-----------------------------------------------------------------------------
(* Of each turn, something that can happen does: the event loop goes on with
   what it awaits, a call into Rust ends, the sidecar reports, an event is
   handled; and the thirty seconds of a waiter pass.  The user owes nothing. *)
TurnControlFairness ==
    /\ \A t \in Turns :
          WF_turnControlVars(\/ SendStep(t) \/ DeliverSend(t) \/ DeliverStop(t) \/ SendIsLost(t)
                             \/ SidecarReports(t) \/ HearRejected(t) \/ HearTerminal(t)
                             \/ \E caller \in {"send", "event", "recover"} : FinishStopped(t, caller))
    /\ \A c \in Conversations : WF_turnControlVars(SteeringSends(c) \/ SteeringTimesOut(c))
    /\ WF_turnControlVars(RecoveryStep)

TurnControlFairSpec == TurnControlSpec /\ TurnControlFairness

(* Every lock is released: whatever stops, refusals and races a turn goes
   through, its conversation becomes free again without the user's help. *)
LockIsReleased ==
    \A c \in Conversations, t \in Turns : owner[c] = t ~> owner[c] # t

(* A steering instruction does not block the next one for ever: it is sent, or
   given up, or the wait for the stop is (as far as the bound on activations
   lets it be sent). *)
SteeringSettles ==
    \A c \in Conversations : Busy(c) ~> ~Busy(c) \/ \A t \in Turns : at[t] # "free"
==============================================================================
