----------------------------- MODULE Resumption -----------------------------
(***************************************************************************)
(* What survives a restart of the app, and how the turn that was cut off   *)
(* is carried on (src/App.tsx, src/conversationWorkspace.ts, src/db.ts).   *)
(*                                                                         *)
(* Three stores outlive the app: the pauses (localStorage, written at      *)
(* once), the workspace snapshot (SQLite, written one after the other by   *)
(* syncControl, which waits for none of them) and the journal of turns     *)
(* (SQLite; the row is awaited before a turn is sent, its end is not).     *)
(* They are not written together, so a crash finds them apart.             *)
(*                                                                         *)
(* A send is one activation, as in TurnControl, from its last await before *)
(* the claim on; steering, the sidecar and engine recovery are modelled    *)
(* there.  Settings keep their defaults: automatic recovery is on.         *)
(***************************************************************************)
EXTENDS ConversationControl, SequencesExt

CONSTANTS MaxCrashes,  \* bound: crashes of the app
          MaxPresses,  \* bound: presses of "stop", "discard" and "close"
          MaxTyped,    \* bound: messages from the composer
          JournalLimit \* rows of the journal that a start reads

ASSUME ConversationsAssumption == IsFiniteSet(Conversations) /\ NoConv \notin Conversations
ASSUME JournalAssumption == JournalLimit \in Nat

VARIABLES life,     \* "down", "restored" (workspace read), "up" (journal read)
          at,       \* where the activation is
          on,       \* its conversation
          from,     \* the reservation it sends (NoTurn: a new message)
          resumes,  \* the cut-off turn it carries on (NoTurn: none)
          overtaken, \* a stop came after it started
          row,      \* the row of the turn in long_tasks
          endings,  \* turns whose row is being closed
          saved,    \* the stored snapshot: the runs and the reservations
          writes,   \* snapshots on their way to the store, oldest first
          parked,   \* autoResumeTaskQueue
          slot,     \* pendingLongTaskAutoResume
          listed,   \* recoverableTasks: the rows the banner shows
          crashes, presses, typed,
          stopped,  \* turns the user stopped, until he goes on in the conversation
          shown,    \* cut-off turns whose successor a stored snapshot has shown
          forgotten \* turns whose conversation the user closed in the panel since

sendVars == <<at, on, from, resumes, overtaken>>
storeVars == <<row, endings, saved, writes>>
resumeVars == <<parked, slot, listed>>
pastVars == <<crashes, presses, typed, stopped, shown, forgotten>>
resumptionVars == <<controlVars, life, sendVars, storeVars, resumeVars, pastVars>>

OnTheWay == {"prep", "owned", "dying", "sent", "finishing"}
Places == {"free", "queued", "over", "dropped", "cut"} \cup OnTheWay

(* Completed, failed and abandoned rows are alike here: only open ones are read. *)
Statuses == {"none", "running", "closed"}
Closing(status) == IF status = "none" THEN "none" ELSE "closed"

ShownStates == RunStates \cup {"interrupted"}

NoRun == [turn |-> NoTurn, state |-> "none"]

ResumptionInit ==
    /\ ControlInit
    /\ life = "up"
    /\ at = [t \in Turns |-> "free"]
    /\ on = [t \in Turns |-> NoConv]
    /\ from = [t \in Turns |-> NoTurn]
    /\ resumes = [t \in Turns |-> NoTurn]
    /\ overtaken = [t \in Turns |-> FALSE]
    /\ row = [t \in Turns |-> "none"]
    /\ endings = {}
    /\ saved = [runs |-> run, queues |-> queue]
    /\ writes = <<>>
    /\ parked = <<>>
    /\ slot = NoTurn /\ listed = {}
    /\ crashes = 0 /\ presses = 0 /\ typed = 0
    /\ stopped = {}
    /\ shown = {} /\ forgotten = {}

Up == life # "down"
Goto(t, place) == at' = [at EXCEPT ![t] = place]
Snapshot == [runs |-> run, queues |-> queue]

(* What t carries on, directly or as a reservation. *)
CarriesOn(t) == IF from[t] = NoTurn THEN resumes[t] ELSE resumes[from[t]]

(* syncControl: one more snapshot is on its way. A snapshot that equals the
   latest one adds nothing to what the store will hold. *)
SyncControl ==
    writes' = IF Snapshot' = (IF writes = <<>> THEN saved ELSE Last(writes))
              THEN writes ELSE Append(writes, Snapshot')

(* The user goes on in the conversations of C: their stops are over. *)
GoesOn(C) == stopped' = {t \in stopped : on[t] \notin C}
-----------------------------------------------------------------------------
(* handleSendMessage, up to its last await before the claim. *)
Send(c, item, old) ==
    \E t \in Turns :
        /\ at[t] = "free" /\ t = CHOOSE u \in Turns : at[u] = "free"
        /\ Goto(t, "prep")
        /\ on' = [on EXCEPT ![t] = c]
        /\ from' = [from EXCEPT ![t] = item]
        /\ resumes' = [resumes EXCEPT ![t] = old]
        /\ UNCHANGED overtaken

(* The composer. *)
Types(c) ==
    /\ Up /\ typed < MaxTyped /\ typed' = typed + 1
    /\ Send(c, NoTurn, NoTurn)
    /\ UNCHANGED <<controlVars, life, storeVars, resumeVars, crashes, presses, stopped, shown, forgotten>>

(* The effect sends the next reservation of an idle conversation, not of one
   whose run was cut off. *)
Drains(c) ==
    /\ queue[c] # <<>> /\ CanAutoRun(c)
    /\ run[c].state # "interrupted"

(* The effect runs again while a reservation is prepared; TurnControl has the
   sends that this doubles. *)
Drain(c) ==
    /\ Up /\ Drains(c)
    /\ ~\E t \in Turns : at[t] = "prep" /\ from[t] = Head(queue[c]).id
    /\ Send(c, Head(queue[c]).id, NoTurn)
    /\ UNCHANGED <<controlVars, life, storeVars, resumeVars, pastVars>>

(* An await before the claim throws, or the attachments of a recovery cannot be
   restored: nothing was claimed, and nothing is tried again. A reservation stays
   one, and the effect that sends it pauses the conversation; "continue" and the
   others tell the user only. *)
PrepareFails(t) ==
    /\ at[t] = "prep"
    /\ Goto(t, "dropped")
    /\ overtaken' = [overtaken EXCEPT ![t] = FALSE]
    /\ UNCHANGED paused \/ (from[t] # NoTurn /\ Pause(on[t], "user"))
    /\ UNCHANGED <<owner, run, queue, allPaused, life, on, from, resumes, row, endings, saved,
                   resumeVars, pastVars>>
    /\ SyncControl

(* A recovery whose message was sent, reserved or given up closes the old row;
   one that failed does not. *)
ClosesOld(t) == {resumes[t]} \ {NoTurn}

(* The claim, unless a stop came since or another send was faster. *)
Claim(t) ==
    LET c == on[t] IN
    /\ at[t] = "prep"
    /\ \/ /\ overtaken[t] /\ Goto(t, "dropped")
          /\ endings' = endings \cup ClosesOld(t)
          /\ UNCHANGED <<owner, run, queue, paused, writes, stopped>>
       \/ /\ ~overtaken[t] /\ IsActive(c)
          /\ IF from[t] = NoTurn THEN Goto(t, "queued") /\ Enqueue(c, t, "queue")
                                 ELSE Goto(t, "over") /\ UNCHANGED queue
          /\ endings' = endings \cup ClosesOld(t)
          /\ UNCHANGED <<owner, run, paused, stopped>>
          /\ SyncControl
       \/ /\ ~overtaken[t] /\ ClaimRun(c, t) /\ Goto(t, "owned")
          /\ queue' = [queue EXCEPT ![c] = Without(c, from[t])]
          /\ IF allPaused THEN UNCHANGED <<paused, stopped>> ELSE Pause(c, "no") /\ GoesOn(IF CarriesOn(t) = NoTurn THEN {c} ELSE {})
          /\ SyncControl
          /\ UNCHANGED endings
    /\ overtaken' = [overtaken EXCEPT ![t] = FALSE]
    /\ UNCHANGED <<allPaused, life, on, from, resumes, row, saved, resumeVars,
                   crashes, presses, typed, shown, forgotten>>

(* A stop is looked for before and after the row is written; then the sidecar
   gets the turn. *)
Dispatch(t) ==
    /\ at[t] = "owned"
    /\ \/ /\ IsStoppingRun(on[t]) /\ Goto(t, "dying")
          /\ \E written \in {row[t], "running"} : row' = [row EXCEPT ![t] = written]
          /\ UNCHANGED endings
       \/ /\ ~IsStoppingRun(on[t]) /\ Goto(t, "sent")
          /\ row' = [row EXCEPT ![t] = "running"]
          /\ endings' = endings \cup ClosesOld(t)
    /\ UNCHANGED <<controlVars, life, on, from, resumes, overtaken, saved, writes, resumeVars, pastVars>>

(* The journal or the call fails: the row may be there. The conversation is
   freed and paused, a reservation reserved again. *)
SendFails(t) ==
    LET c == on[t] IN
    /\ at[t] = "owned"
    /\ Goto(t, "over")
    /\ \E written \in {row[t], "running"} : row' = [row EXCEPT ![t] = written]
    /\ shown' = shown \ {CarriesOn(t)}
    /\ FreeRun(c, t, "completed")
    /\ Pause(c, "user")
    /\ IF from[t] = NoTurn THEN UNCHANGED queue ELSE Enqueue(c, from[t], "queue")
    /\ UNCHANGED <<allPaused, life, on, from, resumes, overtaken, endings, saved, resumeVars,
                   crashes, presses, typed, stopped, forgotten>>
    /\ SyncControl

(* done or error: the row is updated without waiting for it. A run that is
   being stopped is finished by finishStoppedTurn. *)
Ends(t, state) ==
    /\ at[t] = "sent"
    /\ endings' = endings \cup {t}
    /\ IF IsStoppingRun(on[t])
       THEN Goto(t, "finishing") /\ UNCHANGED <<owner, run, paused>>
       ELSE /\ Goto(t, "over")
            /\ FreeRun(on[t], t, state)
            /\ PauseOnFailure(on[t], t, state)
    /\ UNCHANGED <<queue, allPaused, life, on, from, resumes, overtaken, row, saved, resumeVars, pastVars>>
    /\ SyncControl

(* turn_stopped: the sidecar confirms the stop. *)
Stops(t) ==
    /\ at[t] = "sent" /\ IsStoppingRun(on[t])
    /\ Goto(t, "finishing")
    /\ UNCHANGED <<controlVars, life, on, from, resumes, overtaken, storeVars, resumeVars, pastVars>>

(* finishStoppedTurn: the row is closed and awaited, then the run is. A send
   that ends before it reached the sidecar returns as if it had been sent. *)
FinishStopped(t) ==
    /\ at[t] \in {"dying", "finishing"}
    /\ Goto(t, "over")
    /\ row' = [row EXCEPT ![t] = Closing(@)]
    /\ endings' = IF at[t] = "dying" THEN endings \cup ClosesOld(t) ELSE endings
    /\ FreeRun(on[t], t, "stopped")
    /\ UNCHANGED <<queue, paused, allPaused, life, on, from, resumes, overtaken, saved, resumeVars, pastVars>>
    /\ SyncControl
-----------------------------------------------------------------------------
Presses == Up /\ presses < MaxPresses /\ presses' = presses + 1

(* What a stop of the conversations in C ends: their recoveries, the sends that
   are still prepared, and everything asked of them before, except reservations. *)
EndsRecoveries(C) ==
    /\ parked' = Kept(parked, {i \in DOMAIN parked : on[parked[i]] \notin C})
    /\ slot' = IF slot # NoTurn /\ on[slot] \in C THEN NoTurn ELSE slot
    /\ overtaken' = [t \in Turns |-> overtaken[t] \/ (at[t] = "prep" /\ on[t] \in C)]
    /\ stopped' = stopped \cup {t \in Turns : on[t] \in C /\ at[t] # "queued"}

StopConversation(c) ==
    /\ Presses
    /\ Pause(c, "user")
    /\ StoppingRuns({c})
    /\ EndsRecoveries({c})
    /\ UNCHANGED <<owner, queue, allPaused, life, at, on, from, resumes, row, endings, saved,
                   listed, crashes, typed, shown, forgotten>>
    /\ SyncControl

(* handleHardStop: only conversations that run or wait are paused one by one. *)
HardStop ==
    LET C == {c \in Conversations : IsActive(c) \/ queue[c] # <<>>} IN
    /\ Presses
    /\ allPaused' = TRUE
    /\ paused' = [c \in Conversations |-> IF c \in C THEN "user" ELSE paused[c]]
    /\ StoppingRuns(C)
    /\ EndsRecoveries(Conversations)
    /\ UNCHANGED <<owner, queue, life, at, on, from, resumes, row, endings, saved, listed,
                   crashes, typed, shown, forgotten>>
    /\ SyncControl

(* "Continue" for one conversation: its next reservation is sent as well. *)
Resume(c) ==
    /\ Up
    /\ paused[c] # "no"
    /\ Pause(c, "no")
    /\ GoesOn({c})
    /\ IF queue[c] # <<>> /\ ~IsActive(c) THEN Send(c, Head(queue[c]).id, NoTurn)
                                          ELSE UNCHANGED sendVars
    /\ UNCHANGED <<owner, run, queue, allPaused, life, storeVars, resumeVars, crashes, presses, typed,
                   shown, forgotten>>

ResumeAutomation ==
    /\ Up
    /\ allPaused
    /\ allPaused' = FALSE
    /\ GoesOn({c \in Conversations : paused[c] = "no"})
    /\ UNCHANGED <<owner, run, queue, paused, life, sendVars, storeVars, resumeVars, crashes, presses, typed,
                   shown, forgotten>>

(* "Discard" in the banner of interrupted tasks: their rows only, whatever has
   become of them since they were read. *)
Discard ==
    /\ Presses /\ listed # {}
    /\ endings' = endings \cup listed
    /\ listed' = {}
    /\ UNCHANGED <<controlVars, life, sendVars, row, saved, writes, parked, slot,
                   crashes, typed, stopped, shown, forgotten>>

(* forget: "close" in the panel drops the run of an idle conversation without
   reservations; its pause stays, and so do the rows of its turns. *)
Forget(c) ==
    /\ Presses
    /\ ~IsActive(c) /\ queue[c] = <<>>
    /\ run' = [run EXCEPT ![c] = NoRun]
    /\ forgotten' = forgotten \cup {t \in Turns : on[t] = c}
    /\ UNCHANGED <<owner, queue, paused, allPaused, life, sendVars, row, endings, saved, resumeVars,
                   crashes, typed, stopped, shown>>
    /\ SyncControl
-----------------------------------------------------------------------------
(* An UPDATE lands; it finds the row or none. *)
EndingLands(t) ==
    /\ t \in endings
    /\ endings' = endings \ {t}
    /\ row' = [row EXCEPT ![t] = Closing(@)]
    /\ UNCHANGED <<controlVars, life, sendVars, saved, writes, resumeVars, pastVars>>

(* The oldest snapshot is stored. *)
SnapshotLands ==
    /\ writes # <<>>
    /\ saved' = Head(writes) /\ writes' = Tail(writes)
    /\ shown' = shown \cup {o \in Turns : \E c \in Conversations :
                                saved'.runs[c].turn # NoTurn /\ CarriesOn(saved'.runs[c].turn) = o}
    /\ UNCHANGED <<controlVars, life, sendVars, row, endings, resumeVars,
                   crashes, presses, typed, stopped, forgotten>>

(* Deliberately wrong: pauses are kept in the snapshot alone. *)
NoPauses == [c \in Conversations |-> "no"]

(* The pauses and their reasons as localStorage has them. *)
KeptPauses == paused

(* The app ends in any way: what it held and what was on its way is gone. *)
Crash ==
    /\ Up /\ crashes < MaxCrashes
    /\ crashes' = crashes + 1
    /\ life' = "down"
    /\ at' = [t \in Turns |-> IF at[t] \in OnTheWay THEN "cut" ELSE at[t]]
    /\ owner' = [c \in Conversations |-> NoTurn]
    /\ run' = [c \in Conversations |-> NoRun]
    /\ queue' = [c \in Conversations |-> <<>>]
    /\ endings' = {} /\ writes' = <<>>
    /\ parked' = <<>> /\ slot' = NoTurn /\ listed' = {}
    /\ overtaken' = [t \in Turns |-> FALSE]
    /\ paused' = KeptPauses
    /\ UNCHANGED <<allPaused, on, from, resumes, row, saved, presses, typed, stopped, shown, forgotten>>

(* A run that was stopped, or was to be, stays paused. *)
PausesOnRestore(state) == state \in {"stopped", "stopping"}

Restored(r) == IF r.state \in {"running", "stopping"} THEN [r EXCEPT !.state = "interrupted"] ELSE r

(* restoreWorkspace: the runs that were under way are interrupted; nobody owns
   a conversation. The pauses are those of localStorage. *)
RestoreWorkspace ==
    /\ life = "down"
    /\ life' = "restored"
    /\ run' = [c \in Conversations |-> Restored(saved.runs[c])]
    /\ queue' = saved.queues
    /\ paused' = [c \in Conversations |-> IF PausesOnRestore(saved.runs[c].state)
                                          THEN "user" ELSE paused[c]]
    /\ UNCHANGED <<owner, allPaused, sendVars, row, endings, saved, resumeVars, pastVars>>
    /\ SyncControl

(* Deliberately wrong: any running row of the conversation is taken up. *)
AnyRow(t) ==
    /\ row[t] = "running" /\ ~allPaused /\ paused[on[t]] = "no"

(* Deliberately wrong: the run is expected in the state it was saved in. *)
AsItWasSaved(t) ==
    /\ row[t] = "running" /\ ~allPaused /\ paused[on[t]] = "no"
    /\ run[on[t]] \in {NoRun, [turn |-> t, state |-> "running"]}

(* startupRecoveryCandidates: an open row that is the interrupted run of an
   unpaused conversation, or of one that shows no run at all. *)
Candidate(t) ==
    /\ row[t] = "running" /\ ~allPaused /\ paused[on[t]] = "no"
    /\ run[on[t]] \in {NoRun, [turn |-> t, state |-> "interrupted"]}

OpenRows == {t \in Turns : row[t] = "running"}
JournalHasRoom == Cardinality(OpenRows) <= JournalLimit

(* listRecoverableLongTasks: the newest open rows, here any of them, as many as
   one query returns. *)
Rows ==
    IF JournalHasRoom THEN {OpenRows}
    ELSE {R \in SUBSET OpenRows : Cardinality(R) = JournalLimit}

(* The journal is read: of its rows the newest candidate of each conversation is
   queued, here any of them, in any order. *)
ReadJournal ==
    /\ life = "restored"
    /\ life' = "up"
    /\ \E R \in Rows : \E C \in SUBSET {t \in R : Candidate(t)} :
          /\ \A t, u \in C : on[t] = on[u] => t = u
          /\ {on[t] : t \in C} = {on[t] : t \in {u \in R : Candidate(u)}}
          /\ parked' \in SetToSeqs(C)
          /\ listed' = R
    /\ UNCHANGED <<controlVars, sendVars, storeVars, slot, pastVars>>

(* The first recovery whose conversation is free takes the slot. *)
TakeSlot ==
    LET Ready == {i \in DOMAIN parked : CanAutoRun(on[parked[i]])} IN
    /\ Up /\ slot = NoTurn /\ Ready # {}
    /\ LET i == CHOOSE i \in Ready : \A j \in Ready : i <= j IN
          /\ slot' = parked[i]
          /\ parked' = RemoveAt(parked, i)
    /\ UNCHANGED <<controlVars, life, sendVars, storeVars, listed, pastVars>>

(* One and a half seconds later, if its conversation is still free. *)
Recover ==
    /\ Up /\ slot # NoTurn /\ CanAutoRun(on[slot])
    /\ slot' = NoTurn
    /\ Send(on[slot], NoTurn, slot)
    /\ UNCHANGED <<controlVars, life, storeVars, parked, listed, pastVars>>
-----------------------------------------------------------------------------
UserNext ==
    \/ \E c \in Conversations : Types(c) \/ StopConversation(c) \/ Resume(c) \/ Forget(c)
    \/ HardStop \/ ResumeAutomation \/ Discard

AppNext ==
    \/ \E c \in Conversations : Drain(c)
    \/ \E t \in Turns : \/ PrepareFails(t) \/ Claim(t) \/ Dispatch(t) \/ SendFails(t)
                        \/ Stops(t) \/ FinishStopped(t) \/ EndingLands(t)
                        \/ \E state \in {"completed", "failed"} : Ends(t, state)
    \/ SnapshotLands \/ TakeSlot \/ Recover

ResumptionNext == UserNext \/ AppNext \/ Crash \/ RestoreWorkspace \/ ReadJournal

ResumptionSpec == ResumptionInit /\ [][ResumptionNext]_resumptionVars

(* The start and the two effects run by themselves. *)
ResumptionFairness ==
    /\ WF_resumptionVars(RestoreWorkspace) /\ WF_resumptionVars(ReadJournal)
    /\ WF_resumptionVars(TakeSlot) /\ WF_resumptionVars(Recover)

ResumptionFairSpec == ResumptionSpec /\ ResumptionFairness
-----------------------------------------------------------------------------
ResumptionTypeOK ==
    /\ life \in {"down", "restored", "up"}
    /\ at \in [Turns -> Places]
    /\ on \in [Turns -> Conversations \cup {NoConv}]
    /\ from \in [Turns -> Turns \cup {NoTurn}]
    /\ resumes \in [Turns -> Turns \cup {NoTurn}]
    /\ row \in [Turns -> Statuses]
    /\ \A c \in Conversations : run[c] \in [turn : Turns \cup {NoTurn}, state : ShownStates]
    /\ slot \in Turns \cup {NoTurn}
    /\ stopped \subseteq Turns /\ listed \subseteq Turns

BecomesSent(t) == at[t] = "owned" /\ at'[t] = "sent"

(* A turn that the user stopped is not carried on by the app, in this life or
   after any restart and whatever the stores had kept of the stop, until he
   sends or continues in that conversation. *)
StopOutlivesRestart ==
    [][\A t \in Turns : BecomesSent(t) => CarriesOn(t) \notin stopped]_resumptionVars

IsClaimed(t) == at[t] = "owned"
BecomesRecovery(t) == ~IsClaimed(t) /\ IsClaimed(t)' /\ from'[t] = NoTurn

(* The app starts no second recovery of a turn: once a stored snapshot has shown
   the turn that carries it on, and its send did not fail, no other one that the
   app sends for it is claimed, although its row may still be open; until the user
   closes the conversation in the panel, for then its run is no longer known and a
   start takes up any open row.  (A recovery that found its conversation busy is a
   reservation, and those may be sent twice, as in TurnControl.) *)
CarriedOnOnce ==
    [][\A t \in Turns : BecomesRecovery(t) => resumes'[t] \notin shown \ forgotten]_resumptionVars

(* The same without the exception; not so in the code, see the README. *)
CarriedOnOnceThoughClosed ==
    [][\A t \in Turns : BecomesRecovery(t) => resumes'[t] \notin shown]_resumptionVars

(* The interrupted run of a free conversation, with its row among those that are
   read. *)
CutOff(c, t) ==
    /\ life = "restored" /\ run[c] = [turn |-> t, state |-> "interrupted"]
    /\ row[t] = "running" /\ JournalHasRoom /\ CanAutoRun(c)

(* The one slot is held by a recovery that has to wait. *)
SlotWaits == slot # NoTurn /\ ~CanAutoRun(on[slot])

(* An interrupted run whose row is open, with no more open rows than a start
   reads, is taken up by a recovery after the restart, unless the app ends again,
   something is sent in, pauses or closes its conversation, or the slot is held by
   a recovery that cannot run.  Taken up is one attempt: a recovery that a stop or
   an error ends before its claim is not repeated in this life. *)
InterruptedIsTakenUp ==
    \A c \in Conversations, t \in Turns :
        CutOff(c, t) ~> \/ ~CanAutoRun(c) \/ run[c].turn # t \/ SlotWaits \/ ~Up
                        \/ \E u \in Turns : resumes[u] = t /\ at[u] \in OnTheWay \cup {"dropped"}
                        \/ \A u \in Turns : at[u] # "free"
==============================================================================
