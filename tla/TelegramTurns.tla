---------------------------- MODULE TelegramTurns ----------------------------
(***************************************************************************)
(* The turns of Telegram messages: TelegramTurnTracker                     *)
(* (src/telegramBridge.ts) and what src/App.tsx does with it.  A message   *)
(* is taken, prepared over several awaits, claims its conversation or      *)
(* waits in a queue, runs, and ends in one message to the phone.  A turn   *)
(* is <<message, i>>: the i-th of the ids its tries may draw.              *)
(***************************************************************************)
EXTENDS Naturals, FiniteSets, SequencesExt

CONSTANTS Messages, Conversations,
          Home,          \* the conversation of Telegram itself
          To(_),         \* where the hub routed a message; Unrouted: nowhere
          Unrouted,
          Desk, NoOne,   \* owners of a conversation that are no turn of Telegram
          QueueMax,      \* TELEGRAM_QUEUE_MAX (8)
          MaxTries,      \* bound: turns of one message
          MaxDrains,     \* bound: timers of the queue under way at a time
          Budgets        \* bound: how often the environment may interfere, by kind

ASSUME DrainsAssumption == MaxDrains \in Nat
ASSUME RoutesAssumption == \A m \in Messages : To(m) \in Conversations \cup {Unrouted}
ASSUME HomeAssumption == Home \in Conversations /\ Unrouted \notin Conversations
ASSUME OwnersAssumption == Desk # NoOne /\ {Desk, NoOne} \cap (Messages \X (1..MaxTries)) = {}

VARIABLES taken,     \* messages the hub has started
          hand,      \* activations of sendTelegramTurn: [msg, as, to]
          waiting,   \* the queue of the tracker: [msg, to]
          tracked,   \* its turns: [turn, conv, retried]
          sender,    \* turns whose sendOwnedMessage has not called Rust yet
          retries,   \* messages whose retry is due in a moment: [msg, to]
          drains,    \* timers of drainTelegramQueue under way
          told,      \* told[m]: how the message ended
          owner, stopping, paused,   \* the control of the conversations
          engine,    \* engine[t]: idle, live or over
          line,      \* line[t]: its terminal event, not read yet
          budget

controlState == <<owner, stopping, paused>>
telegramVars == <<taken, hand, waiting, tracked, sender, retries, drains, told, owner, stopping,
                  paused, engine, line, budget>>

Turns == Messages \X (1..MaxTries)
Origins == {"new", "queue", "retry"}
Targets == Conversations \cup {Unrouted}
Target(to) == IF to = Unrouted THEN Home ELSE to
EngineStates == {"idle", "live", "over"}
Lines == {"none", "done", "error", "missing", "stopped"}
Endings == {"answered", "failed", "silent", "paused", "full", "stopped"}

TelegramInit ==
    /\ taken = {} /\ hand = {} /\ waiting = <<>> /\ tracked = {} /\ sender = {}
    /\ retries = {} /\ drains = 0
    /\ told = [m \in Messages |-> <<>>]
    /\ owner = [c \in Conversations |-> NoOne] /\ stopping = {} /\ paused = {}
    /\ engine = [t \in Turns |-> "idle"] /\ line = [t \in Turns |-> "none"]
    /\ budget \in Budgets

Spend(what) == budget[what] > 0 /\ budget' = [budget EXCEPT ![what] = @ - 1]
-----------------------------------------------------------------------------
(* TelegramTurnTracker *)
HasConv(c) == \E r \in tracked : r.conv = c
MayRetry(t) == \E r \in tracked : r.turn = t /\ ~r.retried
Untrack(T) == tracked' = {r \in tracked : r.turn \notin T}

Tell(m, how) == told' = [told EXCEPT ![m] = Append(@, how)]

(* enqueue: a full queue refuses, and the phone is told so. *)
Enqueue(m, to) ==
    IF Len(waiting) < QueueMax
    THEN waiting' = Append(waiting, [msg |-> m, to |-> to]) /\ UNCHANGED told
    ELSE Tell(m, "full") /\ UNCHANGED waiting

(* Deliberately wrong: the limit holds for what goes back to the head as well. *)
PutAsideIfRoom(m, as, to) ==
    IF as = "new" THEN Enqueue(m, to)
    ELSE /\ waiting' = IF Len(waiting) < QueueMax THEN <<[msg |-> m, to |-> to]>> \o waiting ELSE waiting
         /\ UNCHANGED told

(* A message that finds its conversation busy: a new one queues up, one that
   was in the queue goes back to its head, full or not. *)
PutAside(m, as, to) ==
    IF as = "new" THEN Enqueue(m, to)
    ELSE waiting' = <<[msg |-> m, to |-> to]>> \o waiting /\ UNCHANGED told

(* sendTelegramTurn up to its first await. *)
Begin(m, as, to, others) ==
    IF HasConv(Target(to))
    THEN PutAside(m, as, to) /\ hand' = others
    ELSE hand' = others \cup {[msg |-> m, as |-> as, to |-> to]} /\ UNCHANGED <<waiting, told>>

(* dequeueReady: the first message whose conversation has no turn of Telegram;
   one that cannot start blocks the later ones of its conversation only. *)
MayStart(i) == ~HasConv(Target(waiting[i].to))
FirstReady(i) == MayStart(i) /\ \A j \in 1..(i - 1) : ~MayStart(j)

(* Another timer of the queue. *)
DrainSoon == drains' = IF drains < MaxDrains THEN drains + 1 ELSE drains
-----------------------------------------------------------------------------
(* The hub hands a message over. *)
Take(m) ==
    /\ m \notin taken
    /\ taken' = taken \cup {m}
    /\ Begin(m, "new", To(m), hand)
    /\ UNCHANGED <<tracked, sender, retries, drains, controlState, engine, line, budget>>

(* The ids no try of the message has drawn yet. *)
Fresh(m) == {t \in {m} \X (1..MaxTries) : engine[t] = "idle" /\ t \notin sender}
NextTurn(m) == CHOOSE t \in Fresh(m) : TRUE

(* Its settings and the history are read: a paused conversation refuses it, a
   busy one puts it aside, a free one is claimed. *)
Ready(h) ==
    LET c == Target(h.to)  t == NextTurn(h.msg)
    IN  /\ hand' = hand \ {h}
        /\ \/ /\ c \in paused
              /\ Tell(h.msg, "paused")
              /\ UNCHANGED <<waiting, tracked, sender, owner>>
           \/ /\ c \notin paused /\ owner[c] # NoOne
              /\ PutAside(h.msg, h.as, h.to)
              /\ UNCHANGED <<tracked, sender, owner>>
           \/ /\ c \notin paused /\ owner[c] = NoOne /\ Fresh(h.msg) # {}
              /\ owner' = [owner EXCEPT ![c] = t]
              /\ tracked' = tracked \cup {[turn |-> t, conv |-> c, retried |-> h.as = "retry"]}
              /\ sender' = sender \cup {t}
              /\ UNCHANGED <<waiting, told>>
    /\ UNCHANGED <<taken, retries, drains, stopping, paused, engine, line, budget>>

(* Reading them fails: the phone is told. *)
PrepareFails(h) ==
    /\ Spend("faults")
    /\ hand' = hand \ {h}
    /\ Tell(h.msg, "failed")
    /\ UNCHANGED <<taken, waiting, tracked, sender, retries, drains, controlState, engine, line>>

Held(t) == {c \in Conversations : owner[c] = t}
Accepted(t) == Held(t) # {}
BeingStopped(t) == Held(t) \cap stopping # {}
Leaves(T) ==
    /\ owner' = [c \in Conversations |-> IF owner[c] \in T THEN NoOne ELSE owner[c]]
    /\ stopping' = {c \in stopping : owner[c] \notin T}

(* finishStoppedTurn: the phone hears nothing of it, the queue goes on. *)
FinishStopped(t) ==
    /\ Untrack({t}) /\ DrainSoon
    /\ Tell(t[1], "stopped")
    /\ Leaves({t})

(* sendOwnedMessage calls Rust, unless the turn was stopped meanwhile. *)
Send(t) ==
    /\ t \in sender
    /\ sender' = sender \ {t}
    /\ \/ /\ BeingStopped(t)
          /\ FinishStopped(t)
          /\ engine' = [engine EXCEPT ![t] = "over"]
       \/ /\ ~BeingStopped(t)
          /\ engine' = [engine EXCEPT ![t] = "live"]
          /\ UNCHANGED <<tracked, drains, told, owner, stopping>>
    /\ UNCHANGED <<taken, hand, waiting, retries, paused, line, budget>>

(* A save, the journal or the call fails: the catch block undoes the claim. It
   does not set off the queue. *)
SendFails(t) ==
    /\ t \in sender /\ Spend("faults")
    /\ sender' = sender \ {t}
    /\ engine' = [engine EXCEPT ![t] = "over"]
    /\ Untrack({t}) /\ Leaves({t}) /\ Tell(t[1], "failed")
    /\ UNCHANGED <<taken, hand, waiting, retries, drains, paused, line>>
-----------------------------------------------------------------------------
(* The sidecar ends a turn with one terminal event (TurnContract): a turn asked
   to stop as stopped, one that resumed a session perhaps because that is gone
   (a try without a session cannot miss it). *)
EngineEnds(t) ==
    /\ engine[t] = "live"
    /\ engine' = [engine EXCEPT ![t] = "over"]
    /\ \E how \in Lines \ {"none"} :
           /\ (how = "stopped") <=> BeingStopped(t)
           /\ how = "missing" => MayRetry(t) /\ Fresh(t[1]) # {}
           /\ how \in {"error", "missing"} => budget[how] > 0
           /\ line' = [line EXCEPT ![t] = how]
           /\ budget' = IF how \in {"error", "missing"}
                        THEN [budget EXCEPT ![how] = @ - 1] ELSE budget
    /\ UNCHANGED <<taken, hand, waiting, tracked, sender, retries, drains, told, controlState>>

(* The sidecar dies: its turns are never heard of again. *)
SidecarDies ==
    /\ Spend("deaths")
    /\ \E t \in Turns : engine[t] = "live"
    /\ engine' = [t \in Turns |-> IF engine[t] = "live" THEN "over" ELSE engine[t]]
    /\ UNCHANGED <<taken, hand, waiting, tracked, sender, retries, drains, told, controlState, line>>

Heard(t, how) == line[t] = how /\ line' = [line EXCEPT ![t] = "none"]

HearStopped(t) ==
    /\ Heard(t, "stopped") /\ Accepted(t)
    /\ FinishStopped(t)
    /\ UNCHANGED <<taken, hand, waiting, sender, retries, paused, engine, budget>>

(* A turn that ends by itself does so whether it is being stopped or not. *)
HearDone(t) ==
    /\ Heard(t, "done") /\ Accepted(t)
    /\ Untrack({t}) /\ DrainSoon
    /\ Tell(t[1], "answered")
    /\ Leaves({t})
    /\ UNCHANGED <<taken, hand, waiting, sender, retries, paused, engine, budget>>

(* A session that is gone: the message is sent once more in a moment, without a
   session, and without the conversation it was routed to. Any error pauses its
   conversation. *)
HearError(t) ==
    /\ Accepted(t)
    /\ \/ /\ Heard(t, "missing") /\ MayRetry(t)
          /\ retries' = retries \cup {[msg |-> t[1], to |-> Unrouted]}
          /\ UNCHANGED <<told, drains>>
       \/ /\ \E how \in {"error", "missing"} : Heard(t, how) /\ (how = "missing" => ~MayRetry(t))
          /\ Tell(t[1], "failed") /\ DrainSoon
          /\ UNCHANGED retries
    /\ Untrack({t}) /\ Leaves({t})
    /\ paused' = paused \cup Held(t)
    /\ UNCHANGED <<taken, hand, waiting, sender, engine, budget>>

(* The retry is due. *)
Retry(r) ==
    /\ r \in retries
    /\ retries' = retries \ {r}
    /\ Begin(r.msg, "retry", r.to, hand)
    /\ UNCHANGED <<taken, tracked, sender, drains, controlState, engine, line, budget>>

(* A timer of the queue: the first message that may start is sent. *)
Drain ==
    /\ drains > 0 /\ drains' = drains - 1
    /\ \/ /\ \A i \in DOMAIN waiting : ~MayStart(i)
          /\ UNCHANGED <<waiting, hand>>
       \/ \E i \in DOMAIN waiting :
              /\ FirstReady(i)
              /\ waiting' = RemoveAt(waiting, i)
              /\ hand' = hand \cup {[msg |-> waiting[i].msg, as |-> "queue", to |-> waiting[i].to]}
    /\ UNCHANGED <<taken, tracked, sender, retries, told, controlState, engine, line, budget>>

(* Tracked turns that wait for an event. *)
Awaited == {r.turn : r \in {e \in tracked : e.turn \notin sender /\ line[e.turn] = "none"}}

(* Deliberately wrong: the age of a turn is taken for its silence. *)
StaleByAge == Awaited

(* reapStale: the turns without an event for twenty minutes. A live one sends a
   heartbeat every thirty seconds, so it is one that died or lost its last event. *)
Stale == {t \in Awaited : engine[t] = "over"}

GiveUp(T) ==
    /\ Untrack(T) /\ Leaves(T)
    /\ told' = [m \in Messages |-> IF \E t \in T : t[1] = m THEN Append(told[m], "silent") ELSE told[m]]

(* Deliberately wrong: with nothing in the queue nothing is looked at. *)
CheckTheQueue ==
    /\ waiting # <<>> /\ (Stale # {} \/ drains < MaxDrains)
    /\ GiveUp(Stale) /\ DrainSoon
    /\ UNCHANGED <<taken, hand, waiting, sender, retries, paused, engine, line, budget>>

(* Every thirty seconds: silent turns are given up, and the queue goes on. *)
Check ==
    /\ Stale # {} \/ (waiting # <<>> /\ drains < MaxDrains)
    /\ GiveUp(Stale)
    /\ IF waiting = <<>> THEN UNCHANGED drains ELSE DrainSoon
    /\ UNCHANGED <<taken, hand, waiting, sender, retries, paused, engine, line, budget>>
-----------------------------------------------------------------------------
(* The user at the desktop: takes a free conversation, and unpauses it by that,
   or its turn ends. *)
DeskSends(c) ==
    /\ owner[c] = NoOne /\ Spend("sends")
    /\ owner' = [owner EXCEPT ![c] = Desk]
    /\ paused' = paused \ {c}
    /\ UNCHANGED <<taken, hand, waiting, tracked, sender, retries, drains, told, stopping, engine, line>>

DeskEnds(c) ==
    /\ owner[c] = Desk
    /\ Leaves({Desk})
    /\ UNCHANGED <<taken, hand, waiting, tracked, sender, retries, drains, told, paused, engine, line,
                   budget>>

Stop(c) ==
    /\ Spend("stops")
    /\ paused' = paused \cup {c}
    /\ stopping' = IF owner[c] = NoOne THEN stopping ELSE stopping \cup {c}
    /\ UNCHANGED <<taken, hand, waiting, tracked, sender, retries, drains, told, owner, engine, line>>

Activation(m) == \E h \in hand : h.msg = m /\ (Ready(h) \/ PrepareFails(h))
TurnStep(t) == Send(t) \/ EngineEnds(t) \/ HearStopped(t) \/ HearDone(t) \/ HearError(t)

TelegramNext ==
    \/ \E m \in Messages : Take(m) \/ Activation(m)
    \/ \E t \in Turns : TurnStep(t) \/ SendFails(t)
    \/ \E r \in retries : Retry(r)
    \/ Drain \/ Check \/ SidecarDies
    \/ \E c \in Conversations : DeskSends(c) \/ DeskEnds(c) \/ Stop(c)

TelegramSpec == TelegramInit /\ [][TelegramNext]_telegramVars
-----------------------------------------------------------------------------
TelegramTypeOK ==
    /\ taken \subseteq Messages
    /\ hand \subseteq [msg : Messages, as : Origins, to : Targets]
    /\ waiting \in Seq([msg : Messages, to : Targets])
    /\ tracked \subseteq [turn : Turns, conv : Conversations, retried : BOOLEAN]
    /\ sender \subseteq Turns
    /\ retries \subseteq [msg : Messages, to : Targets]
    /\ drains \in 0..MaxDrains
    /\ told \in [Messages -> Seq(Endings)]
    /\ owner \in [Conversations -> Turns \cup {Desk, NoOne}]
    /\ stopping \subseteq Conversations /\ paused \subseteq Conversations
    /\ engine \in [Turns -> EngineStates] /\ line \in [Turns -> Lines]

Places(m) == Cardinality({h \in hand : h.msg = m})
           + Cardinality({i \in DOMAIN waiting : waiting[i].msg = m})
           + Cardinality({r \in retries : r.msg = m})
           + Cardinality({r \in tracked : r.turn[1] = m})
           + Len(told[m])

(* A message that was taken is in exactly one place - being prepared, in the
   queue, about to be retried, running or told about - so none is lost on the
   way between them, none runs twice at once, and none is reported twice. *)
InOnePlace == \A m \in Messages : Places(m) = IF m \in taken THEN 1 ELSE 0

(* What the sidecar runs of Telegram owns its conversation, and the answer will
   find the chat it belongs to: nothing else is sent there meanwhile. *)
RunsOwned ==
    \A t \in Turns : engine[t] = "live" =>
        /\ Accepted(t)
        /\ \E r \in tracked : r.turn = t /\ owner[r.conv] = t

(* Once a session is found missing the message is tried again: where it is going
   to be sent, nothing keeps it from being sent (App.tsx:2195, CHANGELOG.md:156). *)
RetryMayRun == \A h \in hand : h.as = "retry" => Target(h.to) \notin paused

(* Every thirty seconds there is a check; calls return, turns end, at the
   desktop too, and events are read. *)
TelegramFairness ==
    /\ WF_telegramVars(Drain) /\ WF_telegramVars(Check)
    /\ \A m \in Messages : WF_telegramVars(Activation(m))
    /\ \A t \in Turns : WF_telegramVars(TurnStep(t))
    /\ WF_telegramVars(\E r \in retries : Retry(r))
    /\ \A c \in Conversations : WF_telegramVars(DeskEnds(c))

TelegramFairSpec == TelegramSpec /\ TelegramFairness

(* Whatever fails or dies, and whoever stops it, a message that was taken ends
   in something the phone is told, or is stopped at the desktop. *)
EveryMessageEnds == \A m \in Messages : m \in taken ~> told[m] # <<>>
==============================================================================
