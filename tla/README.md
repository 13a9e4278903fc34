# K Desktop Agent: a verification of its turn execution

K Desktop Agent is a Windows desktop app that lets a user, a Telegram chat and
watched background tasks start *turns*: runs of an engine (Claude, Codex, Gemini)
that may take hours, in several conversations at once, in real project folders.
What makes it correct is not in a single function but between several: the web
view (TypeScript), the Rust host, the Node sidecar and the engine processes
each see a turn a little later than the one before, any of them may die, and the
user may press a button between any two steps. This directory models those parts
in TLA+, checks them with TLC on small instances and proves with TLAPS that the safety properties
hold for instances of every size.

The central question is the same everywhere: **is what the app believes of a turn
covered by what really executes** - does a lock go only when the process is gone,
does a stop win over everything that was under way, is nothing executed twice
when nobody knows how the first execution ended, and is no message lost.

## 1. Inventory

| component | state | operations | hard because of |
|---|---|---|---|
| Execution leases, `sidecar/src/executionLeases.ts` | holders, queue of requests | acquire, cancel, release, pump | order of grants among keys of which some overlap (a folder and a folder in it) |
| Turn lifecycle, `sidecar/src/turnLifecycle.ts` | entry and owner per conversation, stopping flag, recorded terminal event | claim, stop, terminal, finish | an engine reports its end long before its process ends |
| Sidecar dispatch, `sidecar/src/index.ts` 6950-7101 and the handlers | the continuation of each turn, processes, tree kills | user_message, interrupt, events of the engine, close of the process, retry | stops at every await; kills that fail or come back late |
| Conversation control, `src/conversationControl.ts`, `src/conversationTurnGate.ts` | owner, run, reservations, pauses | claim, finish, stopping, enqueue, pause | only as strong as its callers |
| App turn control, `src/App.tsx` 2675-3170, 4234-4310, 1560-1620 | stop generations, waiters, dispatched turns, steering | send, drain, stop, hard stop, send now, steering, recovery, terminal events | eight awaits in one send; calls into Rust that overtake each other; thirty seconds of patience |
| Turn journal, `src/db.ts` 250-313 | a row per turn | insert, finalize | written before the call, closed after the event |
| Rust host, `src-tauri/src/lib.rs` | stdin channel of the sidecar, recovery flag | send_message, interrupt, recover | the sidecar dies; its turns are never reported |
| Update ledger, `src/telegramUpdateLedger.ts` | rows per update, in memory and stored | claim, complete, markUncertain, notice, trim, restore | a crash between claim and completion |
| Telegram polling, `src/App.tsx` 3714-3840 | the loop, its offset, the stored offset | ask, process, acknowledge | two loops after a change of the settings; Telegram forgets what is acknowledged |
| Watch marker, `src-tauri/src/task_watch_recovery.rs` | a file per watched task | view, claim, release, record result, ack | must decide what an earlier process did |
| Task-watch delivery, `src/App.tsx` 4020-4230, 1938-1990, 2222-2250, `src/utils/taskWatchRecovery.ts` | followed turns, slots, the heartbeat | scan, claim, send, save, ack, settle, reclaim | six awaits, an error that keeps its lock, stops during settling |
| Telegram turns, `src/telegramBridge.ts`, `src/App.tsx` 3437-3612, 3696-3714, 1901-1911, 2186-2213 | turns in progress, queue of waiting messages, retries and timers under way | take, prepare, claim, queue, retry, drain, reap | a dozen awaits between the look at the conversation and its claim |
| Telegram hub, `src/telegramHub.ts`, `src/telegramDigest.ts`, `src/telegramAbsence.ts` | outbox, digest, held results, what is being sent, their stored copy | deliver, summarise, hold, tick, restart | every sending is an await between two stores; ticks overlap |
| Remote approval, `src/remoteApproval.ts`, hub 430-560, `codex-app-server-bridge.mjs` 300-420, `ApprovalRequests.tsx` | a request in the bridge, on the phone, in the list; two timers | ask, press, list, automatic answer, expire, withdraw | five parties answer one request, and the turn may be stopped meanwhile |
| Sidecar supervisor, `src-tauri/src/lib.rs` 26-48, 620-670, 4745-5046, 5400-5546, `execution_recovery.rs` | handles of child and channel, intended-shutdown flag, recovery guard, generation, attempts | spawn, reader, respawn, reload, watchdog | three tasks spawn and two kill, over statics that are read and written one by one |
| Workspace restore and resumption, `src/App.tsx` 780-850, 1330-1440, 4700-4860, `src/conversationWorkspace.ts`, `src/db.ts` 250-330 | pauses, workspace snapshot, journal; the slot of the recovery | save, restore, candidates, resume, dismiss | three stores written apart, a crash between any two writes |
| Orchestration, `sidecar/src/index.ts` 3090-3480 | collectors, sub-turns, synthesis | fan-out, time out, fan-in, synthesise, clean up | a sub-turn that is given up goes on in the background |

Not modelled yet, or not at all: section 7.

Interactions: the composer, the reservation effect, Telegram and the heartbeat all
claim a conversation in the one gate (shared state); the app calls Rust
(`send_message`, `interrupt`, `task_watch_*`: concurrent calls that may overtake each
other); Rust writes to the sidecar's stdin (a queue in order) and forwards its
stdout as events (in order); the sidecar spawns and tree-kills engine
processes (callbacks that come back in any order). The hub waits for Telegram in
every call, and each answer, button and tick runs between two others. What outlives
a crash is written to localStorage at once, to SQLite in the background.

## 2. Modules

| module | models | extends / uses |
|---|---|---|
| `TurnIds`, `ConversationIds` | the ids and the values that mean "none" | |
| `Filters` | what a filter leaves of a sequence | |
| `LeaseKeys` | keys of sessions and folders and when they conflict | |
| `ExecutionLeases` | the lease table | `LeaseKeys` |
| `TurnLifecycle` | the sidecar's map of turns | |
| `SidecarTurns` | root turns from stdin to the terminal line | `ExecutionLeases`, `TurnLifecycle` |
| `TurnContract` | **abstract**: what the sidecar promises about turns | |
| `ConversationControl` | gate, runs, reservations, pauses | |
| `TurnControl` | the app on top of it, against a sidecar that keeps `TurnContract` | `ConversationControl`, `TurnContract` |
| `UpdateLedger` | the Telegram ledger as operators on rows | |
| `TelegramPolling` | the polling loops on top of it | `UpdateLedger`, `Filters` |
| `WatchMarker` | the marker file as operators | |
| `TaskWatch` | the heartbeat and the life of its turns | `WatchMarker` |
| `TelegramTurns` | the turns of Telegram messages, their queue, retries and timers | |
| `HubDelivery` | how results get to the phone: outbox, digest, quiet hours, restarts | |
| `ApprovalContract` | **abstract**: what an answer to an approval request means | |
| `Approvals` | bridge, app, phone, list and timers around one request | `ApprovalContract` |
| `Supervisor` | who starts and stops the sidecar process | |
| `Resumption` | what survives a restart of the app and how a cut-off turn is carried on | `ConversationControl` |
| `Orchestration` | one root turn that asks several engines | `TurnContract` |
| `SidecarTurnsProofs` | theorems of the lease table and of the sidecar's turns; their refinement of the contract | `SidecarTurns` |
| `TurnControlProofs` | theorems of the app's locks, journal, stops, steering and messages | `TurnControl`, `FilterProofs` |
| `TelegramProofs` | theorems of the turns of Telegram messages and of their reception | `TelegramTurns`, `TelegramPolling`, `FilterProofs` |
| `TaskWatchProofs` | theorems of watched tasks | `TaskWatch` |
| `HubProofs` | theorems of approvals and of the hub's deliveries | `Approvals`, `HubDelivery`, `FilterProofs` |
| `RestartProofs` | theorems of the two restarts, of the sidecar and of the app | `Supervisor`, `Resumption`, `FilterProofs` |
| `OrchestrationProofs` | theorems of a turn that asks several engines | `Orchestration` |
| `FilterProofs` | lemmas about what a filter and a removal leave of a sequence, and the first of its indices | `Filters`, TLAPS |
| `MC...` | small instances for TLC | |

The layers meet at `TurnContract`. `SidecarTurns` implements it (checked by the run
`sidecar` and proved for all instances); `TurnControl` uses its actions as the
sidecar it talks to, so the app is checked against what the sidecar was shown
to do and not against a wish. `Orchestration` implements it once more: to everybody else
a turn that asks three engines is one turn. `TelegramTurns` and `TaskWatch` take from it that
a turn ends with one terminal event or dies with its process (`Supervisor`).

How the code became actions:

* An action is the code from one `await` to the next; every write in that
  stretch belongs to it. JavaScript runs one stretch at a time, in the sidecar as
  in the app, so that is the grain at which things interleave.
* `SidecarTurns`: `pc[t]` is where `dispatchRootTurn` is for turn t (`leasing`:
  awaiting the lease; `handling`: the handler prepares; `running`: it awaits the
  close of its process; `cleanup`: the finally block waits for kills). `written[t]` are
  the lines about t on stdout, with ordinary output recorded once.
* `TurnControl`: an activation of `handleSendMessage` is named by the turn id it draws;
  `at[t]` is where it is (`new`, `prep`: not claimed; `owned`, `saving`, `journalled`: claimed;
  `sent`: awaiting Rust). The two stop generations of the code become one flag per activation,
  `stale[t]`: a stop came since it started. `calls` are calls into Rust, delivered
  in any order; `lines[t]` are events about t, read in order.
* `TelegramPolling`: `loop[l].st` is where a loop is; the ledger in memory, the stored one
  and the stored offset are three variables because each write can fail alone.
* `TelegramTurns`: a message is in `hand` while `sendTelegramTurn` prepares it, in `waiting` in the queue, in
  `retries` while the timer of a retry runs, in `tracked` while its turn does; `told[m]` is how it ended.
* `HubDelivery`: `disk` is what is stored, the other variables what is in memory; a message is `sending` until
  Telegram has it and `accepted` until the hub knows.
* `Approvals`: variables of `ApprovalContract` are history (the verdict, the consents, the deadlines that
  passed); the rest is the bridge's table and timers, its line to the app, the app's gate, list, and calls.
* `Supervisor`: `caller[c]` is where a caller of `spawn_sidecar` is, `reader[s]` the task at the end of a sidecar's
  output; the five statics are five variables because each is read and written alone.
* `Resumption`: `life` is where the start of the app is; the three stores are variables of their own, and a write
  under way is in a sequence or set until it lands. `PrepareFails` and `SendFails` are a send that throws before and after its
  claim, `Forget` is the close button of the panel. `stopped`, `shown` and `forgotten` are history.
* `Orchestration`: `at[r]` is where the handler of a sub-turn (or of the synthesis) is, `collector[e]` what the fan-in has of it.
* `TaskWatch`: a turn is `<<watch, number of its claim>>`; `tick.st` is where the heartbeat is,
  `chain[t]` where the handler of the turn's end is, `engine[t]` what became of it.

Operators whose comment begins "Deliberately wrong" are variants of the definition
after them, with a plausible mistake. Nothing uses them; each one, put in
the place of its definition, makes a run find the property it is paired with in
`PROJECT.json` violated, which shows that the property can fail.

## 3. Runs

| run | instance | what it shows |
|---|---|---|
| `sidecar` | 2 turns, 2 conversations, a folder and a folder in it, a stop, one kind of retry | what executes is covered by owner and lease; two holders of leases share no folder; a stopped turn says nothing more than its stop; every step is one of `TurnContract` (spawning after a stop, a second terminal line, an early one are none); every accepted turn ends, a stopped one as stopped |
| `control` | 3 activations in one conversation, two of them from the composer, a stop and an engine recovery; every kind of fault | the app's lock covers what the sidecar executes; whatever executes is journalled; no message is lost; a stop wins; steering waits for the end of the previous turn |
| `control_liveness` | the same without faults; one send-now or one recovery | locks are released, steering settles |
| `telegram` | 2 loops, 5 updates (one foreign), batches of 2, a ledger of 3 rows, a crash, a change of settings, 2 faults | nothing is executed twice, nothing is dropped silently, every update is executed or reported, or reception stops visibly |
| `telegram_turns` | 3 messages, 2 conversations, a queue of one, two tries; six combinations of a busy desktop, a stop, an error, a missing session, a failing call, a death of the sidecar | a message is in exactly one place, runs only in a conversation it owns, and ends in something the phone is told |
| `telegram_retry` | the same, one missing session and nothing else | **finding**: the retry the phone was promised is refused |
| `watch` | one marker under every interference at once; two markers with a failing call; two markers with a restart and a turn of the composer | no blind replay; a marker goes only when its response is saved; what runs is owned; a failure is decided before its conversation is freed; without failures and deaths every marker is delivered or shown |
| `supervisor` | 3 sidecars, 2 that die, hang or lose their output, a reload, a respawn, one failing spawn, kill or lock | never two spawns at once, no process without a handle; outside of a restart the channel belongs to the kept child (after a reload that failed between the two handles no child is kept and the channel is a dead one's); after every loss of a sidecar service returns or the app is told of this loss, except after a failed reload |
| `approvals` | an approval and an elicitation of one turn, room for one, one incident | each request is in one hand; answered once, in time and only on consent, or unasked when it repeats what its own call of a reading tool confirmed; nothing is accepted for a stopped turn; every request settles |
| `hub` | an ordinary and an urgent result, 2 ticks, a crash, a refused message, a lost answer, a change of mode | what the hub has taken on it keeps until the phone has it, but for two named losses; the outbox arrives; a summary arrives unless a fault comes in between |
| `restart` | 3 turns, 2 crashes between any two writes, a press of stop, discard or close, 2 typed messages, failing sends, a start that reads 2 rows | no stopped turn is carried on, no second recovery of one that was carried on while its conversation stays in the panel, every interrupted one is taken up if no more rows are open than a start reads |
| `orchestration` | 2 engines and the synthesis, timeouts, 2 stops, a retry, failing kills | the outcome is that of the whole; one turn of the contract; it ends |

Why these bounds are enough to be interesting: two turns are needed for any
clash, a third for a reservation being sent by one activation while another runs
(control), for a message that fills the queue while another one is put back (telegram_turns), and
for a turn that is carried on twice (restart). A ledger of three rows with five
updates evicts rows and fills up. Two attempts let a retry follow a passing failure
and the last attempt exhaust the marker. Three sidecars let a respawn meet a reload. Two crashes let the second
arrive while the first is being recovered. Each bound is a constant named in the
module and only limits how often the environment acts; where not everything
can happen at once (`watch`, `telegram_turns`) the instance lists the combinations that may.
`Typed` in `TurnControl` leaves one activation to the
effects that send reservations, which is the case the third one is for.
Deadlock is not checked: with the
bounds used up, and with an idle user, all these systems rightly stop.

The type invariants (`...TypeOK`) are no part of the runs: their job is to keep the
modules readable. Each was checked with the instance of its run, and each is a theorem (section 5).

### The finding

`telegram_retry` (App.tsx:2248): when the engine reports `resume_session_missing` the app tells the
phone that it tries again with a fresh session and does so 1.5 seconds later. The
handler of the same error then ends the turn as failed, which pauses its conversation, and
the retry, which is always sent to the conversation of Telegram itself, is refused
because that is paused - whenever that is the conversation that failed. A message that was routed
to another conversation is retried in the wrong one. The comment at App.tsx:2195 and
CHANGELOG.md:156 promise one retry.

### Counterexamples to run by hand

The following disagreements between the code and what is said of it were met while modelling.
Each has a cfg of its own, with one property that TLC finds violated at once
(`tlc -config X.cfg M`); they are kept for whoever changes that code.

| cfg, module | property | what the code does |
|---|---|---|
| `MCTurnControlCancelled`, `MCTurnControl` | `CancelledIsNotSent` | App.tsx:2944: a reservation is removed from the queue only when its send claims the conversation. Cancelled while that send reads history, it is sent nevertheless (docs/CONVERSATION-CONTROL-20260910.md:23) |
| `MCTurnControlFifo`, `MCTurnControl` | `ReturnsToItsPlace` | App.tsx:3165: a reservation whose send fails after its claim is enqueued again behind what was reserved after it (the same document, 22: first in, first out) |
| `MCTaskWatchZombie`, `MCTaskWatch` | `ZombieIsReleased` | App.tsx:4183: the release of turns silent for fifteen minutes skips those that own their conversation, and the death of a sidecar, which the comment at 4174 names as the reason, frees none |
| `MCHubTwice`, `MCHubDelivery` | `DeliveredOnce` | telegramHub.ts:643: a tick goes on over its copy of the outbox, so a result that another tick has delivered meanwhile is sent again (docs/telegram-absence.md:28) |
| `MCHubLost`, `MCHubDelivery` | `UnsentSurvives` | telegramHub.ts:613-615, 858: a summary leaves the store before it is sent, the morning batch at the next store after it left memory (586); the app closes, and they are gone, although "restart preserves ... unsent result text" (docs/telegram-absence.md:26). With `MaxCrashes = 0`, `MaxRefusals = 1`, `Results = {ordinary, second}`, `Urgent = {}` the same property falls without a crash: line 620 puts a summary that could not be sent in place of what was queued meanwhile |
| `MCResumption` with `PROPERTY CarriedOnOnceThoughClosed`, `Resumption` | the same | conversationControl.ts:97-102: "close" in the panel (App.tsx:5726) drops the run of an idle conversation from memory and from the stored workspace; if the row of a turn that was carried on is still open at the next start, no run contradicts it (conversationWorkspace.ts:62-63), and the turn is carried on again, while docs/conversation-recovery.md:15 has old ambiguous rows never run again by themselves and docs/conversation-recovery.md:13 offers the closing of every idle item |
| `MCSupervisorObsolete`, `Supervisor` | `NoRespawnOverLive` | lib.rs:4970, 5013: a reader that met the end of an intended stop late asks for a respawn while the reload's new sidecar lives (comment at 637) |
| `MCSupervisorFlag`, `Supervisor` | `ServiceAlwaysReturns` | lib.rs:638, 646, 648, 657: a reload that returns an error leaves the flag of the intended shutdown set; the sidecar it did not kill may die or hang later, and neither its reader (4970) nor the watchdog (5454) acts, although a hang is to be recovered while the app still expects the sidecar to be alive (comment at 5446) |
| `MCOrchestrationTimeout`, `Orchestration` | `TimedOutStaysDown` | index.ts:3304: a sub-turn that was given up and killed is started again by the retry of its handler |
| `MCExecutionLeases`, `MCExecutionLeases` | none is violated | the lease table alone, three turns, one session, three spelled folders: arrival order (`NoOvertaking`) and `EveryWaiterSettles` |

### Observations

Read or seen in traces, without a property of their own:

* Telegram turns: order per conversation is not kept when the desktop frees it (a new message overtakes a queued
  one; two that are put back change places), although telegramBridge.ts:83 says it is. `dequeueReady` asks
  the tracker and not the gate, so a message whose conversation the desktop holds is taken out and put back for
  ever and starves the messages of other conversations behind it (compare App.tsx:3604). A retry that was put
  back in the queue is no longer known as one: it may be retried again and is stored again.
  The queue is in memory only. A stop at the desktop tells the phone nothing. A PC that sleeps for
  twenty minutes may have live turns given up; the model assumes that silence means the end.
* Restart: nothing emits `session_recovery_triggered` (App.tsx:2500-2522); the comments at 1436 and 5591 contradict the
  automatic resumption at 1433; "drop all" closes the rows but not the slot; the one slot lets conversations wait for each
  other; a crash between claim and snapshot leaves a turn that is neither candidate nor row; a
  stopped turn could be carried on after a new message if the app crashes before the snapshot lands. A recovery that found
  its conversation busy becomes a reservation, and a reservation that two activations prepare may be sent twice if the first send
  fails late (App.tsx:2937-2944): with six turns TLC finds one that carries the same turn on a second time. `CarriedOnOnce` therefore
  speaks of the recoveries that the app sends itself. A start reads the twenty open rows that were updated last (db.ts:324-328): what was
  cut off before those is neither carried on nor in the banner until some of them are closed. A recovery that throws before its claim, because its attachments
  cannot be restored or the history cannot be read, has given up the slot already (App.tsx:4805): the user is told, its row stays open, and
  nothing tries again before the next start.
* Hub: a result for the absent user is stored nowhere while its progress message is ended, and an urgent one while the summary before it
  is sent (telegramHub.ts:577, 583); a crash then loses it (stage "gone").
* Supervisor: the reload of a dead child that was not reaped fails; a failed respawn is not tried again; the app ignores `sidecar_died` and `sidecar_permanent_failure`
  (lib.rs:44 says it is told); engines of a crashed sidecar may live on.
* Approvals: only elicitations are withdrawn with a "resolved" line; a press before the message id is known is
  ignored; the phone is told "approved" even if the answer turns into a refusal because the turn was stopped; a
  refusal that cannot be delivered goes to the list, where the automatic mode may approve it.
* Approvals, the reused confirmation: it is an argument the model of the engine wrote, not an act of the user in the app.
* Orchestration: lines of Codex sub-turns that carry only `taskId`, and those of a sub-turn that was given up, are
  not intercepted as the comment at index.ts:3198 says; the app rejects them (App.tsx:1563-1578), so the model leaves
  them out. An error line settles the collector although the handler goes on; an error before a retry that succeeds
  stays the outcome. A given-up sub-turn whose kill failed is not killed by a later stop.

## 4. Fairness

* `LeaseFairness`: whoever holds a lease releases it. The finally block of
  `dispatchRootTurn` runs on every path.
* `SidecarFairness`: weak fairness of each continuation (the event loop), of the close of
  a process (a watchdog kills a silent one), and of the return of a kill.
* `TurnControlFairness`: per turn, weak fairness of its steps together: continuations, calls
  into Rust, the report of the sidecar (that it comes is `EveryTurnEnds` below), and events. Per conversation, that
  the thirty seconds pass. The user owes nothing; in the liveness run nothing fails: a failing save
  keeps a lock on purpose until a recovery.
* `PollingFairness`: strong fairness of a loop's steps. While one loop is between two
  awaits the other cannot move, so its steps are enabled again and again, not continuously;
  the scheduler of promises is first in, first out. And the app keeps one loop that is not flagged.
* `TaskWatchFairness`: the heartbeat, turns, the composer's turn; and evidence appears again:
  without evidence a marker that was tried is held, which is intended. `WatchSettles` leaves out trials with faults
  or deaths: a release that fails leaves its marker claimed until a restart, and a death is the zombie above.
* `TelegramFairness`: timers fire, the check comes every thirty seconds, preparations and calls return, a turn ends or its
  process dies, events are read, and turns of the desktop end.
* `HubFairness`: what waits for Telegram gets an answer or an error (the calls have timeouts), ticks go on, the night ends.
* `ApprovalFairness`: the two timers fire, lines are read, calls return. Nobody has to press anything.
* `SupervisorFairness`: spawns and kills return, ends of output are noticed, delays pass, and a sidecar that says nothing
  stays silent long enough for the watchdog.
* `ResumptionFairness`: the start of the app goes on and the effect that takes the slot runs. The user may take another turn
  in the conversation, and an attempt may fail before its claim, which is why `InterruptedIsTakenUp` speaks of being taken up and not of success.
  No fairness is asked of writes, sends and presses.
* `OrchestrationFairness`: handlers go on, processes end some day, kills return.

## 5. Proofs

All theorems hold for every value of the constants. The assumptions on them, named in the modules: the
value for "no turn" is not a turn (`NoTurnAssumption`); names in paths have a lower-case form
(`FoldersAssumption`); conversations are finitely many and the value for "none" is not one of them
(`ConversationsAssumption`); a request belongs to a turn (`TurnOfAssumption`) and one that asks to confirm a read to the call
that makes it (`CallOfAssumption`); the synthesis is no engine and there are at
least two (`EnginesAssumption`: with fewer the message is no orchestration); what a Telegram message is addressed to is a
conversation or nothing, and the home conversation is one (`RoutesAssumption`, `HomeAssumption`); a marker reports
into a conversation (`ConvOfAssumption`); the desktop, the composer and "nobody" are not turns and not the same
(`OwnersAssumption` of `TelegramTurns` and of `TaskWatch`); the names of ticks are not taken (`TicksAssumption`); the activations
of the composer are activations (`TypedAssumption`); bounds are numbers (`JournalAssumption`, `StopsAssumption`, `DrainsAssumption`,
`IncidentsAssumption` and others).

**Leases** (`SidecarTurnsProofs`): `LeaseTypeCorrect`, `LeasesAreExclusive`, `LeasesShareNothing`,
`WaitersAreBlocked`, `ArrivalOrderKept`. `LeasesShareNothing` restates exclusion without the key comparison of
the code: no folder lies inside the projects of two holders, because of two prefixes of one path one is a
prefix of the other. Exclusion alone is not inductive: one pass of
pump may grant several requests, and that these do not clash with each other
holds only because of any two waiting requests one was queued before the other
(`ArrivalOrder`), and because the table agrees with the promises, so that no request
is holder and waiter. `LeaseInv` joins these; all three operations
establish `PumpReady` and then pump, so one lemma about pump (`PumpPreserves`)
carries the proof.

**Sidecar** (`SidecarTurnsProofs`): `ExecutionsAreExclusive`, `ExecutionCovered`,
`StoppedTurnsLeaveTheQueue`, `NothingSpawnsAfterStop`. Every step of the sidecar is a
step of the lease table or leaves it alone (`StepOfLeases`), so `LeaseInv` carries over.
To it the invariant adds where a turn is relative to its entry and its promise
(`Placed`), that handlers hold leases and processes have handlers (`Guarded`), that
a live turn owns its conversation (`Owned`) and that a stopped one is not queued
(`Unqueued`). Two running processes then belong to two holders, which do not clash,
and to two owners, which differ.

**Refinement** (`SidecarTurnsProofs`): `SidecarKeepsContract`, `StoppedTurnsAreSilent`. A lemma per action names
the step of `TurnContract` it makes (dispatch accepts, refusing refuses, a stop asks,
spawn executes, exit ceases, cleanup reports) or shows that it makes none. Cleanup needs
one fact more: nothing terminal was written before (`Untold`), so the one line decides whether
the turn is told as stopped, which it is exactly if it was asked.

Silence after a stop needs that whatever announces a stop was written for a turn that is marked as stopping
(`Announced`), so that `emit` drops what comes later (`Quiet`).

`EndsAreToldOnce`: the app unlocks a conversation on the terminal line of its turn, so that line has
to be the last of the turn. It is one line (`ToldOnce`, from `Untold`: it is written where none was before),
and a kill under way keeps the turn in its handler or its cleanup, which gives the leases back before it
writes (`Settled`). No run checks this invariant: it is proved only.

**Supervisor** (`RestartProofs`): `SpawnsAreExclusive`, `SidecarsAreOwned`, `ChannelFollowsChild`. Three callers are kept
apart by two different guards, the recovery flag and the start of the app; the invariant says which guard holds at
each place of each caller (`Guarded`) and, between a spawn and the two stores of its handles, who hands over
which process (`Handed`). `ChannelFollowsChild` needs to know that a channel without its child (`Parted`) exists only
with the flag of an intended shutdown set, so that nobody but the next reload spawns, which clears it first.

**Approvals** (`HubProofs`): `RequestsAreInOneHand`, `StoppedTurnsConsentToNothing`, `ApprovalsKeepContract`.
`OneHand` is made inductive by where a request may still be unasked (`Fresh`), by what is on the line or open
having been asked (`Asked`) and by every acceptance under way having its consent (`Consented`). The refinement then
goes through the actions: only the bridge's answer, its timer and the end of a turn are steps of `ApprovalContract`.
The one acceptance without anybody's consent is the bridge's own: an elicitation that asks for nothing but `confirm_read` is
granted if the only call of `k-personal` under way is of a reading tool and has `confirm_read` set (`Redundant`,
docs/essential-approvals.md). The request does not name its call; the proof needs that the engine announces a call before
it asks, so the only one is its own (`Repeated`).

**Orchestration** (`OrchestrationProofs`): `OutcomeOfTheWhole`, `FanOutIsOneTurn`. The invariant `Gathered` says, for each phase
of the root turn, what the collectors may hold and which handlers may still be at work; the handlers of
sub-turns that were given up go on through all later phases, and none of what they do is a step of the contract.

**App control** (`TurnControlProofs`): `LockCovers`, `JournalCovers`, `StopsWin`, `SteeringFollows`. That a lock covers
what executes says nothing about who frees locks, so `ControlInv` adds where an activation may be while its
message or its execution is under way (`Placed`); that whoever is about to free a conversation has a reason (`Told`:
the end of the turn is unread or being handled, the turn never reached Rust, or a recovery killed everything); that nothing executes
while a recovery ends its runs (`Stilled`); that turns nobody started own nothing (`Began`); and that a stop leaves its mark on all
it found (`Outdated`), from which `StopsWin` follows, because only the last check hands a turn over. `FreeRun`
occurs in eight actions: one lemma (`LeavesInv`) shows that a turn which is neither in the sidecar nor on its way may leave.
For `SteeringFollows` one sees that only the end of a turn lets a waiter go on.

**Telegram turns** (`TelegramProofs`): `LiveTurnsAreOwned`, `MessagesStayInOnePlace`. The first needs the link between tracker
and gate (`Linked`): what is being sent, runs or has an event to be read is tracked, and what is tracked is owner. The second is proved
without counting: each of the five places holds a message at most once and exactly one holds it (`Conserved`);
only then the sum of five cardinalities is shown to be one.

**Messages** (`TurnControlProofs`): `MessagesAreKept`. A message of the user is always in the queue of its conversation,
with the activation that sends it, or in an end he can see or chose (`Safe`). The step that could lose one is the
claim, which removes a reservation that another activation may be preparing: `Sends` says that whoever sends a reservation
does so in its conversation and after it was made, `Holds` that the message is with the sender from the claim on, so a second
sender that finds the conversation busy may give up, and `Reserved` that a queue holds messages of its own conversation only.

**Reception from Telegram** (`TelegramProofs`): `ExecutedOnce`, `SettledBeforeForgotten`. The two ledgers, in memory and stored,
say the same of an update as what happened to it (`GoodRows`). An executed update has a row in the stored ledger, and in memory
unless that could not be read, as long as the ledger has room for all that arrived (`Recorded`, with `RoomForAll` by counting; `AtMostOnce` has the
same condition). No loop goes past an update that is not settled (`Reads`), so what Telegram may forget is settled, with no condition.

**Task-watch** (`TaskWatchProofs`): `NoReplay`, `GoneSaved`, `RunningOwns`, `FailureDecided`, `TaskWatchTypes`. A marker is claimed
again only when the turns before failed in passing. The file says what became of the last turn (`Decided`), only
the last one can own its conversation or run (`Turned`, `Runs`), the handler of its end agrees with the engine
(`Chained`), a recovery ends only what no longer runs (`Recalled`), and what the heartbeat read before its awaits is
still so (`Ticking`); the last is what a claim that acts upon an old scan would break.

**Deliveries of the hub** (`HubProofs`): `UnsentStaysStored`. A result the hub has taken on (stored, or in a batch on its way) stays
so until it is on the phone. The code has two exceptions, and the theorem says that there is no third: a crash while the result is
in a batch that the store no longer holds, and a summary that comes back over a newer one. Memory and storage differ between a change and its store, so the invariant says that the hub knows all it stored
and has stored all that is queued (`Backed`), that a result goes to outbox or summary for good (`Apart`), that what Telegram accepted has arrived
(`Heard`), and that a tick sends one result of its round at a time (`Flushing`).

**Restart of the app** (`RestartProofs`): `StopsOutliveRestarts`, `CarriedOnAtMostOnce`, `ResumptionTypes`. A stop is in three stores or
in some of them, and a crash may come between any two. `Halted` says where it always is: the
conversation of a stopped turn is paused, no send that would carry it on in that conversation is prepared unless overtaken, and one that
has the conversation is being stopped. `Locked` ties the gate to the runs shown and to the latest snapshot. That no
second recovery follows is proved from the other end, what the stored snapshots mention: a conversation only moves on (`Onward`: once
a snapshot shows the successor of a turn, it and every later one show a run that is not that turn), so after a restart the
row of that turn is no candidate; that ends when the user closes the conversation, which the theorem excepts (`forgotten`); and what is being recovered is mentioned by no snapshot, stored or under way (`Fresh`,
in `NewRecoveries`). The journal is not needed for it: its row may stay open.

Queues that the code filters are sequences without the rest (`Kept`), said without recursion so that the
provers can follow it; `FilterProofs` proves once what it keeps, and that nothing is there twice that was not.

**Types** (in the module of each component): `SidecarTypes`, `TurnControlTypes`, `PollingTypes`, `TelegramTypes`,
`HubTypes`, `ApprovalTypes`, `OrchestrationTypes`, `SupervisorTypes`, beside `LeaseTypeCorrect`, `TaskWatchTypes` and `ResumptionTypes` above. Most follow action by
action, but where a type invariant relates two variables it needs its own. `SidecarTypes` says that a conversation's owner is the
turn whose live entry names it: the code keeps the two in two maps, and `Placed` and `Owned` of the sidecar's invariant tie them together.
`TurnControlTypes` says that gate, run and activation of a conversation agree (`Shown`; every step changes owners in one of five ways,
`OwnersChange`), that a claimed turn is known as long as it owns its conversation, so that none of its events is thrown away
(`Agrees`), and that no message is reserved twice (`Singles`).
`PollingTypes` says that an instance is processing what its ledger says it is (the code keeps a set beside the map) and that no ledger
is longer than its limit: `Agreed`, which needs of every operation of the ledger what it does to the rows at "processing"
(`ClaimProcessed`, `TrimProcessed`: only completed rows make room, so no trimming touches what is under way).

**Only model-checked**: the liveness properties, one or two per run (`EveryTurnEnds`, `LockIsReleased`,
`SteeringSettles`, `EveryUpdateSettles`, `EveryMessageEnds`, `WatchSettles`, `EveryRequestSettles`, `OutboxArrives`,
`DigestArrives`, `ServiceReturns`, `InterruptedIsTakenUp`, `OrchestrationEnds`), because this prover handles neither fairness nor
ENABLED. Every invariant and action property of the passing runs is a theorem, and so is every type invariant. What a recursive or folded definition computes for
all inputs needs induction with an operator as parameter and would stay with TLC.

## 6. Abstractions worth knowing

* Texts, prompts, attachments, times and layout are left out. A message is its turn id.
* A path is a sequence of names; separators and prefixes spell the same sequence,
  the letter case is a function `Lower` because the code really folds it.
* Turn ids are UUIDs used once, so the cap of 512 finished ids in `turnLifecycle.ts` is left out.
* A death of the sidecar and the start of the next one are one step.
* An empty answer of Telegram to an offset it knows changes nothing and is left out.
* The eviction of completed rows (`MAX_RECORDS` 256): a flagged loop that sends a
  notice while the new loop handles more updates than the ledger has room for beside unresolved rows
  could meet its own completed update again, evicted, and execute it a second time. With 256 rows this
  needs a ledger that is nearly full of unresolved updates. `AtMostOnce` counts what is executed while the ledger
  still holds its row.
* A failing release of a stopped watch (App.tsx:2703) leaves its marker claimed by this
  session, neither shown nor tried until a restart.
* `TelegramTurns` takes the desktop as one owner that takes and frees conversations, and leaves the recovery of the
  engine to `TurnControl`; its timers are counted up to a bound, beyond which another one changes nothing.
* `HubDelivery`: caps of the queues (50, 100), failing storage, a change of the allowed chat, a second chat with a summary of its own (596) and the "skip" tier are left
  out; whether a result is held is decided when its delivery begins (the code decides at 664).
* `Supervisor`: delays are the order they enforce. `HandlesAreKept`, `AppHasStarted` and `SilenceLasts` name the three assumptions
  on time: a sidecar lives for the microseconds between the two stores, the start is over before somebody presses reload, silence of
  the length of the watchdog's patience is an end.
* `Approvals`: the calls under way are an input of `Asks`, any set with the call that asks; what the bridge ignores without an answer
  (an RPC id that is no id, or was seen before) is left out.
* `Resumption`: its run has one conversation (the proofs are for any number); settings are at their defaults (automatic recovery on). A snapshot
  or a row update that fails while the app lives needs no step of its own: the next one takes its place, and if the app ends first, the
  failed one is one that had not landed. The deletion of a conversation is left out. `TurnControl` has no `Forget`: there the run of an idle conversation is only shown.
* `Orchestration` follows one turn from its leases on; cards and deltas are left out.
* In `TaskWatch` the silence before `Reclaim` and the wait of `retry_wait` may be over at any time; the
  scan's limit on dispatches is the check of the slots; several markers report into a
  fixed conversation each.

## 7. Not modelled, and why

* **In part**: the Telegram hub (routing of texts, progress messages and follow-ups); `startConfirmation` of the remote approval and the forms of
  elicitations; detached producers of task-watch and the choice of a conversation for a marker that names none.
* **Part of a modelled pattern**: schedules, retries, automatic continuations and session summaries start turns through
  the claim that `TurnControl` models; message persistence is one chain of writes, awaited where `TurnControl` has `saving`.
* **Nothing to check with TLC**: clients of engines, tools, browsers and MCP servers (protocol
  adapters and I/O), tool safety and memory (classification of texts), settings and prompts (pure
  choices), media preview, presentation, build and release scripts. They are the bulk of the repository's
  lines: the settings dialog, the side bar, the message view and the prompts alone are a third of it.

## 8. Plan

Done: leases, lifecycle, sidecar turns and the contract; conversation and turn control; ledger and polling; marker and
task-watch; restart and resumption; hub delivery and approvals; supervisor; orchestration; Telegram turns; and the proofs of
their safety properties.

Left, most important first:

1. The browser host: a lease per conversation, a window per lease, a request that times out in the sidecar and goes on in
   Rust.
2. Message persistence below `TurnControl` and `Resumption`: the write of a message and that of the journal are not ordered.
