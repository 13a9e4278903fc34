--------------------------- MODULE TelegramPolling ---------------------------
(***************************************************************************)
(* Receiving Telegram updates (the polling effect of src/App.tsx with      *)
(* processTelegramUpdate).  A change of the settings starts a new loop and *)
(* only flags the old one, which looks at the flag when it asks Telegram   *)
(* again: until then both work, on one ledger, one stored ledger and one   *)
(* stored offset.  The app may close at any await.  Telegram forgets the   *)
(* updates below the offset it is asked with.                              *)
(***************************************************************************)
EXTENDS UpdateLedger

CONSTANTS LastUpdate,    \* the updates Telegram will receive: 1..LastUpdate
          Foreign,       \* those of no text or of a chat that is not allowed
          Batch,         \* updates that Telegram returns at once
          Loops,         \* polling loops
          MaxCrashes,    \* bound: times the app is closed
          MaxChanges,    \* bound: changes of the settings while a loop works
          MaxFaults      \* bound: writes, dispatches and notices that fail

ASSUME LastUpdateAssumption == LastUpdate \in Nat
ASSUME BatchAssumption == Batch \in Nat \ {0}

VARIABLES ledger,     \* the ledger in memory
          active,     \* ids being processed by this instance
          stored,     \* the ledger in localStorage
          offset,     \* the offset in localStorage
          loop,       \* loop[l]: where it is, its batch, its offset, its flag
          arrived,    \* updates 1..arrived have arrived
          forgotten,  \* Telegram has dropped the updates below
          executed,   \* executed[u]: times the update was dispatched
          settled,    \* updates whose dispatch succeeded or whose chat was told
          blocked,    \* the stored ledger could not be read
          left        \* crashes, changes and faults that may still come

pollingVars == <<ledger, active, stored, offset, loop, arrived, forgotten, executed,
                 settled, blocked, left>>

Updates == 1..LastUpdate
LoopStates == {"off", "ask", "asked", "scan", "executing", "telling"}
Idle == [st |-> "off", batch |-> <<>>, off |-> 1, cancelled |-> FALSE]

PollingInit ==
    /\ ledger = <<>> /\ active = {} /\ stored = <<>>
    /\ offset = 1
    /\ loop = [l \in Loops |-> Idle]
    /\ arrived = 0 /\ forgotten = 1
    /\ executed = [u \in Updates |-> 0]
    /\ settled = {} /\ blocked = FALSE
    /\ left = [crashes |-> MaxCrashes, changes |-> MaxChanges, faults |-> MaxFaults]

Fault == left.faults > 0 /\ left' = [left EXCEPT !.faults = @ - 1]
Fine == UNCHANGED left
outside == <<arrived, forgotten, blocked>>

Moves(l, st) == loop' = [loop EXCEPT ![l].st = st]
(* The loop gives up its batch and asks Telegram again. *)
AsksAgain(l) == loop' = [loop EXCEPT ![l].st = "ask", ![l].batch = <<>>]
Current(l) == Head(loop[l].batch)

Stores == stored' = ledger'

(* JavaScript runs to the next await, and those between the updates of a batch
   are over at once: while a loop scans, no other goes on. *)
Free(l) == \A k \in Loops \ {l} : loop[k].st # "scan"

(* acknowledge: the offset of the loop, then the one in storage; the rest of
   the batch follows, unless that write fails. *)
Acknowledges(l) ==
    LET u == Current(l) IN
    \/ /\ offset' = u + 1
       /\ loop' = [loop EXCEPT ![l].st = "scan", ![l].batch = Tail(@), ![l].off = u + 1]
       /\ Fine
    \/ /\ Fault /\ UNCHANGED offset
       /\ loop' = [loop EXCEPT ![l].st = "ask", ![l].batch = <<>>, ![l].off = u + 1]
-----------------------------------------------------------------------------
UpdateArrives ==
    /\ arrived < LastUpdate
    /\ arrived' = arrived + 1
    /\ UNCHANGED <<ledger, active, stored, offset, loop, forgotten, executed, settled,
                   blocked, left>>

NoLoop == \A l \in Loops : loop[l].st = "off" \/ loop[l].cancelled

(* The effect runs, at the start or because the settings changed: a new loop,
   and the flag of the old ones. *)
StartLoop(l) ==
    /\ loop[l].st = "off" /\ Free(l)
    /\ \/ NoLoop /\ UNCHANGED left
       \/ ~NoLoop /\ left.changes > 0 /\ left' = [left EXCEPT !.changes = @ - 1]
    /\ loop' = [k \in Loops |-> IF k = l THEN [Idle EXCEPT !.st = "ask", !.off = offset]
                                         ELSE [loop[k] EXCEPT !.cancelled = TRUE]]
    /\ UNCHANGED <<ledger, active, stored, offset, outside, executed, settled>>

(* getUpdates: Telegram forgets what is below the offset and answers with the
   next updates, perhaps none.  (An empty answer to an offset it knows changes
   nothing and is left out.) *)
Ask(l) ==
    LET first == IF loop[l].off > forgotten THEN loop[l].off ELSE forgotten
        last == IF first + Batch - 1 < arrived THEN first + Batch - 1 ELSE arrived
    IN
    /\ loop[l].st = "ask" /\ ~loop[l].cancelled
    /\ first <= last \/ forgotten < first
    /\ forgotten' = first
    /\ loop' = [loop EXCEPT ![l].st = "asked",
                            ![l].batch = [i \in 1..(last - first + 1) |-> first + i - 1]]
    /\ UNCHANGED <<ledger, active, stored, offset, arrived, executed, settled, blocked, left>>

(* The answer is there. *)
Receive(l) ==
    /\ loop[l].st = "asked" /\ ~loop[l].cancelled
    /\ Moves(l, "scan")
    /\ UNCHANGED <<ledger, active, stored, offset, outside, executed, settled, left>>

(* A flagged loop ends before it asks, or drops the answer. *)
StopLoop(l) ==
    /\ loop[l].st \in {"ask", "asked"} /\ loop[l].cancelled
    /\ loop' = [loop EXCEPT ![l] = Idle]
    /\ UNCHANGED <<ledger, active, stored, offset, outside, executed, settled, left>>

EndOfBatch(l) ==
    /\ loop[l].st = "scan" /\ loop[l].batch = <<>>
    /\ Moves(l, "ask")
    /\ UNCHANGED <<ledger, active, stored, offset, outside, executed, settled, left>>

Scans(l) == loop[l].st = "scan" /\ loop[l].batch # <<>>

(* An update that is not for the app is only passed over. *)
PassOver(l) ==
    /\ Scans(l) /\ Current(l) \in Foreign
    /\ Acknowledges(l)
    /\ UNCHANGED <<ledger, active, stored, outside, executed, settled>>

(* A ledger that could not be read claims nothing. *)
Refuse(l) ==
    /\ Scans(l) /\ Current(l) \notin Foreign /\ blocked
    /\ AsksAgain(l)
    /\ UNCHANGED <<ledger, active, stored, offset, outside, executed, settled, left>>

Mine(l, state) ==
    Scans(l) /\ Current(l) \notin Foreign /\ ~blocked /\ StateOf(ledger, Current(l)) = state

(* A new update is claimed, the claim is stored, and only then it is executed.
   A claim that cannot be stored is cancelled; a full ledger refuses it. *)
Execute(l) ==
    LET u == Current(l) IN
    /\ Mine(l, "none")
    /\ \/ /\ Full(ledger, active)
          /\ ledger' = MadeRoom(ledger, active)
          /\ AsksAgain(l) /\ UNCHANGED <<active, stored, executed, left>>
       \/ /\ ~Full(ledger, active) /\ Fine
          /\ ledger' = Claimed(ledger, active, u)
          /\ active' = active \cup {u}
          /\ Stores
          /\ Moves(l, "executing")
          /\ executed' = [executed EXCEPT ![u] = @ + 1]
       \/ /\ ~Full(ledger, active) /\ Fault
          /\ ledger' = Cancelled(Claimed(ledger, active, u), u)
          /\ AsksAgain(l) /\ UNCHANGED <<active, stored, executed>>
    /\ UNCHANGED <<offset, outside, settled>>

(* Another loop is executing it. *)
Defer(l) ==
    /\ Mine(l, "processing")
    /\ AsksAgain(l)
    /\ UNCHANGED <<ledger, active, stored, offset, outside, executed, settled, left>>

(* Deliberately wrong: what was completed before is not passed over. *)
SkipCompletedAgain(l) ==
    /\ Mine(l, "completed")
    /\ ledger' = ledger /\ Stores /\ AsksAgain(l)
    /\ UNCHANGED <<active, offset, outside, executed, settled, left>>

(* It was completed before: store that, then pass it over. *)
SkipCompleted(l) ==
    /\ Mine(l, "completed")
    /\ \/ ledger' = ledger /\ Stores /\ Acknowledges(l)
       \/ Fault /\ AsksAgain(l) /\ UNCHANGED <<ledger, stored, offset>>
    /\ UNCHANGED <<active, outside, executed, settled>>

(* Deliberately wrong: nobody is told. *)
HoldSilently(l) ==
    /\ Mine(l, "uncertain")
    /\ ledger' = ledger /\ Stores /\ Acknowledges(l)
    /\ UNCHANGED <<active, outside, executed, settled>>

(* It may have been executed: the chat is told once, then it is passed over. *)
HoldUncertain(l) ==
    /\ Mine(l, "uncertain")
    /\ \/ /\ ledger' = ledger /\ Stores
          /\ IF NeedsNotice(ledger, Current(l))
             THEN Moves(l, "telling") /\ UNCHANGED <<offset, left>>
             ELSE Acknowledges(l)
       \/ Fault /\ AsksAgain(l) /\ UNCHANGED <<ledger, stored, offset>>
    /\ UNCHANGED <<active, outside, executed, settled>>
-----------------------------------------------------------------------------
(* The dispatch returned. A completion that cannot be stored is uncertain. *)
Succeeds(l) ==
    LET u == Current(l) IN
    /\ loop[l].st = "executing"
    /\ active' = active \ {u}
    /\ settled' = settled \cup {u}
    /\ \/ ledger' = Completed(ledger, active, u) /\ Stores /\ Acknowledges(l)
       \/ /\ Fault /\ AsksAgain(l) /\ UNCHANGED <<stored, offset>>
          /\ ledger' = MadeUncertain(Completed(ledger, active, u), u)
    /\ UNCHANGED <<outside, executed>>

(* The dispatch failed, perhaps after it had effects. *)
Fails(l) ==
    LET u == Current(l) IN
    /\ loop[l].st = "executing" /\ Fault
    /\ active' = active \ {u}
    /\ ledger' = MadeUncertain(ledger, u)
    /\ \/ Stores /\ Moves(l, "telling")
       \/ UNCHANGED stored /\ AsksAgain(l)
    /\ UNCHANGED <<offset, outside, executed, settled>>

(* The chat is told that the update may have been executed; that it was told
   is stored before the update is passed over. *)
TellChat(l) ==
    LET u == Current(l) IN
    /\ loop[l].st = "telling"
    /\ \/ /\ settled' = settled \cup {u}
          /\ ledger' = NoticeSent(ledger, u)
          /\ \/ Stores /\ Acknowledges(l)
             \/ Fault /\ AsksAgain(l) /\ UNCHANGED <<stored, offset>>
       \/ Fault /\ AsksAgain(l) /\ UNCHANGED <<ledger, stored, offset, settled>>
    /\ UNCHANGED <<active, outside, executed>>

(* The app is closed and started again: the ledger in storage is read, or
   blocks every claim when that fails. *)
Restart ==
    /\ left.crashes > 0
    /\ \/ /\ ledger' = Restored(stored) /\ blocked' = FALSE
          /\ left' = [left EXCEPT !.crashes = @ - 1]
       \/ /\ left.faults > 0
          /\ ledger' = <<>> /\ blocked' = TRUE
          /\ left' = [left EXCEPT !.crashes = @ - 1, !.faults = @ - 1]
    /\ active' = {}
    /\ loop' = [l \in Loops |-> Idle]
    /\ UNCHANGED <<stored, offset, arrived, forgotten, executed, settled>>
-----------------------------------------------------------------------------
LoopStep(l) ==
    /\ Free(l)
    /\ \/ Ask(l) \/ Receive(l) \/ StopLoop(l) \/ EndOfBatch(l)
       \/ PassOver(l) \/ Refuse(l) \/ Execute(l) \/ Defer(l) \/ SkipCompleted(l)
       \/ HoldUncertain(l) \/ Succeeds(l) \/ Fails(l) \/ TellChat(l)

PollingNext ==
    \/ UpdateArrives \/ Restart
    \/ \E l \in Loops : StartLoop(l) \/ LoopStep(l)

PollingSpec == PollingInit /\ [][PollingNext]_pollingVars
-----------------------------------------------------------------------------
PollingTypeOK ==
    /\ ledger \in Seq(Rows(Updates)) /\ stored \in Seq(Rows(Updates))
    /\ Len(ledger) <= MaxRecords
    /\ \A i, j \in DOMAIN ledger : i # j => ledger[i].id # ledger[j].id
    /\ active = {u \in Updates : StateOf(ledger, u) = "processing"}
    /\ offset \in 1..(LastUpdate + 1) /\ forgotten \in 1..(LastUpdate + 1)
    /\ loop \in [Loops -> [st : LoopStates, batch : Seq(Updates), off : 1..(LastUpdate + 1),
                           cancelled : BOOLEAN]]
    /\ arrived \in 0..LastUpdate
    /\ executed \in [Updates -> Nat] /\ settled \subseteq Updates /\ blocked \in BOOLEAN

(* No update is executed twice, whatever combination of closing the app, failing
   writes, a second loop and an old offset it meets, as long as no more updates
   for the app have arrived than the ledger keeps rows: a batch older than that
   can outlive the row of an update it holds. *)
AtMostOnce ==
    Cardinality((1..arrived) \ Foreign) <= MaxRecords => \A u \in Updates : executed[u] <= 1

(* Telegram is allowed to forget an update only when it was executed with
   success or its chat was told that it may not have been. *)
NothingSkipped == \A u \in Updates \ Foreign : u < forgotten => u \in settled

(* A loop goes on as Telegram, the dispatch and the chat answer (strong: another
   loop that asks again and again is only between its awaits), and the app has
   one that is not flagged. *)
PollingFairness ==
    /\ \A l \in Loops : SF_pollingVars(LoopStep(l))
    /\ WF_pollingVars(NoLoop /\ \E l \in Loops : StartLoop(l))

PollingFairSpec == PollingSpec /\ PollingFairness

(* A ledger whose rows are all uncertain refuses every update for good. *)
Unresolved == Len(ledger) = MaxRecords /\ \A i \in DOMAIN ledger : ledger[i].state = "uncertain"

(* Every update that arrives is settled in the end: executed with success, or
   its chat is told, unless reception has stopped because the ledger could not
   be read or is full of updates that nobody can vouch for. *)
EveryUpdateSettles ==
    \A u \in Updates \ Foreign : arrived >= u ~> (u \in settled \/ blocked \/ Unresolved)
==============================================================================
