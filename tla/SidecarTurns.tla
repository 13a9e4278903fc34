----------------------------- MODULE SidecarTurns -----------------------------
(***************************************************************************)
(* The life of root turns in the sidecar (sidecar/src/index.ts,            *)
(* dispatchRootTurn, stopRootTurn and what emit does with the events of a  *)
(* turn), on top of the lifecycle and the lease table.                     *)
(*                                                                         *)
(* A turn runs through dispatchRootTurn: it claims its conversation, waits *)
(* for its leases, lets its handler start an engine process (or the loop   *)
(* of a REST engine: aborting it is the kill), waits for the process to    *)
(* close, and cleans up.  Between two steps of a turn any other turn may   *)
(* step, stdin may bring another message or stop, a kill may come back, a  *)
(* process may exit.                                                       *)
(*                                                                         *)
(* What the turn writes to stdout is kept per turn: the app reads a line   *)
(* by the turn it names.  Output is recorded once, where it first appears.  *)
(***************************************************************************)
EXTENDS ExecutionLeases, TurnLifecycle, Naturals

CONSTANTS MaxStops,      \* bound: interrupt messages in a behaviour
          RetryReasons   \* failures a handler retries once each: in the code
                         \* a broken stream and an expired token

ASSUME StopsAssumption == MaxStops \in Nat

VARIABLES pc,          \* where dispatchRootTurn is for the turn
          proc,        \* the process of the turn (activeTurns)
          killing,     \* turns with a tree kill under way
          retried,     \* retried[t]: for which failures its handler retried
          stops,       \* interrupt messages received so far
          written      \* written[t]: types of the lines written about t

turnVars == <<pc, proc, killing, retried, stops, written>>
sidecarVars == <<leaseVars, lifecycleVars, turnVars>>

Terminals == {"done", "error", "turn_stopped"}
LineTypes == Terminals \cup {"turn_started", "turn_waiting", "output", "turn_stopping",
                             "interrupt_warning", "interrupt_rejected"}

SidecarInit ==
    /\ LeaseInit
    /\ LifecycleInit
    /\ pc = [t \in Turns |-> "idle"]
    /\ proc = [t \in Turns |-> "none"]
    /\ killing = {}
    /\ retried = [t \in Turns |-> {}]
    /\ stops = 0
    /\ written = [t \in Turns |-> <<>>]

Goto(t, place) == pc' = [pc EXCEPT ![t] = place]
Write(t, line) == written' = [written EXCEPT ![t] = Append(@, line)]
-----------------------------------------------------------------------------
(* A user_message: claim the conversation, or answer with an error. *)
Refuse(t, c) ==
    /\ pc[t] = "idle" /\ ~CanClaim(t, c)
    /\ Goto(t, "refused")
    /\ Write(t, "error")
    /\ UNCHANGED <<leaseVars, lifecycleVars, proc, killing, retried, stops>>

Dispatch(t, c, ks) ==
    /\ pc[t] = "idle"
    /\ Claim(t, c)
    /\ Acquire(t, ks)
    /\ Goto(t, "leasing")
    /\ written' = [written EXCEPT ![t] = @ \o (IF t \in waiting'
                                               THEN <<"turn_started", "turn_waiting">>
                                               ELSE <<"turn_started">>)]
    /\ UNCHANGED <<proc, killing, retried, stops>>

(* The continuation of `await lease`: it throws if the lease was refused or if
   the turn was stopped between the grant and this step. *)
Resume(t) ==
    /\ pc[t] = "leasing"
    /\ \/ /\ promise[t] = "resolved" /\ ~IsStopping(t)
          /\ Goto(t, "handling")
          /\ UNCHANGED lifecycleVars
       \/ /\ promise[t] = "rejected" \/ (promise[t] = "resolved" /\ IsStopping(t))
          /\ RecordTerminal(t, "error")
          /\ Goto(t, "cleanup")
    /\ UNCHANGED <<leaseVars, proc, killing, retried, stops, written>>

(* Deliberately wrong: the handler spawns without asking whether the turn was
   stopped while it prepared the prompt. *)
SpawnUnchecked(t) ==
    /\ pc[t] = "handling"
    /\ Goto(t, "running")
    /\ proc' = [proc EXCEPT ![t] = "alive"]
    /\ UNCHANGED <<leaseVars, lifecycleVars, killing, retried, stops, written>>

(* The handler has prepared the prompt: assertRunning, spawn and the entry in
   activeTurns are one synchronous stretch. *)
Spawn(t) ==
    /\ pc[t] = "handling" /\ ~IsStopping(t)
    /\ Goto(t, "running")
    /\ proc' = [proc EXCEPT ![t] = "alive"]
    /\ UNCHANGED <<leaseVars, lifecycleVars, killing, retried, stops, written>>

(* The handler gives up before it spawns: stopped meanwhile, or an error of
   its own; either way the error is recorded as the terminal event. *)
SpawnFails(t) ==
    /\ pc[t] = "handling"
    /\ RecordTerminal(t, "error")
    /\ Goto(t, "cleanup")
    /\ UNCHANGED <<leaseVars, proc, killing, retried, stops, written>>

(* Deliberately wrong: late output of a stopping turn escapes. *)
EmitOutputWhileStopping(t) ==
    /\ pc[t] = "running"
    /\ "output" \notin Range(written[t])
    /\ Write(t, "output")
    /\ UNCHANGED <<leaseVars, lifecycleVars, pc, proc, killing, retried, stops>>

(* emit of an output event: nothing of a stopping turn is written. *)
EmitOutput(t) ==
    /\ pc[t] = "running" /\ ~IsStopping(t)
    /\ "output" \notin Range(written[t])
    /\ Write(t, "output")
    /\ UNCHANGED <<leaseVars, lifecycleVars, pc, proc, killing, retried, stops>>

(* emit of a done or error event of the engine: recorded, never written. *)
EmitTerminal(t, type) ==
    /\ pc[t] = "running"
    /\ RecordTerminal(t, type)
    /\ UNCHANGED <<leaseVars, turnVars>>

(* The process closes by itself, or because a watchdog killed it. *)
ProcessExits(t) ==
    /\ proc[t] = "alive"
    /\ proc' = [proc EXCEPT ![t] = "exited"]
    /\ UNCHANGED <<leaseVars, lifecycleVars, pc, killing, retried, stops, written>>

(* The handler sees the close: a broken stream is retried once in the same
   session, after a pause, and so is an expired token. *)
HandlerRetries(t) ==
    /\ pc[t] = "running" /\ proc[t] = "exited"
    /\ \E reason \in RetryReasons \ retried[t] :
          retried' = [retried EXCEPT ![t] = @ \cup {reason}]
    /\ proc' = [proc EXCEPT ![t] = "none"]
    /\ Goto(t, "handling")
    /\ UNCHANGED <<leaseVars, lifecycleVars, killing, stops, written>>

(* Deliberately wrong: the turn is finished while its process still runs, as
   soon as the engine has reported its end. *)
HandlerReturnsEarly(t) ==
    /\ pc[t] = "running"
    /\ \E type \in {"done", "error"} : RecordTerminal(t, type)
    /\ Goto(t, "cleanup")
    /\ UNCHANGED <<leaseVars, proc, killing, retried, stops, written>>

(* Otherwise it reports what the engine did not and returns. *)
HandlerReturns(t) ==
    /\ pc[t] = "running" /\ proc[t] = "exited"
    /\ \E type \in {"done", "error"} : RecordTerminal(t, type)
    /\ Goto(t, "cleanup")
    /\ UNCHANGED <<leaseVars, proc, killing, retried, stops, written>>

(* Deliberately wrong: the leases of the turn are never released. *)
CleanupKeepingLease(t) ==
    /\ pc[t] = "cleanup" /\ t \notin killing
    /\ Finish(t)
    /\ Goto(t, "ended")
    /\ Write(t, Outcome(t))
    /\ UNCHANGED <<leaseVars, proc, killing, retried, stops>>

(* The finally block, once the kills of the turn have come back: release the
   leases, close the entry, write the one terminal line. *)
Cleanup(t) ==
    /\ pc[t] = "cleanup" /\ t \notin killing
    /\ Release(t)
    /\ Finish(t)
    /\ Goto(t, "ended")
    /\ Write(t, Outcome(t))
    /\ UNCHANGED <<proc, killing, retried, stops>>
-----------------------------------------------------------------------------
(* An interrupt: for a turn that is not in the map it is refused ... *)
RejectStop(t) ==
    /\ stops < MaxStops /\ ~Live(t)
    /\ stops' = stops + 1
    /\ Write(t, "interrupt_rejected")
    /\ UNCHANGED <<leaseVars, lifecycleVars, pc, proc, killing, retried>>

(* ... otherwise the turn is marked, its wait for leases is cancelled, and the
   process tree is killed unless a kill is already under way. *)
StopTurn(t) ==
    /\ stops < MaxStops
    /\ stops' = stops + 1
    /\ MarkStopping(t)
    /\ Cancel(t)
    /\ Write(t, "turn_stopping")
    /\ killing' = IF proc[t] = "alive" THEN killing \cup {t} ELSE killing
    /\ UNCHANGED <<pc, proc, retried>>

(* The tree kill comes back: done, and the close of the process is seen before
   or after, or in vain because the process had ended by itself ... *)
KillReturns(t) ==
    /\ t \in killing
    /\ killing' = killing \ {t}
    /\ UNCHANGED <<leaseVars, lifecycleVars, pc, proc, retried, stops, written>>

(* ... or it failed, and a process that still runs is warned about. *)
KillFails(t) ==
    /\ t \in killing /\ proc[t] = "alive"
    /\ killing' = killing \ {t}
    /\ Write(t, "interrupt_warning")
    /\ UNCHANGED <<leaseVars, lifecycleVars, pc, proc, retried, stops>>
-----------------------------------------------------------------------------
TurnStep(t) ==
    \/ Resume(t) \/ Spawn(t) \/ SpawnFails(t) \/ EmitOutput(t)
    \/ \E type \in {"done", "error"} : EmitTerminal(t, type)
    \/ ProcessExits(t) \/ HandlerRetries(t) \/ HandlerReturns(t) \/ Cleanup(t)
    \/ KillReturns(t) \/ KillFails(t)

Stdin(t) ==
    \/ \E c \in Conversations :
          Refuse(t, c) \/ \E ks \in KeySets : Dispatch(t, c, ks)
    \/ RejectStop(t) \/ StopTurn(t)

SidecarNext == \E t \in Turns : Stdin(t) \/ TurnStep(t)

SidecarSpec == SidecarInit /\ [][SidecarNext]_sidecarVars

(* The event loop runs every continuation that is due, a process ends some day
   (a watchdog kills one that stays silent), a tree kill calls back. *)
SidecarFairness ==
    \A t \in Turns :
        /\ WF_sidecarVars(Resume(t))
        /\ WF_sidecarVars(Spawn(t) \/ SpawnFails(t))
        /\ WF_sidecarVars(ProcessExits(t))
        /\ WF_sidecarVars(HandlerRetries(t) \/ HandlerReturns(t))
        /\ WF_sidecarVars(KillReturns(t) \/ KillFails(t))
        /\ WF_sidecarVars(Cleanup(t))

SidecarFairSpec == SidecarSpec /\ SidecarFairness
-----------------------------------------------------------------------------
(* Types, and the parts of the state that must agree: the entry of a turn lives
   exactly while dispatchRootTurn is between claim and finish, a conversation
   is owned by the one turn whose entry names it, and a process exists only
   while the handler awaits it. *)
SidecarTypeOK ==
    /\ LeaseTypeOK
    /\ entry \in [Turns -> {"none", "live", "finished"}]
    /\ convOf \in [Turns -> Conversations \cup {NoConv}]
    /\ stopping \in [Turns -> BOOLEAN]
    /\ terminal \in [Turns -> {"none", "done", "error"}]
    /\ pc \in [Turns -> {"idle", "refused", "leasing", "handling", "running",
                         "cleanup", "ended"}]
    /\ proc \in [Turns -> {"none", "alive", "exited"}]
    /\ killing \subseteq Turns
    /\ retried \in [Turns -> SUBSET RetryReasons]
    /\ stops \in 0..MaxStops
    /\ written \in [Turns -> Seq(LineTypes)]
    /\ \A t \in Turns :
          /\ Live(t) <=> pc[t] \in {"leasing", "handling", "running", "cleanup"}
          /\ proc[t] = "alive" => pc[t] = "running"
    /\ \A c \in Conversations :
          owners[c] = IF \E t \in Turns : Live(t) /\ convOf[t] = c
                      THEN CHOOSE t \in Turns : Live(t) /\ convOf[t] = c
                      ELSE NoTurn

Executing == {t \in Turns : proc[t] = "alive"}

(* What the gate, the lifecycle and the leases are for: two processes that run
   at the same time belong to different conversations, share no engine session
   and work in disjoint folders, whatever was stopped, killed in vain, retried
   or refused before. *)
ExecutionExclusive ==
    \A t, u \in Executing : t # u => convOf[t] # convOf[u] /\ ~Clash(keys, t, u)

(* A process never outlives what guards it: while it runs its turn owns the
   conversation and holds its leases, so neither is given away on the mere
   word of the engine or of the user that the turn is over. *)
ExecutionIsCovered ==
    \A t \in Executing : Live(t) /\ owners[convOf[t]] = t /\ t \in active

(* Once a stop has reached the turn no process is started for it: not after
   the wait for a lease, not after the preparation of the prompt, not by the
   automatic retry. *)
NoSpawnAfterStop ==
    [][\A t \in Turns : stopping[t] => (proc'[t] = "alive" => proc[t] = "alive")]_sidecarVars

(* A stopped turn leaves the queue for the leases at once; it does not wait for
   the turn of another conversation to end before it can be confirmed. *)
StoppedNeverWaits == \A t \in Turns : IsStopping(t) => t \notin waiting

TerminalLines(t) == {i \in DOMAIN written[t] : written[t][i] \in Terminals}

(* The terminal line of a turn is written at most once, and only when nothing
   of the turn is left: no process, no kill under way, no lease, no entry.
   The app unlocks the conversation on that line. *)
TerminalMeansOver ==
    \A t \in Turns : TerminalLines(t) # {} =>
        /\ Cardinality(TerminalLines(t)) = 1
        /\ ~Live(t) /\ proc[t] # "alive" /\ t \notin killing
        /\ t \notin active /\ t \notin waiting

(* After the stop was announced no output and no other outcome of the turn
   reaches the app: only repeated announcements, warnings and turn_stopped
   (and, afterwards, refusals of further stops). *)
SilentAfterStop ==
    \A t \in Turns : \A i, j \in DOMAIN written[t] :
        i < j /\ written[t][i] = "turn_stopping" =>
            written[t][j] \in {"turn_stopping", "interrupt_warning", "turn_stopped",
                               "interrupt_rejected"}

(* Every turn that was accepted comes to its end, through waits for leases,
   failed kills, retries and stops. *)
EveryTurnEnds == \A t \in Turns : pc[t] = "leasing" ~> pc[t] = "ended"

-----------------------------------------------------------------------------
(* The state of a turn as the contract sees it; its end is what the app was
   told of it. *)
Told(lines) ==
    IF "turn_stopped" \in Range(lines) THEN "stopped"
    ELSE IF "error" \in Range(lines) THEN "failed" ELSE "completed"

Phase(t) ==
    IF pc[t] = "idle" THEN "new"
    ELSE IF pc[t] = "refused" THEN "refused"
    ELSE IF pc[t] = "ended" THEN Told(written[t])
    ELSE IF proc[t] = "alive" THEN "executing" ELSE "accepted"

KeySetsCompatible(m, n) == \A k \in m, l \in n : ~Conflicts(k, l)

Contract ==
    INSTANCE TurnContract WITH
        phase <- [t \in Turns |-> Phase(t)], conv <- convOf, needs <- keys,
        asked <- stopping, Needs <- KeySets, Compatible <- KeySetsCompatible

(* The sidecar keeps the contract of turns: leases, flags, kills and queues
   only ever make the steps that the contract allows. *)
ImplementsContract == Contract!ContractSpec
==============================================================================
