----------------------------- MODULE Orchestration -----------------------------
(***************************************************************************)
(* A turn that asks several engines at once (sidecar/src/index.ts,         *)
(* handleOrchestrateMessage): one sub-turn per engine, each through the    *)
(* ordinary handler, their answers gathered by collectors, then a          *)
(* synthesis under the id of the root turn, then the cleanup of            *)
(* dispatchRootTurn.  A sub-turn that takes too long is given up, and goes *)
(* on in the background as long as its process or its retry lasts.         *)
(*                                                                         *)
(* The module follows one root turn from the moment it holds its leases;   *)
(* conversations and leases are in SidecarTurns.                           *)
(***************************************************************************)
EXTENDS Naturals, FiniteSets

CONSTANTS Engines,       \* the engines asked; with fewer than two the
                         \* message is handled as an ordinary turn
          MaxStops,      \* bound: interrupt messages in a behaviour
          RetryReasons   \* failures a handler retries once each

Synthesis == "synthesis"

ASSUME EnginesAssumption == Synthesis \notin Engines /\ Cardinality(Engines) >= 2

(* The handlers that run for the turn: one per sub-turn, and the synthesis. *)
Runs == Engines \cup {Synthesis}

VARIABLES pc,          \* where the handler of the root turn is
          at,          \* at[r]: where the handler of r is
          said,        \* runs whose engine has reported its end
          retried,     \* retried[r]: for which failures the handler retried
          held,        \* runs that have an entry in activeTurns
          collector,   \* collector[e]: waits, or how the sub-turn came out
          text,        \* engines of which some answer was collected
          stopping,    \* the flag in the lifecycle entry of the root turn
          terminal,    \* the terminal event recorded in that entry
          kills,       \* runs with a kill of a stop under way
          stops,       \* interrupt messages received so far
          erred        \* history: the synthesis reported an error

runVars == <<at, said, retried, held>>
orchestrationVars == <<pc, runVars, collector, text, stopping, terminal, kills, stops, erred>>

OrchestrationInit ==
    /\ pc = "new"
    /\ at = [r \in Runs |-> "preparing"]
    /\ said = {}
    /\ retried = [r \in Runs |-> {}]
    /\ held = {}
    /\ collector = [e \in Engines |-> "none"]
    /\ text = {}
    /\ stopping = FALSE
    /\ terminal = "none"
    /\ kills = {}
    /\ stops = 0
    /\ erred = FALSE

Moves(r, place) == at' = [at EXCEPT ![r] = place]

(* An error remains an error even if a done follows it. *)
Recorded(type) == IF terminal = "error" THEN "error" ELSE type
-----------------------------------------------------------------------------
(* Fan-out: a collector and a handler for every engine. *)
FanOut ==
    /\ pc = "new"
    /\ pc' = "gathering"
    /\ collector' = [e \in Engines |-> "open"]
    /\ UNCHANGED <<runVars, text, stopping, terminal, kills, stops, erred>>

(* Deliberately wrong: one engine without an answer fails the turn. *)
FanInOfAll(results) ==
    IF \E e \in Engines : results[e] = "open" THEN UNCHANGED <<pc, terminal>>
    ELSE IF \E e \in Engines : results[e] = "failed"
    THEN pc' = "cleanup" /\ terminal' = Recorded("error")
    ELSE pc' = "synthesis" /\ UNCHANGED terminal

(* Fan-in, in the same stretch as the last collector that settles: with no
   answer at all the turn fails, otherwise the answers are synthesised. *)
FanIn(results) ==
    IF \E e \in Engines : results[e] = "open" THEN UNCHANGED <<pc, terminal>>
    ELSE IF \A e \in Engines : results[e] = "failed"
    THEN pc' = "cleanup" /\ terminal' = Recorded("error")
    ELSE pc' = "synthesis" /\ UNCHANGED terminal

Settle(e, good) ==
    /\ collector' = [collector EXCEPT ![e] = IF good /\ e \in text THEN "ok" ELSE "failed"]
    /\ FanIn(collector')

(* emit of a done or an error of r; with the synthesis the root moves to
   `place`.  The end of a sub-turn settles its collector, if that still waits;
   only the synthesis bears the id that the lifecycle knows. *)
Says(r, type, place) ==
    IF r = Synthesis
    THEN /\ terminal' = Recorded(type)
         /\ erred' = (erred \/ type = "error")
         /\ pc' = place
         /\ UNCHANGED collector
    ELSE /\ IF collector[r] = "open" THEN Settle(r, type = "done")
            ELSE UNCHANGED <<pc, terminal, collector>>
         /\ UNCHANGED erred
-----------------------------------------------------------------------------
Preparing(r) ==
    /\ at[r] = "preparing"
    /\ IF r = Synthesis THEN pc = "synthesis" ELSE pc # "new"

(* The prompt is prepared: assertRunning, which asks for the root turn, spawn,
   and the entry in activeTurns. *)
Spawn(r) ==
    /\ Preparing(r) /\ ~stopping
    /\ Moves(r, "running")
    /\ held' = held \cup {r}
    /\ UNCHANGED <<pc, said, retried, collector, text, stopping, terminal, kills, stops, erred>>

SpawnFails(r) ==
    /\ Preparing(r)
    /\ Moves(r, "over")
    /\ Says(r, "error", "cleanup")
    /\ held' = held \ {r}
    /\ UNCHANGED <<said, retried, text, stopping, kills, stops>>

(* A piece of an answer: kept by the collector, if that still waits. *)
Answers(e) ==
    /\ at[e] = "running" /\ collector[e] = "open"
    /\ text' = text \cup {e}
    /\ UNCHANGED <<pc, runVars, collector, stopping, terminal, kills, stops, erred>>

(* The engine reports its end, or an error it may yet recover from. *)
EngineReports(r, type) ==
    /\ at[r] = "running" /\ r \notin said
    /\ said' = IF type = "done" THEN said \cup {r} ELSE said
    /\ Says(r, type, pc)
    /\ UNCHANGED <<at, retried, held, text, stopping, kills, stops>>

(* The process closes by itself, or because it was killed. *)
ProcessExits(r) ==
    /\ at[r] = "running"
    /\ Moves(r, "closed")
    /\ UNCHANGED <<pc, said, retried, held, collector, text, stopping, terminal, kills, stops, erred>>

(* Deliberately wrong: the retry does not carry the mark that it is one. *)
HandlerRetriesForEver(r) ==
    /\ at[r] = "closed" /\ r \notin said
    /\ Moves(r, "preparing")
    /\ UNCHANGED <<pc, said, retried, held, collector, text, stopping, terminal, kills, stops, erred>>

(* A broken stream or an expired token is retried once after a pause, whether
   the collector of the sub-turn still waits or not. *)
HandlerRetries(r) ==
    /\ at[r] = "closed" /\ r \notin said
    /\ \E reason \in RetryReasons \ retried[r] :
          retried' = [retried EXCEPT ![r] = @ \cup {reason}]
    /\ Moves(r, "preparing")
    /\ UNCHANGED <<pc, said, held, collector, text, stopping, terminal, kills, stops, erred>>

HandlerReturns(r) ==
    /\ at[r] = "closed"
    /\ Moves(r, "over")
    /\ held' = held \ {r}
    /\ \E type \in {"done", "error"} : Says(r, type, "cleanup")
    /\ UNCHANGED <<said, retried, text, stopping, kills, stops>>

(* Five minutes: what was collected counts, the process is killed (nobody
   looks whether that succeeded) and its entry dropped. *)
TimesOut(e) ==
    /\ collector[e] = "open"
    /\ held' = held \ {e}
    /\ Settle(e, TRUE)
    /\ UNCHANGED <<at, said, retried, text, stopping, kills, stops, erred>>
-----------------------------------------------------------------------------
UnderWay == pc \in {"gathering", "synthesis", "cleanup"}

(* An interrupt marks the turn.  Unless an earlier one is still killing, it
   kills what activeTurns names and settles the collectors that wait; a turn
   that was gathering then skips the synthesis. *)
Stop ==
    /\ UnderWay /\ stops < MaxStops
    /\ stops' = stops + 1
    /\ stopping' = TRUE
    /\ kills' = IF kills = {} THEN {r \in held : at[r] = "running"} ELSE kills
    /\ collector' = [e \in Engines |-> IF collector[e] = "open" THEN "failed" ELSE collector[e]]
    /\ IF pc = "gathering" THEN pc' = "cleanup" /\ terminal' = Recorded("done")
       ELSE UNCHANGED <<pc, terminal>>
    /\ UNCHANGED <<runVars, text, erred>>

(* A kill comes back, done or in vain. *)
KillReturns(r) ==
    /\ r \in kills
    /\ kills' = kills \ {r}
    /\ UNCHANGED <<pc, runVars, collector, text, stopping, terminal, stops, erred>>

(* Deliberately wrong: the sub-turns that were given up are not waited for. *)
CleanupEarly ==
    /\ pc = "cleanup" /\ kills = {}
    /\ pc' = "ended"
    /\ UNCHANGED <<runVars, collector, text, stopping, terminal, kills, stops, erred>>

(* The finally block: first the handlers of all sub-turns, then the kills, then
   the one terminal line. *)
Cleanup ==
    /\ pc = "cleanup"
    /\ \A e \in Engines : at[e] = "over"
    /\ kills = {}
    /\ pc' = "ended"
    /\ UNCHANGED <<runVars, collector, text, stopping, terminal, kills, stops, erred>>
-----------------------------------------------------------------------------
RunStep(r) ==
    \/ Spawn(r) \/ SpawnFails(r)
    \/ \E type \in {"done", "error"} : EngineReports(r, type)
    \/ ProcessExits(r) \/ HandlerRetries(r) \/ HandlerReturns(r) \/ KillReturns(r)

OrchestrationNext ==
    \/ FanOut \/ Stop \/ Cleanup
    \/ \E r \in Runs : RunStep(r)
    \/ \E e \in Engines : Answers(e) \/ TimesOut(e)

OrchestrationSpec == OrchestrationInit /\ [][OrchestrationNext]_orchestrationVars

(* As in SidecarTurns: continuations run, a process ends some day (a watchdog
   kills one that stays silent), a kill calls back. *)
OrchestrationFairness ==
    /\ WF_orchestrationVars(Cleanup)
    /\ \A r \in Runs :
          /\ WF_orchestrationVars(Spawn(r) \/ SpawnFails(r))
          /\ WF_orchestrationVars(ProcessExits(r))
          /\ WF_orchestrationVars(HandlerRetries(r) \/ HandlerReturns(r))
          /\ WF_orchestrationVars(KillReturns(r))

OrchestrationFairSpec == OrchestrationSpec /\ OrchestrationFairness
-----------------------------------------------------------------------------
OrchestrationTypeOK ==
    /\ pc \in {"new", "gathering", "synthesis", "cleanup", "ended"}
    /\ at \in [Runs -> {"preparing", "running", "closed", "over"}]
    /\ said \subseteq Runs /\ held \subseteq Runs /\ kills \subseteq Runs
    /\ retried \in [Runs -> SUBSET RetryReasons]
    /\ collector \in [Engines -> {"none", "open", "ok", "failed"}]
    /\ text \subseteq Engines
    /\ stopping \in BOOLEAN /\ erred \in BOOLEAN
    /\ terminal \in {"none", "done", "error"}
    /\ stops \in Nat

(* The outcome the app is told is that of the whole: it is a failure exactly if
   the synthesis failed or no engine had an answer, and a success only after a
   synthesis.  One engine that fails, is given up, or reports late does not
   decide it, and what all of them report in vain is not a success. *)
OutcomeIsItsOwn ==
    pc = "ended" /\ ~stopping =>
        /\ terminal = IF erred \/ \A e \in Engines : collector[e] = "failed"
                      THEN "error" ELSE "done"
        /\ terminal = "done" => at[Synthesis] = "over"

(* A fan-out comes to its end, through timeouts, retries, stops and kills in
   vain. *)
OrchestrationEnds == pc = "gathering" ~> pc = "ended"

(* What the comment on the timeout says (index.ts:3304): the process is cleaned
   up and the sub-turn has its partial result.  No process starts for it
   afterwards.  The code does not keep this: the pause of a retry, or the
   preparation of the prompt, may outlast the timeout. *)
TimedOutStaysDown ==
    [][\A e \in Engines : collector[e] \in {"ok", "failed"} =>
            (at'[e] = "running" => at[e] = "running")]_orchestrationVars

(* The state of the turn as the contract of turns sees it. *)
Phase ==
    IF pc = "new" THEN "new"
    ELSE IF pc = "ended"
    THEN IF stopping THEN "stopped" ELSE IF terminal = "error" THEN "failed" ELSE "completed"
    ELSE IF \E r \in Runs : at[r] = "running" THEN "executing" ELSE "accepted"

Turn == {"turn"}
Any(m, n) == TRUE

FanOutContract ==
    INSTANCE TurnContract WITH
        Turns <- Turn, Conversations <- {"conversation"}, NoTurn <- "none", NoConv <- "none",
        Needs <- {{}}, Compatible <- Any,
        phase <- [t \in Turn |-> Phase],
        conv <- [t \in Turn |-> IF pc = "new" THEN "none" ELSE "conversation"],
        needs <- [t \in Turn |-> {}],
        asked <- [t \in Turn |-> stopping]

(* However many engines it asks, to everybody else the turn is one turn: its end
   is reported once, after the last of its processes, those of sub-turns that
   were given up included; once stopped it starts nothing and ends as stopped. *)
FanOutKeepsContract == FanOutContract!ContractSpec
==============================================================================
