------------------------------ MODULE TaskWatch ------------------------------
(***************************************************************************)
(* Reporting watched tasks (src/App.tsx, sendTaskWatchTurn, the heartbeat, *)
(* and the terminal events of its turns).  A tick scans the markers and    *)
(* starts one turn after the other; events of turns, the user and restarts *)
(* come between any two awaits.  A turn is <<watch, number of its claim>>. *)
(* The watches of this model report into one conversation each.            *)
(***************************************************************************)
EXTENDS WatchMarker, FiniteSets

CONSTANTS Watches, Conversations,
          ConvOf(_),       \* the conversation of a watch
          Slots,           \* turns of watches at a time (3)
          NoOne, Composer, \* owners of a conversation that are no turn of a watch
          Trials           \* bound: [fresh, budget]: markers to report, and how often
                           \* the environment may interfere

Interferences == {"faults", "restarts", "stops", "sends", "deaths"}
ASSUME TrialsAssumption ==
    Trials \subseteq [fresh : SUBSET Watches, budget : [Interferences -> Nat]]
ASSUME ConvOfAssumption == \A w \in Watches : ConvOf(w) \in Conversations
ASSUME OwnersAssumption ==
    NoOne # Composer /\ {NoOne, Composer} \cap (Watches \X (1..MaxAttempts)) = {}

VARIABLES marker,    \* marker[w]: the file
          evidence,  \* watches whose task can be seen to be complete
          owner,     \* owner[c]: the owner of the conversation
          stopping,  \* conversations whose run is being stopped
          paused,    \* conversations that do not run automatically
          tick,      \* the heartbeat: its state, its turn, what it has scanned
          tw,        \* taskWatchTurnsRef: turns the app follows
          engine,    \* engine[t]: what became of the turn in the sidecar
          chain,     \* chain[t]: where the handler of the end of a turn is
          pending,   \* turns that a recovery is about to finish
          saved,     \* turns whose response is in the database
          budget     \* faults, restarts, stops, sends and deaths left

watchVars == <<marker, evidence, owner, stopping, paused, tick, tw, engine, chain, pending, saved,
               budget>>

Turns == Watches \X (1..MaxAttempts)
Conv(t) == ConvOf(t[1])
EngineStates == {"idle", "running", "done", "transient", "refused", "stopped",
                 "lost", "killed", "recalled"}
ChainStates == {"none", "record", "save", "ack", "give_up", "settle", "retry", "hold"}
TickStates == {"idle", "next", "preparing", "claiming", "noting", "sending", "failing",
               "settling", "saving", "acking"}
NoTick == [st |-> "idle", turn |-> NoOne, ready |-> {}, results |-> {}]

TaskWatchInit ==
    /\ \E trial \in Trials :
           /\ marker = [w \in Watches |-> IF w \in trial.fresh THEN Fresh ELSE Shown]
           /\ budget = trial.budget
    /\ evidence = {}
    /\ owner = [c \in Conversations |-> NoOne]
    /\ stopping = {} /\ paused = {}
    /\ tick = NoTick
    /\ tw = {}
    /\ engine = [t \in Turns |-> "idle"]
    /\ chain = [t \in Turns |-> "none"]
    /\ pending = {} /\ saved = {}

Spend(what) == budget[what] > 0 /\ budget' = [budget EXCEPT ![what] = @ - 1]
Fault == Spend("faults")
Fine == UNCHANGED budget

Owns(t) == owner[Conv(t)] = t
(* Deliberately wrong: anyone frees the conversation. *)
FreesOfAnyone(t) ==
    /\ owner' = [owner EXCEPT ![Conv(t)] = NoOne]
    /\ stopping' = stopping \ {Conv(t)}

(* finish: the owner, and only the owner, frees its conversation. *)
Frees(t) ==
    /\ owner' = IF Owns(t) THEN [owner EXCEPT ![Conv(t)] = NoOne] ELSE owner
    /\ stopping' = IF Owns(t) THEN stopping \ {Conv(t)} ELSE stopping
FailsAndPauses(t) == Frees(t) /\ paused' = IF Owns(t) THEN paused \cup {Conv(t)} ELSE paused

Releases(t, kind) == marker' = [marker EXCEPT ![t[1]] = Released(@, t[2], kind)]
Advances(st) == tick' = [tick EXCEPT !.st = st]
control == <<owner, stopping, paused>>
-----------------------------------------------------------------------------
(* The heartbeat scans. A claimed marker is left alone, one that was tried is
   held without fresh evidence, and what is blocked or exhausted is shown only. *)
Observed(w) == w \in evidence \/ marker[w].attempts = 0
Scan ==
    /\ tick.st = "idle"
    /\ tick' = [NoTick EXCEPT
                   !.st = "next",
                   !.ready = {w \in Watches :
                                View(marker[w]) \in {"ready", "retry_wait"} /\ Observed(w)},
                   !.results = {w \in Watches : marker[w].state = "result_ready"}]
    /\ tick'.ready \cup tick'.results # {}
    /\ UNCHANGED <<marker, evidence, control, tw, engine, chain, pending, saved, budget>>

EndOfScan ==
    /\ tick.st = "next" /\ tick.ready = {} /\ tick.results = {}
    /\ tick' = NoTick
    /\ UNCHANGED <<marker, evidence, control, tw, engine, chain, pending, saved, budget>>

(* A recorded result is only saved, unless its turn is still followed. *)
PickResult(w) ==
    /\ tick.st = "next" /\ w \in tick.results
    /\ tick' = [tick EXCEPT
                   !.results = @ \ {w},
                   !.st = IF Cardinality(tw) >= Slots \/ \E t \in tw : t[1] = w
                          THEN "next" ELSE "saving",
                   !.turn = <<w, marker[w].attempts>>]
    /\ UNCHANGED <<marker, evidence, control, tw, engine, chain, pending, saved, budget>>

(* Messages, settings and history of the conversation are read. *)
PickReady(w) ==
    /\ tick.st = "next" /\ w \in tick.ready
    /\ tick' = [tick EXCEPT
                   !.ready = @ \ {w},
                   !.st = IF Cardinality(tw) >= Slots THEN "next" ELSE "preparing",
                   !.turn = <<w, marker[w].attempts + 1>>]
    /\ UNCHANGED <<marker, evidence, control, tw, engine, chain, pending, saved, budget>>

(* The conversation is claimed when it is free and not paused. *)
Gate ==
    LET t == tick.turn IN
    /\ tick.st = "preparing"
    /\ IF Conv(t) \in paused \/ owner[Conv(t)] # NoOne
       THEN Advances("next") /\ UNCHANGED owner
       ELSE Advances("claiming") /\ owner' = [owner EXCEPT ![Conv(t)] = t]
    /\ UNCHANGED <<marker, evidence, stopping, paused, tw, engine, chain, pending, saved, budget>>

(* The claim of the marker looks at it and at the evidence again. A refused or
   failed claim frees the conversation, and its turn is no more. *)
ClaimMarker ==
    LET t == tick.turn
        w == t[1]
    IN
    /\ tick.st = "claiming"
    /\ \/ /\ MayClaim(marker[w]) /\ Observed(w)
          /\ marker' = [marker EXCEPT ![w] = ClaimedMarker(@)]
          /\ tw' = tw \cup {t}
          /\ Advances("noting")
          /\ UNCHANGED <<owner, stopping, pending, budget>>
       \/ /\ IF MayClaim(marker[w]) /\ Observed(w) THEN Fault ELSE Fine
          /\ Advances("next") /\ Frees(t) /\ pending' = pending \ {t}
          /\ UNCHANGED <<marker, tw>>
    /\ UNCHANGED <<evidence, paused, engine, chain, saved>>

(* The message of the turn is saved in the conversation. *)
SaveRequest ==
    /\ tick.st = "noting"
    /\ \/ Advances("sending") /\ Fine
       \/ Advances("failing") /\ Fault
    /\ UNCHANGED <<marker, evidence, control, tw, engine, chain, pending, saved>>

(* The user stopped the turn, or a recovery did: release as stopped, then free.
   A release that fails keeps the conversation and forgets the watch. *)
FinishesStopped(t) ==
    /\ tw' = tw \ {t}
    /\ \/ /\ IF t \in tw THEN Releases(t, "stopped") ELSE UNCHANGED marker
          /\ Frees(t) /\ Fine
       \/ t \in tw /\ Fault /\ UNCHANGED <<marker, owner, stopping>>

(* sendOwnedMessage: a turn that lost its conversation is not sent, one that is
   being stopped is finished, and the call into Rust may fail. *)
Send ==
    LET t == tick.turn IN
    /\ tick.st = "sending"
    /\ \/ /\ ~Owns(t) /\ Advances("failing")
          /\ UNCHANGED <<marker, owner, stopping, tw, engine, budget>>
       \/ /\ Owns(t) /\ Conv(t) \in stopping
          /\ FinishesStopped(t)
          /\ tick' = [tick EXCEPT !.st = IF Owns(t) /\ owner' = owner THEN "failing" ELSE "next"]
          /\ UNCHANGED engine
       \/ /\ Owns(t) /\ Conv(t) \notin stopping
          /\ \/ engine' = [engine EXCEPT ![t] = "running"] /\ Advances("next") /\ Fine
             \/ Fault /\ Advances("failing") /\ UNCHANGED engine
          /\ UNCHANGED <<marker, owner, stopping, tw>>
    /\ UNCHANGED <<evidence, paused, chain, pending, saved>>

(* The catch: the failure of a turn that is followed is decided first. *)
Catch ==
    LET t == tick.turn IN
    /\ tick.st = "failing"
    /\ IF t \in tw
       THEN /\ Advances("settling") /\ chain' = [chain EXCEPT ![t] = "settle"]
            /\ UNCHANGED <<owner, stopping>>
       ELSE Advances("next") /\ Frees(t) /\ UNCHANGED chain
    /\ UNCHANGED <<marker, evidence, paused, tw, engine, pending, saved, budget>>

Caught ==
    /\ tick.st = "settling" /\ chain[tick.turn] = "none"
    /\ Advances("next")
    /\ UNCHANGED <<marker, evidence, control, tw, engine, chain, pending, saved, budget>>

(* persistWatchResult: the response, under the id of its turn, then the ACK. *)
SaveResult ==
    /\ tick.st = "saving"
    /\ \/ saved' = saved \cup {tick.turn} /\ Advances("acking") /\ Fine
       \/ Advances("next") /\ Fault /\ UNCHANGED saved
    /\ UNCHANGED <<marker, evidence, control, tw, engine, chain, pending>>

AckResult ==
    LET t == tick.turn IN
    /\ tick.st = "acking" /\ Advances("next")
    /\ \/ MayAck(marker[t[1]], t[2]) /\ marker' = [marker EXCEPT ![t[1]] = Acked(@)] /\ Fine
       \/ ~MayAck(marker[t[1]], t[2]) /\ UNCHANGED <<marker, budget>>
       \/ Fault /\ UNCHANGED marker
    /\ UNCHANGED <<evidence, control, tw, engine, chain, pending, saved>>

(* A turn that does not own its conversation and was silent for long. *)
Reclaim(t) ==
    /\ tick.st = "idle" /\ t \in tw /\ ~Owns(t)
    /\ tw' = tw \ {t}
    /\ \/ Releases(t, "silent") /\ Fine
       \/ Fault /\ UNCHANGED marker
    /\ UNCHANGED <<evidence, control, tick, engine, chain, pending, saved>>
-----------------------------------------------------------------------------
(* Deliberately wrong: the conversation stays locked while the response is
   recorded, and nothing frees it afterwards. *)
HearDoneLocked(t) ==
    /\ engine[t] = "done" /\ Owns(t) /\ chain[t] = "none" /\ Conv(t) \notin stopping /\ t \in tw
    /\ \E first \in {"record", "give_up"} : chain' = [chain EXCEPT ![t] = first]
    /\ UNCHANGED <<marker, evidence, control, tick, tw, engine, pending, saved, budget>>

(* The done event: the conversation is free at once; the response is recorded
   in the marker, saved and acknowledged. *)
HearDone(t) ==
    /\ engine[t] = "done" /\ Owns(t) /\ chain[t] = "none" /\ Conv(t) \notin stopping
    /\ Frees(t)
    /\ IF t \in tw THEN \E first \in {"record", "give_up"} : chain' = [chain EXCEPT ![t] = first]
                   ELSE UNCHANGED chain
    /\ UNCHANGED <<marker, evidence, paused, tick, tw, engine, pending, saved, budget>>

Follows(t, from, to) == chain[t] = from /\ chain' = [chain EXCEPT ![t] = to]

RecordResult(t) ==
    LET may == MayRecord(marker[t[1]], t[2]) IN
    /\ \/ /\ may /\ Follows(t, "record", "save") /\ Fine
          /\ marker' = [marker EXCEPT ![t[1]] = WithResult(@)]
       \/ /\ Follows(t, "record", "give_up") /\ UNCHANGED marker
          /\ IF may THEN Fault ELSE Fine
    /\ UNCHANGED <<evidence, control, tick, tw, engine, pending, saved>>

(* Deliberately wrong: acknowledged before it is saved. *)
SaveResponseLater(t) ==
    /\ Follows(t, "save", "ack")
    /\ UNCHANGED <<marker, evidence, control, tick, tw, engine, pending, saved, budget>>

SaveResponse(t) ==
    /\ \/ Follows(t, "save", "ack") /\ saved' = saved \cup {t} /\ Fine
       \/ Follows(t, "save", "give_up") /\ Fault /\ UNCHANGED saved
    /\ UNCHANGED <<marker, evidence, control, tick, tw, engine, pending>>

AckResponse(t) ==
    LET may == MayAck(marker[t[1]], t[2]) IN
    /\ \/ /\ may /\ Follows(t, "ack", "none") /\ Fine
          /\ marker' = [marker EXCEPT ![t[1]] = Acked(@)]
          /\ tw' = tw \ {t}
       \/ /\ Follows(t, "ack", "give_up") /\ UNCHANGED <<marker, tw>>
          /\ IF may THEN Fault ELSE Fine
    /\ UNCHANGED <<evidence, control, tick, engine, pending, saved>>

GiveUp(t) ==
    /\ Follows(t, "give_up", "none")
    /\ tw' = tw \ {t}
    /\ \/ Releases(t, "unsaved") /\ Fine
       \/ Fault /\ UNCHANGED marker
    /\ UNCHANGED <<evidence, control, tick, engine, pending, saved>>

(* The error event of a turn that is followed keeps the conversation until the
   marker says what comes next. *)
HearError(t) ==
    /\ engine[t] \in {"transient", "refused"}
    /\ Owns(t) /\ chain[t] = "none" /\ Conv(t) \notin stopping
    /\ IF t \in tw THEN Follows(t, "none", "settle") /\ UNCHANGED control
                   ELSE FailsAndPauses(t) /\ UNCHANGED chain
    /\ UNCHANGED <<marker, evidence, tick, tw, engine, pending, saved, budget>>

(* settleWatchFailure: release, then finish. *)
FailureKinds(t) ==
    IF engine[t] \notin {"idle", "recalled"} THEN {engine[t]}
    ELSE {"refused"} \cup (IF Owns(t) THEN {"transient"} ELSE {})

SettleRelease(t) ==
    /\ \E kind \in FailureKinds(t) :
         LET m == Released(marker[t[1]], t[2], kind)
             next == IF m.state \in {"retry_wait", "result_ready"} THEN "retry" ELSE "hold"
         IN  \/ Follows(t, "settle", next) /\ marker' = [marker EXCEPT ![t[1]] = m] /\ Fine
             \/ Follows(t, "settle", "hold") /\ Fault /\ UNCHANGED marker
    /\ UNCHANGED <<evidence, control, tick, tw, engine, pending, saved>>

(* Deliberately wrong: a held turn frees its conversation for the next one. *)
SettleFinishOpen(t) ==
    /\ Follows(t, "retry", "none") \/ Follows(t, "hold", "none")
    /\ Frees(t) /\ tw' = tw \ {t}
    /\ UNCHANGED <<marker, evidence, paused, tick, engine, pending, saved, budget>>

SettleFinish(t) ==
    /\ \/ Follows(t, "retry", "none") /\ Frees(t) /\ UNCHANGED paused
       \/ Follows(t, "hold", "none") /\ FailsAndPauses(t)
    /\ tw' = tw \ {t}
    /\ UNCHANGED <<marker, evidence, tick, engine, pending, saved, budget>>

(* The end of a turn that is being stopped, however it ended. When its release
   fails, only a recovery will end it. *)
HearStopped(t) ==
    /\ engine[t] \in {"done", "transient", "refused", "stopped"}
    /\ Owns(t) /\ Conv(t) \in stopping /\ chain[t] = "none"
    /\ FinishesStopped(t)
    /\ engine' = IF owner' = owner THEN [engine EXCEPT ![t] = "lost"] ELSE engine
    /\ UNCHANGED <<evidence, paused, tick, chain, pending, saved>>

(* A recovery ends what it found running, perhaps while an error is settled. *)
FinishRecovered(t) ==
    /\ t \in pending /\ pending' = pending \ {t}
    /\ FinishesStopped(t)
    /\ UNCHANGED <<evidence, paused, tick, engine, chain, saved>>

-----------------------------------------------------------------------------
(* The sidecar ends a turn. *)
EngineEnds(t) ==
    /\ engine[t] = "running"
    /\ \E end \in {"done", "transient", "refused", "stopped"} :
           /\ end = "stopped" => Conv(t) \in stopping
           /\ engine' = [engine EXCEPT ![t] = end]
    /\ UNCHANGED <<marker, evidence, control, tick, tw, chain, pending, saved, budget>>

Lost == [t \in Turns |-> IF engine[t] = "running" THEN "lost" ELSE engine[t]]

(* The sidecar dies and is started again: nobody reports its turns. *)
SidecarDies ==
    /\ Spend("deaths") /\ engine' = Lost /\ engine # Lost
    /\ UNCHANGED <<marker, evidence, control, tick, tw, chain, pending, saved>>

ComposerSends(c) ==
    /\ owner[c] = NoOne /\ Spend("sends")
    /\ owner' = [owner EXCEPT ![c] = Composer]
    /\ UNCHANGED <<marker, evidence, stopping, paused, tick, tw, engine, chain, pending, saved>>

ComposerEnds(c) ==
    /\ owner[c] = Composer
    /\ owner' = [owner EXCEPT ![c] = NoOne] /\ stopping' = stopping \ {c}
    /\ UNCHANGED <<marker, evidence, paused, tick, tw, engine, chain, pending, saved, budget>>

Stop(c) ==
    /\ Spend("stops")
    /\ paused' = paused \cup {c}
    /\ stopping' = IF owner[c] = NoOne THEN stopping ELSE stopping \cup {c}
    /\ UNCHANGED <<marker, evidence, owner, tick, tw, engine, chain, pending, saved>>

Resume(c) ==
    /\ c \in paused /\ paused' = paused \ {c}
    /\ UNCHANGED <<marker, evidence, owner, stopping, tick, tw, engine, chain, pending, saved, budget>>

(* recoverExecution: every conversation that runs is paused and stopped, the
   sidecar is killed. *)
Recover ==
    LET busy == {c \in Conversations : owner[c] # NoOne} IN
    /\ busy # {} /\ Spend("stops")
    /\ paused' = paused \cup busy /\ stopping' = stopping \cup busy
    /\ pending' = {t \in Turns : Owns(t)}
    /\ engine' = [t \in Turns |->
                     CASE engine[t] = "running" \/ (Owns(t) /\ engine[t] = "lost") -> "killed"
                       [] Owns(t) /\ engine[t] = "idle"                            -> "recalled"
                       [] OTHER                                                    -> engine[t]]
    /\ UNCHANGED <<marker, evidence, owner, tick, tw, chain, saved>>

EvidenceAppears(w) ==
    /\ w \notin evidence /\ evidence' = evidence \cup {w}
    /\ UNCHANGED <<marker, control, tick, tw, engine, chain, pending, saved, budget>>

EvidenceGoes(w) ==
    /\ w \in evidence /\ Fault /\ evidence' = evidence \ {w}
    /\ UNCHANGED <<marker, control, tick, tw, engine, chain, pending, saved>>

(* The app is closed, or crashes, and starts again; pauses may not have been
   written. *)
Restart ==
    /\ Spend("restarts")
    /\ marker' = [w \in Watches |-> [marker[w] EXCEPT !.mine = FALSE]]
    /\ owner' = [c \in Conversations |-> NoOne] /\ stopping' = {}
    /\ \E kept \in SUBSET paused : paused' = kept
    /\ tick' = NoTick /\ tw' = {}
    /\ engine' = Lost
    /\ pending' = {}
    /\ chain' = [t \in Turns |-> "none"]
    /\ UNCHANGED <<evidence, saved>>
-----------------------------------------------------------------------------
TickStep ==
    \/ Scan \/ EndOfScan \/ Gate \/ ClaimMarker \/ SaveRequest \/ Send \/ Catch \/ Caught
    \/ SaveResult \/ AckResult
    \/ \E w \in Watches : PickResult(w) \/ PickReady(w)

TurnStep(t) ==
    \/ HearDone(t) \/ RecordResult(t) \/ SaveResponse(t) \/ AckResponse(t) \/ GiveUp(t)
    \/ HearError(t) \/ SettleRelease(t) \/ SettleFinish(t) \/ HearStopped(t)
    \/ FinishRecovered(t) \/ EngineEnds(t)

Environment ==
    \/ SidecarDies \/ Recover \/ Restart
    \/ \E c \in Conversations : ComposerSends(c) \/ ComposerEnds(c) \/ Stop(c) \/ Resume(c)
    \/ \E w \in Watches : EvidenceAppears(w) \/ EvidenceGoes(w)

TaskWatchNext ==
    \/ TickStep
    \/ \E t \in Turns : TurnStep(t) \/ Reclaim(t)
    \/ Environment

TaskWatchSpec == TaskWatchInit /\ [][TaskWatchNext]_watchVars
-----------------------------------------------------------------------------
(* Every value is one the code can hold; the turn a tick works on is one of at
   most MaxAttempts. *)
TaskWatchTypeOK ==
    /\ marker \in [Watches -> Markers]
    /\ evidence \subseteq Watches
    /\ owner \in [Conversations -> Turns \cup {NoOne, Composer}]
    /\ stopping \subseteq Conversations /\ paused \subseteq Conversations
    /\ tick.st \in TickStates /\ tick.turn \in Turns \cup {NoOne}
    /\ tw \subseteq Turns
    /\ engine \in [Turns -> EngineStates] /\ chain \in [Turns -> ChainStates]
    /\ pending \subseteq Turns /\ saved \subseteq Turns

NotSent == {"idle", "recalled"}

(* The model runs again for a marker only when all its earlier turns failed in
   a way that is known to be passing: not after a response, a refusal, a stop,
   a crash or a lost report. *)
NoBlindReplay ==
    \A w \in Watches : \A n, m \in 1..MaxAttempts :
        n < m /\ engine[<<w, m>>] \notin NotSent =>
            engine[<<w, n>>] \in NotSent \cup {"transient"}

(* A marker goes only when the response of its last turn is in the database. *)
GoneIsSaved ==
    \A w \in Watches : marker[w].state = "gone" =>
        <<w, marker[w].attempts>> \in saved /\ engine[<<w, marker[w].attempts>>] = "done"

(* What the sidecar runs for a marker owns its conversation and is claimed. *)
RunningIsOwned ==
    \A t \in Turns : engine[t] = "running" =>
        Owns(t) /\ marker[t[1]].state = "claimed" /\ marker[t[1]].attempts = t[2]

(* A failed turn that is followed leaves its conversation only when its marker says what comes
   next, or the conversation is paused. *)
FailureIsDecided ==
    [][\A t \in Turns : engine[t] \in {"transient", "refused"} /\ t \in tw /\ Owns(t) /\ ~Owns(t)' =>
           \/ marker'[t[1]].state # "claimed" \/ ~marker'[t[1]].mine
           \/ Conv(t) \in paused']_watchVars

-----------------------------------------------------------------------------
(* The heartbeat goes on; turns and composer turns end; calls return; what is
   to be observed appears again. *)
TaskWatchFairness ==
    /\ WF_watchVars(TickStep)
    /\ \A w \in Watches : WF_watchVars(EvidenceAppears(w))
    /\ \A t \in Turns : WF_watchVars(TurnStep(t))
    /\ \A t \in Turns : WF_watchVars(Reclaim(t))
    /\ \A c \in Conversations : WF_watchVars(ComposerEnds(c))

TaskWatchFairSpec == TaskWatchSpec /\ TaskWatchFairness

Settled(w) ==
    \/ marker[w].state \in {"gone", "blocked", "exhausted"}
    \/ marker[w].state = "claimed" /\ ~marker[w].mine
    \/ ConvOf(w) \in paused

(* Every marker is settled in the end: its response is saved, or it is shown to
   the user, or its conversation is paused. A release that fails and a sidecar
   that dies leave a marker claimed on purpose, so neither may happen. *)
WatchSettles ==
    budget.faults = 0 /\ budget.deaths = 0 => \A w \in Watches : <>Settled(w)

(* What a comment says of the heartbeat: a turn whose sidecar died is released
   after a quarter of an hour of silence and no longer counts as running. *)
ZombieIsReleased == \A t \in Turns : engine[t] = "lost" /\ t \in tw ~> t \notin tw
==============================================================================
