--------------------------- MODULE TaskWatchProofs ---------------------------
(***************************************************************************)
(* Proofs about the reports of watched tasks, for every number of markers, *)
(* conversations, claims and interferences.  A marker is claimed again     *)
(* only when the turns before are known to have failed in passing; that    *)
(* this is still so when the claim is made needs what the heartbeat, the   *)
(* handlers of the ends of turns and the owners of conversations know of   *)
(* one marker between any two awaits.                                      *)
(***************************************************************************)
EXTENDS TaskWatch, TLAPS

Passing == NotSent \cup {"transient"}
Owners == Turns \cup {NoOne, Composer}
Ticks == [st : TickStates, turn : Turns \cup {NoOne}, ready : SUBSET Watches,
          results : SUBSET Watches]
Latest(w) == <<w, marker[w].attempts>>

Typed ==
    /\ marker \in [Watches -> Markers]
    /\ owner \in [Conversations -> Owners]
    /\ tick \in Ticks
    /\ engine \in [Turns -> EngineStates]
    /\ chain \in [Turns -> ChainStates]
    /\ pending \subseteq Turns

(* What the state of a marker says of the turn that claimed it last. *)
Decided(w) ==
    LET m == marker[w] IN
    /\ m.state = "ready" => m.attempts = 0
    /\ m.state \in {"claimed", "retry_wait", "result_ready", "gone"} => m.attempts >= 1
    /\ m.state = "retry_wait" =>
           /\ m.attempts < MaxAttempts /\ engine[Latest(w)] \in Passing
           /\ Owns(Latest(w)) => chain[Latest(w)] = "retry"
    /\ m.state \in {"result_ready", "gone"} => engine[Latest(w)] = "done" /\ ~Owns(Latest(w))
    /\ m.state = "gone" => Latest(w) \in saved

Runs(t) == engine[t] = "running" =>
    Owns(t) /\ marker[t[1]].state = "claimed" /\ marker[t[1]].attempts = t[2]

(* The turns before the last one failed in passing, those after it were not
   sent; only the last one owns its conversation, or the one about to claim. *)
AtClaim(t) == tick.st = "claiming" /\ t = tick.turn
Turned(t) ==
    LET last == marker[t[1]].attempts IN
    /\ t[2] < last => engine[t] \in Passing /\ ~Owns(t)
    /\ t[2] > last => engine[t] \in NotSent /\ chain[t] = "none"
    /\ Owns(t) \/ t \in pending => t[2] <= last \/ AtClaim(t)

(* What the handler of the end of a turn goes by. *)
Answering == {"record", "save", "ack", "give_up"}
Settling == {"settle", "retry", "hold"}
Chained(t) ==
    /\ chain[t] \in Answering => engine[t] = "done" /\ ~Owns(t)
    /\ chain[t] = "ack" => t \in saved
    /\ chain[t] \in Settling => engine[t] \in {"transient", "refused"} \cup NotSent
    /\ chain[t] = "retry" /\ Owns(t) => marker[t[1]].state = "retry_wait"

(* What a recovery is about to finish is not sent any more. *)
Recalled(t) == t \in pending =>
    engine[t] # "running" /\ (Owns(t) => Conv(t) \in stopping)

(* What the heartbeat has read is still so. *)
AtTurn == {"claiming", "noting", "sending", "failing", "settling"}
Ticking ==
    LET t == tick.turn
        m == marker[t[1]]
    IN
    /\ \A w \in tick.ready : marker[w].state \in {"ready", "retry_wait"}
    /\ \A w \in tick.results : marker[w].state \in {"result_ready", "gone"}
    /\ tick.st \notin {"idle", "next"} => t \in Turns
    /\ tick.st \in {"preparing", "claiming"} =>
           m.state \in {"ready", "retry_wait"} /\ t[2] = m.attempts + 1 /\ t[1] \notin tick.ready
    /\ tick.st \in {"noting", "sending", "failing", "settling", "saving", "acking"} =>
           t[2] = m.attempts
    /\ tick.st \in {"noting", "sending", "failing"} => engine[t] \in NotSent /\ chain[t] = "none"
    /\ tick.st \in {"noting", "sending"} /\ Owns(t) => m.state = "claimed"
    /\ tick.st \in AtTurn => owner[Conv(t)] \in {t, NoOne, Composer}
    /\ tick.st \in {"saving", "acking"} => m.state \in {"result_ready", "gone"}
    /\ tick.st = "acking" => t \in saved

WatchInv ==
    /\ Typed
    /\ \A w \in Watches : Decided(w)
    /\ \A t \in Turns : Runs(t) /\ Turned(t) /\ Chained(t) /\ Recalled(t)
    /\ Ticking
-----------------------------------------------------------------------------
LEMMA TurnParts ==
    /\ \A t \in Turns : t[1] \in Watches /\ t[2] \in 1..MaxAttempts /\ t = <<t[1], t[2]>>
                        /\ Conv(t) \in Conversations
    /\ \A w \in Watches, n \in 1..MaxAttempts :
           <<w, n>> \in Turns /\ <<w, n>>[1] = w /\ <<w, n>>[2] = n
    /\ MaxAttempts \in Nat \ {0}
    /\ NoOne \notin Turns /\ Composer \notin Turns /\ NoOne # Composer
BY ConvOfAssumption, OwnersAssumption, MaxAttemptsAssumption DEF Turns, Conv

LEMMA MarkerParts ==
    ASSUME Typed, NEW w \in Watches
    PROVE  /\ marker[w].attempts \in 0..MaxAttempts /\ marker[w].state \in MarkerStates
           /\ marker[w].mine \in BOOLEAN
           /\ marker[w].attempts >= 1 => Latest(w) \in Turns /\ Latest(w)[1] = w
                                         /\ Latest(w)[2] = marker[w].attempts
BY TurnParts DEF Typed, Markers, Latest

LEMMA InitInv == TaskWatchInit => WatchInv
<1> SUFFICES ASSUME TaskWatchInit PROVE WatchInv
    OBVIOUS
<1>1. PICK trial \in Trials :
          marker = [w \in Watches |-> IF w \in trial.fresh THEN Fresh ELSE Shown]
    BY DEF TaskWatchInit
<1>2. Fresh \in Markers /\ Shown \in Markers /\ Fresh.state = "ready" /\ Fresh.attempts = 0
      /\ Shown.state = "blocked" /\ Shown.attempts = 0
  <2>1. Fresh \in Markers /\ Fresh.state = "ready" /\ Fresh.attempts = 0
      BY TurnParts DEF Fresh, Markers, MarkerStates
  <2>2. Shown = [Fresh EXCEPT !.state = "blocked"]
      BY DEF Shown
  <2>3. Shown \in Markers /\ Shown.state = "blocked" /\ Shown.attempts = 0
      BY <2>1, <2>2 DEF Markers, MarkerStates
  <2>4. QED
      BY <2>1, <2>3
<1>3. marker \in [Watches -> Markers]
      /\ \A w \in Watches : marker[w].state \in {"ready", "blocked"} /\ marker[w].attempts = 0
    BY <1>1, <1>2
<1>4. tick \in Ticks /\ tick.st = "idle" /\ tick.ready = {} /\ tick.results = {}
    BY DEF TaskWatchInit, NoTick, Ticks, TickStates
<1>5. Typed
    BY <1>3, <1>4 DEF TaskWatchInit, Typed, Owners, EngineStates, ChainStates
<1>6. ASSUME NEW t \in Turns PROVE Runs(t) /\ Turned(t) /\ Chained(t) /\ Recalled(t)
    BY <1>3, TurnParts DEF TaskWatchInit, Runs, Turned, Chained, Recalled, NotSent, Owns, Answering, Settling
<1>7. (\A w \in Watches : Decided(w)) /\ Ticking
    BY <1>3, <1>4 DEF Decided, Ticking, AtTurn
<1>8. QED
    BY <1>5, <1>6, <1>7 DEF WatchInv
-----------------------------------------------------------------------------
(* What the operators of the model do to the types and to one another. *)
LEMMA TickMoves ==
    ASSUME Typed, NEW st \in TickStates, Advances(st)
    PROVE  /\ tick' \in Ticks /\ tick'.st = st
           /\ tick'.turn = tick.turn /\ tick'.ready = tick.ready /\ tick'.results = tick.results
BY DEF Typed, Ticks, Advances

LEMMA ChainMoves ==
    ASSUME Typed, NEW t \in Turns, NEW from, NEW to \in ChainStates, Follows(t, from, to)
    PROVE  /\ chain' \in [Turns -> ChainStates] /\ chain[t] = from /\ chain'[t] = to
           /\ \A u \in Turns : u # t => chain'[u] = chain[u]
BY DEF Typed, Follows

LEMMA FreesOne ==
    ASSUME Typed, NEW t \in Turns, Frees(t)
    PROVE  /\ owner' \in [Conversations -> Owners]
           /\ \A c \in Conversations : owner'[c] \in {owner[c], NoOne}
           /\ ~Owns(t)'
           /\ \A u \in Turns : u # t => (Owns(u)' <=> Owns(u))
           /\ \A u \in Turns : Owns(u)' /\ Conv(u) \in stopping => Conv(u) \in stopping'
<1>1. owner' \in [Conversations -> Owners]
      /\ \A c \in Conversations : owner'[c] = IF c = Conv(t) /\ Owns(t) THEN NoOne ELSE owner[c]
    BY TurnParts DEF Frees, Typed, Owners, Owns
<1>2. \A u \in Turns : Conv(u) \in Conversations
    BY TurnParts
<1>3. NoOne \notin Turns
    BY TurnParts
<1>4. QED
    BY <1>1, <1>2, <1>3 DEF Owns, Frees

LEMMA ReleaseOutcome ==
    ASSUME Typed, NEW t \in Turns, NEW kind, Releases(t, kind)
    PROVE  /\ marker' \in [Watches -> Markers]
           /\ \A w \in Watches : marker'[w].attempts = marker[w].attempts
           /\ \A w \in Watches : w # t[1] => marker'[w] = marker[w]
           /\ IF marker[t[1]].attempts = t[2] /\ marker[t[1]].state = "claimed"
              THEN marker'[t[1]].state = AfterFailure(marker[t[1]], kind)
              ELSE marker' = marker
<1>1. t[1] \in Watches /\ marker[t[1]] \in Markers
    BY TurnParts DEF Typed
<1>2. AfterFailure(marker[t[1]], kind) \in MarkerStates
    BY DEF AfterFailure, MarkerStates
<1>3. CASE marker[t[1]].attempts = t[2] /\ marker[t[1]].state = "claimed"
  <2>1. Released(marker[t[1]], t[2], kind)
            = [marker[t[1]] EXCEPT !.state = AfterFailure(marker[t[1]], kind)]
      BY <1>3 DEF Released
  <2>2. Released(marker[t[1]], t[2], kind) \in Markers
        /\ Released(marker[t[1]], t[2], kind).attempts = marker[t[1]].attempts
        /\ Released(marker[t[1]], t[2], kind).state = AfterFailure(marker[t[1]], kind)
      BY <1>1, <1>2, <2>1 DEF Markers
  <2>3. QED
      BY <1>1, <1>3, <2>2 DEF Releases, Typed
<1>4. CASE ~(marker[t[1]].attempts = t[2] /\ marker[t[1]].state = "claimed")
    BY <1>1, <1>4 DEF Releases, Released, Typed
<1>5. QED
    BY <1>3, <1>4

(* Conversations are freed, claims blocked, and the heartbeat goes on at most
   to its next marker. *)
LEMMA LoosensInv ==
    ASSUME WatchInv, Typed', UNCHANGED <<engine, chain>>, saved \subseteq saved',
           pending' \subseteq pending,
           \A c \in Conversations : owner'[c] \in {owner[c], NoOne, Composer},
           \A w \in Watches : /\ marker'[w].attempts = marker[w].attempts
                              /\ \/ marker'[w].state = marker[w].state
                                 \/ marker[w].state = "claimed" /\ marker'[w].state = "blocked",
           \A t \in Turns : engine[t] = "running" =>
               Owns(t)' /\ marker'[t[1]].state = marker[t[1]].state,
           \A t \in pending' : Owns(t)' => Conv(t) \in stopping',
           \/ tick' = tick
           \/ tick'.st = "next" /\ tick'.ready = tick.ready /\ tick'.results = tick.results,
           \A t \in Turns : tick'.st \in {"noting", "sending"} /\ t = tick'.turn /\ Owns(t)' =>
               marker'[t[1]].state = marker[t[1]].state,
           \A t \in Turns : AtClaim(t) /\ tick'.st = "next" => ~Owns(t)' /\ t \notin pending'
    PROVE  WatchInv'
<1>1. \A t \in Turns : Owns(t)' => Owns(t)
    BY TurnParts DEF Owns
<1>2. ASSUME NEW w \in Watches PROVE Decided(w)'
  <2>1. Latest(w)' = Latest(w) /\ Decided(w)
      BY DEF Latest, WatchInv
  <2>2. marker[w].attempts >= 1 => Latest(w) \in Turns
      BY MarkerParts DEF WatchInv
  <2>3. marker'[w].state # "blocked" => marker'[w].state = marker[w].state
      OBVIOUS
  <2>4. QED
      BY <1>1, <2>1, <2>2, <2>3 DEF Decided
<1>3. ASSUME NEW t \in Turns PROVE (Runs(t) /\ Turned(t) /\ Chained(t) /\ Recalled(t))'
  <2>1. t[1] \in Watches
      BY TurnParts
  <2>2. Runs(t) /\ Turned(t) /\ Chained(t) /\ Recalled(t)
      BY DEF WatchInv
  <2>3. Runs(t)' /\ Recalled(t)'
      BY <1>1, <2>1, <2>2 DEF Runs, Recalled
  <2>4. Chained(t)'
      BY <1>1, <2>1, <2>2 DEF Chained
  <2>5. Turned(t)'
    <3>1. marker'[t[1]].attempts = marker[t[1]].attempts
        BY <2>1
    <3>2. AtClaim(t) => AtClaim(t)' \/ (~Owns(t)' /\ t \notin pending')
        BY DEF AtClaim
    <3>3. t \in pending' => t \in pending
        OBVIOUS
    <3>4. QED
        BY <1>1, <2>2, <3>1, <3>2, <3>3 DEF Turned
  <2>6. QED
      BY <2>3, <2>4, <2>5
<1>4. Ticking'
  <2>1. CASE tick' = tick
    <3>1. tick.st \notin {"idle", "next"} =>
              tick.turn \in Turns /\ tick.turn[1] \in Watches /\ Conv(tick.turn) \in Conversations
        BY TurnParts DEF WatchInv, Ticking
    <3>2. tick.ready \subseteq Watches /\ tick.results \subseteq Watches
        BY DEF WatchInv, Typed, Ticks
    <3>3. QED
        BY <1>1, <2>1, <3>1, <3>2 DEF WatchInv, Ticking, AtTurn
  <2>2. CASE tick'.st = "next" /\ tick'.ready = tick.ready /\ tick'.results = tick.results
    <3>1. tick.ready \subseteq Watches /\ tick.results \subseteq Watches
        BY DEF WatchInv, Typed, Ticks
    <3>2. QED
        BY <2>2, <3>1 DEF WatchInv, Ticking, AtTurn
  <2>3. QED
      BY <2>1, <2>2
<1>5. QED
    BY <1>2, <1>3, <1>4 DEF WatchInv
-----------------------------------------------------------------------------
(* The heartbeat. *)
LEMMA TickOnlyInv ==
    ASSUME WatchInv, UNCHANGED <<marker, owner, stopping, engine, chain, pending>>,
           saved \subseteq saved', tick.st # "claiming", tick' \in Ticks, Ticking'
    PROVE  WatchInv'
<1>1. Typed'
    BY DEF WatchInv, Typed
<1>2. ASSUME NEW w \in Watches PROVE Decided(w)'
    BY DEF WatchInv, Decided, Latest, Owns
<1>3. ASSUME NEW t \in Turns PROVE (Runs(t) /\ Turned(t) /\ Chained(t) /\ Recalled(t))'
    BY DEF WatchInv, Runs, Turned, AtClaim, Chained, Recalled, Owns
<1>4. QED
    BY <1>1, <1>2, <1>3 DEF WatchInv

LEMMA ScanInv == ASSUME WatchInv, Scan PROVE WatchInv'
<1>1. /\ tick.st = "idle" /\ UNCHANGED <<marker, owner, stopping, engine, chain, pending, saved>>
      /\ tick' = [NoTick EXCEPT
                     !.st = "next",
                     !.ready = {w \in Watches :
                                  View(marker[w]) \in {"ready", "retry_wait"} /\ Observed(w)},
                     !.results = {w \in Watches : marker[w].state = "result_ready"}]
    BY DEF Scan, control
<1>2. /\ tick' \in Ticks /\ tick'.st = "next"
      /\ tick'.ready = {w \in Watches : View(marker[w]) \in {"ready", "retry_wait"} /\ Observed(w)}
      /\ tick'.results = {w \in Watches : marker[w].state = "result_ready"}
    BY <1>1 DEF NoTick, Ticks, TickStates
<1>3. Ticking'
    BY <1>1, <1>2 DEF Ticking, AtTurn, View
<1>4. QED
    BY <1>1, <1>2, <1>3, TickOnlyInv

LEMMA EndOfScanInv == ASSUME WatchInv, EndOfScan PROVE WatchInv'
<1>1. /\ tick.st = "next" /\ tick' = NoTick
      /\ UNCHANGED <<marker, owner, stopping, engine, chain, pending, saved>>
    BY DEF EndOfScan, control
<1>2. tick' \in Ticks /\ tick'.st = "idle" /\ tick'.ready = {} /\ tick'.results = {}
    BY <1>1 DEF NoTick, Ticks, TickStates
<1>3. Ticking'
    BY <1>2 DEF Ticking, AtTurn
<1>4. QED
    BY <1>1, <1>2, <1>3, TickOnlyInv

LEMMA PickResultInv == ASSUME WatchInv, NEW w \in Watches, PickResult(w) PROVE WatchInv'
<1> DEFINE t == <<w, marker[w].attempts>>
<1>1. /\ tick.st = "next" /\ w \in tick.results
      /\ UNCHANGED <<marker, owner, stopping, engine, chain, pending, saved>>
    BY DEF PickResult, control
<1>2. marker[w].state \in {"result_ready", "gone"}
    BY <1>1 DEF WatchInv, Ticking
<1>3. t \in Turns /\ t[1] = w /\ t[2] = marker[w].attempts
    BY <1>2, MarkerParts DEF WatchInv, Decided, Latest
<1>4. PICK st \in {"next", "saving"} :
          tick' = [tick EXCEPT !.results = @ \ {w}, !.st = st, !.turn = t]
    BY DEF PickResult
<1>5. /\ tick' \in Ticks /\ tick'.st = st /\ tick'.turn = t
      /\ tick'.ready = tick.ready /\ tick'.results = tick.results \ {w}
    BY <1>3, <1>4 DEF WatchInv, Typed, Ticks, TickStates
<1> HIDE DEF t
<1>6. Ticking'
    BY <1>1, <1>2, <1>3, <1>5 DEF WatchInv, Ticking, AtTurn
<1>7. QED
    BY <1>1, <1>5, <1>6, TickOnlyInv

LEMMA PickReadyInv == ASSUME WatchInv, NEW w \in Watches, PickReady(w) PROVE WatchInv'
<1> DEFINE t == <<w, marker[w].attempts + 1>>
<1>1. /\ tick.st = "next" /\ w \in tick.ready
      /\ UNCHANGED <<marker, owner, stopping, engine, chain, pending, saved>>
    BY DEF PickReady, control
<1>2. marker[w].state \in {"ready", "retry_wait"}
    BY <1>1 DEF WatchInv, Ticking
<1>3. t \in Turns /\ t[1] = w /\ t[2] = marker[w].attempts + 1
  <2>1. marker[w].attempts + 1 \in 1..MaxAttempts
      BY <1>2, MarkerParts, TurnParts DEF WatchInv, Decided
  <2>2. QED
      BY <2>1, TurnParts
<1>4. PICK st \in {"next", "preparing"} :
          tick' = [tick EXCEPT !.ready = @ \ {w}, !.st = st, !.turn = t]
    BY DEF PickReady
<1>5. /\ tick' \in Ticks /\ tick'.st = st /\ tick'.turn = t
      /\ tick'.ready = tick.ready \ {w} /\ tick'.results = tick.results
    BY <1>3, <1>4 DEF WatchInv, Typed, Ticks, TickStates
<1> HIDE DEF t
<1>6. Ticking'
    BY <1>1, <1>2, <1>3, <1>5 DEF WatchInv, Ticking, AtTurn
<1>7. QED
    BY <1>1, <1>5, <1>6, TickOnlyInv

LEMMA SaveRequestInv == ASSUME WatchInv, SaveRequest PROVE WatchInv'
<1>1. /\ tick.st = "noting" /\ UNCHANGED <<marker, owner, stopping, engine, chain, pending, saved>>
    BY DEF SaveRequest, control
<1>2. PICK st \in {"sending", "failing"} : Advances(st)
    BY DEF SaveRequest
<1>3. /\ tick' \in Ticks /\ tick'.st = st
      /\ tick'.turn = tick.turn /\ tick'.ready = tick.ready /\ tick'.results = tick.results
    BY <1>2, TickMoves DEF WatchInv, TickStates
<1>4. Ticking'
    BY <1>1, <1>3 DEF WatchInv, Ticking, AtTurn, Owns
<1>5. QED
    BY <1>1, <1>3, <1>4, TickOnlyInv

LEMMA CaughtInv == ASSUME WatchInv, Caught PROVE WatchInv'
<1>1. /\ tick.st = "settling" /\ UNCHANGED <<marker, owner, stopping, engine, chain, pending, saved>>
      /\ Advances("next")
    BY DEF Caught, control
<1>2. /\ tick' \in Ticks /\ tick'.st = "next"
      /\ tick'.ready = tick.ready /\ tick'.results = tick.results
    BY <1>1, TickMoves DEF WatchInv, TickStates
<1>3. Ticking'
    BY <1>1, <1>2 DEF WatchInv, Ticking, AtTurn
<1>4. QED
    BY <1>1, <1>2, <1>3, TickOnlyInv

(* The gate gives a free conversation to the turn that is about to claim. *)
LEMMA GateInv == ASSUME WatchInv, Gate PROVE WatchInv'
<1> DEFINE t == tick.turn
<1>1. /\ tick.st = "preparing" /\ UNCHANGED <<marker, stopping, engine, chain, pending, saved>>
      /\ \/ Advances("next") /\ UNCHANGED owner
         \/ /\ Advances("claiming") /\ owner[Conv(t)] = NoOne
            /\ owner' = [owner EXCEPT ![Conv(t)] = t]
    BY DEF Gate
<1>2. /\ t \in Turns /\ marker[t[1]].state \in {"ready", "retry_wait"}
      /\ t[2] = marker[t[1]].attempts + 1 /\ t[1] \notin tick.ready
      /\ t[1] \in Watches /\ Conv(t) \in Conversations
    BY <1>1, TurnParts DEF WatchInv, Ticking
<1>3. CASE Advances("next") /\ UNCHANGED owner
  <2>1. /\ tick' \in Ticks /\ tick'.st = "next"
        /\ tick'.ready = tick.ready /\ tick'.results = tick.results
      BY <1>3, TickMoves DEF WatchInv, TickStates
  <2>2. Ticking'
      BY <1>1, <2>1 DEF WatchInv, Ticking, AtTurn
  <2>3. QED
      BY <1>1, <1>3, <2>1, <2>2, TickOnlyInv
<1>4. CASE /\ Advances("claiming") /\ owner[Conv(t)] = NoOne
           /\ owner' = [owner EXCEPT ![Conv(t)] = t]
  <2>1. /\ tick' \in Ticks /\ tick'.st = "claiming"
        /\ tick'.turn = t /\ tick'.ready = tick.ready /\ tick'.results = tick.results
      BY <1>4, TickMoves DEF WatchInv, TickStates
  <2>2. /\ owner' \in [Conversations -> Owners] /\ owner'[Conv(t)] = t
        /\ \A c \in Conversations : c # Conv(t) => owner'[c] = owner[c]
      BY <1>2, <1>4 DEF WatchInv, Typed, Owners
  <2>3. \A u \in Turns : u # t => (Owns(u)' <=> Owns(u))
      BY <1>4, <2>2, TurnParts DEF Owns
  <2>4. Typed'
      BY <1>1, <2>1, <2>2 DEF WatchInv, Typed
  <2>5. ASSUME NEW w \in Watches PROVE Decided(w)'
    <3>1. Decided(w) /\ Latest(w)' = Latest(w)
        BY <1>1 DEF WatchInv, Latest
    <3>2. marker[w].attempts >= 1 => Latest(w) \in Turns /\ Latest(w) # t
        BY <1>2, MarkerParts DEF WatchInv
    <3>3. QED
        BY <1>1, <2>3, <3>1, <3>2 DEF Decided
  <2>6. ASSUME NEW u \in Turns PROVE (Runs(u) /\ Turned(u) /\ Chained(u) /\ Recalled(u))'
    <3>1. Runs(u) /\ Turned(u) /\ Chained(u) /\ Recalled(u) /\ Runs(t) /\ Turned(t) /\ Chained(t)
        BY <1>2 DEF WatchInv
    <3>2. marker[t[1]].attempts \in Nat
        BY <1>2, MarkerParts DEF WatchInv
    <3>3. CASE u = t
      <4>1. engine[t] \in NotSent /\ chain[t] = "none" /\ t \notin pending
          BY <1>1, <1>2, <3>1, <3>2 DEF Turned, AtClaim
      <4>2. QED
          BY <1>1, <1>2, <2>1, <3>2, <3>3, <4>1
             DEF Runs, Turned, AtClaim, Chained, Recalled, Answering, Settling, NotSent
    <3>4. CASE u # t
        BY <1>1, <2>1, <2>3, <3>1, <3>4 DEF Runs, Turned, AtClaim, Chained, Recalled
    <3>5. QED
        BY <3>3, <3>4
  <2>7. Ticking'
      BY <1>1, <1>2, <2>1, <2>2 DEF WatchInv, Ticking, AtTurn
  <2>8. QED
      BY <2>4, <2>5, <2>6, <2>7 DEF WatchInv
<1>5. QED
    BY <1>1, <1>3, <1>4

(* The claim: the last turn of the marker becomes an earlier one. *)
LEMMA ClaimedInv ==
    ASSUME WatchInv, tick.st = "claiming", MayClaim(marker[tick.turn[1]]),
           marker' = [marker EXCEPT ![tick.turn[1]] = ClaimedMarker(@)], Advances("noting"),
           UNCHANGED <<owner, stopping, engine, chain, pending, saved>>
    PROVE  WatchInv'
<1> DEFINE t == tick.turn
           w == t[1]
<1>1. /\ t \in Turns /\ marker[w].state \in {"ready", "retry_wait"} /\ w \notin tick.ready
      /\ t[2] = marker[w].attempts + 1 /\ owner[Conv(t)] \in {t, NoOne, Composer}
      /\ w \in Watches /\ t[2] \in 1..MaxAttempts
    BY TurnParts DEF WatchInv, Ticking, AtTurn
<1>2. marker[w].attempts \in Nat /\ \A v \in Watches : marker[v].attempts \in Nat
    BY <1>1, MarkerParts DEF WatchInv
<1>3. /\ ClaimedMarker(marker[w]) \in Markers
      /\ ClaimedMarker(marker[w]).state = "claimed"
      /\ ClaimedMarker(marker[w]).attempts = t[2]
    BY <1>1 DEF ClaimedMarker, Markers, MarkerStates
<1>4. /\ marker' \in [Watches -> Markers] /\ marker'[w].state = "claimed" /\ marker'[w].attempts = t[2]
      /\ \A v \in Watches : v # w => marker'[v] = marker[v]
    BY <1>1, <1>3 DEF WatchInv, Typed
<1>5. /\ tick' \in Ticks /\ tick'.st = "noting"
      /\ tick'.turn = t /\ tick'.ready = tick.ready /\ tick'.results = tick.results
    BY TickMoves DEF WatchInv, TickStates
<1>6. \A u \in Turns : (Owns(u)' <=> Owns(u)) /\ (Owns(u) /\ u[1] = w => u = t)
    BY <1>1, TurnParts DEF Owns, Conv
<1>7. Typed'
    BY <1>4, <1>5 DEF WatchInv, Typed
<1>8. ASSUME NEW v \in Watches PROVE Decided(v)'
  <2>1. CASE v = w
      BY <1>1, <1>4, <2>1, MarkerParts DEF Decided
  <2>2. CASE v # w
    <3>1. marker'[v] = marker[v] /\ Latest(v)' = Latest(v)
        BY <1>4, <2>2 DEF Latest
    <3>2. marker[v].attempts >= 1 => Latest(v) \in Turns
        BY MarkerParts DEF WatchInv
    <3>3. QED
        BY <1>6, <3>1, <3>2 DEF WatchInv, Decided
  <2>3. QED
      BY <2>1, <2>2
<1>9. ASSUME NEW u \in Turns PROVE (Runs(u) /\ Turned(u) /\ Chained(u) /\ Recalled(u))'
  <2>1. Runs(u) /\ Turned(u) /\ Chained(u) /\ Recalled(u) /\ u[1] \in Watches /\ u[2] \in Nat
      BY TurnParts DEF WatchInv
  <2>2. (Chained(u) /\ Recalled(u))'
    <3>1. chain[u] = "retry" /\ Owns(u) => u[1] # w
        BY <1>1, <1>2, <1>6, <2>1 DEF Turned
    <3>2. u[1] # w => marker'[u[1]] = marker[u[1]]
        BY <1>4, <2>1
    <3>3. QED
        BY <1>6, <2>1, <3>1, <3>2 DEF Chained, Recalled
  <2>3. CASE u[1] # w
      BY <1>1, <1>4, <1>6, <2>1, <2>2, <2>3 DEF Runs, Turned, AtClaim
  <2>4. CASE u[1] = w
    <3>1. engine[u] # "running"
        BY <1>1, <2>1, <2>4 DEF Runs
    <3>2. u[2] > t[2] => engine[u] \in NotSent /\ chain[u] = "none"
        BY <1>1, <1>2, <2>1, <2>4 DEF Turned
    <3>3. u[2] < t[2] => engine[u] \in Passing
      <4>1. CASE u[2] < marker[w].attempts
          BY <2>1, <2>4, <4>1 DEF Turned
      <4>2. CASE u[2] = marker[w].attempts
        <5>1. u = Latest(w) /\ Decided(w) /\ u[2] >= 1
            BY <1>1, <2>4, <4>2, TurnParts DEF Latest, WatchInv
        <5>2. QED
            BY <1>1, <4>2, <5>1 DEF Decided
      <4>3. QED
          BY <1>1, <1>2, <2>1, <4>1, <4>2
    <3>4. Owns(u) => u[2] = t[2]
        BY <1>6, <2>4
    <3>5. u \in pending => u[2] <= t[2]
        BY <1>1, <1>2, <2>1, <2>4 DEF Turned, AtClaim
    <3>6. marker'[u[1]].attempts = t[2] /\ t[2] \in Nat
        BY <1>1, <1>4, <2>4
    <3>7. Turned(u)'
        BY <1>6, <2>1, <3>2, <3>3, <3>4, <3>5, <3>6 DEF Turned
    <3>8. QED
        BY <2>2, <3>1, <3>7 DEF Runs
  <2>5. QED
      BY <2>3, <2>4
<1>10. Ticking'
  <2>1. engine[t] \in NotSent /\ chain[t] = "none"
      BY <1>1, <1>2 DEF WatchInv, Turned
  <2>2. \A v \in tick.ready \cup tick.results : v \in Watches /\ v # w
      BY <1>1 DEF WatchInv, Typed, Ticks, Ticking
  <2>3. QED
      BY <1>1, <1>4, <1>5, <2>1, <2>2 DEF WatchInv, Ticking, AtTurn
<1>11. QED
    BY <1>7, <1>8, <1>9, <1>10 DEF WatchInv

LEMMA ClaimMarkerInv == ASSUME WatchInv, ClaimMarker PROVE WatchInv'
<1>1. PICK t \in Turns : t = tick.turn
    BY DEF ClaimMarker, WatchInv, Ticking
<1>0. tick.st = "claiming" /\ UNCHANGED <<engine, chain, saved>>
    BY DEF ClaimMarker
<1>2. CASE /\ MayClaim(marker[t[1]])
           /\ marker' = [marker EXCEPT ![t[1]] = ClaimedMarker(@)] /\ Advances("noting")
           /\ UNCHANGED <<owner, stopping, pending>>
    BY <1>0, <1>1, <1>2, ClaimedInv
<1>3. CASE Advances("next") /\ Frees(t) /\ pending' = pending \ {t} /\ UNCHANGED marker
  <2>1. /\ tick' \in Ticks /\ tick'.st = "next" /\ tick'.ready = tick.ready
        /\ tick'.results = tick.results
      BY <1>3, TickMoves DEF WatchInv, TickStates
  <2>2. /\ owner' \in [Conversations -> Owners]
        /\ \A c \in Conversations : owner'[c] \in {owner[c], NoOne}
        /\ ~Owns(t)' /\ \A u \in Turns : u # t => (Owns(u)' <=> Owns(u))
        /\ \A u \in Turns : Owns(u)' /\ Conv(u) \in stopping => Conv(u) \in stopping'
      BY <1>1, <1>3, FreesOne DEF WatchInv
  <2>3. engine[t] # "running"
      BY <1>0, <1>1, TurnParts, MarkerParts DEF WatchInv, Ticking, Turned, NotSent
  <2>4. \A u \in Turns : engine[u] = "running" => Owns(u)'
      BY <2>2, <2>3 DEF WatchInv, Runs
  <2>5. \A u \in Turns : Owns(u)' => Owns(u)
      BY <2>2
  <2>6. \A u \in pending' : Owns(u)' => Conv(u) \in stopping'
    <3>1. \A u \in pending' : u \in pending /\ u \in Turns
        BY <1>3 DEF WatchInv, Typed
    <3>2. QED
        BY <2>2, <2>5, <3>1 DEF WatchInv, Recalled
  <2>7. Typed'
      BY <1>0, <1>3, <2>1, <2>2 DEF WatchInv, Typed
  <2>8. \A u \in Turns : AtClaim(u) /\ tick'.st = "next" => ~Owns(u)' /\ u \notin pending'
      BY <1>1, <1>3, <2>2 DEF AtClaim
  <2>9. QED
      BY <1>0, <1>3, <2>1, <2>2, <2>4, <2>6, <2>7, <2>8, LoosensInv
<1>4. QED
    BY <1>1, <1>2, <1>3 DEF ClaimMarker
-----------------------------------------------------------------------------
(* A turn that was stopped before it was sent, or whose end is known. *)
LEMMA StoppedInv ==
    ASSUME WatchInv, NEW t \in Turns, FinishesStopped(t), engine[t] # "running",
           UNCHANGED <<engine, chain, saved>>, pending' \subseteq pending, tick' \in Ticks,
           \/ tick' = tick
           \/ /\ tick.st # "claiming"
              /\ tick'.st = "next" /\ tick'.ready = tick.ready /\ tick'.results = tick.results
    PROVE  WatchInv'
<1>1. CASE UNCHANGED <<marker, owner, stopping>>
  <2>1. Typed'
      BY <1>1 DEF WatchInv, Typed
  <2>2. \A u \in Turns : engine[u] = "running" =>
            Owns(u)' /\ marker'[u[1]].state = marker[u[1]].state
      BY <1>1 DEF WatchInv, Runs, Owns
  <2>3. \A u \in pending' : Owns(u)' => Conv(u) \in stopping'
      BY <1>1 DEF WatchInv, Typed, Recalled, Owns
  <2>4. \A u \in Turns : AtClaim(u) /\ tick'.st = "next" => ~Owns(u)' /\ u \notin pending'
      BY DEF AtClaim
  <2>5. QED
      BY <1>1, <2>1, <2>2, <2>3, <2>4, LoosensInv
<1>2. CASE Frees(t) /\ (Releases(t, "stopped") \/ UNCHANGED marker)
  <2>1. /\ owner' \in [Conversations -> Owners]
        /\ \A c \in Conversations : owner'[c] \in {owner[c], NoOne}
        /\ ~Owns(t)' /\ \A u \in Turns : u # t => (Owns(u)' <=> Owns(u))
        /\ \A u \in Turns : Owns(u)' /\ Conv(u) \in stopping => Conv(u) \in stopping'
      BY <1>2, FreesOne DEF WatchInv
  <2>2. /\ marker' \in [Watches -> Markers]
        /\ \A w \in Watches : /\ marker'[w].attempts = marker[w].attempts
                              /\ \/ marker'[w].state = marker[w].state
                                 \/ /\ marker[w].state = "claimed" /\ marker'[w].state = "blocked"
                                    /\ w = t[1] /\ marker[w].attempts = t[2]
    <3>1. CASE UNCHANGED marker
        BY <3>1 DEF WatchInv, Typed
    <3>2. CASE Releases(t, "stopped")
      <4>1. AfterFailure(marker[t[1]], "stopped") = "blocked"
          BY DEF AfterFailure
      <4>2. Typed
          BY DEF WatchInv
      <4>3. QED
          BY <3>2, <4>1, <4>2, ReleaseOutcome
    <3>3. QED
        BY <1>2, <3>1, <3>2
  <2>3. \A u \in Turns : u # t /\ marker[u[1]].attempts = u[2] =>
            marker'[u[1]].state = marker[u[1]].state
    <3>1. \A u \in Turns : u[1] \in Watches /\ u = <<u[1], u[2]>>
        BY TurnParts
    <3>2. QED
        BY <2>2, <3>1
  <2>4. \A u \in Turns : engine[u] = "running" =>
            Owns(u)' /\ marker'[u[1]].state = marker[u[1]].state
      BY <2>1, <2>3 DEF WatchInv, Runs
  <2>5. \A u \in Turns : tick'.st \in {"noting", "sending"} /\ u = tick'.turn /\ Owns(u)' =>
            marker'[u[1]].state = marker[u[1]].state
      BY <2>1, <2>3 DEF WatchInv, Ticking
  <2>6. \A u \in pending' : Owns(u)' => Conv(u) \in stopping'
    <3>1. \A u \in pending' : u \in pending /\ u \in Turns
        BY DEF WatchInv, Typed
    <3>2. QED
        BY <2>1, <3>1 DEF WatchInv, Recalled
  <2>7. Typed'
      BY <2>1, <2>2 DEF WatchInv, Typed
  <2>8. \A u \in Turns : AtClaim(u) /\ tick'.st = "next" => ~Owns(u)' /\ u \notin pending'
      BY DEF AtClaim
  <2>9. QED
      BY <2>1, <2>2, <2>4, <2>5, <2>6, <2>7, <2>8, LoosensInv
<1>3. QED
    BY <1>1, <1>2 DEF FinishesStopped

(* Turns are recalled before they are sent, or end in the sidecar; what has
   ended is not touched, unless its end is lost. *)
LEMMA EndsInv ==
    ASSUME WatchInv, UNCHANGED <<marker, owner, tick, chain, saved>>,
           engine' \in [Turns -> EngineStates],
           \A u \in Turns :
               \/ engine'[u] = engine[u]
               \/ engine[u] = "idle" /\ engine'[u] = "recalled"
               \/ /\ engine[u] \notin NotSent /\ engine'[u] \notin NotSent \cup {"running"}
                  /\ Owns(u) /\ chain[u] = "none",
           pending' \subseteq Turns,
           \A u \in pending' : /\ engine'[u] # "running"
                               /\ Owns(u) => Conv(u) \in stopping'
                               /\ Owns(u) \/ u \in pending
    PROVE  WatchInv'
<1>1. Typed'
    BY DEF WatchInv, Typed
<1>2. ASSUME NEW w \in Watches PROVE Decided(w)'
  <2>1. Decided(w) /\ Latest(w)' = Latest(w)
      BY DEF WatchInv, Latest
  <2>2. marker[w].attempts >= 1 => Latest(w) \in Turns
      BY MarkerParts DEF WatchInv
  <2>3. QED
      BY <2>1, <2>2 DEF Decided, Owns, Passing, NotSent
<1>3. ASSUME NEW t \in Turns PROVE (Runs(t) /\ Turned(t) /\ Chained(t) /\ Recalled(t))'
  <2>1. Runs(t) /\ Turned(t) /\ Chained(t) /\ Recalled(t) /\ t[1] \in Watches /\ t[2] \in Nat
        /\ marker[t[1]].attempts \in Nat
      BY TurnParts, MarkerParts DEF WatchInv
  <2>2. Runs(t)' /\ Recalled(t)'
      BY <2>1 DEF Runs, Recalled, Owns
  <2>3. Turned(t)'
      BY <2>1 DEF Turned, AtClaim, Owns, Passing, NotSent
  <2>4. Chained(t)'
      BY <2>1 DEF Chained, Owns, Answering, Settling, NotSent
  <2>5. QED
      BY <2>2, <2>3, <2>4
<1>4. Ticking'
    BY DEF WatchInv, Ticking, AtTurn, Owns, NotSent
<1>5. QED
    BY <1>1, <1>2, <1>3, <1>4 DEF WatchInv

LEMMA SendInv == ASSUME WatchInv, Send PROVE WatchInv'
<1>1. PICK t \in Turns : t = tick.turn
    BY DEF Send, WatchInv, Ticking
<1>2. tick.st = "sending" /\ UNCHANGED <<chain, pending, saved>>
    BY DEF Send
<1>3. /\ engine[t] \in NotSent /\ chain[t] = "none" /\ t[2] = marker[t[1]].attempts
      /\ Owns(t) => marker[t[1]].state = "claimed"
      /\ t[1] \in Watches /\ marker[t[1]].attempts \in Nat
    BY <1>1, <1>2, TurnParts, MarkerParts DEF WatchInv, Ticking
<1>4. ASSUME Advances("failing"), UNCHANGED <<marker, owner, stopping, engine>> PROVE WatchInv'
  <2>1. /\ tick' \in Ticks /\ tick'.st = "failing" /\ tick'.turn = tick.turn
        /\ tick'.ready = tick.ready /\ tick'.results = tick.results
      BY <1>4, TickMoves DEF WatchInv, TickStates
  <2>2. Ticking'
      BY <1>2, <1>4, <2>1 DEF WatchInv, Ticking, AtTurn
  <2>3. QED
      BY <1>2, <1>4, <2>1, <2>2, TickOnlyInv
<1>5. CASE FinishesStopped(t) /\ UNCHANGED engine
           /\ tick' = [tick EXCEPT !.st = IF Owns(t) /\ owner' = owner THEN "failing" ELSE "next"]
           /\ Owns(t)
  <2>1. CASE owner' = owner
    <3>1. UNCHANGED <<marker, stopping>>
        BY <1>1, <1>5, <2>1, FreesOne DEF FinishesStopped, WatchInv, Owns
    <3>2. Advances("failing")
        BY <1>5, <2>1 DEF Advances
    <3>3. QED
        BY <1>4, <1>5, <2>1, <3>1, <3>2
  <2>2. CASE owner' # owner
    <3>1. Advances("next")
        BY <1>5, <2>2 DEF Advances
    <3>2. tick' \in Ticks /\ tick'.st = "next" /\ tick'.ready = tick.ready
          /\ tick'.results = tick.results
        BY <3>1, TickMoves DEF WatchInv, TickStates
    <3>3. QED
        BY <1>2, <1>3, <1>5, <3>2, StoppedInv DEF NotSent
  <2>3. QED
      BY <2>1, <2>2
<1>6. CASE /\ Owns(t) /\ Conv(t) \notin stopping
           /\ engine' = [engine EXCEPT ![t] = "running"] /\ Advances("next")
           /\ UNCHANGED <<marker, owner, stopping>>
  <2>1. tick' \in Ticks /\ tick'.st = "next" /\ tick'.ready = tick.ready
        /\ tick'.results = tick.results
      BY <1>6, TickMoves DEF WatchInv, TickStates
  <2>2. /\ engine' \in [Turns -> EngineStates] /\ engine'[t] = "running"
        /\ \A u \in Turns : u # t => engine'[u] = engine[u]
      BY <1>6 DEF WatchInv, Typed, EngineStates
  <2>3. Typed'
      BY <1>2, <1>6, <2>1, <2>2 DEF WatchInv, Typed
  <2>4. ASSUME NEW w \in Watches PROVE Decided(w)'
    <3>1. Decided(w) /\ Latest(w)' = Latest(w)
        BY <1>6 DEF WatchInv, Latest
    <3>2. marker[w].attempts >= 1 => Latest(w) \in Turns
        BY MarkerParts DEF WatchInv
    <3>3. marker[w].state \in {"retry_wait", "result_ready", "gone"} => Latest(w) # t
        BY <1>3, <1>6, TurnParts DEF Latest
    <3>4. QED
        BY <1>2, <1>6, <2>2, <3>1, <3>2, <3>3 DEF Decided, Owns
  <2>5. ASSUME NEW u \in Turns PROVE (Runs(u) /\ Turned(u) /\ Chained(u) /\ Recalled(u))'
    <3>1. Runs(u) /\ Turned(u) /\ Chained(u) /\ Recalled(u) /\ Recalled(t)
        BY DEF WatchInv
    <3>2. CASE u = t
      <4>1. t \notin pending
          BY <1>6, <3>1 DEF Recalled
      <4>2. QED
          BY <1>2, <1>3, <1>6, <2>2, <3>1, <3>2, <4>1
             DEF Runs, Turned, AtClaim, Chained, Recalled, Answering, Settling, Owns
    <3>3. CASE u # t
        BY <1>2, <1>6, <2>2, <3>1, <3>3
           DEF Runs, Turned, AtClaim, Chained, Recalled, Owns
    <3>4. QED
        BY <3>2, <3>3
  <2>6. Ticking'
      BY <1>6, <2>1 DEF WatchInv, Ticking, AtTurn
  <2>7. QED
      BY <2>3, <2>4, <2>5, <2>6 DEF WatchInv
<1>7. QED
    BY <1>1, <1>4, <1>5, <1>6 DEF Send
-----------------------------------------------------------------------------
(* The handler of the end of turn t, or what follows a result, moves on: it may
   free the conversation, and change the marker when t claimed it last. *)
Advanced(t) ==
    \A w \in Watches :
        /\ marker'[w].attempts = marker[w].attempts
        /\ \/ marker'[w].state = marker[w].state
           \/ /\ w = t[1] /\ marker[w].attempts = t[2]
              /\ \/ marker[w].state = "claimed"
                 \/ {marker[w].state, marker'[w].state} \subseteq {"result_ready", "gone"}

OthersOwn(t) ==
    /\ \A c \in Conversations : owner'[c] \in {owner[c], NoOne}
    /\ Owns(t)' => Owns(t)
    /\ \A u \in Turns : u # t => (Owns(u)' <=> Owns(u))
    /\ \A u \in Turns : Owns(u)' /\ Conv(u) \in stopping => Conv(u) \in stopping'

LEMMA OthersOwnCases ==
    ASSUME Typed, NEW t \in Turns, Frees(t) \/ UNCHANGED <<owner, stopping>>
    PROVE  OthersOwn(t) /\ owner' \in [Conversations -> Owners] /\ (Frees(t) => ~Owns(t)')
<1>1. CASE Frees(t)
    BY <1>1, FreesOne DEF OthersOwn
<1>2. CASE UNCHANGED <<owner, stopping>>
  <2>1. OthersOwn(t) /\ owner' \in [Conversations -> Owners]
      BY <1>2 DEF OthersOwn, Owns, Typed
  <2>2. Frees(t) => ~Owns(t)'
      BY FreesOne
  <2>3. QED
      BY <2>1, <2>2
<1>3. QED
    BY <1>1, <1>2

LEMMA HandlerInv ==
    ASSUME WatchInv, NEW t \in Turns, engine[t] # "running",
           UNCHANGED <<engine, pending>>, saved \subseteq saved', Typed',
           Advanced(t), OthersOwn(t),
           \A u \in Turns : u # t => chain'[u] = chain[u],
           t[2] <= marker[t[1]].attempts \/ chain'[t] = "none",
           Decided(t[1])', Chained(t)',
           \/ tick' = tick /\ (chain[t] # "none" \/ engine[t] \notin NotSent)
           \/ tick.st # "claiming" /\ Ticking'
    PROVE  WatchInv'
<1>1. /\ t[1] \in Watches /\ t[2] \in Nat /\ t = <<t[1], t[2]>>
      /\ \A u \in Turns : u[1] \in Watches /\ u[2] \in Nat /\ u = <<u[1], u[2]>>
                          /\ marker[u[1]].attempts \in Nat
    BY TurnParts, MarkerParts DEF WatchInv
<1>2. \A u \in Turns : u # t /\ marker[u[1]].attempts = u[2] =>
          marker'[u[1]].state = marker[u[1]].state
    BY <1>1 DEF Advanced
<1>3. ASSUME NEW w \in Watches PROVE Decided(w)'
  <2>1. CASE w = t[1]
      BY <2>1
  <2>2. CASE w # t[1]
    <3>1. marker'[w].state = marker[w].state /\ marker'[w].attempts = marker[w].attempts
        BY <2>2 DEF Advanced
    <3>2. Latest(w)' = Latest(w) /\ Decided(w)
        BY <3>1 DEF Latest, WatchInv
    <3>3. marker[w].attempts >= 1 => Latest(w) \in Turns /\ Latest(w) # t
        BY <1>1, <2>2, MarkerParts DEF WatchInv
    <3>4. QED
        BY <3>1, <3>2, <3>3 DEF Decided, OthersOwn
  <2>3. QED
      BY <2>1, <2>2
<1>4. ASSUME NEW u \in Turns PROVE (Runs(u) /\ Turned(u) /\ Chained(u) /\ Recalled(u))'
  <2>1. /\ Runs(u) /\ Turned(u) /\ Chained(u) /\ Recalled(u)
        /\ u[1] \in Watches /\ marker'[u[1]].attempts = marker[u[1]].attempts
      BY <1>1 DEF WatchInv, Advanced
  <2>2. Owns(u)' => Owns(u)
      BY DEF OthersOwn
  <2>3. Runs(u)'
      BY <1>2, <2>1 DEF Runs, OthersOwn
  <2>4. Recalled(u)'
      BY <2>1, <2>2 DEF Recalled, OthersOwn
  <2>5. AtClaim(u) => AtClaim(u)'
      BY DEF AtClaim
  <2>6. Turned(u)'
    <3>1. u[2] > marker[u[1]].attempts => chain'[u] = "none"
        BY <1>1, <2>1 DEF Turned
    <3>2. QED
        BY <2>1, <2>2, <2>5, <3>1 DEF Turned
  <2>7. Chained(u)'
    <3>1. CASE u = t
        BY <3>1
    <3>2. CASE u # t
      <4>1. chain[u] = "retry" /\ Owns(u) => marker'[u[1]].state = "retry_wait"
        <5>1. chain[u] = "retry" /\ Owns(u) => marker[u[1]].attempts = u[2]
            BY <1>1, <2>1 DEF Turned
        <5>2. QED
            BY <1>2, <2>1, <3>2, <5>1 DEF Chained
      <4>2. QED
          BY <2>1, <2>2, <3>2, <4>1 DEF Chained
    <3>3. QED
        BY <3>1, <3>2
  <2>8. QED
      BY <2>3, <2>4, <2>6, <2>7
<1>5. Ticking'
  <2>1. CASE tick' = tick /\ (chain[t] # "none" \/ engine[t] \notin NotSent)
    <3>1. CASE tick.st \in {"idle", "next"}
      <4>1. tick.ready \subseteq Watches /\ tick.results \subseteq Watches
          BY DEF WatchInv, Typed, Ticks
      <4>2. QED
          BY <2>1, <3>1, <4>1 DEF WatchInv, Ticking, AtTurn, Advanced
    <3>2. CASE tick.st \notin {"idle", "next"}
      <4>1. PICK u \in Turns : u = tick.turn
          BY <3>2 DEF WatchInv, Ticking
      <4>2. tick.ready \subseteq Watches /\ tick.results \subseteq Watches
          BY DEF WatchInv, Typed, Ticks
      <4>3. /\ \A w \in tick.ready : marker'[w].state \in {"ready", "retry_wait"}
            /\ \A w \in tick.results : marker'[w].state \in {"result_ready", "gone"}
          BY <4>2 DEF WatchInv, Ticking, Advanced
      <4>4. u[1] \in Watches /\ marker'[u[1]].attempts = marker[u[1]].attempts
            /\ Conv(u) \in Conversations /\ tick'.turn = u /\ tick'.st = tick.st
          BY <1>1, <2>1, <4>1, TurnParts DEF Advanced
      <4>5. tick.st \in {"noting", "sending", "failing"} =>
                u # t /\ chain'[u] = chain[u] /\ (Owns(u)' <=> Owns(u))
                /\ marker'[u[1]].state = marker[u[1]].state
          BY <1>2, <2>1, <4>1 DEF WatchInv, Ticking, OthersOwn
      <4>6. marker[u[1]].state \in {"ready", "retry_wait"} =>
                marker'[u[1]].state = marker[u[1]].state
          BY <4>4 DEF Advanced
      <4>7. marker[u[1]].state \in {"result_ready", "gone"} =>
                marker'[u[1]].state \in {"result_ready", "gone"}
          BY <4>4 DEF Advanced
      <4>8. owner'[Conv(u)] \in {owner[Conv(u)], NoOne}
          BY <4>4 DEF OthersOwn
      <4>9. QED
          BY <2>1, <4>1, <4>3, <4>4, <4>5, <4>6, <4>7, <4>8 DEF WatchInv, Ticking, AtTurn
    <3>3. QED
        BY <3>1, <3>2
  <2>2. QED
      BY <2>1
<1>6. QED
    BY <1>3, <1>4, <1>5 DEF WatchInv

LEMMA KeptMarkerInv ==
    ASSUME WatchInv, NEW t \in Turns, engine[t] # "running",
           UNCHANGED <<marker, engine, pending>>, saved \subseteq saved', tick' \in Ticks,
           Frees(t) \/ UNCHANGED <<owner, stopping>>, chain' \in [Turns -> ChainStates],
           \A u \in Turns : u # t => chain'[u] = chain[u],
           t[2] <= marker[t[1]].attempts \/ chain'[t] = "none",
           Owns(t)' /\ chain[t] = "retry" => chain'[t] = "retry",
           Chained(t)',
           \/ tick' = tick /\ (chain[t] # "none" \/ engine[t] \notin NotSent)
           \/ tick.st # "claiming" /\ Ticking'
    PROVE  WatchInv'
<1>1. OthersOwn(t) /\ owner' \in [Conversations -> Owners]
    BY OthersOwnCases DEF WatchInv
<1>2. Typed' /\ Advanced(t) /\ t[1] \in Watches
    BY <1>1, TurnParts DEF WatchInv, Typed, Advanced
<1>3. Decided(t[1])'
  <2>1. Decided(t[1]) /\ Latest(t[1])' = Latest(t[1])
      BY <1>2 DEF WatchInv, Latest
  <2>2. marker[t[1]].attempts >= 1 => Latest(t[1]) \in Turns
      BY <1>2, MarkerParts DEF WatchInv
  <2>3. ASSUME NEW u \in Turns PROVE Owns(u)' => Owns(u) /\ (chain[u] = "retry" => chain'[u] = "retry")
      BY <1>1, <2>3 DEF OthersOwn
  <2>4. QED
      BY <2>1, <2>2, <2>3 DEF Decided
<1>4. QED
    BY <1>1, <1>2, <1>3, HandlerInv

(* The turns that handlers work on were claimed, and are not running. *)
LEMMA Handled ==
    ASSUME WatchInv, NEW t \in Turns, chain[t] # "none" \/ engine[t] \notin NotSent
    PROVE  /\ t[2] <= marker[t[1]].attempts /\ t[1] \in Watches /\ t[2] \in 1..MaxAttempts
           /\ marker[t[1]].attempts \in Nat /\ marker[t[1]] \in Markers
           /\ t[2] = marker[t[1]].attempts => Latest(t[1]) = t
           /\ Owns(t) => t[2] = marker[t[1]].attempts
           /\ chain[t] # "none" => engine[t] # "running"
<1>1. Turned(t) /\ Chained(t) /\ chain[t] \in ChainStates
    BY DEF WatchInv, Typed
<1>2. /\ t[1] \in Watches /\ t[2] \in 1..MaxAttempts /\ t = <<t[1], t[2]>>
      /\ marker[t[1]].attempts \in Nat /\ marker[t[1]] \in Markers
    BY TurnParts, MarkerParts DEF WatchInv, Typed
<1>3. chain[t] # "none" => chain[t] \in Answering \cup Settling
    BY <1>1 DEF ChainStates, Answering, Settling
<1>4. QED
    BY <1>1, <1>2, <1>3 DEF Turned, Chained, Latest, NotSent

LEMMA CatchInv == ASSUME WatchInv, Catch PROVE WatchInv'
<1>1. PICK t \in Turns : t = tick.turn
    BY DEF Catch, WatchInv, Ticking
<1>2. tick.st = "failing" /\ UNCHANGED <<marker, engine, pending, saved>>
    BY DEF Catch
<1>3. /\ engine[t] \in NotSent /\ chain[t] = "none" /\ t[2] = marker[t[1]].attempts
      /\ marker[t[1]].attempts \in Nat
    BY <1>1, <1>2, TurnParts, MarkerParts DEF WatchInv, Ticking
<1>4. CASE /\ Advances("settling") /\ chain' = [chain EXCEPT ![t] = "settle"]
           /\ UNCHANGED <<owner, stopping>>
  <2>1. /\ tick' \in Ticks /\ tick'.st = "settling" /\ tick'.turn = tick.turn
        /\ tick'.ready = tick.ready /\ tick'.results = tick.results
      BY <1>4, TickMoves DEF WatchInv, TickStates
  <2>2. /\ chain' \in [Turns -> ChainStates] /\ chain'[t] = "settle"
        /\ \A u \in Turns : u # t => chain'[u] = chain[u]
      BY <1>4 DEF WatchInv, Typed, ChainStates
  <2>3. Chained(t)'
      BY <1>2, <1>3, <2>2 DEF Chained, Answering, Settling, NotSent
  <2>4. Ticking'
      BY <1>2, <1>4, <2>1 DEF WatchInv, Ticking, AtTurn
  <2>5. QED
      BY <1>2, <1>3, <1>4, <2>1, <2>2, <2>3, <2>4, KeptMarkerInv DEF NotSent
<1>5. CASE Advances("next") /\ Frees(t) /\ UNCHANGED chain
  <2>1. /\ tick' \in Ticks /\ tick'.st = "next"
        /\ tick'.ready = tick.ready /\ tick'.results = tick.results
      BY <1>5, TickMoves DEF WatchInv, TickStates
  <2>2. Chained(t)'
      BY <1>3, <1>5 DEF Chained, Answering, Settling
  <2>3. Ticking'
      BY <1>2, <2>1 DEF WatchInv, Ticking, AtTurn
  <2>4. QED
      BY <1>2, <1>3, <1>5, <2>1, <2>2, <2>3, KeptMarkerInv DEF NotSent, WatchInv, Typed
<1>6. QED
    BY <1>1, <1>4, <1>5 DEF Catch

LEMMA SaveResultInv == ASSUME WatchInv, SaveResult PROVE WatchInv'
<1>1. /\ tick.st = "saving" /\ UNCHANGED <<marker, owner, stopping, engine, chain, pending>>
      /\ \/ saved' = saved \cup {tick.turn} /\ Advances("acking")
         \/ saved' = saved /\ Advances("next")
    BY DEF SaveResult, control
<1>2. PICK st \in {"acking", "next"} : Advances(st) /\ (st = "acking" => tick.turn \in saved')
    BY <1>1
<1>3. /\ tick' \in Ticks /\ tick'.st = st
      /\ tick'.turn = tick.turn /\ tick'.ready = tick.ready /\ tick'.results = tick.results
    BY <1>2, TickMoves DEF WatchInv, TickStates
<1>4. Ticking'
    BY <1>1, <1>2, <1>3 DEF WatchInv, Ticking, AtTurn
<1>5. QED
    BY <1>1, <1>3, <1>4, TickOnlyInv

LEMMA AckResultInv == ASSUME WatchInv, AckResult PROVE WatchInv'
<1>1. PICK t \in Turns : t = tick.turn
    BY DEF AckResult, WatchInv, Ticking
<1>2. /\ tick.st = "acking" /\ Advances("next")
      /\ UNCHANGED <<owner, stopping, engine, chain, pending, saved>>
    BY DEF AckResult, control
<1>3. /\ tick' \in Ticks /\ tick'.st = "next" /\ tick'.ready = tick.ready
      /\ tick'.results = tick.results
    BY <1>2, TickMoves DEF WatchInv, TickStates
<1>4. CASE UNCHANGED marker
  <2>1. Ticking'
      BY <1>2, <1>3, <1>4 DEF WatchInv, Ticking, AtTurn
  <2>2. QED
      BY <1>2, <1>3, <1>4, <2>1, TickOnlyInv
<1>5. CASE marker' = [marker EXCEPT ![t[1]] = Acked(@)]
  <2>1. /\ t[1] \in Watches /\ t[2] = marker[t[1]].attempts /\ t \in saved
        /\ marker[t[1]].state \in {"result_ready", "gone"} /\ Latest(t[1]) = t
        /\ marker[t[1]] \in Markers
      BY <1>1, <1>2, TurnParts DEF WatchInv, Ticking, Latest, Typed
  <2>2. /\ Acked(marker[t[1]]) \in Markers
        /\ Acked(marker[t[1]]).state = "gone" /\ Acked(marker[t[1]]).attempts = t[2]
      BY <2>1 DEF Acked, Markers, MarkerStates
  <2>3. /\ marker' \in [Watches -> Markers] /\ marker'[t[1]].state = "gone"
        /\ marker'[t[1]].attempts = t[2] /\ \A w \in Watches : w # t[1] => marker'[w] = marker[w]
      BY <1>5, <2>1, <2>2 DEF WatchInv, Typed
  <2>4. Advanced(t) /\ OthersOwn(t)
      BY <1>2, <2>1, <2>3, OthersOwnCases DEF Advanced, WatchInv
  <2>5. engine[t] = "done" /\ ~Owns(t) /\ Chained(t)
      BY <2>1 DEF WatchInv, Decided
  <2>6. Latest(t[1])' = t
      BY <2>1, <2>3 DEF Latest
  <2>7. Decided(t[1])'
      BY <1>2, <2>1, <2>3, <2>5, <2>6, TurnParts DEF Decided, Owns
  <2>8. Chained(t)'
      BY <1>2, <2>5 DEF Chained, Owns
  <2>9. Ticking'
    <3>1. tick.ready \subseteq Watches /\ tick.results \subseteq Watches
        BY DEF WatchInv, Typed, Ticks
    <3>2. QED
        BY <1>3, <2>1, <2>3, <3>1 DEF WatchInv, Ticking, AtTurn
  <2>10. Typed'
      BY <1>2, <1>3, <2>3 DEF WatchInv, Typed
  <2>11. t[2] <= marker[t[1]].attempts
      BY <2>1, TurnParts
  <2>12. QED
      BY <1>2, <2>4, <2>5, <2>7, <2>8, <2>9, <2>10, <2>11, HandlerInv
<1>6. QED
    BY <1>1, <1>4, <1>5 DEF AckResult

LEMMA ReclaimInv == ASSUME WatchInv, NEW t \in Turns, Reclaim(t) PROVE WatchInv'
<1>1. /\ ~Owns(t) /\ UNCHANGED <<owner, stopping, tick, engine, chain, pending, saved>>
      /\ Releases(t, "silent") \/ UNCHANGED marker
    BY DEF Reclaim, control
<1>2. \A u \in Turns : Owns(u)' <=> Owns(u)
    BY <1>1 DEF Owns
<1>3. /\ marker' \in [Watches -> Markers]
      /\ \A w \in Watches : /\ marker'[w].attempts = marker[w].attempts
                            /\ \/ marker'[w].state = marker[w].state
                               \/ /\ marker[w].state = "claimed" /\ marker'[w].state = "blocked"
                                  /\ w = t[1] /\ marker[w].attempts = t[2]
  <2>1. CASE UNCHANGED marker
      BY <2>1 DEF WatchInv, Typed
  <2>2. CASE Releases(t, "silent")
    <3>1. AfterFailure(marker[t[1]], "silent") = "blocked" /\ Typed
        BY DEF AfterFailure, WatchInv
    <3>2. QED
        BY <2>2, <3>1, ReleaseOutcome
  <2>3. QED
      BY <1>1, <2>1, <2>2
<1>4. \A u \in Turns : Owns(u) /\ marker[u[1]].attempts = u[2] =>
          marker'[u[1]].state = marker[u[1]].state
  <2>1. \A u \in Turns : u[1] \in Watches /\ u = <<u[1], u[2]>>
      BY TurnParts
  <2>2. QED
      BY <1>1, <1>3, <2>1
<1>5. \A u \in Turns : engine[u] = "running" =>
          Owns(u)' /\ marker'[u[1]].state = marker[u[1]].state
    BY <1>2, <1>4 DEF WatchInv, Runs
<1>6. \A u \in Turns : tick'.st \in {"noting", "sending"} /\ u = tick'.turn /\ Owns(u)' =>
          marker'[u[1]].state = marker[u[1]].state
    BY <1>1, <1>2, <1>4 DEF WatchInv, Ticking
<1>7. Typed'
    BY <1>1, <1>3 DEF WatchInv, Typed
<1>8. \A u \in pending' : Owns(u)' => Conv(u) \in stopping'
    BY <1>1, <1>2 DEF WatchInv, Typed, Recalled
<1>9. \A u \in Turns : AtClaim(u) /\ tick'.st = "next" => ~Owns(u)' /\ u \notin pending'
    BY <1>1 DEF AtClaim
<1>10. QED
    BY <1>1, <1>3, <1>5, <1>6, <1>7, <1>8, <1>9, LoosensInv
-----------------------------------------------------------------------------
(* The ends of turns. *)
LEMMA HearDoneInv == ASSUME WatchInv, NEW t \in Turns, HearDone(t) PROVE WatchInv'
<1>1. /\ engine[t] = "done" /\ chain[t] = "none" /\ Frees(t)
      /\ UNCHANGED <<marker, tick, engine, pending, saved>>
      /\ \/ UNCHANGED chain
         \/ \E first \in {"record", "give_up"} : chain' = [chain EXCEPT ![t] = first]
    BY DEF HearDone
<1>2. /\ chain' \in [Turns -> ChainStates] /\ chain'[t] \in {"none", "record", "give_up"}
      /\ \A u \in Turns : u # t => chain'[u] = chain[u]
    BY <1>1 DEF WatchInv, Typed, ChainStates
<1>3. ~Owns(t)'
    BY <1>1, FreesOne DEF WatchInv
<1>4. Chained(t)'
    BY <1>1, <1>2, <1>3 DEF Chained, Answering, Settling
<1>5. t[2] <= marker[t[1]].attempts
    BY <1>1, Handled DEF NotSent
<1>6. QED
    BY <1>1, <1>2, <1>4, <1>5, KeptMarkerInv DEF NotSent, WatchInv, Typed

LEMMA RecordResultInv == ASSUME WatchInv, NEW t \in Turns, RecordResult(t) PROVE WatchInv'
<1>1. chain[t] = "record" /\ UNCHANGED <<owner, stopping, tick, engine, pending, saved>>
    BY DEF RecordResult, Follows, control
<1>2. engine[t] = "done" /\ ~Owns(t) /\ ~Owns(t)'
    BY <1>1 DEF WatchInv, Chained, Answering, Owns
<1>3. CASE Follows(t, "record", "give_up") /\ UNCHANGED marker
  <2>1. /\ chain' \in [Turns -> ChainStates] /\ chain'[t] = "give_up"
        /\ \A u \in Turns : u # t => chain'[u] = chain[u]
      BY <1>3, ChainMoves DEF WatchInv, ChainStates
  <2>2. Chained(t)'
      BY <1>1, <1>2, <2>1 DEF Chained, Answering, Settling
  <2>3. QED
      BY <1>1, <1>2, <1>3, <2>1, <2>2, Handled, KeptMarkerInv DEF WatchInv, Typed
<1>4. CASE /\ MayRecord(marker[t[1]], t[2]) /\ Follows(t, "record", "save")
           /\ marker' = [marker EXCEPT ![t[1]] = WithResult(@)]
  <2>1. /\ chain' \in [Turns -> ChainStates] /\ chain'[t] = "save"
        /\ \A u \in Turns : u # t => chain'[u] = chain[u]
      BY <1>4, ChainMoves DEF WatchInv, ChainStates
  <2>2. Chained(t)'
      BY <1>1, <1>2, <2>1 DEF Chained, Answering, Settling
  <2>3. /\ t[1] \in Watches /\ marker[t[1]] \in Markers /\ marker[t[1]].attempts = t[2]
        /\ marker[t[1]].state \in {"claimed", "result_ready"} /\ Latest(t[1]) = t
      BY <1>1, <1>4, Handled DEF MayRecord
  <2>4. /\ WithResult(marker[t[1]]) \in Markers
        /\ WithResult(marker[t[1]]).state = "result_ready" /\ WithResult(marker[t[1]]).attempts = t[2]
      BY <2>3 DEF WithResult, Markers, MarkerStates
  <2>5. /\ marker' \in [Watches -> Markers] /\ marker'[t[1]].state = "result_ready"
        /\ marker'[t[1]].attempts = t[2] /\ \A w \in Watches : w # t[1] => marker'[w] = marker[w]
      BY <1>4, <2>3, <2>4 DEF WatchInv, Typed
  <2>6. Advanced(t) /\ OthersOwn(t)
      BY <1>1, <2>3, <2>5, OthersOwnCases DEF Advanced, WatchInv
  <2>7. Decided(t[1])'
    <3>1. Latest(t[1])' = t
        BY <2>3, <2>5 DEF Latest
    <3>2. QED
        BY <1>1, <1>2, <2>5, <3>1, TurnParts DEF Decided
  <2>8. Typed'
      BY <1>1, <2>1, <2>5 DEF WatchInv, Typed
  <2>9. t[2] <= marker[t[1]].attempts
      BY <1>1, Handled
  <2>10. QED
      BY <1>1, <1>2, <2>1, <2>2, <2>6, <2>7, <2>8, <2>9, HandlerInv
<1>5. QED
    BY <1>3, <1>4 DEF RecordResult

LEMMA SaveResponseInv == ASSUME WatchInv, NEW t \in Turns, SaveResponse(t) PROVE WatchInv'
<1>1. /\ chain[t] = "save" /\ UNCHANGED <<marker, owner, stopping, tick, engine, pending>>
      /\ \/ Follows(t, "save", "ack") /\ saved' = saved \cup {t}
         \/ Follows(t, "save", "give_up") /\ UNCHANGED saved
    BY DEF SaveResponse, Follows, control
<1>2. engine[t] = "done" /\ ~Owns(t) /\ ~Owns(t)'
    BY <1>1 DEF WatchInv, Chained, Answering, Owns
<1>3. PICK to \in {"ack", "give_up"} : Follows(t, "save", to) /\ (to = "ack" => t \in saved')
    BY <1>1
<1>4. /\ chain' \in [Turns -> ChainStates] /\ chain'[t] = to
      /\ \A u \in Turns : u # t => chain'[u] = chain[u]
    BY <1>3, ChainMoves DEF WatchInv, ChainStates
<1>5. Chained(t)'
    BY <1>1, <1>2, <1>3, <1>4 DEF Chained, Answering, Settling
<1>6. QED
    BY <1>1, <1>2, <1>4, <1>5, Handled, KeptMarkerInv DEF WatchInv, Typed

LEMMA AckResponseInv == ASSUME WatchInv, NEW t \in Turns, AckResponse(t) PROVE WatchInv'
<1>1. chain[t] = "ack" /\ UNCHANGED <<owner, stopping, tick, engine, pending, saved>>
    BY DEF AckResponse, Follows, control
<1>2. engine[t] = "done" /\ ~Owns(t) /\ ~Owns(t)' /\ t \in saved
    BY <1>1 DEF WatchInv, Chained, Answering, Owns
<1>3. CASE Follows(t, "ack", "give_up") /\ UNCHANGED marker
  <2>1. /\ chain' \in [Turns -> ChainStates] /\ chain'[t] = "give_up"
        /\ \A u \in Turns : u # t => chain'[u] = chain[u]
      BY <1>3, ChainMoves DEF WatchInv, ChainStates
  <2>2. Chained(t)'
      BY <1>1, <1>2, <2>1 DEF Chained, Answering, Settling
  <2>3. QED
      BY <1>1, <1>2, <1>3, <2>1, <2>2, Handled, KeptMarkerInv DEF WatchInv, Typed
<1>4. CASE /\ MayAck(marker[t[1]], t[2]) /\ Follows(t, "ack", "none")
           /\ marker' = [marker EXCEPT ![t[1]] = Acked(@)]
  <2>1. /\ chain' \in [Turns -> ChainStates] /\ chain'[t] = "none"
        /\ \A u \in Turns : u # t => chain'[u] = chain[u]
      BY <1>4, ChainMoves DEF WatchInv, ChainStates
  <2>2. Chained(t)'
      BY <1>2, <2>1 DEF Chained, Answering, Settling
  <2>3. /\ t[1] \in Watches /\ marker[t[1]] \in Markers /\ t[2] <= marker[t[1]].attempts
        /\ marker[t[1]].state = "gone" \/ (marker[t[1]].attempts = t[2]
                                           /\ marker[t[1]].state = "result_ready")
        /\ t[2] = marker[t[1]].attempts => Latest(t[1]) = t
      BY <1>1, <1>4, Handled DEF MayAck
  <2>4. /\ Acked(marker[t[1]]) \in Markers /\ Acked(marker[t[1]]).state = "gone"
        /\ Acked(marker[t[1]]).attempts = marker[t[1]].attempts
      BY <2>3 DEF Acked, Markers, MarkerStates
  <2>5. /\ marker' \in [Watches -> Markers] /\ marker'[t[1]].state = "gone"
        /\ marker'[t[1]].attempts = marker[t[1]].attempts
        /\ \A w \in Watches : w # t[1] => marker'[w] = marker[w]
      BY <1>4, <2>3, <2>4 DEF WatchInv, Typed
  <2>6. Advanced(t) /\ OthersOwn(t)
      BY <1>1, <2>3, <2>5, OthersOwnCases DEF Advanced, WatchInv
  <2>7. Decided(t[1])'
    <3>1. Latest(t[1])' = Latest(t[1]) /\ Decided(t[1])
        BY <2>3, <2>5 DEF Latest, WatchInv
    <3>2. Latest(t[1]) \in saved
        BY <1>2, <2>3, <3>1 DEF Decided
    <3>3. QED
        BY <1>1, <2>3, <2>5, <3>1, <3>2 DEF Decided, Owns
  <2>8. Typed'
      BY <1>1, <2>1, <2>5 DEF WatchInv, Typed
  <2>9. QED
      BY <1>1, <1>2, <2>1, <2>2, <2>3, <2>6, <2>7, <2>8, HandlerInv
<1>5. QED
    BY <1>3, <1>4 DEF AckResponse

LEMMA GiveUpInv == ASSUME WatchInv, NEW t \in Turns, GiveUp(t) PROVE WatchInv'
<1>1. /\ chain[t] = "give_up" /\ UNCHANGED <<owner, stopping, tick, engine, pending, saved>>
      /\ Follows(t, "give_up", "none") /\ (Releases(t, "unsaved") \/ UNCHANGED marker)
    BY DEF GiveUp, Follows, control
<1>2. engine[t] = "done" /\ ~Owns(t) /\ ~Owns(t)'
    BY <1>1 DEF WatchInv, Chained, Answering, Owns
<1>3. /\ chain' \in [Turns -> ChainStates] /\ chain'[t] = "none"
      /\ \A u \in Turns : u # t => chain'[u] = chain[u]
    BY <1>1, ChainMoves DEF WatchInv, ChainStates
<1>4. Chained(t)'
    BY <1>3 DEF Chained, Answering, Settling
<1>5. CASE UNCHANGED marker
    BY <1>1, <1>2, <1>3, <1>4, <1>5, KeptMarkerInv DEF WatchInv, Typed
<1>6. CASE Releases(t, "unsaved")
  <2>1. AfterFailure(marker[t[1]], "unsaved") = "blocked" /\ Typed
      BY DEF AfterFailure, WatchInv
  <2>2. /\ marker' \in [Watches -> Markers] /\ t[1] \in Watches
        /\ \A w \in Watches : marker'[w].attempts = marker[w].attempts
        /\ \A w \in Watches : w # t[1] => marker'[w] = marker[w]
        /\ \/ /\ marker[t[1]].attempts = t[2] /\ marker[t[1]].state = "claimed"
              /\ marker'[t[1]].state = "blocked"
           \/ marker' = marker
      BY <1>6, <2>1, ReleaseOutcome, TurnParts
  <2>3. Advanced(t) /\ OthersOwn(t)
      BY <1>1, <2>2, OthersOwnCases DEF Advanced, WatchInv
  <2>4. Decided(t[1])'
    <3>1. Latest(t[1])' = Latest(t[1]) /\ Decided(t[1])
        BY <2>2 DEF Latest, WatchInv
    <3>2. marker[t[1]].attempts >= 1 => Latest(t[1]) \in Turns
        BY <2>2, MarkerParts DEF WatchInv
    <3>3. marker[t[1]].state = "retry_wait" /\ Owns(Latest(t[1])) => Latest(t[1]) # t
        BY <1>2
    <3>4. QED
        BY <1>1, <1>3, <2>2, <3>1, <3>2, <3>3 DEF Decided, Owns
  <2>5. Typed'
      BY <1>1, <1>3, <2>2 DEF WatchInv, Typed
  <2>6. QED
      BY <1>1, <1>2, <1>3, <1>4, <2>3, <2>4, <2>5, HandlerInv
<1>7. QED
    BY <1>1, <1>5, <1>6

LEMMA HearErrorInv == ASSUME WatchInv, NEW t \in Turns, HearError(t) PROVE WatchInv'
<1>1. /\ engine[t] \in {"transient", "refused"} /\ chain[t] = "none"
      /\ UNCHANGED <<marker, tick, engine, pending, saved>>
      /\ \/ Follows(t, "none", "settle") /\ UNCHANGED <<owner, stopping>>
         \/ Frees(t) /\ UNCHANGED chain
    BY DEF HearError, control, FailsAndPauses
<1>2. /\ chain' \in [Turns -> ChainStates] /\ chain'[t] \in {"none", "settle"}
      /\ \A u \in Turns : u # t => chain'[u] = chain[u]
  <2>1. CASE Follows(t, "none", "settle")
      BY <2>1, ChainMoves DEF WatchInv, ChainStates
  <2>2. CASE UNCHANGED chain
      BY <1>1, <2>2 DEF WatchInv, Typed
  <2>3. QED
      BY <1>1, <2>1, <2>2
<1>3. Chained(t)'
    BY <1>1, <1>2 DEF Chained, Answering, Settling
<1>4. t[2] <= marker[t[1]].attempts
    BY <1>1, Handled DEF NotSent
<1>5. QED
    BY <1>1, <1>2, <1>3, <1>4, KeptMarkerInv DEF NotSent, WatchInv, Typed

(* The failure of a turn is only passing when that is known of it, and a marker
   waits for its retry only while the handler is about to free the conversation. *)
LEMMA SettleReleaseInv == ASSUME WatchInv, NEW t \in Turns, SettleRelease(t) PROVE WatchInv'
<1>1. /\ chain[t] = "settle" /\ UNCHANGED <<owner, stopping, tick, engine, pending, saved>>
    BY DEF SettleRelease, Follows, control
<1>2. engine[t] \in {"transient", "refused"} \cup NotSent /\ engine[t] # "running"
    BY <1>1 DEF WatchInv, Chained, Settling, NotSent
<1>3. CASE Follows(t, "settle", "hold") /\ UNCHANGED marker
  <2>1. /\ chain' \in [Turns -> ChainStates] /\ chain'[t] = "hold"
        /\ \A u \in Turns : u # t => chain'[u] = chain[u]
      BY <1>3, ChainMoves DEF WatchInv, ChainStates
  <2>2. Chained(t)'
      BY <1>1, <1>2, <2>1 DEF Chained, Answering, Settling
  <2>3. QED
      BY <1>1, <1>2, <1>3, <2>1, <2>2, Handled, KeptMarkerInv DEF WatchInv, Typed
<1>4. ASSUME NEW kind \in FailureKinds(t), Releases(t, kind),
             Follows(t, "settle",
                 IF Released(marker[t[1]], t[2], kind).state \in {"retry_wait", "result_ready"}
                 THEN "retry" ELSE "hold")
      PROVE  WatchInv'
  <2>1. PICK to \in {"retry", "hold"} :
            /\ Follows(t, "settle", to)
            /\ to = "retry" <=>
                   Released(marker[t[1]], t[2], kind).state \in {"retry_wait", "result_ready"}
      BY <1>4
  <2>2. /\ chain' \in [Turns -> ChainStates] /\ chain'[t] = to
        /\ \A u \in Turns : u # t => chain'[u] = chain[u]
      BY <2>1, ChainMoves DEF WatchInv, ChainStates
  <2>3. /\ t[1] \in Watches /\ t[2] <= marker[t[1]].attempts /\ marker[t[1]].attempts \in Nat
        /\ t[2] \in 1..MaxAttempts
        /\ t[2] = marker[t[1]].attempts => Latest(t[1]) = t
        /\ Owns(t) => t[2] = marker[t[1]].attempts
      BY <1>1, Handled
  <2>4. /\ marker' \in [Watches -> Markers]
        /\ \A w \in Watches : marker'[w].attempts = marker[w].attempts
        /\ \A w \in Watches : w # t[1] => marker'[w] = marker[w]
        /\ IF marker[t[1]].attempts = t[2] /\ marker[t[1]].state = "claimed"
           THEN marker'[t[1]].state = AfterFailure(marker[t[1]], kind)
           ELSE marker' = marker
      BY <1>4, ReleaseOutcome DEF WatchInv
  <2>5. to = "retry" <=> marker'[t[1]].state \in {"retry_wait", "result_ready"}
      BY <1>4, <2>1, <2>3 DEF Releases, WatchInv, Typed
  <2>6. Typed' /\ OthersOwn(t)
      BY <1>1, <2>2, <2>4, OthersOwnCases DEF WatchInv, Typed
  <2>7. Decided(t[1]) /\ Latest(t[1])' = Latest(t[1])
      BY <2>3, <2>4 DEF WatchInv, Latest
  <2>8. CASE marker[t[1]].attempts = t[2] /\ marker[t[1]].state = "claimed"
    <3>1. \/ marker'[t[1]].state \in {"blocked", "exhausted"}
          \/ marker'[t[1]].state = "retry_wait" /\ kind = "transient" /\ t[2] < MaxAttempts
        BY <2>3, <2>4, <2>8, TurnParts DEF AfterFailure
    <3>2. kind = "transient" => engine[t] \in Passing
        BY <1>2, <1>4 DEF FailureKinds, Passing, NotSent
    <3>3. Decided(t[1])'
        BY <1>1, <2>2, <2>3, <2>4, <2>5, <2>7, <2>8, <3>1, <3>2 DEF Decided
    <3>4. Chained(t)'
        BY <1>1, <1>2, <2>2, <2>5, <3>1 DEF Chained, Answering, Settling
    <3>5. Advanced(t)
        BY <2>4, <2>8 DEF Advanced
    <3>6. QED
        BY <1>1, <1>2, <2>2, <2>3, <2>6, <3>3, <3>4, <3>5, HandlerInv
  <2>9. CASE ~(marker[t[1]].attempts = t[2] /\ marker[t[1]].state = "claimed")
    <3>1. marker' = marker
        BY <2>4, <2>9
    <3>2. Owns(t) => marker[t[1]].state # "result_ready"
        BY <1>2, <2>3, <2>7 DEF Decided, NotSent
    <3>3. Chained(t)'
        BY <1>1, <1>2, <2>2, <2>5, <3>1, <3>2 DEF Chained, Answering, Settling, Owns
    <3>4. QED
        BY <1>1, <1>2, <2>2, <2>3, <2>6, <3>1, <3>3, KeptMarkerInv DEF Typed
  <2>10. QED
      BY <2>8, <2>9
<1>5. QED
    BY <1>3, <1>4 DEF SettleRelease, Releases

LEMMA SettleFinishInv == ASSUME WatchInv, NEW t \in Turns, SettleFinish(t) PROVE WatchInv'
<1>1. /\ Frees(t) /\ UNCHANGED <<marker, tick, engine, pending, saved>>
      /\ Follows(t, "retry", "none") \/ Follows(t, "hold", "none")
    BY DEF SettleFinish, FailsAndPauses
<1>2. /\ chain' \in [Turns -> ChainStates] /\ chain'[t] = "none" /\ chain[t] # "none"
      /\ \A u \in Turns : u # t => chain'[u] = chain[u]
    BY <1>1, ChainMoves DEF WatchInv, ChainStates
<1>3. ~Owns(t)' /\ Chained(t)'
    BY <1>1, <1>2, FreesOne DEF WatchInv, Chained, Answering, Settling
<1>4. QED
    BY <1>1, <1>2, <1>3, Handled, KeptMarkerInv DEF WatchInv, Typed

LEMMA HearStoppedInv == ASSUME WatchInv, NEW t \in Turns, HearStopped(t) PROVE WatchInv'
<1>1. /\ engine[t] \in {"done", "transient", "refused", "stopped"}
      /\ Owns(t) /\ Conv(t) \in stopping /\ chain[t] = "none" /\ FinishesStopped(t)
      /\ UNCHANGED <<tick, chain, pending, saved>>
      /\ engine' = IF owner' = owner THEN [engine EXCEPT ![t] = "lost"] ELSE engine
    BY DEF HearStopped
<1>2. CASE owner' = owner
  <2>1. UNCHANGED <<marker, stopping>>
      BY <1>1, <1>2, FreesOne DEF FinishesStopped, WatchInv, Owns
  <2>2. engine' \in [Turns -> EngineStates]
        /\ \A u \in Turns : \/ engine'[u] = engine[u]
                            \/ u = t /\ engine'[u] = "lost"
      BY <1>1, <1>2 DEF WatchInv, Typed, EngineStates
  <2>3. pending' \subseteq Turns /\ \A u \in pending' :
            engine'[u] # "running" /\ (Owns(u) => Conv(u) \in stopping') /\ u \in pending
      BY <1>1, <2>1, <2>2 DEF WatchInv, Typed, Recalled
  <2>4. QED
      BY <1>1, <1>2, <2>1, <2>2, <2>3, EndsInv DEF NotSent
<1>3. CASE owner' # owner
    BY <1>1, <1>3, StoppedInv DEF WatchInv, Typed
<1>4. QED
    BY <1>2, <1>3

LEMMA FinishRecoveredInv == ASSUME WatchInv, NEW t \in Turns, FinishRecovered(t) PROVE WatchInv'
<1>1. /\ t \in pending /\ pending' \subseteq pending /\ FinishesStopped(t)
      /\ UNCHANGED <<tick, engine, chain, saved>>
    BY DEF FinishRecovered
<1>2. engine[t] # "running"
    BY <1>1 DEF WatchInv, Recalled
<1>3. QED
    BY <1>1, <1>2, StoppedInv DEF WatchInv, Typed

LEMMA EngineEndsInv == ASSUME WatchInv, NEW t \in Turns, EngineEnds(t) PROVE WatchInv'
<1>1. engine[t] = "running" /\ UNCHANGED <<marker, owner, stopping, tick, chain, pending, saved>>
    BY DEF EngineEnds, control
<1>2. PICK end \in {"done", "transient", "refused", "stopped"} : engine' = [engine EXCEPT ![t] = end]
    BY DEF EngineEnds
<1>3. engine' \in [Turns -> EngineStates]
      /\ \A u \in Turns : engine'[u] = engine[u] \/ (u = t /\ engine'[u] = end)
    BY <1>2 DEF WatchInv, Typed, EngineStates
<1>4. Owns(t) /\ chain[t] = "none"
    BY <1>1 DEF WatchInv, Typed, Runs, Chained, Answering, Settling, ChainStates, NotSent
<1>5. \A u \in pending' : /\ u \in pending /\ u \in Turns /\ engine'[u] # "running"
                          /\ Owns(u) => Conv(u) \in stopping'
    BY <1>1, <1>3 DEF WatchInv, Typed, Recalled
<1>6. QED
    BY <1>1, <1>3, <1>4, <1>5, EndsInv DEF NotSent
-----------------------------------------------------------------------------
(* The environment. *)
LEMMA SidecarDiesInv == ASSUME WatchInv, SidecarDies PROVE WatchInv'
<1>1. engine' = Lost /\ UNCHANGED <<marker, owner, stopping, tick, chain, pending, saved>>
    BY DEF SidecarDies, control
<1>2. engine' \in [Turns -> EngineStates]
      /\ \A u \in Turns : \/ engine'[u] = engine[u] /\ engine[u] # "running"
                          \/ engine[u] = "running" /\ engine'[u] = "lost"
    BY <1>1 DEF WatchInv, Typed, EngineStates, Lost
<1>3. \A u \in Turns : engine[u] = "running" => Owns(u) /\ chain[u] = "none"
    BY DEF WatchInv, Typed, Runs, Chained, Answering, Settling, ChainStates, NotSent
<1>4. \A u \in pending' : /\ u \in pending /\ u \in Turns /\ engine'[u] # "running"
                          /\ Owns(u) => Conv(u) \in stopping'
    BY <1>1, <1>2 DEF WatchInv, Typed, Recalled
<1>5. QED
    BY <1>1, <1>2, <1>3, <1>4, EndsInv DEF NotSent

LEMMA RecoverInv == ASSUME WatchInv, Recover PROVE WatchInv'
<1>1. /\ UNCHANGED <<marker, owner, tick, chain, saved>>
      /\ stopping' = stopping \cup {c \in Conversations : owner[c] # NoOne}
      /\ pending' = {t \in Turns : Owns(t)}
    BY DEF Recover
<1>2. ASSUME NEW u \in Turns
      PROVE  /\ engine'[u] \in EngineStates
             /\ \/ engine'[u] = engine[u] /\ engine[u] # "running"
                \/ Owns(u) /\ engine[u] = "idle" /\ engine'[u] = "recalled"
                \/ /\ engine[u] = "running" \/ (Owns(u) /\ engine[u] = "lost")
                   /\ engine'[u] = "killed"
    BY DEF Recover, WatchInv, Typed, EngineStates
<1>3. engine' \in [Turns -> EngineStates]
  <2>1. engine' = [t \in Turns |-> engine'[t]]
      BY DEF Recover
  <2>2. QED
      BY <1>2, <2>1
<1>4. \A u \in Turns : engine[u] = "running" => Owns(u)
    BY DEF WatchInv, Runs
<1>5. \A u \in Turns : engine[u] \in {"running", "lost"} => chain[u] = "none"
    BY DEF WatchInv, Typed, Chained, Answering, Settling, ChainStates, NotSent
<1>6. \A u \in pending' : u \in Turns /\ Owns(u) /\ engine'[u] # "running" /\ Conv(u) \in stopping'
  <2>1. \A u \in Turns : Owns(u) => owner[Conv(u)] # NoOne /\ Conv(u) \in Conversations
      BY TurnParts DEF Owns
  <2>2. QED
      BY <1>1, <1>2, <2>1
<1>7. QED
    BY <1>1, <1>2, <1>3, <1>4, <1>5, <1>6, EndsInv DEF NotSent

(* The composer, the user and what is observed change no turn of a watch. *)
LEMMA BystanderInv ==
    ASSUME WatchInv, UNCHANGED <<marker, tick, engine, chain, pending, saved>>,
           owner' \in [Conversations -> Owners],
           \A c \in Conversations : owner'[c] \in {owner[c], NoOne, Composer},
           \A c \in Conversations : owner[c] \in Turns =>
               owner'[c] = owner[c] /\ (c \in stopping => c \in stopping')
    PROVE  WatchInv'
<1>1. \A u \in Turns : Conv(u) \in Conversations
    BY TurnParts
<1>2. \A u \in Turns : Owns(u)' <=> Owns(u)
    BY <1>1, TurnParts DEF Owns
<1>3. \A u \in Turns : Owns(u) /\ Conv(u) \in stopping => Conv(u) \in stopping'
    BY <1>1 DEF Owns
<1>4. Typed'
    BY DEF WatchInv, Typed
<1>5. \A u \in Turns : engine[u] = "running" => Owns(u)' /\ marker'[u[1]].state = marker[u[1]].state
    BY <1>2 DEF WatchInv, Runs
<1>6. \A u \in pending' : Owns(u)' => Conv(u) \in stopping'
    BY <1>2, <1>3 DEF WatchInv, Typed, Recalled
<1>7. \A u \in Turns : AtClaim(u) /\ tick'.st = "next" => ~Owns(u)' /\ u \notin pending'
    BY DEF AtClaim
<1>8. QED
    BY <1>4, <1>5, <1>6, <1>7, LoosensInv

LEMMA ComposerInv ==
    ASSUME WatchInv, NEW c \in Conversations, ComposerSends(c) \/ ComposerEnds(c)
    PROVE  WatchInv'
<1>1. UNCHANGED <<marker, tick, engine, chain, pending, saved>> /\ owner[c] \in {NoOne, Composer}
    BY DEF ComposerSends, ComposerEnds
<1>2. PICK one \in {NoOne, Composer} : owner' = [owner EXCEPT ![c] = one]
    BY DEF ComposerSends, ComposerEnds
<1>3. owner' \in [Conversations -> Owners]
      /\ \A d \in Conversations : owner'[d] = IF d = c THEN one ELSE owner[d]
    BY <1>2 DEF WatchInv, Typed, Owners
<1>4. \A d \in Conversations : owner[d] \in Turns => d # c
    BY <1>1, TurnParts
<1>5. \A d \in Conversations : d \in stopping /\ d # c => d \in stopping'
    BY DEF ComposerSends, ComposerEnds
<1>6. QED
    BY <1>1, <1>3, <1>4, <1>5, BystanderInv

LEMMA UserInv ==
    ASSUME WatchInv, NEW c \in Conversations, Stop(c) \/ Resume(c)
    PROVE  WatchInv'
<1>1. UNCHANGED <<marker, owner, tick, engine, chain, pending, saved>> /\ stopping \subseteq stopping'
    BY DEF Stop, Resume
<1>2. QED
    BY <1>1, BystanderInv DEF WatchInv, Typed

LEMMA EvidenceInv ==
    ASSUME WatchInv, NEW w \in Watches, EvidenceAppears(w) \/ EvidenceGoes(w)
    PROVE  WatchInv'
<1>1. UNCHANGED <<marker, owner, stopping, tick, engine, chain, pending, saved>>
    BY DEF EvidenceAppears, EvidenceGoes, control
<1>2. QED
    BY <1>1, BystanderInv DEF WatchInv, Typed

(* A restart forgets owners and handlers; the markers and what was saved stay. *)
LEMMA RestartInv == ASSUME WatchInv, Restart PROVE WatchInv'
<1>1. /\ owner' = [c \in Conversations |-> NoOne] /\ tick' = NoTick /\ pending' = {}
      /\ engine' = Lost /\ chain' = [t \in Turns |-> "none"] /\ UNCHANGED saved
      /\ marker' = [w \in Watches |-> [marker[w] EXCEPT !.mine = FALSE]]
    BY DEF Restart
<1>2. /\ marker' \in [Watches -> Markers]
      /\ \A w \in Watches :
             marker'[w].state = marker[w].state /\ marker'[w].attempts = marker[w].attempts
    BY <1>1 DEF WatchInv, Typed, Markers
<1>3. /\ tick' \in Ticks /\ tick'.st = "idle" /\ tick'.ready = {} /\ tick'.results = {}
    BY <1>1 DEF NoTick, Ticks, TickStates
<1>4. /\ engine' \in [Turns -> EngineStates]
      /\ \A t \in Turns : \/ engine'[t] = engine[t] /\ engine[t] # "running"
                          \/ engine[t] = "running" /\ engine'[t] = "lost"
    BY <1>1 DEF WatchInv, Typed, EngineStates, Lost
<1>5. \A t \in Turns : ~Owns(t)' /\ chain'[t] = "none"
    BY <1>1, TurnParts DEF Owns
<1>6. Typed'
    BY <1>1, <1>2, <1>3, <1>4 DEF Typed, Owners, ChainStates
<1>7. ASSUME NEW w \in Watches PROVE Decided(w)'
  <2>1. Decided(w) /\ Latest(w)' = Latest(w)
      BY <1>2 DEF WatchInv, Latest
  <2>2. marker[w].attempts >= 1 => Latest(w) \in Turns
      BY MarkerParts DEF WatchInv
  <2>3. QED
      BY <1>1, <1>2, <1>4, <1>5, <2>1, <2>2 DEF Decided, Passing, NotSent
<1>8. ASSUME NEW t \in Turns PROVE (Runs(t) /\ Turned(t) /\ Chained(t) /\ Recalled(t))'
  <2>1. Turned(t) /\ t[1] \in Watches
      BY TurnParts DEF WatchInv
  <2>2. QED
      BY <1>1, <1>2, <1>4, <1>5, <2>1
         DEF Runs, Turned, Chained, Recalled, Answering, Settling, Passing, NotSent
<1>9. Ticking'
    BY <1>3 DEF Ticking, AtTurn
<1>10. QED
    BY <1>6, <1>7, <1>8, <1>9 DEF WatchInv

LEMMA StutterInv == ASSUME WatchInv, UNCHANGED watchVars PROVE WatchInv'
<1>1. UNCHANGED <<marker, owner, stopping, tick, engine, chain, pending, saved>>
    BY DEF watchVars
<1>2. QED
    BY <1>1, BystanderInv DEF WatchInv, Typed
-----------------------------------------------------------------------------
LEMMA NextInv == ASSUME WatchInv, [TaskWatchNext]_watchVars PROVE WatchInv'
<1>1. CASE TickStep
    BY <1>1, ScanInv, EndOfScanInv, GateInv, ClaimMarkerInv, SaveRequestInv, SendInv, CatchInv,
       CaughtInv, SaveResultInv, AckResultInv, PickResultInv, PickReadyInv DEF TickStep
<1>2. ASSUME NEW t \in Turns, TurnStep(t) \/ Reclaim(t) PROVE WatchInv'
    BY <1>2, HearDoneInv, RecordResultInv, SaveResponseInv, AckResponseInv, GiveUpInv,
       HearErrorInv, SettleReleaseInv, SettleFinishInv, HearStoppedInv, FinishRecoveredInv,
       EngineEndsInv, ReclaimInv DEF TurnStep
<1>3. CASE Environment
    BY <1>3, SidecarDiesInv, RecoverInv, RestartInv, ComposerInv, UserInv, EvidenceInv
       DEF Environment
<1>4. CASE UNCHANGED watchVars
    BY <1>4, StutterInv
<1>5. QED
    BY <1>1, <1>2, <1>3, <1>4 DEF TaskWatchNext

(* The markers, the turns, their handlers, the owners and the heartbeat agree
   in every state (sendTaskWatchTurn, the heartbeat and the terminal events of
   src/App.tsx, the marker's commands in Rust). *)
THEOREM WatchInvariant == TaskWatchSpec => []WatchInv
<1>1. TaskWatchInit => WatchInv
    BY InitInv
<1>2. WatchInv /\ [TaskWatchNext]_watchVars => WatchInv'
    BY NextInv
<1>3. QED
    BY <1>1, <1>2, PTL DEF TaskWatchSpec

(* What the sidecar runs for a marker owns its conversation, and the marker is
   claimed by that very turn: sendOwnedMessage sends only for the owner, and
   only the end of the turn, a stop or a restart takes the conversation away. *)
THEOREM RunningOwns == TaskWatchSpec => []RunningIsOwned
<1>1. WatchInv => RunningIsOwned
    BY DEF WatchInv, Runs, RunningIsOwned
<1>2. QED
    BY <1>1, WatchInvariant, PTL

(* The model runs again for a marker only when all its earlier turns failed in
   a way known to be passing: a claim of task_watch_claim needs a marker that is
   ready or waits for its retry, and only settleWatchFailure with a transient
   error makes it wait. *)
THEOREM NoReplay == TaskWatchSpec => []NoBlindReplay
<1>1. WatchInv => NoBlindReplay
  <2>1. SUFFICES ASSUME WatchInv, NEW w \in Watches, NEW n \in 1..MaxAttempts,
                        NEW m \in 1..MaxAttempts, n < m, engine[<<w, m>>] \notin NotSent
                 PROVE  engine[<<w, n>>] \in NotSent \cup {"transient"}
      BY DEF NoBlindReplay
  <2>2. /\ <<w, m>> \in Turns /\ <<w, n>> \in Turns /\ marker[w].attempts \in Nat
        /\ <<w, m>>[1] = w /\ <<w, n>>[1] = w /\ <<w, m>>[2] = m /\ <<w, n>>[2] = n
      BY <2>1, TurnParts, MarkerParts DEF WatchInv
  <2>3. Turned(<<w, m>>) /\ Turned(<<w, n>>)
      BY <2>1, <2>2 DEF WatchInv
  <2>4. m <= marker[w].attempts
      BY <2>1, <2>2, <2>3, TurnParts DEF Turned
  <2>5. QED
      BY <2>1, <2>2, <2>3, <2>4, TurnParts DEF Turned, Passing
<1>2. QED
    BY <1>1, WatchInvariant, PTL

(* A marker is deleted (task_watch_ack) only when the response of its last turn
   is in the database and that turn is done. *)
THEOREM GoneSaved == TaskWatchSpec => []GoneIsSaved
<1>1. WatchInv => GoneIsSaved
    BY DEF WatchInv, Decided, GoneIsSaved, Latest
<1>2. QED
    BY <1>1, WatchInvariant, PTL
-----------------------------------------------------------------------------
(* The step that takes its conversation from a turn that failed. *)
Leaves(t) == engine[t] \in {"transient", "refused"} /\ t \in tw /\ Owns(t) /\ ~Owns(t)'
IsDecided(t) ==
    \/ marker'[t[1]].state # "claimed" \/ ~marker'[t[1]].mine
    \/ Conv(t) \in paused'

LEMMA OnlyFreed ==
    ASSUME WatchInv, NEW t \in Turns, Leaves(t), NEW u \in Turns, Frees(u)
    PROVE  u = t
BY FreesOne DEF Leaves, WatchInv

LEMMA StopDecides ==
    ASSUME WatchInv, NEW t \in Turns, Leaves(t), NEW u \in Turns, FinishesStopped(u)
    PROVE  IsDecided(t)
<1>1. Frees(u) \/ UNCHANGED owner
    BY DEF FinishesStopped
<1>2. Frees(u) /\ u = t /\ t \in tw
    BY <1>1, OnlyFreed DEF Leaves, Owns
<1>3. Releases(t, "stopped")
    BY <1>2 DEF FinishesStopped, Leaves, Owns
<1>4. AfterFailure(marker[t[1]], "stopped") = "blocked" /\ Typed
    BY DEF AfterFailure, WatchInv
<1>5. marker[t[1]].attempts = t[2]
    BY Handled DEF Leaves, NotSent
<1>6. QED
    BY <1>3, <1>4, <1>5, ReleaseOutcome DEF IsDecided

LEMMA TickDecides ==
    ASSUME WatchInv, NEW t \in Turns, Leaves(t), TickStep
    PROVE  IsDecided(t)
<1>1. /\ engine[t] \notin NotSent /\ owner[Conv(t)] = t /\ t \in tw
      /\ Conv(t) \in Conversations /\ owner'[Conv(t)] # t /\ t # NoOne
    BY TurnParts DEF Leaves, NotSent, Owns
<1>2. tick.st \in {"preparing", "claiming", "sending", "failing"} => tick.turn \in Turns
    BY DEF WatchInv, Ticking
<1>3. tick.st \in {"claiming", "sending", "failing"} => engine[tick.turn] \in NotSent
  <2>1. CASE tick.st = "claiming"
    <3>1. PICK u \in Turns : u = tick.turn
        BY <1>2, <2>1
    <3>2. u[2] > marker[u[1]].attempts
        BY <2>1, <3>1, TurnParts, MarkerParts DEF WatchInv, Ticking
    <3>3. QED
        BY <3>1, <3>2 DEF WatchInv, Turned
  <2>2. CASE tick.st \in {"sending", "failing"}
      BY <2>2 DEF WatchInv, Ticking
  <2>3. QED
      BY <2>1, <2>2
<1>4. CASE UNCHANGED owner
    BY <1>1, <1>4
<1>5. CASE Gate
  <2>1. owner'[Conv(t)] # owner[Conv(t)]
      BY <1>1
  <2>2. PICK u \in Turns : u = tick.turn
      BY <1>2, <1>5 DEF Gate
  <2>3. owner[Conv(u)] = NoOne /\ owner' = [owner EXCEPT ![Conv(u)] = u]
      BY <1>5, <2>1, <2>2 DEF Gate
  <2>4. QED
      BY <1>1, <2>1, <2>3 DEF WatchInv, Typed
<1>6. CASE ClaimMarker
  <2>1. PICK u \in Turns : u = tick.turn /\ engine[u] \in NotSent
      BY <1>2, <1>3, <1>6 DEF ClaimMarker
  <2>2. Frees(u) \/ UNCHANGED owner
      BY <1>6, <2>1 DEF ClaimMarker
  <2>3. QED
      BY <1>1, <1>4, <2>1, <2>2, OnlyFreed
<1>7. CASE Send
  <2>1. PICK u \in Turns : u = tick.turn
      BY <1>2, <1>7 DEF Send
  <2>2. FinishesStopped(u) \/ UNCHANGED owner
      BY <1>7, <2>1 DEF Send
  <2>3. QED
      BY <1>4, <2>2, StopDecides
<1>8. CASE Catch
  <2>1. PICK u \in Turns : u = tick.turn /\ engine[u] \in NotSent
      BY <1>2, <1>3, <1>8 DEF Catch
  <2>2. Frees(u) \/ UNCHANGED owner
      BY <1>8, <2>1 DEF Catch
  <2>3. QED
      BY <1>1, <1>4, <2>1, <2>2, OnlyFreed
<1>9. UNCHANGED owner \/ Gate \/ ClaimMarker \/ Send \/ Catch
    BY DEF TickStep, Scan, EndOfScan, SaveRequest, Caught, SaveResult, AckResult, PickResult,
           PickReady, control
<1>10. QED
    BY <1>4, <1>5, <1>6, <1>7, <1>8, <1>9

LEMMA TurnDecides ==
    ASSUME WatchInv, NEW t \in Turns, Leaves(t), NEW u \in Turns, TurnStep(u) \/ Reclaim(u)
    PROVE  IsDecided(t)
<1>1. CASE UNCHANGED owner
    BY <1>1 DEF Leaves, Owns
<1>2. CASE HearDone(u)
    BY <1>2, OnlyFreed DEF HearDone, Leaves
<1>3. CASE HearError(u)
    BY <1>1, <1>3, OnlyFreed DEF HearError, Leaves, FailsAndPauses, control
<1>4. CASE SettleFinish(u)
  <2>1. Frees(u) /\ u = t /\ Owns(t) /\ UNCHANGED marker
      BY <1>4, OnlyFreed DEF SettleFinish, FailsAndPauses, Leaves
  <2>2. CASE Follows(t, "retry", "none")
      BY <2>1, <2>2 DEF Follows, WatchInv, Chained, IsDecided
  <2>3. CASE FailsAndPauses(t)
      BY <2>1, <2>3 DEF FailsAndPauses, IsDecided
  <2>4. QED
      BY <1>4, <2>1, <2>2, <2>3 DEF SettleFinish
<1>5. CASE HearStopped(u) \/ FinishRecovered(u)
    BY <1>5, StopDecides DEF HearStopped, FinishRecovered
<1>6. QED
    BY <1>1, <1>2, <1>3, <1>4, <1>5 DEF TurnStep, Reclaim, RecordResult, SaveResponse,
       AckResponse, GiveUp, SettleRelease, EngineEnds, control

LEMMA EnvironmentDecides ==
    ASSUME WatchInv, NEW t \in Turns, Leaves(t), Environment
    PROVE  IsDecided(t)
<1>1. /\ owner[Conv(t)] = t /\ owner'[Conv(t)] # t /\ Conv(t) \in Conversations
      /\ t # NoOne /\ t # Composer /\ t[1] \in Watches
    BY TurnParts DEF Leaves, Owns
<1>2. CASE Restart
    BY <1>1, <1>2 DEF Restart, IsDecided, WatchInv, Typed, Markers
<1>3. ASSUME NEW c \in Conversations, ComposerSends(c) \/ ComposerEnds(c) PROVE FALSE
  <2>1. c # Conv(t)
      BY <1>1, <1>3 DEF ComposerSends, ComposerEnds
  <2>2. QED
      BY <1>1, <1>3, <2>1 DEF ComposerSends, ComposerEnds, WatchInv, Typed
<1>4. UNCHANGED owner \/ Restart \/ \E c \in Conversations : ComposerSends(c) \/ ComposerEnds(c)
    BY DEF Environment, SidecarDies, Recover, Stop, Resume, EvidenceAppears, EvidenceGoes, control
<1>5. QED
    BY <1>1, <1>2, <1>3, <1>4

(* A failed turn that is followed leaves its conversation only when its marker
   says what comes next, or the conversation is paused: the error event keeps
   the conversation until settleWatchFailure has released the marker, and what
   is not retried pauses it. *)
THEOREM FailureDecided == TaskWatchSpec => FailureIsDecided
<1>1. ASSUME WatchInv, TaskWatchNext, NEW t \in Turns, Leaves(t) PROVE IsDecided(t)
    BY <1>1, TickDecides, TurnDecides, EnvironmentDecides DEF TaskWatchNext
<1>2. WatchInv /\ [TaskWatchNext]_watchVars =>
          [\A t \in Turns : engine[t] \in {"transient", "refused"} /\ t \in tw /\ Owns(t)
                            /\ ~Owns(t)' =>
               \/ marker'[t[1]].state # "claimed" \/ ~marker'[t[1]].mine
               \/ Conv(t) \in paused']_watchVars
    BY <1>1 DEF Leaves, IsDecided
<1>3. QED
    BY <1>2, WatchInvariant, PTL DEF TaskWatchSpec, FailureIsDecided
-----------------------------------------------------------------------------
(* What the invariant does not read: sets of conversations, watches and turns. *)
Sets ==
    /\ evidence \subseteq Watches
    /\ stopping \subseteq Conversations /\ paused \subseteq Conversations
    /\ tw \subseteq Turns /\ saved \subseteq Turns

LEMMA SetsNext == ASSUME WatchInv, Sets, [TaskWatchNext]_watchVars PROVE Sets'
<1>1. \A t \in Turns : Conv(t) \in Conversations
    BY TurnParts
<1>2. tick.st \notin {"idle", "next"} => tick.turn \in Turns
    BY DEF WatchInv, Ticking
<1>3. CASE TickStep
  <2>1. evidence' = evidence /\ paused' = paused
      BY <1>3 DEF TickStep, Scan, EndOfScan, Gate, ClaimMarker, SaveRequest, Send, Catch, Caught,
             SaveResult, AckResult, PickResult, PickReady, control
  <2>2. stopping' \subseteq stopping
      BY <1>3 DEF TickStep, Scan, EndOfScan, Gate, ClaimMarker, SaveRequest, Send, Catch, Caught,
             SaveResult, AckResult, PickResult, PickReady, control, FinishesStopped, Frees
  <2>3. tw' \subseteq tw \cup {tick.turn} /\ (tw' \subseteq tw \/ tick.st = "claiming")
      BY <1>3 DEF TickStep, Scan, EndOfScan, Gate, ClaimMarker, SaveRequest, Send, Catch, Caught,
             SaveResult, AckResult, PickResult, PickReady, control, FinishesStopped
  <2>4. saved' \subseteq saved \cup {tick.turn} /\ (saved' \subseteq saved \/ tick.st = "saving")
      BY <1>3 DEF TickStep, Scan, EndOfScan, Gate, ClaimMarker, SaveRequest, Send, Catch, Caught,
             SaveResult, AckResult, PickResult, PickReady, control
  <2>5. QED
      BY <1>2, <2>1, <2>2, <2>3, <2>4 DEF Sets
<1>4. ASSUME NEW t \in Turns, TurnStep(t) \/ Reclaim(t) PROVE Sets'
  <2>1. evidence' = evidence /\ paused' \subseteq paused \cup {Conv(t)}
      BY <1>4 DEF TurnStep, HearDone, RecordResult, SaveResponse, AckResponse, GiveUp, HearError,
             SettleRelease, SettleFinish, HearStopped, FinishRecovered, EngineEnds, Reclaim,
             FailsAndPauses, control
  <2>2. stopping' \subseteq stopping
      BY <1>4 DEF TurnStep, HearDone, RecordResult, SaveResponse, AckResponse, GiveUp, HearError,
             SettleRelease, SettleFinish, HearStopped, FinishRecovered, EngineEnds, Reclaim,
             FailsAndPauses, FinishesStopped, Frees, control
  <2>3. tw' \subseteq tw /\ saved' \subseteq saved \cup {t}
      BY <1>4 DEF TurnStep, HearDone, RecordResult, SaveResponse, AckResponse, GiveUp, HearError,
             SettleRelease, SettleFinish, HearStopped, FinishRecovered, EngineEnds, Reclaim,
             FinishesStopped
  <2>4. QED
      BY <1>1, <1>4, <2>1, <2>2, <2>3 DEF Sets
<1>5. CASE Environment
    BY <1>5 DEF Environment, SidecarDies, Recover, Restart, ComposerSends, ComposerEnds, Stop, Resume,
       EvidenceAppears, EvidenceGoes, control, Sets
<1>6. CASE UNCHANGED watchVars
    BY <1>6 DEF watchVars, Sets
<1>7. QED
    BY <1>3, <1>4, <1>5, <1>6 DEF TaskWatchNext

(* Every value is one the code can hold; in particular no marker is claimed,
   and no turn sent, more than MaxAttempts times. *)
THEOREM TaskWatchTypes == TaskWatchSpec => []TaskWatchTypeOK
<1>1. TaskWatchInit => Sets
    BY DEF TaskWatchInit, Sets
<1>2. WatchInv /\ Sets /\ [TaskWatchNext]_watchVars => Sets'
    BY SetsNext
<1>3. WatchInv /\ Sets => TaskWatchTypeOK
    BY DEF WatchInv, Typed, Ticks, Owners, Sets, TaskWatchTypeOK
<1>4. QED
    BY <1>1, <1>2, <1>3, WatchInvariant, PTL DEF TaskWatchSpec
==============================================================================
