--------------------------- MODULE TelegramProofs ---------------------------
(***************************************************************************)
(* Proofs about what Telegram sends, for every number of updates, loops,   *)
(* messages, conversations and tries.                                      *)
(*   The turns of messages: that what runs is owned needs the link between *)
(* tracker and gate (Linked); that a message is in one place is proved of  *)
(* the places themselves (Conserved) and then counted.                     *)
(*   The reception of updates: the two ledgers say the same of an update   *)
(* as what happened to it (GoodRows, Recorded), and no loop goes past an   *)
(* update that is not settled (Reads).                                     *)
(***************************************************************************)
EXTENDS TelegramTurns, TelegramPolling, FilterProofs

Waits == [msg : Messages, to : Targets]

(* The types of what the proofs read. *)
Typed ==
    /\ taken \subseteq Messages
    /\ hand \subseteq [msg : Messages, as : Origins, to : Targets]
    /\ waiting \in Seq(Waits)
    /\ tracked \subseteq [turn : Turns, conv : Conversations, retried : BOOLEAN]
    /\ sender \subseteq Turns
    /\ retries \subseteq Waits
    /\ told \in [Messages -> Seq(Endings)]
    /\ owner \in [Conversations -> Turns \cup {Desk, NoOne}]
    /\ engine \in [Turns -> EngineStates]
    /\ line \in [Turns -> Lines]

(* A tracked turn owns its conversation; whatever is being sent, runs or has an
   event to be read is tracked; and these three exclude each other. *)
Linked ==
    /\ \A r \in tracked : owner[r.conv] = r.turn
    /\ \A t \in Turns : t \in sender \/ engine[t] = "live" \/ line[t] # "none" =>
           \E r \in tracked : r.turn = t
    /\ \A t \in sender : engine[t] = "idle" /\ line[t] = "none"
    /\ \A t \in Turns : line[t] # "none" => engine[t] = "over"

TelegramInv == Typed /\ Linked
-----------------------------------------------------------------------------
LEMMA NoTurnOwns == Desk \notin Turns /\ NoOne \notin Turns
BY OwnersAssumption DEF Turns

LEMMA HomeTargets == \A to \in Targets : Target(to) \in Conversations
BY HomeAssumption DEF Targets, Target

LEMMA RemoveTyped ==
    ASSUME NEW S, NEW s \in Seq(S), NEW i \in DOMAIN s
    PROVE  RemoveAt(s, i) \in Seq(S)
<1>1. SubSeq(s, 1, i - 1) \in Seq(S) /\ SubSeq(s, i + 1, Len(s)) \in Seq(S)
    BY SubSeqProperties
<1>2. QED
    BY <1>1, ConcatProperties DEF RemoveAt

LEMMA TellTyped ==
    ASSUME Typed, NEW m \in Messages, NEW how \in Endings, Tell(m, how)
    PROVE  told' \in [Messages -> Seq(Endings)]
<1>1. Append(told[m], how) \in Seq(Endings)
    BY AppendProperties DEF Typed
<1>2. QED
    BY <1>1 DEF Tell, Typed

LEMMA EnqueueTyped ==
    ASSUME Typed, NEW m \in Messages, NEW to \in Targets, Enqueue(m, to)
    PROVE  waiting' \in Seq(Waits) /\ told' \in [Messages -> Seq(Endings)]
<1>1. [msg |-> m, to |-> to] \in Waits /\ "full" \in Endings
    BY DEF Waits, Endings
<1>2. Append(waiting, [msg |-> m, to |-> to]) \in Seq(Waits)
    BY <1>1, AppendProperties DEF Typed
<1>3. CASE Len(waiting) < QueueMax
    BY <1>2, <1>3 DEF Enqueue, Typed
<1>4. CASE ~(Len(waiting) < QueueMax)
    BY <1>1, <1>4, TellTyped DEF Enqueue, Typed
<1>5. QED
    BY <1>3, <1>4

LEMMA PutAsideTyped ==
    ASSUME Typed, NEW m \in Messages, NEW as \in Origins, NEW to \in Targets, PutAside(m, as, to)
    PROVE  waiting' \in Seq(Waits) /\ told' \in [Messages -> Seq(Endings)]
<1>1. CASE as = "new"
    BY <1>1, EnqueueTyped DEF PutAside
<1>2. CASE as # "new"
  <2>1. <<[msg |-> m, to |-> to]>> \in Seq(Waits) /\ waiting \in Seq(Waits)
      BY DEF Waits, Typed
  <2>2. <<[msg |-> m, to |-> to]>> \o waiting \in Seq(Waits)
      BY <2>1, ConcatProperties
  <2>3. QED
      BY <1>2, <2>2 DEF PutAside, Typed
<1>3. QED
    BY <1>1, <1>2

LEMMA BeginTyped ==
    ASSUME Typed, NEW m \in Messages, NEW as \in Origins, NEW to \in Targets, Begin(m, as, to, hand)
    PROVE  /\ waiting' \in Seq(Waits) /\ told' \in [Messages -> Seq(Endings)]
           /\ hand' \subseteq [msg : Messages, as : Origins, to : Targets]
<1>1. CASE HasConv(Target(to))
    BY <1>1, PutAsideTyped DEF Begin, Typed
<1>2. CASE ~HasConv(Target(to))
  <2>1. [msg |-> m, as |-> as, to |-> to] \in [msg : Messages, as : Origins, to : Targets]
      OBVIOUS
  <2>2. hand' = hand \cup {[msg |-> m, as |-> as, to |-> to]} /\ waiting' = waiting /\ told' = told
      BY <1>2 DEF Begin
  <2>3. QED
      BY <2>1, <2>2 DEF Typed
<1>3. QED
    BY <1>1, <1>2

LEMMA NextTurnFresh ==
    ASSUME NEW m \in Messages, Fresh(m) # {}
    PROVE  /\ NextTurn(m) \in Turns /\ NextTurn(m)[1] = m
           /\ engine[NextTurn(m)] = "idle" /\ NextTurn(m) \notin sender
<1>1. NextTurn(m) \in Fresh(m)
    BY DEF NextTurn
<1>2. QED
    BY <1>1 DEF Fresh, Turns

(* What leaves the tracker leaves the gate: the others keep their conversation. *)
LEMMA LeavesLinked ==
    ASSUME Typed, \A r \in tracked : owner[r.conv] = r.turn,
           NEW T \in SUBSET Turns, Untrack(T), Leaves(T)
    PROVE  /\ tracked' \subseteq tracked
           /\ owner' \in [Conversations -> Turns \cup {Desk, NoOne}]
           /\ \A r \in tracked' : owner'[r.conv] = r.turn
           /\ \A r \in tracked : r.turn \notin T => r \in tracked'
BY DEF Typed, Untrack, Leaves
-----------------------------------------------------------------------------
LEMMA InitInv == TelegramInit => TelegramInv
<1> SUFFICES ASSUME TelegramInit PROVE TelegramInv
    OBVIOUS
<1>1. Typed
    BY DEF TelegramInit, Typed, Waits, EngineStates, Lines
<1>2. Linked
    BY DEF TelegramInit, Linked
<1>3. QED
    BY <1>1, <1>2 DEF TelegramInv

LEMMA TakeInv == ASSUME TelegramInv, NEW m \in Messages, Take(m) PROVE TelegramInv'
<1>1. To(m) \in Targets /\ "new" \in Origins
    BY RoutesAssumption DEF Targets, Origins
<1>2. Typed'
    BY <1>1, BeginTyped DEF TelegramInv, Take, Typed, controlState
<1>3. Linked'
    BY DEF TelegramInv, Take, Linked, controlState
<1>4. QED
    BY <1>2, <1>3 DEF TelegramInv

LEMMA RetryInv == ASSUME TelegramInv, NEW r \in retries, Retry(r) PROVE TelegramInv'
<1>1. r.msg \in Messages /\ r.to \in Targets /\ "retry" \in Origins
    BY DEF TelegramInv, Typed, Waits, Origins
<1>2. Typed'
    BY <1>1, BeginTyped DEF TelegramInv, Retry, Typed, controlState
<1>3. Linked'
    BY DEF TelegramInv, Retry, Linked, controlState
<1>4. QED
    BY <1>2, <1>3 DEF TelegramInv

LEMMA ReadyInv == ASSUME TelegramInv, NEW h \in hand, Ready(h) PROVE TelegramInv'
<1> DEFINE m == h.msg  c == Target(h.to)  t == NextTurn(m)
<1>1. m \in Messages /\ h.as \in Origins /\ h.to \in Targets /\ c \in Conversations
    BY HomeTargets DEF TelegramInv, Typed
<1>2. /\ hand' = hand \ {h}
      /\ UNCHANGED <<taken, retries, engine, line>>
    BY DEF Ready
<1>3. CASE Tell(m, "paused") /\ UNCHANGED <<waiting, tracked, sender, owner>>
  <2>1. "paused" \in Endings
      BY DEF Endings
  <2>2. told' \in [Messages -> Seq(Endings)]
      BY <1>1, <1>3, <2>1, TellTyped DEF TelegramInv
  <2>3. QED
      BY <1>2, <1>3, <2>2 DEF TelegramInv, Typed, Linked
<1>4. CASE PutAside(m, h.as, h.to) /\ UNCHANGED <<tracked, sender, owner>>
  <2>1. waiting' \in Seq(Waits) /\ told' \in [Messages -> Seq(Endings)]
      BY <1>1, <1>4, PutAsideTyped DEF TelegramInv
  <2>2. QED
      BY <1>2, <1>4, <2>1 DEF TelegramInv, Typed, Linked
<1>5. CASE /\ owner[c] = NoOne /\ Fresh(m) # {}
           /\ owner' = [owner EXCEPT ![c] = t]
           /\ tracked' = tracked \cup {[turn |-> t, conv |-> c, retried |-> h.as = "retry"]}
           /\ sender' = sender \cup {t}
           /\ UNCHANGED <<waiting, told>>
  <2>1. t \in Turns /\ engine[t] = "idle" /\ t \notin sender
      BY <1>1, <1>5, NextTurnFresh
  <2>2. Typed'
    <3>1. [turn |-> t, conv |-> c, retried |-> h.as = "retry"]
              \in [turn : Turns, conv : Conversations, retried : BOOLEAN]
        BY <1>1, <2>1
    <3>2. tracked' \subseteq [turn : Turns, conv : Conversations, retried : BOOLEAN]
        BY <1>5, <3>1 DEF TelegramInv, Typed
    <3>3. sender' \subseteq Turns /\ owner' \in [Conversations -> Turns \cup {Desk, NoOne}]
        BY <1>5, <2>1 DEF TelegramInv, Typed
    <3>4. QED
        BY <1>2, <1>5, <3>2, <3>3 DEF TelegramInv, Typed
  <2>3. line[t] = "none"
      BY <2>1 DEF TelegramInv, Linked
  <2>4. \A r \in tracked : r.conv # c
      BY <1>5, NoTurnOwns DEF TelegramInv, Linked, Typed
  <2>5. \A r \in tracked' : owner'[r.conv] = r.turn
      BY <1>1, <1>5, <2>1, <2>4 DEF TelegramInv, Linked, Typed
  <2>6. \A x \in Turns : x \in sender' \/ engine'[x] = "live" \/ line'[x] # "none" =>
            \E r \in tracked' : r.turn = x
    <3>1. [turn |-> t, conv |-> c, retried |-> h.as = "retry"] \in tracked'
        BY <1>5
    <3>2. QED
        BY <1>2, <1>5, <3>1 DEF TelegramInv, Linked
  <2>7. QED
      BY <1>2, <1>5, <2>1, <2>2, <2>3, <2>5, <2>6 DEF TelegramInv, Linked
<1>6. QED
    BY <1>3, <1>4, <1>5 DEF Ready

LEMMA PrepareFailsInv == ASSUME TelegramInv, NEW h \in hand, PrepareFails(h) PROVE TelegramInv'
<1>1. h.msg \in Messages /\ "failed" \in Endings
    BY DEF TelegramInv, Typed, Endings
<1>2. told' \in [Messages -> Seq(Endings)]
    BY <1>1, TellTyped DEF TelegramInv, PrepareFails
<1>3. QED
    BY <1>2 DEF TelegramInv, PrepareFails, Typed, Linked, controlState
-----------------------------------------------------------------------------
(* A turn of the tracker ends: its record goes, its conversation is free. *)
LEMMA EndsTyped ==
    ASSUME TelegramInv, NEW t \in Turns, Untrack({t}), Leaves({t}),
           sender' \in SUBSET Turns, engine' \in [Turns -> EngineStates], line' \in [Turns -> Lines],
           told' \in [Messages -> Seq(Endings)], retries' \subseteq Waits,
           UNCHANGED <<taken, hand, waiting>>
    PROVE  Typed'
BY LeavesLinked DEF TelegramInv, Typed, Linked

LEMMA EndsLinked ==
    ASSUME TelegramInv, NEW t \in Turns, Untrack({t}), Leaves({t}),
           t \notin sender' /\ engine'[t] = "over" /\ line'[t] = "none",
           sender' \subseteq sender,
           \A x \in Turns : x # t => engine'[x] = engine[x] /\ line'[x] = line[x]
    PROVE  Linked'
<1>1. /\ \A r \in tracked' : owner'[r.conv] = r.turn
      /\ \A r \in tracked : r.turn \notin {t} => r \in tracked'
    BY LeavesLinked DEF TelegramInv, Linked
<1>2. sender \subseteq Turns /\ sender' \subseteq Turns
    BY DEF TelegramInv, Typed
<1>3. QED
    BY <1>1, <1>2 DEF TelegramInv, Linked

LEMMA ToldTyped ==
    ASSUME TelegramInv, NEW t \in Turns, NEW how \in Endings, Tell(t[1], how)
    PROVE  told' \in [Messages -> Seq(Endings)]
<1>1. t[1] \in Messages
    BY DEF Turns
<1>2. QED
    BY <1>1, TellTyped DEF TelegramInv

LEMMA SendInv == ASSUME TelegramInv, NEW t \in Turns, Send(t) PROVE TelegramInv'
<1>1. /\ t \in sender /\ sender' = sender \ {t}
      /\ UNCHANGED <<taken, hand, waiting, retries, line>>
    BY DEF Send
<1>2. engine[t] = "idle" /\ line[t] = "none"
    BY <1>1 DEF TelegramInv, Linked
<1>3. CASE FinishStopped(t) /\ engine' = [engine EXCEPT ![t] = "over"]
  <2>1. told' \in [Messages -> Seq(Endings)]
      BY <1>3, ToldTyped DEF FinishStopped, Endings
  <2>2. engine' \in [Turns -> EngineStates]
      BY <1>3 DEF TelegramInv, Typed, EngineStates
  <2>3. Typed'
      BY <1>1, <1>3, <2>1, <2>2, EndsTyped DEF TelegramInv, Typed, FinishStopped
  <2>4. engine'[t] = "over" /\ \A x \in Turns : x # t => engine'[x] = engine[x]
      BY <1>3 DEF TelegramInv, Typed
  <2>5. Linked'
      BY <1>1, <1>2, <1>3, <2>4, EndsLinked DEF FinishStopped
  <2>6. QED
      BY <2>3, <2>5 DEF TelegramInv
<1>4. CASE engine' = [engine EXCEPT ![t] = "live"] /\ UNCHANGED <<tracked, drains, told, owner, stopping>>
  <2>1. Typed'
      BY <1>1, <1>4 DEF TelegramInv, Typed, EngineStates
  <2>2. Linked'
      BY <1>1, <1>2, <1>4 DEF TelegramInv, Typed, Linked
  <2>3. QED
      BY <2>1, <2>2 DEF TelegramInv
<1>5. QED
    BY <1>3, <1>4 DEF Send

LEMMA SendFailsInv == ASSUME TelegramInv, NEW t \in Turns, SendFails(t) PROVE TelegramInv'
<1>1. /\ t \in sender /\ sender' = sender \ {t}
      /\ engine' = [engine EXCEPT ![t] = "over"]
      /\ Untrack({t}) /\ Leaves({t})
      /\ UNCHANGED <<taken, hand, waiting, retries, line>>
    BY DEF SendFails
<1>2. engine[t] = "idle" /\ line[t] = "none"
    BY <1>1 DEF TelegramInv, Linked
<1>3. told' \in [Messages -> Seq(Endings)]
    BY ToldTyped DEF SendFails, Endings
<1>4. engine' \in [Turns -> EngineStates] /\ engine'[t] = "over"
      /\ \A x \in Turns : x # t => engine'[x] = engine[x]
    BY <1>1 DEF TelegramInv, Typed, EngineStates
<1>5. Typed'
    BY <1>1, <1>3, <1>4, EndsTyped DEF TelegramInv, Typed
<1>6. Linked'
    BY <1>1, <1>2, <1>4, EndsLinked
<1>7. QED
    BY <1>5, <1>6 DEF TelegramInv

LEMMA EngineEndsInv == ASSUME TelegramInv, NEW t \in Turns, EngineEnds(t) PROVE TelegramInv'
<1>1. PICK how \in Lines \ {"none"} : line' = [line EXCEPT ![t] = how]
    BY DEF EngineEnds
<1>2. /\ engine[t] = "live" /\ engine' = [engine EXCEPT ![t] = "over"]
      /\ UNCHANGED <<taken, hand, waiting, tracked, sender, retries, told, owner>>
    BY DEF EngineEnds, controlState
<1>3. Typed'
    BY <1>1, <1>2 DEF TelegramInv, Typed, EngineStates
<1>4. Linked'
    BY <1>1, <1>2 DEF TelegramInv, Typed, Linked
<1>5. QED
    BY <1>3, <1>4 DEF TelegramInv

LEMMA SidecarDiesInv == ASSUME TelegramInv, SidecarDies PROVE TelegramInv'
<1>1. /\ engine' = [t \in Turns |-> IF engine[t] = "live" THEN "over" ELSE engine[t]]
      /\ UNCHANGED <<taken, hand, waiting, tracked, sender, retries, told, owner, line>>
    BY DEF SidecarDies, controlState
<1>2. Typed'
    BY <1>1 DEF TelegramInv, Typed, EngineStates
<1>3. Linked'
    BY <1>1 DEF TelegramInv, Typed, Linked
<1>4. QED
    BY <1>2, <1>3 DEF TelegramInv

(* An event is read: its turn had ended before, and nothing of it was being sent. *)
LEMMA HeardOver ==
    ASSUME TelegramInv, NEW t \in Turns, NEW how \in Lines, how # "none", Heard(t, how)
    PROVE  /\ t \notin sender /\ engine[t] = "over" /\ line' \in [Turns -> Lines]
           /\ line'[t] = "none" /\ \A x \in Turns : x # t => line'[x] = line[x]
BY DEF TelegramInv, Typed, Linked, Heard, Lines

LEMMA HeardInv ==
    ASSUME TelegramInv, NEW t \in Turns, NEW how \in Lines, how # "none", Heard(t, how),
           Untrack({t}), Leaves({t}), told' \in [Messages -> Seq(Endings)], retries' \subseteq Waits,
           UNCHANGED <<taken, hand, waiting, sender, engine>>
    PROVE  TelegramInv'
<1>1. /\ t \notin sender /\ engine[t] = "over" /\ line' \in [Turns -> Lines]
      /\ line'[t] = "none" /\ \A x \in Turns : x # t => line'[x] = line[x]
    BY HeardOver
<1>2. Typed'
    BY <1>1, EndsTyped DEF TelegramInv, Typed
<1>3. Linked'
    BY <1>1, EndsLinked
<1>4. QED
    BY <1>2, <1>3 DEF TelegramInv

LEMMA HearStoppedInv == ASSUME TelegramInv, NEW t \in Turns, HearStopped(t) PROVE TelegramInv'
<1>1. told' \in [Messages -> Seq(Endings)] /\ retries' \subseteq Waits
    BY ToldTyped DEF HearStopped, FinishStopped, Endings, TelegramInv, Typed
<1>2. QED
    BY <1>1, HeardInv DEF HearStopped, FinishStopped, Lines

LEMMA HearDoneInv == ASSUME TelegramInv, NEW t \in Turns, HearDone(t) PROVE TelegramInv'
<1>1. told' \in [Messages -> Seq(Endings)] /\ retries' \subseteq Waits
    BY ToldTyped DEF HearDone, Endings, TelegramInv, Typed
<1>2. QED
    BY <1>1, HeardInv DEF HearDone, Lines

LEMMA HearErrorInv == ASSUME TelegramInv, NEW t \in Turns, HearError(t) PROVE TelegramInv'
<1>1. Untrack({t}) /\ Leaves({t}) /\ UNCHANGED <<taken, hand, waiting, sender, engine>>
    BY DEF HearError
<1>2. CASE /\ Heard(t, "missing")
           /\ retries' = retries \cup {[msg |-> t[1], to |-> Unrouted]}
           /\ UNCHANGED told
  <2>1. [msg |-> t[1], to |-> Unrouted] \in Waits
      BY DEF Turns, Waits, Targets
  <2>2. told' \in [Messages -> Seq(Endings)] /\ retries' \subseteq Waits
      BY <1>2, <2>1 DEF TelegramInv, Typed
  <2>3. QED
      BY <1>1, <1>2, <2>2, HeardInv DEF Lines
<1>3. CASE /\ \E how \in {"error", "missing"} : Heard(t, how)
           /\ Tell(t[1], "failed")
           /\ UNCHANGED retries
  <2>1. told' \in [Messages -> Seq(Endings)] /\ retries' \subseteq Waits
      BY <1>3, ToldTyped DEF Endings, TelegramInv, Typed
  <2>2. QED
      BY <1>1, <1>3, <2>1, HeardInv DEF Lines
<1>4. QED
    BY <1>2, <1>3 DEF HearError

LEMMA DrainInv == ASSUME TelegramInv, Drain PROVE TelegramInv'
<1>1. UNCHANGED <<taken, tracked, sender, retries, told, owner, engine, line>>
    BY DEF Drain, controlState
<1>2. waiting' \in Seq(Waits) /\ hand' \subseteq [msg : Messages, as : Origins, to : Targets]
  <2>1. CASE UNCHANGED <<waiting, hand>>
      BY <2>1 DEF TelegramInv, Typed
  <2>2. ASSUME NEW i \in DOMAIN waiting, waiting' = RemoveAt(waiting, i),
               hand' = hand \cup {[msg |-> waiting[i].msg, as |-> "queue", to |-> waiting[i].to]}
        PROVE  waiting' \in Seq(Waits) /\ hand' \subseteq [msg : Messages, as : Origins, to : Targets]
    <3>1. waiting[i] \in Waits
        BY DEF TelegramInv, Typed
    <3>2. [msg |-> waiting[i].msg, as |-> "queue", to |-> waiting[i].to]
              \in [msg : Messages, as : Origins, to : Targets]
        BY <3>1 DEF Waits, Origins
    <3>3. QED
        BY <2>2, <3>2, RemoveTyped DEF TelegramInv, Typed
  <2>3. QED
      BY <2>1, <2>2 DEF Drain
<1>3. QED
    BY <1>1, <1>2 DEF TelegramInv, Typed, Linked

LEMMA CheckInv == ASSUME TelegramInv, Check PROVE TelegramInv'
<1>1. UNCHANGED <<taken, hand, waiting, sender, retries, engine, line>>
    BY DEF Check
<1>2. /\ Stale \in SUBSET Turns /\ Untrack(Stale) /\ Leaves(Stale)
      /\ \A t \in Stale : t \notin sender /\ line[t] = "none" /\ engine[t] = "over"
    BY DEF Check, GiveUp, Stale, Awaited, TelegramInv, Typed
<1>3. /\ tracked' \subseteq tracked
      /\ owner' \in [Conversations -> Turns \cup {Desk, NoOne}]
      /\ \A r \in tracked' : owner'[r.conv] = r.turn
      /\ \A r \in tracked : r.turn \notin Stale => r \in tracked'
    BY <1>2, LeavesLinked DEF TelegramInv, Linked
<1>4. told' \in [Messages -> Seq(Endings)]
  <2>1. \A m \in Messages : Append(told[m], "silent") \in Seq(Endings)
      BY AppendProperties DEF TelegramInv, Typed, Endings
  <2>2. QED
      BY <2>1 DEF Check, GiveUp, TelegramInv, Typed
<1>5. Typed'
    BY <1>1, <1>3, <1>4 DEF TelegramInv, Typed
<1>6. Linked'
    BY <1>1, <1>2, <1>3 DEF TelegramInv, Typed, Linked
<1>7. QED
    BY <1>5, <1>6 DEF TelegramInv

LEMMA DeskSendsInv == ASSUME TelegramInv, NEW c \in Conversations, DeskSends(c) PROVE TelegramInv'
<1>1. /\ owner[c] = NoOne /\ owner' = [owner EXCEPT ![c] = Desk]
      /\ UNCHANGED <<taken, hand, waiting, tracked, sender, retries, told, engine, line>>
    BY DEF DeskSends
<1>2. Typed'
    BY <1>1 DEF TelegramInv, Typed
<1>3. Linked'
    BY <1>1, NoTurnOwns DEF TelegramInv, Typed, Linked
<1>4. QED
    BY <1>2, <1>3 DEF TelegramInv

LEMMA DeskEndsInv == ASSUME TelegramInv, NEW c \in Conversations, DeskEnds(c) PROVE TelegramInv'
<1>1. /\ owner' = [x \in Conversations |-> IF owner[x] \in {Desk} THEN NoOne ELSE owner[x]]
      /\ UNCHANGED <<taken, hand, waiting, tracked, sender, retries, told, engine, line>>
    BY DEF DeskEnds, Leaves
<1>2. Typed'
    BY <1>1 DEF TelegramInv, Typed
<1>3. Linked'
    BY <1>1, NoTurnOwns DEF TelegramInv, Typed, Linked
<1>4. QED
    BY <1>2, <1>3 DEF TelegramInv

LEMMA StopInv == ASSUME TelegramInv, NEW c \in Conversations, Stop(c) PROVE TelegramInv'
BY DEF Stop, TelegramInv, Typed, Linked

LEMMA NextInv == TelegramInv /\ [TelegramNext]_telegramVars => TelegramInv'
<1> SUFFICES ASSUME TelegramInv, [TelegramNext]_telegramVars PROVE TelegramInv'
    OBVIOUS
<1>1. CASE \E m \in Messages : Take(m) \/ Activation(m)
    BY <1>1, TakeInv, ReadyInv, PrepareFailsInv DEF Activation
<1>2. CASE \E t \in Turns : TurnStep(t) \/ SendFails(t)
    BY <1>2, SendInv, EngineEndsInv, HearStoppedInv, HearDoneInv, HearErrorInv, SendFailsInv
    DEF TurnStep
<1>3. CASE \E r \in retries : Retry(r)
    BY <1>3, RetryInv
<1>4. CASE Drain \/ Check \/ SidecarDies
    BY <1>4, DrainInv, CheckInv, SidecarDiesInv
<1>5. CASE \E c \in Conversations : DeskSends(c) \/ DeskEnds(c) \/ Stop(c)
    BY <1>5, DeskSendsInv, DeskEndsInv, StopInv
<1>6. CASE UNCHANGED telegramVars
    BY <1>6 DEF telegramVars, controlState, TelegramInv, Typed, Linked
<1>7. QED
    BY <1>1, <1>2, <1>3, <1>4, <1>5, <1>6 DEF TelegramNext

THEOREM TelegramInvariant == TelegramSpec => []TelegramInv
BY InitInv, NextInv, PTL DEF TelegramSpec

(* The rest of the state: timers of the queue, and what the user did. *)
Timed ==
    /\ drains \in 0..MaxDrains
    /\ stopping \subseteq Conversations /\ paused \subseteq Conversations

LEMMA TimedSteps ==
    ASSUME Timed, TelegramNext
    PROVE  Timed'
<1>1. DrainSoon \/ drains' = drains \/ (drains > 0 /\ drains' = drains - 1)
    BY DEF TelegramNext, Take, Activation, Ready, PrepareFails, TurnStep, Send, FinishStopped,
           SendFails, EngineEnds, HearStopped, HearDone, HearError, Retry, Drain, Check,
           SidecarDies, DeskSends, DeskEnds, Stop, controlState
<1>2. drains' \in 0..MaxDrains
    BY <1>1, DrainsAssumption DEF DrainSoon, Timed
<1>3. stopping' \subseteq stopping \/ \E c \in Conversations : stopping' = stopping \cup {c}
    BY DEF TelegramNext, Take, Activation, Ready, PrepareFails, TurnStep, Send, FinishStopped,
           SendFails, EngineEnds, HearStopped, HearDone, HearError, Retry, Drain, Check, GiveUp,
           SidecarDies, DeskSends, DeskEnds, Stop, Leaves, controlState
<1>4. \/ paused' \subseteq paused
      \/ \E t \in Turns : paused' = paused \cup Held(t)
      \/ \E c \in Conversations : paused' = paused \cup {c}
    BY DEF TelegramNext, Take, Activation, Ready, PrepareFails, TurnStep, Send, SendFails,
           EngineEnds, HearStopped, HearDone, HearError, Retry, Drain, Check, SidecarDies,
           DeskSends, DeskEnds, Stop, controlState
<1>5. paused' \subseteq Conversations /\ stopping' \subseteq Conversations
    BY <1>3, <1>4 DEF Timed, Held
<1>6. QED
    BY <1>2, <1>5 DEF Timed

(* Every variable of the turns of Telegram keeps its type: what is prepared,
   queued or retried are messages for a conversation, and owners are turns. *)
THEOREM TelegramTypes == TelegramSpec => []TelegramTypeOK
<1>1. TelegramInit => Timed
    BY DrainsAssumption DEF TelegramInit, Timed
<1>2. Timed /\ [TelegramNext]_telegramVars => Timed'
    BY TimedSteps DEF telegramVars, Timed
<1>3. TelegramInv /\ Timed => TelegramTypeOK
    BY DEF TelegramInv, Typed, Waits, Timed, TelegramTypeOK
<1>4. QED
    BY <1>1, <1>2, <1>3, TelegramInvariant, PTL DEF TelegramSpec

(* A turn of Telegram that the sidecar runs owns the conversation it is recorded
   in, whatever else happens to the conversation (src/telegramBridge.ts,
   TelegramTurnTracker; src/App.tsx, sendTelegramTurn). *)
THEOREM LiveTurnsAreOwned == TelegramSpec => []RunsOwned
<1>1. TelegramInv => RunsOwned
    BY DEF TelegramInv, Typed, Linked, RunsOwned, Accepted, Held
<1>2. QED
    BY <1>1, TelegramInvariant, PTL
-----------------------------------------------------------------------------
(* The places of a message, each empty or with one occurrence of it. *)
NoHand(m) == \A h \in hand : h.msg # m
OneHand(m) == \E h \in hand : h.msg = m /\ \A g \in hand : g.msg = m => g = h
NoWait(m) == \A i \in DOMAIN waiting : waiting[i].msg # m
OneWait(m) == \E i \in DOMAIN waiting :
                  waiting[i].msg = m /\ \A j \in DOMAIN waiting : waiting[j].msg = m => j = i
NoRetry(m) == \A r \in retries : r.msg # m
OneRetry(m) == \E r \in retries : r.msg = m /\ \A e \in retries : e.msg = m => e = r
NoTurn(m) == \A r \in tracked : r.turn[1] # m
OneTurn(m) == \E r \in tracked : r.turn[1] = m /\ \A e \in tracked : e.turn[1] = m => e = r
NoEnd(m) == told[m] = <<>>
OneEnd(m) == Len(told[m]) = 1

Absent(m) == NoHand(m) /\ NoWait(m) /\ NoRetry(m) /\ NoTurn(m) /\ NoEnd(m)
Prepared(m) == OneHand(m) /\ NoWait(m) /\ NoRetry(m) /\ NoTurn(m) /\ NoEnd(m)
Queued(m) == NoHand(m) /\ OneWait(m) /\ NoRetry(m) /\ NoTurn(m) /\ NoEnd(m)
Due(m) == NoHand(m) /\ NoWait(m) /\ OneRetry(m) /\ NoTurn(m) /\ NoEnd(m)
Running(m) == NoHand(m) /\ NoWait(m) /\ NoRetry(m) /\ OneTurn(m) /\ NoEnd(m)
Ended(m) == NoHand(m) /\ NoWait(m) /\ NoRetry(m) /\ NoTurn(m) /\ OneEnd(m)
Present(m) == Prepared(m) \/ Queued(m) \/ Due(m) \/ Running(m) \/ Ended(m)

Conserved == \A m \in Messages : (m \in taken => Present(m)) /\ (m \notin taken => Absent(m))

(* What a step leaves to a message. *)
HandKept(m) == (NoHand(m) => NoHand(m)') /\ (OneHand(m) => OneHand(m)')
WaitKept(m) == (NoWait(m) => NoWait(m)') /\ (OneWait(m) => OneWait(m)')
RetryKept(m) == (NoRetry(m) => NoRetry(m)') /\ (OneRetry(m) => OneRetry(m)')
TurnKept(m) == (NoTurn(m) => NoTurn(m)') /\ (OneTurn(m) => OneTurn(m)')
EndKept(m) == (NoEnd(m) => NoEnd(m)') /\ (OneEnd(m) => OneEnd(m)')
Unmoved(m) == HandKept(m) /\ WaitKept(m) /\ RetryKept(m) /\ TurnKept(m) /\ EndKept(m)

LEMMA KeptStays ==
    ASSUME NEW m, Unmoved(m)
    PROVE  (Present(m) => Present(m)') /\ (Absent(m) => Absent(m)')
BY DEF Unmoved, HandKept, WaitKept, RetryKept, TurnKept, EndKept, Present, Absent, Prepared, Queued,
       Due, Running, Ended

LEMMA SameHand == ASSUME NEW m, UNCHANGED hand PROVE HandKept(m)
BY DEF HandKept, NoHand, OneHand
LEMMA SameWait == ASSUME NEW m, UNCHANGED waiting PROVE WaitKept(m)
BY DEF WaitKept, NoWait, OneWait
LEMMA SameRetry == ASSUME NEW m, UNCHANGED retries PROVE RetryKept(m)
BY DEF RetryKept, NoRetry, OneRetry
LEMMA SameTurn == ASSUME NEW m, UNCHANGED tracked PROVE TurnKept(m)
BY DEF TurnKept, NoTurn, OneTurn
LEMMA SameEnd == ASSUME NEW m, UNCHANGED told PROVE EndKept(m)
BY DEF EndKept, NoEnd, OneEnd
-----------------------------------------------------------------------------
(* A message enters or leaves a place. *)
LEMMA HandLost ==
    ASSUME NEW h \in hand, OneHand(h.msg), hand' = hand \ {h}
    PROVE  NoHand(h.msg)' /\ \A m : m # h.msg => HandKept(m)
BY DEF NoHand, OneHand, HandKept

LEMMA HandGained ==
    ASSUME NEW h, NoHand(h.msg), hand' = hand \cup {h}
    PROVE  OneHand(h.msg)' /\ \A m : m # h.msg => HandKept(m)
BY DEF NoHand, OneHand, HandKept

LEMMA RetryLost ==
    ASSUME NEW r \in retries, OneRetry(r.msg), retries' = retries \ {r}
    PROVE  NoRetry(r.msg)' /\ \A m : m # r.msg => RetryKept(m)
BY DEF NoRetry, OneRetry, RetryKept

LEMMA RetryGained ==
    ASSUME NEW r, NoRetry(r.msg), retries' = retries \cup {r}
    PROVE  OneRetry(r.msg)' /\ \A m : m # r.msg => RetryKept(m)
BY DEF NoRetry, OneRetry, RetryKept

LEMMA TurnGained ==
    ASSUME NEW r, NoTurn(r.turn[1]), tracked' = tracked \cup {r}
    PROVE  OneTurn(r.turn[1])' /\ \A m : m # r.turn[1] => TurnKept(m)
BY DEF NoTurn, OneTurn, TurnKept

(* The turns of T leave the tracker: their messages have no other. *)
LEMMA TurnLost ==
    ASSUME NEW T, Untrack(T), NEW m
    PROVE  /\ (OneTurn(m) /\ \E r \in tracked : r.turn[1] = m /\ r.turn \in T) => NoTurn(m)'
           /\ (\A t \in T : t[1] # m) => TurnKept(m)
BY DEF Untrack, NoTurn, OneTurn, TurnKept

LEMMA EndGained ==
    ASSUME Typed, NEW m \in Messages, NEW how \in Endings, Tell(m, how), NoEnd(m)
    PROVE  OneEnd(m)' /\ \A n \in Messages : n # m => EndKept(n)
<1>1. told'[m] = Append(<<>>, how) /\ \A n \in Messages : n # m => told'[n] = told[n]
    BY DEF Tell, Typed, NoEnd
<1>2. Len(told'[m]) = 1
    BY <1>1
<1>3. QED
    BY <1>1, <1>2 DEF OneEnd, NoEnd, EndKept

LEMMA WaitAppended ==
    ASSUME waiting \in Seq(Waits), NEW q \in Waits, NoWait(q.msg), waiting' = Append(waiting, q)
    PROVE  OneWait(q.msg)' /\ \A m : m # q.msg => WaitKept(m)
<1>1. /\ Len(waiting') = Len(waiting) + 1 /\ waiting' \in Seq(Waits)
      /\ \A i \in 1..Len(waiting) : waiting'[i] = waiting[i]
      /\ waiting'[Len(waiting) + 1] = q
    BY AppendProperties
<1>2. DOMAIN waiting = 1..Len(waiting) /\ DOMAIN waiting' = 1..(Len(waiting) + 1) /\ Len(waiting) \in Nat
    BY <1>1, LenProperties
<1>3. OneWait(q.msg)'
    BY <1>1, <1>2 DEF OneWait, NoWait
<1>4. ASSUME NEW m, m # q.msg PROVE WaitKept(m)
    BY <1>1, <1>2, <1>4 DEF OneWait, NoWait, WaitKept
<1>5. QED
    BY <1>3, <1>4

LEMMA WaitPutFirst ==
    ASSUME waiting \in Seq(Waits), NEW q \in Waits, NoWait(q.msg), waiting' = <<q>> \o waiting
    PROVE  OneWait(q.msg)' /\ \A m : m # q.msg => WaitKept(m)
<1>1. /\ Len(waiting') = Len(waiting) + 1 /\ waiting' \in Seq(Waits) /\ waiting'[1] = q
      /\ \A i \in 1..Len(waiting) : waiting'[i + 1] = waiting[i]
  <2>1. <<q>> \in Seq(Waits) /\ Len(<<q>>) = 1 /\ <<q>>[1] = q /\ Len(waiting) \in Nat
      OBVIOUS
  <2>2. /\ waiting' \in Seq(Waits) /\ Len(waiting') = 1 + Len(waiting)
        /\ \A i \in 1..(1 + Len(waiting)) :
               waiting'[i] = IF i <= 1 THEN <<q>>[i] ELSE waiting[i - 1]
      BY <2>1, ConcatProperties
  <2>3. QED
      BY <2>1, <2>2
<1>2. DOMAIN waiting = 1..Len(waiting) /\ DOMAIN waiting' = 1..(Len(waiting) + 1) /\ Len(waiting) \in Nat
    BY <1>1, LenProperties
<1>3. \A j \in DOMAIN waiting' : j = 1 \/ (j - 1 \in DOMAIN waiting /\ waiting'[j] = waiting[j - 1])
  <2>1. ASSUME NEW j \in DOMAIN waiting', j # 1
        PROVE  j - 1 \in DOMAIN waiting /\ waiting'[j] = waiting[j - 1]
    <3>1. j - 1 \in 1..Len(waiting) /\ (j - 1) + 1 = j
        BY <1>2, <2>1
    <3>2. QED
        BY <1>1, <1>2, <3>1
  <2>2. QED
      BY <2>1
<1>4. OneWait(q.msg)'
    BY <1>1, <1>2, <1>3 DEF OneWait, NoWait
<1>5. ASSUME NEW m, m # q.msg PROVE WaitKept(m)
  <2>1. ASSUME NoWait(m) PROVE NoWait(m)'
      BY <1>1, <1>2, <1>3, <1>5, <2>1 DEF NoWait
  <2>2. ASSUME OneWait(m) PROVE OneWait(m)'
    <3>1. PICK i \in DOMAIN waiting :
              waiting[i].msg = m /\ \A j \in DOMAIN waiting : waiting[j].msg = m => j = i
        BY <2>2 DEF OneWait
    <3>2. i + 1 \in DOMAIN waiting' /\ waiting'[i + 1].msg = m
        BY <1>1, <1>2, <3>1
    <3>3. ASSUME NEW j \in DOMAIN waiting', waiting'[j].msg = m PROVE j = i + 1
        BY <1>1, <1>2, <1>3, <1>5, <3>1, <3>3
    <3>4. QED
        BY <3>2, <3>3 DEF OneWait
  <2>3. QED
      BY <2>1, <2>2 DEF WaitKept
<1>6. QED
    BY <1>4, <1>5

LEMMA WaitRemoved ==
    ASSUME waiting \in Seq(Waits), NEW k \in DOMAIN waiting, NEW w, w = waiting[k].msg,
           OneWait(w), waiting' = RemoveAt(waiting, k)
    PROVE  NoWait(w)' /\ \A m : m # w => WaitKept(m)
<1> DEFINE n == Len(waiting)
<1>1. n \in Nat /\ DOMAIN waiting = 1..n /\ k \in 1..n
    BY LenProperties
<1>2. /\ DOMAIN waiting' = 1..(n - 1)
      /\ \A i \in 1..(n - 1) : waiting'[i] = IF i < k THEN waiting[i] ELSE waiting[i + 1]
    BY <1>1, RemovedOnes
<1>3. \A i \in DOMAIN waiting' : \E j \in DOMAIN waiting :
          j # k /\ waiting'[i] = waiting[j] /\ j = IF i < k THEN i ELSE i + 1
    BY <1>1, <1>2
<1>4. \A j \in DOMAIN waiting : j # k => \E i \in DOMAIN waiting' :
          waiting'[i] = waiting[j] /\ j = IF i < k THEN i ELSE i + 1
  <2>1. ASSUME NEW j \in DOMAIN waiting, j # k
        PROVE  \E i \in DOMAIN waiting' : waiting'[i] = waiting[j] /\ j = IF i < k THEN i ELSE i + 1
    <3>1. CASE j < k
        BY <1>1, <1>2, <2>1, <3>1
    <3>2. CASE ~(j < k)
      <4>1. j - 1 \in 1..(n - 1) /\ ~(j - 1 < k) /\ (j - 1) + 1 = j
          BY <1>1, <2>1, <3>2
      <4>2. QED
          BY <1>2, <4>1
    <3>3. QED
        BY <3>1, <3>2
  <2>2. QED
      BY <2>1
<1>5. NoWait(w)'
  <2>1. \A j \in DOMAIN waiting : waiting[j].msg = w => j = k
      BY DEF OneWait
  <2>2. ASSUME NEW i \in DOMAIN waiting' PROVE waiting'[i].msg # w
      BY <1>3, <2>1
  <2>3. QED
      BY <2>2 DEF NoWait
<1>6. ASSUME NEW m, m # w PROVE WaitKept(m)
  <2>1. ASSUME NoWait(m) PROVE NoWait(m)'
      BY <1>3, <2>1 DEF NoWait
  <2>2. ASSUME OneWait(m) PROVE OneWait(m)'
    <3>1. PICK j \in DOMAIN waiting :
              waiting[j].msg = m /\ \A e \in DOMAIN waiting : waiting[e].msg = m => e = j
        BY <2>2 DEF OneWait
    <3>2. PICK i \in DOMAIN waiting' : waiting'[i] = waiting[j] /\ j = IF i < k THEN i ELSE i + 1
        BY <1>4, <1>6, <3>1
    <3>3. ASSUME NEW x \in DOMAIN waiting', waiting'[x].msg = m PROVE x = i
      <4>1. j = IF x < k THEN x ELSE x + 1
          BY <1>3, <3>1, <3>3
      <4>2. x \in Nat /\ i \in Nat /\ k \in Nat
          BY <1>1, <1>2
      <4>3. QED
          BY <3>2, <4>1, <4>2
    <3>4. QED
        BY <3>1, <3>2, <3>3 DEF OneWait
  <2>3. QED
      BY <2>1, <2>2 DEF WaitKept
<1>7. QED
    BY <1>5, <1>6
-----------------------------------------------------------------------------
(* Where a message is found is the only place it is in. *)
LEMMA Found ==
    ASSUME TelegramInv, Conserved
    PROVE  /\ \A h \in hand : h.msg \in Messages /\ h.msg \in taken /\ Prepared(h.msg)
           /\ \A i \in DOMAIN waiting : waiting[i].msg \in Messages /\ waiting[i].msg \in taken
                                        /\ Queued(waiting[i].msg)
           /\ \A r \in retries : r.msg \in Messages /\ r.msg \in taken /\ Due(r.msg)
           /\ \A r \in tracked : r.turn[1] \in Messages /\ r.turn[1] \in taken /\ Running(r.turn[1])
<1>1. /\ \A h \in hand : h.msg \in Messages
      /\ \A i \in DOMAIN waiting : waiting[i].msg \in Messages
      /\ \A r \in retries : r.msg \in Messages
      /\ \A r \in tracked : r.turn[1] \in Messages
  <2>1. \A i \in DOMAIN waiting : waiting[i] \in Waits
      BY DEF TelegramInv, Typed
  <2>2. \A r \in tracked : r.turn \in Turns
      BY DEF TelegramInv, Typed
  <2>3. QED
      BY <2>1, <2>2 DEF TelegramInv, Typed, Waits, Turns
<1>2. ASSUME NEW h \in hand PROVE h.msg \in taken /\ Prepared(h.msg)
    BY <1>1 DEF Conserved, Present, Absent, Prepared, Queued, Due, Running, Ended, NoHand
<1>3. ASSUME NEW i \in DOMAIN waiting PROVE waiting[i].msg \in taken /\ Queued(waiting[i].msg)
    BY <1>1 DEF Conserved, Present, Absent, Prepared, Queued, Due, Running, Ended, NoWait
<1>4. ASSUME NEW r \in retries PROVE r.msg \in taken /\ Due(r.msg)
    BY <1>1 DEF Conserved, Present, Absent, Prepared, Queued, Due, Running, Ended, NoRetry
<1>5. ASSUME NEW r \in tracked PROVE r.turn[1] \in taken /\ Running(r.turn[1])
    BY <1>1 DEF Conserved, Present, Absent, Prepared, Queued, Due, Running, Ended, NoTurn
<1>6. QED
    BY <1>1, <1>2, <1>3, <1>4, <1>5

(* One message moves and ends up in some place; the others keep theirs. *)
LEMMA OneMoves ==
    ASSUME Conserved, NEW m \in Messages, Present(m)', taken' = taken \cup {m},
           \A n \in Messages : n # m => Unmoved(n)
    PROVE  Conserved'
<1>1. ASSUME NEW n \in Messages, n # m
      PROVE  (Present(n) => Present(n)') /\ (Absent(n) => Absent(n)')
    BY <1>1, KeptStays
<1>2. QED
    BY <1>1 DEF Conserved

LEMMA NoneMoves ==
    ASSUME Conserved, UNCHANGED <<taken, hand, waiting, retries, tracked, told>>
    PROVE  Conserved'
<1>1. \A n \in Messages : Unmoved(n)
    BY SameHand, SameWait, SameRetry, SameTurn, SameEnd DEF Unmoved
<1>2. ASSUME NEW n \in Messages PROVE (Present(n) => Present(n)') /\ (Absent(n) => Absent(n)')
    BY <1>1, KeptStays
<1>3. QED
    BY <1>2 DEF Conserved

LEMMA PutAsideMoves ==
    ASSUME Typed, NEW m \in Messages, NEW as \in Origins, NEW to \in Targets, PutAside(m, as, to),
           NoWait(m), NoEnd(m)
    PROVE  /\ (OneWait(m)' /\ NoEnd(m)') \/ (NoWait(m)' /\ OneEnd(m)')
           /\ \A n \in Messages : n # m => WaitKept(n) /\ EndKept(n)
<1> DEFINE q == [msg |-> m, to |-> to]
<1>1. q \in Waits /\ q.msg = m /\ waiting \in Seq(Waits)
    BY DEF Waits, Typed
<1>2. CASE waiting' = Append(waiting, q) /\ UNCHANGED told
    BY <1>1, <1>2, WaitAppended, SameEnd DEF EndKept
<1>3. CASE waiting' = <<q>> \o waiting /\ UNCHANGED told
    BY <1>1, <1>3, WaitPutFirst, SameEnd DEF EndKept
<1>4. CASE Tell(m, "full") /\ UNCHANGED waiting
  <2>1. "full" \in Endings
      BY DEF Endings
  <2>2. QED
      BY <1>4, <2>1, EndGained, SameWait DEF WaitKept
<1>5. QED
    BY <1>2, <1>3, <1>4 DEF PutAside, Enqueue

LEMMA BeginMoves ==
    ASSUME Typed, NEW m \in Messages, NEW as \in Origins, NEW to \in Targets, Begin(m, as, to, hand),
           NoHand(m), NoWait(m), NoEnd(m)
    PROVE  /\ \/ OneHand(m)' /\ NoWait(m)' /\ NoEnd(m)'
              \/ NoHand(m)' /\ OneWait(m)' /\ NoEnd(m)'
              \/ NoHand(m)' /\ NoWait(m)' /\ OneEnd(m)'
           /\ \A n \in Messages : n # m => HandKept(n) /\ WaitKept(n) /\ EndKept(n)
<1>1. CASE PutAside(m, as, to) /\ hand' = hand
    BY <1>1, PutAsideMoves, SameHand DEF HandKept
<1>2. CASE hand' = hand \cup {[msg |-> m, as |-> as, to |-> to]} /\ UNCHANGED <<waiting, told>>
  <2> DEFINE h == [msg |-> m, as |-> as, to |-> to]
  <2>1. h.msg = m
      OBVIOUS
  <2>2. OneHand(m)' /\ \A n : n # m => HandKept(n)
      BY <1>2, <2>1, HandGained
  <2>3. QED
      BY <1>2, <2>2, SameWait, SameEnd DEF WaitKept, EndKept
<1>3. QED
    BY <1>1, <1>2 DEF Begin

LEMMA TakeMoves ==
    ASSUME TelegramInv, Conserved, NEW m \in Messages, Take(m) PROVE Conserved'
<1>1. Absent(m)
    BY DEF Conserved, Take
<1>2. To(m) \in Targets /\ "new" \in Origins
    BY RoutesAssumption DEF Targets, Origins
<1>3. taken' = taken \cup {m} /\ UNCHANGED <<retries, tracked>>
    BY DEF Take
<1>4. /\ \/ OneHand(m)' /\ NoWait(m)' /\ NoEnd(m)'
         \/ NoHand(m)' /\ OneWait(m)' /\ NoEnd(m)'
         \/ NoHand(m)' /\ NoWait(m)' /\ OneEnd(m)'
      /\ \A n \in Messages : n # m => HandKept(n) /\ WaitKept(n) /\ EndKept(n)
    BY <1>1, <1>2, BeginMoves DEF Take, Absent, TelegramInv
<1>5. NoRetry(m)' /\ NoTurn(m)'
    BY <1>1, <1>3, SameRetry, SameTurn DEF Absent, RetryKept, TurnKept
<1>6. Present(m)'
    BY <1>4, <1>5 DEF Present, Prepared, Queued, Ended
<1>7. \A n \in Messages : n # m => Unmoved(n)
    BY <1>3, <1>4, SameRetry, SameTurn DEF Unmoved
<1>8. QED
    BY <1>3, <1>6, <1>7, OneMoves

LEMMA RetryMoves ==
    ASSUME TelegramInv, Conserved, NEW r \in retries, Retry(r) PROVE Conserved'
<1> DEFINE m == r.msg
<1>1. m \in Messages /\ m \in taken /\ Due(m)
    BY Found
<1>2. r.to \in Targets /\ "retry" \in Origins
    BY DEF TelegramInv, Typed, Waits, Origins
<1>3. /\ taken' = taken \cup {m} /\ UNCHANGED tracked /\ retries' = retries \ {r}
      /\ Begin(m, "retry", r.to, hand)
    BY <1>1 DEF Retry
<1>4. NoRetry(m)' /\ \A n : n # m => RetryKept(n)
    BY <1>1, <1>3, RetryLost DEF Due
<1>5. /\ \/ OneHand(m)' /\ NoWait(m)' /\ NoEnd(m)'
         \/ NoHand(m)' /\ OneWait(m)' /\ NoEnd(m)'
         \/ NoHand(m)' /\ NoWait(m)' /\ OneEnd(m)'
      /\ \A n \in Messages : n # m => HandKept(n) /\ WaitKept(n) /\ EndKept(n)
    BY <1>1, <1>2, <1>3, BeginMoves DEF Due, TelegramInv
<1>6. NoTurn(m)'
    BY <1>1, <1>3, SameTurn DEF Due, TurnKept
<1>7. Present(m)'
    BY <1>4, <1>5, <1>6 DEF Present, Prepared, Queued, Ended
<1>8. \A n \in Messages : n # m => Unmoved(n)
    BY <1>3, <1>4, <1>5, SameTurn DEF Unmoved
<1>9. QED
    BY <1>1, <1>3, <1>7, <1>8, OneMoves

LEMMA ReadyMoves ==
    ASSUME TelegramInv, Conserved, NEW h \in hand, Ready(h) PROVE Conserved'
<1> DEFINE m == h.msg  c == Target(h.to)  t == NextTurn(m)
<1>1. m \in Messages /\ m \in taken /\ Prepared(m)
    BY Found
<1>2. h.as \in Origins /\ h.to \in Targets
    BY DEF TelegramInv, Typed
<1>3. hand' = hand \ {h} /\ taken' = taken \cup {m} /\ UNCHANGED retries
    BY <1>1 DEF Ready
<1>4. NoHand(m)' /\ \A n : n # m => HandKept(n)
    BY <1>1, <1>3, HandLost DEF Prepared
<1>5. NoRetry(m)' /\ \A n : n # m => RetryKept(n)
    BY <1>1, <1>3, SameRetry DEF Prepared, RetryKept
<1>6. CASE Tell(m, "paused") /\ UNCHANGED <<waiting, tracked>>
  <2>1. OneEnd(m)' /\ \A n \in Messages : n # m => EndKept(n)
      BY <1>1, <1>6, EndGained DEF Prepared, TelegramInv, Endings
  <2>2. NoWait(m)' /\ NoTurn(m)'
      BY <1>1, <1>6, SameWait, SameTurn DEF Prepared, WaitKept, TurnKept
  <2>3. Present(m)'
      BY <1>4, <1>5, <2>1, <2>2 DEF Present, Ended
  <2>4. \A n \in Messages : n # m => Unmoved(n)
      BY <1>4, <1>5, <1>6, <2>1, SameWait, SameTurn DEF Unmoved
  <2>5. QED
      BY <1>1, <1>3, <2>3, <2>4, OneMoves
<1>7. CASE PutAside(m, h.as, h.to) /\ UNCHANGED tracked
  <2>1. /\ (OneWait(m)' /\ NoEnd(m)') \/ (NoWait(m)' /\ OneEnd(m)')
        /\ \A n \in Messages : n # m => WaitKept(n) /\ EndKept(n)
      BY <1>1, <1>2, <1>7, PutAsideMoves DEF Prepared, TelegramInv
  <2>2. NoTurn(m)'
      BY <1>1, <1>7, SameTurn DEF Prepared, TurnKept
  <2>3. Present(m)'
      BY <1>4, <1>5, <2>1, <2>2 DEF Present, Queued, Ended
  <2>4. \A n \in Messages : n # m => Unmoved(n)
      BY <1>4, <1>5, <1>7, <2>1, SameTurn DEF Unmoved
  <2>5. QED
      BY <1>1, <1>3, <2>3, <2>4, OneMoves
<1>8. CASE /\ Fresh(m) # {}
           /\ tracked' = tracked \cup {[turn |-> t, conv |-> c, retried |-> h.as = "retry"]}
           /\ UNCHANGED <<waiting, told>>
  <2> DEFINE r == [turn |-> t, conv |-> c, retried |-> h.as = "retry"]
  <2>1. r.turn[1] = m
      BY <1>1, <1>8, NextTurnFresh
  <2>2. OneTurn(m)' /\ \A n : n # m => TurnKept(n)
    <3>1. tracked' = tracked \cup {r} /\ NoTurn(m)
        BY <1>1, <1>8 DEF Prepared
    <3> HIDE DEF r
    <3>2. ASSUME NEW e, e.turn[1] = m, tracked' = tracked \cup {e}
          PROVE  OneTurn(m)' /\ \A n : n # m => TurnKept(n)
        BY <3>1, <3>2 DEF NoTurn, OneTurn, TurnKept
    <3>3. QED
        BY <2>1, <3>1, <3>2
  <2>3. NoWait(m)' /\ NoEnd(m)'
      BY <1>1, <1>8, SameWait, SameEnd DEF Prepared, WaitKept, EndKept
  <2>4. Present(m)'
      BY <1>4, <1>5, <2>2, <2>3 DEF Present, Running
  <2>5. \A n \in Messages : n # m => Unmoved(n)
      BY <1>4, <1>5, <1>8, <2>2, SameWait, SameEnd DEF Unmoved
  <2>6. QED
      BY <1>1, <1>3, <2>4, <2>5, OneMoves
<1>9. QED
    BY <1>6, <1>7, <1>8 DEF Ready

LEMMA PrepareFailsMoves ==
    ASSUME TelegramInv, Conserved, NEW h \in hand, PrepareFails(h) PROVE Conserved'
<1> DEFINE m == h.msg
<1>1. m \in Messages /\ m \in taken /\ Prepared(m)
    BY Found
<1>2. /\ hand' = hand \ {h} /\ taken' = taken \cup {m}
      /\ Tell(m, "failed") /\ UNCHANGED <<waiting, tracked, retries>>
    BY <1>1 DEF PrepareFails
<1>3. NoHand(m)' /\ \A n : n # m => HandKept(n)
    BY <1>1, <1>2, HandLost DEF Prepared
<1>4. OneEnd(m)' /\ \A n \in Messages : n # m => EndKept(n)
    BY <1>1, <1>2, EndGained DEF Prepared, TelegramInv, Endings
<1>5. NoWait(m)' /\ NoTurn(m)' /\ NoRetry(m)'
    BY <1>1, <1>2, SameWait, SameTurn, SameRetry DEF Prepared, WaitKept, TurnKept, RetryKept
<1>6. Present(m)'
    BY <1>3, <1>4, <1>5 DEF Present, Ended
<1>7. \A n \in Messages : n # m => Unmoved(n)
    BY <1>2, <1>3, <1>4, SameWait, SameTurn, SameRetry DEF Unmoved
<1>8. QED
    BY <1>1, <1>2, <1>6, <1>7, OneMoves

(* A tracked turn ends in one message, or in one retry. *)
LEMMA EndsMoves ==
    ASSUME TelegramInv, Conserved, NEW t \in Turns, \E r \in tracked : r.turn = t,
           Untrack({t}), UNCHANGED <<taken, hand, waiting>>,
           \/ (\E how \in Endings : Tell(t[1], how)) /\ UNCHANGED retries
           \/ retries' = retries \cup {[msg |-> t[1], to |-> Unrouted]} /\ UNCHANGED told
    PROVE  Conserved'
<1> DEFINE m == t[1]
<1>1. m \in Messages /\ m \in taken /\ Running(m)
    BY Found
<1>2. NoTurn(m)' /\ \A n : n # m => TurnKept(n)
    BY <1>1, TurnLost DEF Running
<1>3. NoHand(m)' /\ NoWait(m)' /\ \A n : n # m => HandKept(n) /\ WaitKept(n)
    BY <1>1, SameHand, SameWait DEF Running, HandKept, WaitKept
<1>4. /\ (NoRetry(m)' /\ OneEnd(m)') \/ (OneRetry(m)' /\ NoEnd(m)')
      /\ \A n \in Messages : n # m => RetryKept(n) /\ EndKept(n)
  <2>1. CASE (\E how \in Endings : Tell(m, how)) /\ UNCHANGED retries
      BY <1>1, <2>1, EndGained, SameRetry DEF Running, RetryKept, TelegramInv
  <2>2. CASE retries' = retries \cup {[msg |-> m, to |-> Unrouted]} /\ UNCHANGED told
    <3> DEFINE e == [msg |-> m, to |-> Unrouted]
    <3>1. e.msg = m
        OBVIOUS
    <3>2. QED
        BY <1>1, <2>2, <3>1, RetryGained, SameEnd DEF Running, EndKept
  <2>3. QED
      BY <2>1, <2>2
<1>5. Present(m)'
    BY <1>2, <1>3, <1>4 DEF Present, Due, Ended
<1>6. \A n \in Messages : n # m => Unmoved(n)
    BY <1>2, <1>3, <1>4 DEF Unmoved
<1>7. taken' = taken \cup {m}
    BY <1>1
<1>8. QED
    BY <1>1, <1>5, <1>6, <1>7, OneMoves

LEMMA SendMoves ==
    ASSUME TelegramInv, Conserved, NEW t \in Turns, Send(t) PROVE Conserved'
<1>1. /\ t \in sender /\ \E r \in tracked : r.turn = t
      /\ UNCHANGED <<taken, hand, waiting, retries>>
    BY DEF Send, TelegramInv, Linked
<1>2. CASE FinishStopped(t)
    BY <1>1, <1>2, EndsMoves DEF FinishStopped, Endings
<1>3. CASE UNCHANGED <<tracked, told>>
    BY <1>1, <1>3, NoneMoves
<1>4. QED
    BY <1>2, <1>3 DEF Send

LEMMA SendFailsMoves ==
    ASSUME TelegramInv, Conserved, NEW t \in Turns, SendFails(t) PROVE Conserved'
<1>1. \E r \in tracked : r.turn = t
    BY DEF SendFails, TelegramInv, Linked
<1>2. QED
    BY <1>1, EndsMoves DEF SendFails, Endings

LEMMA HeardMoves ==
    ASSUME TelegramInv, Conserved, NEW t \in Turns, HearStopped(t) \/ HearDone(t) \/ HearError(t)
    PROVE  Conserved'
<1>1. \E r \in tracked : r.turn = t
    BY DEF HearStopped, HearDone, HearError, Heard, TelegramInv, Linked
<1>2. CASE HearStopped(t)
    BY <1>1, <1>2, EndsMoves DEF HearStopped, FinishStopped, Endings
<1>3. CASE HearDone(t)
    BY <1>1, <1>3, EndsMoves DEF HearDone, Endings
<1>4. CASE HearError(t)
    BY <1>1, <1>4, EndsMoves DEF HearError, Endings
<1>5. QED
    BY <1>2, <1>3, <1>4

LEMMA DrainMoves == ASSUME TelegramInv, Conserved, Drain PROVE Conserved'
<1>1. UNCHANGED <<taken, tracked, retries, told>>
    BY DEF Drain
<1>2. CASE UNCHANGED <<waiting, hand>>
    BY <1>1, <1>2, NoneMoves
<1>3. ASSUME NEW i \in DOMAIN waiting, waiting' = RemoveAt(waiting, i),
             hand' = hand \cup {[msg |-> waiting[i].msg, as |-> "queue", to |-> waiting[i].to]}
      PROVE  Conserved'
  <2>1. PICK m : m = waiting[i].msg
      OBVIOUS
  <2>2. PICK h : h = [msg |-> m, as |-> "queue", to |-> waiting[i].to]
      OBVIOUS
  <2>3. m \in Messages /\ m \in taken /\ Queued(m)
      BY <2>1, Found
  <2>4. NoWait(m)' /\ \A n : n # m => WaitKept(n)
      BY <1>3, <2>1, <2>3, WaitRemoved DEF Queued, TelegramInv, Typed
  <2>5. OneHand(m)' /\ \A n : n # m => HandKept(n)
    <3>1. h.msg = m /\ hand' = hand \cup {h}
        BY <1>3, <2>1, <2>2
    <3>2. QED
        BY <2>3, <3>1, HandGained DEF Queued
  <2>6. NoRetry(m)' /\ NoTurn(m)' /\ NoEnd(m)'
      BY <1>1, <2>3, SameRetry, SameTurn, SameEnd DEF Queued, RetryKept, TurnKept, EndKept
  <2>7. Present(m)'
      BY <2>4, <2>5, <2>6 DEF Present, Prepared
  <2>8. \A n \in Messages : n # m => Unmoved(n)
      BY <1>1, <2>4, <2>5, SameRetry, SameTurn, SameEnd DEF Unmoved
  <2>9. taken' = taken \cup {m}
      BY <1>1, <2>3
  <2>10. QED
      BY <2>3, <2>7, <2>8, <2>9, OneMoves
<1>4. QED
    BY <1>2, <1>3 DEF Drain

LEMMA CheckMoves == ASSUME TelegramInv, Conserved, Check PROVE Conserved'
<1>1. UNCHANGED <<taken, hand, waiting, retries>>
    BY DEF Check
<1>2. Untrack(Stale) /\ \A t \in Stale : \E r \in tracked : r.turn = t
    BY DEF Check, GiveUp, Stale, Awaited
<1>3. ASSUME NEW m \in Messages
      PROVE  HandKept(m) /\ WaitKept(m) /\ RetryKept(m)
    BY <1>1, SameHand, SameWait, SameRetry
<1>4. ASSUME NEW m \in Messages, ~ \E t \in Stale : t[1] = m
      PROVE  (Present(m) => Present(m)') /\ (Absent(m) => Absent(m)')
  <2>1. told'[m] = told[m]
      BY <1>4 DEF Check, GiveUp
  <2>2. EndKept(m)
      BY <2>1 DEF EndKept, NoEnd, OneEnd
  <2>3. TurnKept(m)
      BY <1>2, <1>4, TurnLost
  <2>4. QED
      BY <1>3, <2>2, <2>3, KeptStays DEF Unmoved
<1>5. ASSUME NEW m \in Messages, NEW t \in Stale, t[1] = m
      PROVE  m \in taken /\ Present(m)'
  <2>1. m \in taken /\ Running(m)
      BY <1>2, <1>5, Found
  <2>2. NoTurn(m)'
      BY <1>2, <1>5, <2>1, TurnLost DEF Running
  <2>3. told'[m] = Append(<<>>, "silent")
      BY <1>5, <2>1 DEF Check, GiveUp, Running, NoEnd
  <2>4. OneEnd(m)'
      BY <2>3 DEF OneEnd
  <2>5. QED
      BY <1>3, <2>1, <2>2, <2>4 DEF Running, Present, Ended, HandKept, WaitKept, RetryKept
<1>6. QED
    BY <1>1, <1>4, <1>5 DEF Conserved

LEMMA NextConserves ==
    TelegramInv /\ Conserved /\ [TelegramNext]_telegramVars => Conserved'
<1> SUFFICES ASSUME TelegramInv, Conserved, [TelegramNext]_telegramVars PROVE Conserved'
    OBVIOUS
<1>1. CASE \E m \in Messages : Take(m) \/ Activation(m)
    BY <1>1, TakeMoves, ReadyMoves, PrepareFailsMoves DEF Activation
<1>2. ASSUME NEW t \in Turns, EngineEnds(t) PROVE Conserved'
    BY <1>2, NoneMoves DEF EngineEnds
<1>3. CASE \E t \in Turns : TurnStep(t) \/ SendFails(t)
    BY <1>2, <1>3, SendMoves, SendFailsMoves, HeardMoves DEF TurnStep
<1>4. CASE \E r \in retries : Retry(r)
    BY <1>4, RetryMoves
<1>5. CASE Drain \/ Check
    BY <1>5, DrainMoves, CheckMoves
<1>6. CASE SidecarDies \/ (\E c \in Conversations : DeskSends(c) \/ DeskEnds(c) \/ Stop(c))
    BY <1>6, NoneMoves DEF SidecarDies, DeskSends, DeskEnds, Stop
<1>7. CASE UNCHANGED telegramVars
    BY <1>7, NoneMoves DEF telegramVars
<1>8. QED
    BY <1>1, <1>3, <1>4, <1>5, <1>6, <1>7 DEF TelegramNext

LEMMA InitConserves == TelegramInit => Conserved
BY DEF TelegramInit, Conserved, Absent, NoHand, NoWait, NoRetry, NoTurn, NoEnd

(* Places are counted. *)
LEMMA Counted ==
    ASSUME TelegramInv, Conserved, NEW m \in Messages
    PROVE  Places(m) = IF m \in taken THEN 1 ELSE 0
<1> DEFINE H == {h \in hand : h.msg = m}
           W == {i \in DOMAIN waiting : waiting[i].msg = m}
           R == {r \in retries : r.msg = m}
           T == {r \in tracked : r.turn[1] = m}
<1>1. /\ NoHand(m) => H = {}
      /\ NoWait(m) => W = {}
      /\ NoRetry(m) => R = {}
      /\ NoTurn(m) => T = {}
    BY DEF NoHand, NoWait, NoRetry, NoTurn
<1>2. /\ OneHand(m) => \E x : H = {x}
      /\ OneWait(m) => \E x : W = {x}
      /\ OneRetry(m) => \E x : R = {x}
      /\ OneTurn(m) => \E x : T = {x}
    BY DEF OneHand, OneWait, OneRetry, OneTurn
<1>3. Places(m) = Cardinality(H) + Cardinality(W) + Cardinality(R) + Cardinality(T) + Len(told[m])
    BY DEF Places
<1>4. /\ NoHand(m) => Cardinality(H) = 0
      /\ NoWait(m) => Cardinality(W) = 0
      /\ NoRetry(m) => Cardinality(R) = 0
      /\ NoTurn(m) => Cardinality(T) = 0
    BY <1>1, FS_EmptySet, Zenon
<1>5. /\ OneHand(m) => Cardinality(H) = 1
      /\ OneWait(m) => Cardinality(W) = 1
      /\ OneRetry(m) => Cardinality(R) = 1
      /\ OneTurn(m) => Cardinality(T) = 1
    BY <1>2, FS_Singleton, Zenon
<1>6. NoEnd(m) => Len(told[m]) = 0
    BY DEF NoEnd
<1> HIDE DEF H, W, R, T
<1>7. CASE m \in taken
  <2>1. Present(m)
      BY <1>7 DEF Conserved
  <2>2. CASE Prepared(m)
      BY <1>3, <1>4, <1>5, <1>6, <1>7, <2>2 DEF Prepared
  <2>3. CASE Queued(m)
      BY <1>3, <1>4, <1>5, <1>6, <1>7, <2>3 DEF Queued
  <2>4. CASE Due(m)
      BY <1>3, <1>4, <1>5, <1>6, <1>7, <2>4 DEF Due
  <2>5. CASE Running(m)
      BY <1>3, <1>4, <1>5, <1>6, <1>7, <2>5 DEF Running
  <2>6. CASE Ended(m)
      BY <1>3, <1>4, <1>7, <2>6 DEF Ended, OneEnd
  <2>7. QED
      BY <2>1, <2>2, <2>3, <2>4, <2>5, <2>6 DEF Present
<1>8. CASE m \notin taken
    BY <1>3, <1>4, <1>6, <1>8 DEF Conserved, Absent
<1>9. QED
    BY <1>7, <1>8

(* A message that was taken is in exactly one place, whatever fails, dies or
   stops, however long the queue and however many timers drain it
   (src/telegramBridge.ts, TelegramTurnTracker). *)
THEOREM MessagesStayInOnePlace == TelegramSpec => []InOnePlace
<1>1. TelegramInit => Conserved
    BY InitConserves
<1>2. TelegramInv /\ Conserved => InOnePlace
    BY Counted DEF InOnePlace
<1>3. QED
    BY <1>1, <1>2, NextConserves, TelegramInvariant, PTL DEF TelegramSpec
-----------------------------------------------------------------------------
(* What every ledger keeps, in memory and in storage: at most one row for an
   update, of those in A; a completed row, and one whose chat was told, are of
   updates in S. *)
Sound(rows, A) ==
    /\ \A i \in DOMAIN rows : rows[i].id \in A
    /\ \A i, j \in DOMAIN rows : i # j => rows[i].id # rows[j].id
Vouched(rows, S) ==
    \A i \in DOMAIN rows : rows[i].state = "completed" \/ rows[i].told => rows[i].id \in S
GoodRows(rows, A, S) == rows \in Seq(Rows(Updates)) /\ Sound(rows, A) /\ Vouched(rows, S)

LEMMA RowSeqs ==
    ASSUME NEW rows \in Seq(Rows(Updates))
    PROVE  /\ Len(rows) \in Nat /\ DOMAIN rows = 1..Len(rows)
           /\ \A i \in DOMAIN rows : rows[i] \in Rows(Updates)
BY LenProperties, ElementOfSeq

(* Filters. *)
LEMMA KeptGood ==
    ASSUME NEW A, NEW S, NEW rows, GoodRows(rows, A, S), NEW I \in SUBSET DOMAIN rows
    PROVE  /\ GoodRows(Kept(rows, I), A, S)
           /\ \A u : Has(Kept(rows, I), u) <=> \E i \in I : rows[i].id = u
<1>1. PICK kept : kept = Kept(rows, I)
    OBVIOUS
<1>2. /\ kept \in Seq(Rows(Updates))
      /\ \A k \in DOMAIN kept : \E i \in I : kept[k] = rows[i]
      /\ \A i \in I : \E k \in DOMAIN kept : kept[k] = rows[i]
      /\ \A k, l \in DOMAIN kept : k # l => \E i, j \in I : i # j /\ kept[k] = rows[i] /\ kept[l] = rows[j]
    BY <1>1, KeptOnes DEF GoodRows
<1>3. Sound(kept, A)
  <2>1. ASSUME NEW k \in DOMAIN kept, NEW l \in DOMAIN kept, k # l PROVE kept[k].id # kept[l].id
    <3>1. PICK i, j \in I : i # j /\ kept[k] = rows[i] /\ kept[l] = rows[j]
        BY <1>2, <2>1
    <3>2. QED
        BY <3>1 DEF GoodRows, Sound
  <2>2. QED
      BY SMTT(30), <1>2, <2>1 DEF GoodRows, Sound
<1>4. Vouched(kept, S)
    BY <1>2 DEF GoodRows, Vouched
<1>5. \A u : Has(kept, u) <=> \E i \in I : rows[i].id = u
    BY <1>2 DEF Has
<1>6. QED
    BY <1>1, <1>2, <1>3, <1>4, <1>5 DEF GoodRows

LEMMA TrimGood ==
    ASSUME NEW A, NEW S, NEW rows, GoodRows(rows, A, S), NEW busy, NEW limit \in Nat
    PROVE  /\ GoodRows(Trim(rows, busy, limit), A, S)
           /\ \A u : Has(Trim(rows, busy, limit), u) => Has(rows, u)
           /\ Len(rows) <= limit => \A u : Has(rows, u) => Has(Trim(rows, busy, limit), u)
<1> DEFINE done == {i \in DOMAIN rows : rows[i].state = "completed" /\ rows[i].id \notin busy}
           old == {i \in done : Cardinality({j \in done : j < i}) + limit < Len(rows)}
<1>1. Trim(rows, busy, limit) = Kept(rows, DOMAIN rows \ old)
    BY DEF Trim
<1>2. PICK I \in SUBSET DOMAIN rows : I = DOMAIN rows \ old
    OBVIOUS
<1>3. /\ GoodRows(Kept(rows, I), A, S)
      /\ \A u : Has(Kept(rows, I), u) <=> \E i \in I : rows[i].id = u
    BY KeptGood
<1>4. ASSUME Len(rows) <= limit PROVE old = {}
  <2>1. Len(rows) \in Nat /\ DOMAIN rows = 1..Len(rows)
      BY RowSeqs DEF GoodRows
  <2>2. IsFiniteSet(DOMAIN rows)
      BY <2>1, FS_Interval
  <2>3. ASSUME NEW i \in done PROVE ~(Cardinality({j \in done : j < i}) + limit < Len(rows))
    <3>1. {j \in done : j < i} \in SUBSET DOMAIN rows
        OBVIOUS
    <3>2. Cardinality({j \in done : j < i}) \in Nat
        BY <2>2, <3>1, FS_Subset, FS_CardinalityType
    <3>3. QED
        BY <1>4, <2>1, <3>2
  <2>4. QED
      BY <2>3
<1>5. Trim(rows, busy, limit) = Kept(rows, I)
    BY <1>1, <1>2
<1>6. \A u : Has(Trim(rows, busy, limit), u) <=> \E i \in I : rows[i].id = u
    BY <1>3, <1>5
<1>7. Len(rows) <= limit => I = DOMAIN rows
    BY <1>2, <1>4
<1>8. QED
    BY <1>3, <1>5, <1>6, <1>7 DEF Has

(* Rows are rewritten in their places. *)
LEMMA RewrittenGood ==
    ASSUME NEW A, NEW S, NEW rows, GoodRows(rows, A, S), NEW new,
           DOMAIN new = DOMAIN rows, new = [i \in DOMAIN rows |-> new[i]],
           \A i \in DOMAIN rows : new[i] \in Rows(Updates) /\ new[i].id = rows[i].id,
           \A i \in DOMAIN rows : new[i] = rows[i] \/
               (new[i].state = "completed" \/ new[i].told => new[i].id \in S)
    PROVE  GoodRows(new, A, S) /\ Len(new) = Len(rows) /\ \A u : Has(new, u) <=> Has(rows, u)
<1>1. Len(rows) \in Nat /\ DOMAIN rows = 1..Len(rows)
    BY RowSeqs DEF GoodRows
<1>2. new \in [1..Len(rows) -> Rows(Updates)]
    BY <1>1
<1>3. new \in Seq(Rows(Updates))
    BY <1>1, <1>2
<1>4. Len(new) = Len(rows)
    BY <1>1, <1>3, LenProperties
<1>5. Sound(new, A) /\ Vouched(new, S)
    BY DEF GoodRows, Sound, Vouched
<1>6. QED
    BY <1>3, <1>4, <1>5 DEF GoodRows, Has

LEMMA MarkedGood ==
    ASSUME NEW A, NEW S, NEW rows, GoodRows(rows, A, S), NEW u \in Updates, NEW state \in RowStates,
           state = "completed" => u \in S
    PROVE  /\ GoodRows(Marked(rows, u, state), A, S) /\ Len(Marked(rows, u, state)) = Len(rows)
           /\ \A v : Has(Marked(rows, u, state), v) <=> Has(rows, v)
<1>1. \A i \in DOMAIN rows : rows[i] \in Rows(Updates)
    BY RowSeqs DEF GoodRows
<1>2. PICK new : new = Marked(rows, u, state)
    OBVIOUS
<1>3. /\ DOMAIN new = DOMAIN rows /\ new = [i \in DOMAIN rows |-> new[i]]
      /\ \A i \in DOMAIN rows : new[i] = IF rows[i].id = u THEN Row(u, state) ELSE rows[i]
    BY <1>2 DEF Marked
<1>4. /\ Row(u, state) \in Rows(Updates) /\ Row(u, state).id = u
      /\ Row(u, state).state = state /\ Row(u, state).told = FALSE
    BY DEF Row, Rows
<1>5. /\ \A i \in DOMAIN rows : new[i] \in Rows(Updates) /\ new[i].id = rows[i].id
      /\ \A i \in DOMAIN rows : new[i] = rows[i] \/
             (new[i].state = "completed" \/ new[i].told => new[i].id \in S)
    BY <1>1, <1>3, <1>4
<1>6. QED
    BY <1>2, <1>3, <1>5, RewrittenGood

LEMMA NoticeGood ==
    ASSUME NEW A, NEW S, NEW rows, GoodRows(rows, A, S), NEW u \in S
    PROVE  /\ GoodRows(NoticeSent(rows, u), A, S)
           /\ \A v : Has(NoticeSent(rows, u), v) <=> Has(rows, v)
<1>1. \A i \in DOMAIN rows : rows[i] \in Rows(Updates)
    BY RowSeqs DEF GoodRows
<1>2. PICK new : new = NoticeSent(rows, u)
    OBVIOUS
<1>3. /\ DOMAIN new = DOMAIN rows /\ new = [i \in DOMAIN rows |-> new[i]]
      /\ \A i \in DOMAIN rows : new[i] = IF rows[i].id = u /\ rows[i].state = "uncertain"
                                         THEN [rows[i] EXCEPT !.told = TRUE] ELSE rows[i]
    BY <1>2 DEF NoticeSent
<1>4. ASSUME NEW i \in DOMAIN rows
      PROVE  [rows[i] EXCEPT !.told = TRUE] \in Rows(Updates)
             /\ [rows[i] EXCEPT !.told = TRUE].id = rows[i].id
    BY <1>1 DEF Rows
<1>5. /\ \A i \in DOMAIN rows : new[i] \in Rows(Updates) /\ new[i].id = rows[i].id
      /\ \A i \in DOMAIN rows : new[i] = rows[i] \/
             (new[i].state = "completed" \/ new[i].told => new[i].id \in S)
    BY <1>1, <1>3, <1>4
<1>6. QED
    BY <1>2, <1>3, <1>5, RewrittenGood

(* A ledger with at least as much room as there are updates for it does not
   trim. *)
LEMMA RoomForAll ==
    ASSUME NEW A, NEW S, NEW rows, GoodRows(rows, A, S), IsFiniteSet(A)
    PROVE  /\ Len(rows) <= Cardinality(A)
           /\ \A u \in A : ~Has(rows, u) => Len(rows) < Cardinality(A)
<1> DEFINE ids == [i \in DOMAIN rows |-> rows[i].id]
<1>1. Len(rows) \in Nat /\ DOMAIN rows = 1..Len(rows)
    BY RowSeqs DEF GoodRows
<1>2. IsFiniteSet(DOMAIN rows) /\ Cardinality(DOMAIN rows) = Len(rows)
  <2>1. PICK n \in Nat : n = Len(rows)
      BY <1>1
  <2>2. IsFiniteSet(1..n) /\ Cardinality(1..n) = IF 1 > n THEN 0 ELSE n - 1 + 1
      BY FS_Interval
  <2>3. QED
      BY <1>1, <2>1, <2>2
<1>3. ids \in Injection(DOMAIN rows, A)
    BY DEF GoodRows, Sound, Injection, IsInjective
<1>4. /\ Cardinality(DOMAIN rows) <= Cardinality(A)
      /\ Cardinality(DOMAIN rows) = Cardinality(A) => ids \in Surjection(DOMAIN rows, A)
    BY <1>3, FS_Injection
<1>5. Cardinality(A) \in Nat
    BY FS_CardinalityType
<1>6. ids \in Surjection(DOMAIN rows, A) => \A u \in A : Has(rows, u)
    BY DEF Surjection, Has
<1>7. QED
    BY <1>1, <1>2, <1>4, <1>5, <1>6

LEMMA ClaimGood ==
    ASSUME NEW A, NEW S, NEW rows, GoodRows(rows, A, S), NEW busy,
           NEW u \in A, u \in Updates, ~Has(rows, u)
    PROVE  /\ GoodRows(MadeRoom(rows, busy), A, S)
           /\ GoodRows(Claimed(rows, busy, u), A, S)
           /\ GoodRows(Cancelled(Claimed(rows, busy, u), u), A, S)
           /\ Has(Claimed(rows, busy, u), u)
           /\ Len(rows) < MaxRecords =>
                  \A v : Has(rows, v) => /\ Has(MadeRoom(rows, busy), v)
                                         /\ Has(Claimed(rows, busy, u), v)
                                         /\ Has(Cancelled(Claimed(rows, busy, u), u), v)
<1> DEFINE row == Row(u, "processing")
<1>1. PICK room : room = MadeRoom(rows, busy)
    OBVIOUS
<1>2. MaxRecords - 1 \in Nat /\ Len(rows) \in Nat
    BY MaxRecordsAssumption, RowSeqs DEF GoodRows
<1>3. /\ GoodRows(room, A, S) /\ ~Has(room, u)
      /\ Len(rows) < MaxRecords => \A v : Has(rows, v) => Has(room, v)
  <2>1. PICK limit \in Nat : limit = MaxRecords - 1
      BY <1>2
  <2>2. room = Trim(rows, busy, limit)
      BY <1>1, <2>1 DEF MadeRoom
  <2>3. Len(rows) < MaxRecords => Len(rows) <= limit
      BY <1>2, <2>1, MaxRecordsAssumption
  <2>4. QED
      BY <2>2, <2>3, TrimGood
<1>4. row \in Rows(Updates) /\ row.id = u /\ row.state = "processing" /\ row.told = FALSE
    BY DEF Row, Rows, RowStates
<1>5. PICK longer : longer = Claimed(rows, busy, u)
    OBVIOUS
<1>6. longer = Append(room, row)
    BY <1>1, <1>5 DEF Claimed
<1>7. Len(room) \in Nat /\ DOMAIN room = 1..Len(room) /\ room \in Seq(Rows(Updates))
    BY <1>3, RowSeqs DEF GoodRows
<1>8. /\ longer \in Seq(Rows(Updates)) /\ Len(longer) = Len(room) + 1
      /\ \A i \in 1..Len(room) : longer[i] = room[i]
      /\ longer[Len(room) + 1] = row
    BY <1>4, <1>6, <1>7, AppendProperties
<1>9. DOMAIN longer = 1..Len(room) + 1
    BY <1>8, LenProperties
<1>10. /\ \A i \in DOMAIN longer : i \in DOMAIN room \/ i = Len(room) + 1
       /\ \A i \in DOMAIN room : i \in DOMAIN longer /\ i # Len(room) + 1
       /\ Len(room) + 1 \in DOMAIN longer
    BY <1>7, <1>9
<1>11. Sound(longer, A)
  <2>1. \A i \in DOMAIN room : room[i].id # u /\ longer[i] = room[i]
      BY <1>3, <1>7, <1>8 DEF Has
  <2>2. QED
      BY <1>3, <1>4, <1>8, <1>10, <2>1 DEF GoodRows, Sound
<1>12. Vouched(longer, S)
    BY <1>3, <1>4, <1>7, <1>8, <1>10 DEF GoodRows, Vouched
<1>13. GoodRows(longer, A, S)
    BY <1>8, <1>11, <1>12 DEF GoodRows
<1>14. Has(longer, u) /\ \A v : Has(room, v) => Has(longer, v)
    BY <1>4, <1>7, <1>8, <1>10 DEF Has
<1>15. PICK I \in SUBSET DOMAIN longer : I = {i \in DOMAIN longer : longer[i].id # u}
    OBVIOUS
<1>16. /\ GoodRows(Kept(longer, I), A, S)
       /\ \A v : Has(Kept(longer, I), v) <=> \E i \in I : longer[i].id = v
    BY <1>13, KeptGood
<1>17. Cancelled(Claimed(rows, busy, u), u) = Kept(longer, I)
    BY <1>5, <1>15 DEF Cancelled
<1>18. \A v : Has(longer, v) /\ v # u => Has(Kept(longer, I), v)
    BY <1>15, <1>16 DEF Has
<1>19. QED
    BY <1>1, <1>3, <1>5, <1>13, <1>14, <1>16, <1>17, <1>18

LEMMA CompletedGood ==
    ASSUME NEW A, NEW S, NEW rows, GoodRows(rows, A, S), NEW busy, NEW u \in S, u \in Updates
    PROVE  /\ GoodRows(Completed(rows, busy, u), A, S)
           /\ Len(rows) <= MaxRecords => \A v : Has(rows, v) => Has(Completed(rows, busy, u), v)
<1>1. PICK marked : marked = Marked(rows, u, "completed")
    OBVIOUS
<1>2. GoodRows(marked, A, S) /\ Len(marked) = Len(rows) /\ \A v : Has(marked, v) <=> Has(rows, v)
  <2>1. "completed" \in RowStates
      BY DEF RowStates
  <2>2. PICK done \in RowStates : done = "completed"
      BY <2>1
  <2>3. QED
      BY <1>1, <2>2, MarkedGood
<1>3. MaxRecords \in Nat
    BY MaxRecordsAssumption
<1>4. Completed(rows, busy, u) = Trim(marked, busy \ {u}, MaxRecords)
    BY <1>1 DEF Completed
<1>5. QED
    BY <1>2, <1>3, <1>4, TrimGood

LEMMA RestoredGood ==
    ASSUME NEW A, NEW S, NEW rows, GoodRows(rows, A, S)
    PROVE  /\ GoodRows(Restored(rows), A, S)
           /\ Len(rows) <= MaxRecords => \A v : Has(rows, v) => Has(Restored(rows), v)
<1>1. \A i \in DOMAIN rows : rows[i] \in Rows(Updates)
    BY RowSeqs DEF GoodRows
<1>2. PICK new : new = [i \in DOMAIN rows |-> IF rows[i].state = "processing"
                                              THEN Row(rows[i].id, "uncertain") ELSE rows[i]]
    OBVIOUS
<1>3. /\ DOMAIN new = DOMAIN rows /\ new = [i \in DOMAIN rows |-> new[i]]
      /\ \A i \in DOMAIN rows : new[i] = IF rows[i].state = "processing"
                                         THEN Row(rows[i].id, "uncertain") ELSE rows[i]
    BY <1>2
<1>4. \A i \in DOMAIN rows : /\ Row(rows[i].id, "uncertain") \in Rows(Updates)
                             /\ Row(rows[i].id, "uncertain").id = rows[i].id
                             /\ Row(rows[i].id, "uncertain").state = "uncertain"
                             /\ Row(rows[i].id, "uncertain").told = FALSE
    BY <1>1 DEF Row, Rows, RowStates
<1>5. /\ \A i \in DOMAIN rows : new[i] \in Rows(Updates) /\ new[i].id = rows[i].id
      /\ \A i \in DOMAIN rows : new[i] = rows[i] \/
             (new[i].state = "completed" \/ new[i].told => new[i].id \in S)
    BY <1>1, <1>3, <1>4
<1>6. GoodRows(new, A, S) /\ Len(new) = Len(rows) /\ \A u : Has(new, u) <=> Has(rows, u)
    BY <1>3, <1>5, RewrittenGood
<1>7. Restored(rows) = Trim(new, {}, MaxRecords) /\ MaxRecords \in Nat
    BY <1>2, MaxRecordsAssumption DEF Restored
<1>8. QED
    BY <1>6, <1>7, TrimGood

LEMMA GoodLater ==
    ASSUME NEW A, NEW S, NEW rows, GoodRows(rows, A, S), NEW B, NEW U, A \subseteq B, S \subseteq U
    PROVE  GoodRows(rows, B, U)
BY DEF GoodRows, Sound, Vouched
-----------------------------------------------------------------------------
Ours == (1..arrived) \ Foreign
Below(n) == \A u \in Updates \ Foreign : u < n => u \in settled

(* A loop reads updates that follow each other, and has settled what is before
   the one it is at. *)
Reads(l) ==
    /\ Below(loop[l].off)
    /\ \A i \in DOMAIN loop[l].batch :
           loop[l].batch[i] = loop[l].batch[1] + i - 1 /\ loop[l].batch[i] <= arrived
    /\ loop[l].batch # <<>> => Below(loop[l].batch[1])
    /\ loop[l].st \in {"executing", "telling"} => loop[l].batch # <<>> /\ ~blocked

LoopRecords == [st : LoopStates, batch : Seq(Updates), off : Nat, cancelled : BOOLEAN]

Reading ==
    /\ loop \in [Loops -> LoopRecords] /\ \A l \in Loops : Reads(l)
    /\ offset \in Nat /\ Below(offset)

(* As long as the ledger has room for all of them, an executed update is in the
   stored ledger, and in the one in memory unless that could not be read. *)
Once(u) ==
    /\ executed[u] <= 1
    /\ executed[u] = 1 => Has(stored, u) /\ (blocked \/ Has(ledger, u))
Recorded == Cardinality(Ours) <= MaxRecords => \A u \in Updates : Once(u)

Received ==
    /\ arrived \in Nat /\ arrived <= LastUpdate
    /\ forgotten \in Nat \ {0} /\ Below(forgotten)
    /\ executed \in [Updates -> Nat] /\ settled \subseteq Updates /\ blocked \in BOOLEAN

PollInv ==
    /\ Received /\ Reading /\ Recorded
    /\ GoodRows(ledger, Ours, settled) /\ GoodRows(stored, Ours, settled)

LEMMA PollInit == PollingInit => PollInv
<1> SUFFICES ASSUME PollingInit PROVE PollInv
    OBVIOUS
<1>1. \A u \in Updates : ~(u < 1)
    BY LastUpdateAssumption DEF Updates
<1>2. Received
  <2>1. blocked \in BOOLEAN /\ settled \subseteq Updates
      BY DEF PollingInit
  <2>2. QED
      BY <1>1, <2>1, LastUpdateAssumption DEF PollingInit, Received, Below
<1>3. Reading
    BY <1>1 DEF PollingInit, Idle, Reading, LoopRecords, LoopStates, Reads, Below
<1>4. Recorded
    BY DEF PollingInit, Recorded, Once
<1>5. GoodRows(<<>>, Ours, settled)
    BY DEF GoodRows, Sound, Vouched
<1>6. QED
    BY <1>2, <1>3, <1>4, <1>5 DEF PollInv, PollingInit

(* What a loop is at is an update that has arrived. *)
LEMMA AtUpdate ==
    ASSUME Received, Reading, NEW l \in Loops, loop[l].batch # <<>>
    PROVE  /\ Current(l) \in Updates /\ Current(l) <= arrived /\ Current(l) \in Nat
           /\ Current(l) \notin Foreign => Current(l) \in Ours
           /\ Below(Current(l))
<1>1. loop[l].batch \in Seq(Updates)
    BY DEF Reading, LoopRecords
<1>2. /\ Current(l) = loop[l].batch[1] /\ 1 \in DOMAIN loop[l].batch
      /\ loop[l].batch[1] \in Updates
    BY <1>1, HeadTailProperties, EmptySeq, LenProperties, ElementOfSeq DEF Current
<1>3. QED
    BY <1>2, LastUpdateAssumption DEF Received, Reading, Reads, Updates, Ours

LEMMA BelowKept == ASSUME settled \subseteq settled', NEW n, Below(n) PROVE Below(n)'
BY DEF Below

(* Nothing that a loop has read or asked changes but where it is. *)
LEMMA LoopMoves ==
    ASSUME Reading, NEW l \in Loops, NEW st \in LoopStates,
           settled \subseteq settled', UNCHANGED <<arrived, offset, blocked>>,
           \/ Moves(l, st) /\ (st \in {"executing", "telling"} => loop[l].batch # <<>> /\ ~blocked)
           \/ AsksAgain(l)
    PROVE  Reading'
<1>1. loop[l] \in LoopRecords
    BY DEF Reading
<1>2. /\ loop' \in [Loops -> LoopRecords] /\ \A k \in Loops : k # l => loop'[k] = loop[k]
      /\ loop'[l].off = loop[l].off
      /\ loop'[l].batch = loop[l].batch \/ loop'[l].batch = <<>>
      /\ loop'[l].st \in {"executing", "telling"} => loop'[l].batch # <<>> /\ ~blocked
    BY <1>1 DEF Reading, LoopRecords, Moves, AsksAgain, LoopStates
<1>3. ASSUME NEW k \in Loops PROVE Reads(k)'
    BY <1>2 DEF Reading, Reads, Below
<1>4. QED
    BY <1>2, <1>3 DEF Reading, Below

LEMMA Acknowledged ==
    ASSUME Received, Reading, NEW l \in Loops, loop[l].batch # <<>>, Acknowledges(l),
           settled \subseteq settled', Current(l) \in settled' \cup Foreign,
           UNCHANGED <<arrived, blocked>>
    PROVE  Reading'
<1>1. PICK u, rest, batch :
          u \in Updates /\ u = Current(l) /\ batch = loop[l].batch /\ rest = Tail(batch)
    BY AtUpdate
<1>2. u \in Nat /\ Below(u)
    BY <1>1, AtUpdate
<1>3. Below(u + 1)'
    BY <1>1, <1>2, LastUpdateAssumption DEF Below, Updates
<1>4. batch \in Seq(Updates) /\ batch # <<>>
    BY <1>1 DEF Reading, LoopRecords
<1>5. /\ rest \in Seq(Updates) /\ batch[1] = u
      /\ DOMAIN batch = 1..Len(batch) /\ Len(batch) \in Nat \ {0}
      /\ DOMAIN rest = 1..Len(batch) - 1
      /\ \A i \in 1..Len(batch) - 1 : rest[i] = batch[i + 1]
    BY <1>1, <1>4, HeadTailProperties, EmptySeq, LenProperties DEF Current
<1>6. \A i \in DOMAIN batch : batch[i] = u + i - 1 /\ batch[i] <= arrived
    BY <1>1, <1>5 DEF Reading, Reads
<1>7. /\ \A i \in DOMAIN rest : rest[i] = u + i /\ rest[i] <= arrived
      /\ rest # <<>> => 1 \in DOMAIN rest
  <2>1. \A i \in DOMAIN rest : i + 1 \in DOMAIN batch /\ i \in Nat
      BY <1>5
  <2>2. rest # <<>> => 1 \in DOMAIN rest
      BY <1>5, EmptySeq, LenProperties
  <2>3. QED
      BY <1>2, <1>5, <1>6, <2>1, <2>2
<1>8. loop[l] \in LoopRecords
    BY DEF Reading
<1>9. /\ offset' \in {offset, u + 1} /\ \A k \in Loops : k # l => loop'[k] = loop[k]
      /\ loop' \in [Loops -> LoopRecords]
      /\ loop'[l].off = u + 1 /\ loop'[l].batch \in {rest, <<>>} /\ loop'[l].st \in {"scan", "ask"}
  <2>1. /\ u + 1 \in Nat /\ "scan" \in LoopStates /\ "ask" \in LoopStates /\ <<>> \in Seq(Updates)
        /\ u = Current(l) /\ rest = Tail(loop[l].batch)
      BY <1>1, <1>2, EmptySeq DEF LoopStates
  <2>2. CASE offset' = u + 1 /\ loop' = [loop EXCEPT ![l].st = "scan", ![l].batch = rest, ![l].off = u + 1]
      BY <1>5, <1>8, <2>1, <2>2 DEF Reading, LoopRecords
  <2>3. CASE offset' = offset /\ loop' = [loop EXCEPT ![l].st = "ask", ![l].batch = <<>>, ![l].off = u + 1]
      BY <1>5, <1>8, <2>1, <2>3 DEF Reading, LoopRecords
  <2>4. QED
      BY <2>1, <2>2, <2>3 DEF Acknowledges
<1>10. ASSUME NEW k \in Loops PROVE Reads(k)'
  <2>1. CASE k = l
    <3>1. CASE loop'[l].batch = rest
      <4>1. rest # <<>> => rest[1] = u + 1
          BY <1>7
      <4>2. \A i \in DOMAIN rest : rest[i] = rest[1] + i - 1 /\ rest[i] <= arrived
          BY <1>2, <1>5, <1>7
      <4>3. QED
          BY <1>3, <1>9, <2>1, <3>1, <4>1, <4>2 DEF Reads
    <3>2. CASE loop'[l].batch = <<>>
        BY <1>3, <1>9, <2>1, <3>2 DEF Reads
    <3>3. QED
        BY <1>9, <3>1, <3>2
  <2>2. CASE k # l
      BY <1>9, <2>2 DEF Reading, Reads, Below
  <2>3. QED
      BY <2>1, <2>2
<1>11. QED
    BY <1>2, <1>3, <1>9, <1>10 DEF Reading, Below
-----------------------------------------------------------------------------
(* The ledger in memory is replaced, and perhaps written to storage: nothing that
   it had is lost as long as it has room. *)
LEMMA LedgerStep ==
    ASSUME PollInv, Reading', GoodRows(ledger', Ours, settled'),
           stored' = stored \/ stored' = ledger', blocked => UNCHANGED <<ledger, stored>>,
           settled \subseteq settled', settled' \subseteq Updates,
           UNCHANGED <<outside, executed>>,
           Cardinality(Ours) <= MaxRecords => \A u \in Updates : Has(ledger, u) => Has(ledger', u)
    PROVE  PollInv'
<1>1. Ours' = Ours /\ UNCHANGED <<arrived, forgotten, blocked>>
    BY DEF Ours, outside
<1>2. Received'
    BY <1>1 DEF PollInv, Received, Below
<1>3. PICK L, R, S : L = ledger' /\ R = stored' /\ S = settled'
    OBVIOUS
<1>4. GoodRows(L, Ours, S) /\ GoodRows(R, Ours, S)
    BY <1>3, GoodLater DEF PollInv
<1>5. GoodRows(ledger, Ours, settled)' /\ GoodRows(stored, Ours, settled)'
    BY <1>1, <1>3, <1>4 DEF GoodRows, Sound, Vouched
<1>6. Recorded'
  <2> SUFFICES ASSUME Cardinality(Ours) <= MaxRecords, NEW u \in Updates PROVE Once(u)'
      BY <1>1 DEF Recorded
  <2>1. executed'[u] = executed[u] /\ Once(u) /\ blocked' = blocked
      BY <1>1 DEF PollInv, Recorded
  <2>2. Has(ledger, u) => Has(L, u)
      BY <1>3
  <2>3. executed[u] = 1 => Has(R, u) /\ (blocked \/ Has(L, u))
    <3>1. CASE blocked
        BY <1>3, <2>1, <3>1 DEF Once
    <3>2. CASE ~blocked
        BY <1>3, <2>1, <2>2, <3>2 DEF Once
    <3>3. QED
        BY <3>1, <3>2
  <2>4. Has(ledger, u)' = Has(L, u) /\ Has(stored, u)' = Has(R, u)
      BY <1>3 DEF Has
  <2>5. QED
      BY <2>1, <2>3, <2>4 DEF Once
<1>7. QED
    BY <1>2, <1>5, <1>6 DEF PollInv

LEMMA SameLedger ==
    ASSUME PollInv, Reading', UNCHANGED <<ledger, stored, settled, outside, executed>>
    PROVE  PollInv'
<1>1. GoodRows(ledger', Ours, settled')
    BY DEF PollInv
<1>2. QED
    BY <1>1, LedgerStep DEF PollInv, Received

LEMMA StopLoopInv == ASSUME PollInv, NEW l \in Loops, StopLoop(l) PROVE PollInv'
<1>1. Idle \in LoopRecords /\ Idle.batch = <<>> /\ Idle.st = "off" /\ Idle.off = 1
    BY EmptySeq DEF Idle, LoopRecords, LoopStates
<1>2. /\ loop' \in [Loops -> LoopRecords] /\ loop'[l] = Idle /\ \A k \in Loops : k # l => loop'[k] = loop[k]
      /\ UNCHANGED <<ledger, stored, offset, settled, outside, executed>>
    BY <1>1 DEF StopLoop, PollInv, Reading
<1>3. \A u \in Updates : ~(u < 1)
    BY LastUpdateAssumption DEF Updates
<1>4. ASSUME NEW k \in Loops PROVE Reads(k)'
    BY <1>1, <1>2, <1>3 DEF PollInv, Reading, Reads, Below, outside
<1>5. Reading'
    BY <1>2, <1>4 DEF PollInv, Reading, Below
<1>6. QED
    BY <1>2, <1>5, SameLedger

LEMMA StartLoopInv == ASSUME PollInv, NEW l \in Loops, StartLoop(l) PROVE PollInv'
<1>1. PICK new : new = [Idle EXCEPT !.st = "ask", !.off = offset]
    OBVIOUS
<1>2. new \in LoopRecords /\ new.batch = <<>> /\ new.st = "ask" /\ new.off = offset
    BY <1>1, EmptySeq DEF Idle, LoopRecords, LoopStates, PollInv, Reading
<1>3. /\ loop' = [k \in Loops |-> IF k = l THEN new ELSE [loop[k] EXCEPT !.cancelled = TRUE]]
      /\ UNCHANGED <<ledger, stored, offset, settled, outside, executed>>
    BY <1>1 DEF StartLoop
<1>4. ASSUME NEW k \in Loops
      PROVE  LET r == [loop[k] EXCEPT !.cancelled = TRUE]
             IN  r \in LoopRecords /\ r.batch = loop[k].batch /\ r.st = loop[k].st /\ r.off = loop[k].off
    BY DEF PollInv, Reading, LoopRecords
<1>5. loop' \in [Loops -> LoopRecords]
    BY <1>2, <1>3, <1>4
<1>6. ASSUME NEW k \in Loops PROVE Reads(k)'
    BY <1>2, <1>3, <1>4 DEF PollInv, Reading, Reads, Below, outside
<1>7. Reading'
    BY <1>3, <1>5, <1>6 DEF PollInv, Reading, Below
<1>8. QED
    BY <1>3, <1>7, SameLedger

(* Telegram answers with updates that follow each other from an offset below
   which everything is settled. *)
LEMMA AskInv == ASSUME PollInv, NEW l \in Loops, Ask(l) PROVE PollInv'
<1>1. PICK first, last, batch :
          /\ first = IF loop[l].off > forgotten THEN loop[l].off ELSE forgotten
          /\ last = IF first + Batch - 1 < arrived THEN first + Batch - 1 ELSE arrived
          /\ batch = [i \in 1..(last - first + 1) |-> first + i - 1]
    OBVIOUS
<1>2. /\ forgotten' = first
      /\ loop' = [loop EXCEPT ![l].st = "asked", ![l].batch = batch]
      /\ UNCHANGED <<ledger, stored, offset, arrived, executed, settled, blocked>>
    BY <1>1 DEF Ask
<1>3. /\ first \in Nat \ {0} /\ last \in Int /\ last <= arrived
      /\ arrived \in Nat /\ arrived <= LastUpdate /\ Below(first) /\ first >= forgotten
  <2>1. loop[l] \in LoopRecords /\ Below(loop[l].off) /\ Below(forgotten)
        /\ forgotten \in Nat \ {0} /\ arrived \in Nat /\ arrived <= LastUpdate
      BY DEF PollInv, Reading, Reads, Received
  <2>2. loop[l].off \in Nat
      BY <2>1 DEF LoopRecords
  <2>3. Below(first)
      BY <1>1, <2>1 DEF Below
  <2>4. QED
      BY <1>1, <2>1, <2>2, <2>3, BatchAssumption
<1>4. /\ batch \in Seq(Updates)
      /\ \A i \in DOMAIN batch : batch[i] = batch[1] + i - 1 /\ batch[i] <= arrived
      /\ batch # <<>> => batch[1] = first
  <2>1. CASE first <= last
    <3>1. PICK n \in Nat : n = last - first + 1 /\ n >= 1
        BY <1>3, <2>1
    <3>2. ASSUME NEW i \in 1..n PROVE first + i - 1 \in Updates /\ first + i - 1 <= arrived
      <4>1. i \in Nat /\ 1 <= i /\ i <= n
          BY <3>1
      <4>2. first \in Int /\ first >= 1 /\ last \in Int
          BY <1>3
      <4>3. first + i - 1 \in Int /\ 1 <= first + i - 1 /\ first + i - 1 <= last
          BY <3>1, <4>1, <4>2
      <4>4. QED
          BY <1>3, <4>3, LastUpdateAssumption DEF Updates
    <3>3. /\ DOMAIN batch = 1..n /\ batch \in [1..n -> Updates]
          /\ \A i \in 1..n : batch[i] = first + i - 1
        BY <1>1, <3>1, <3>2
    <3>4. batch \in Seq(Updates)
        BY <3>3
    <3>5. batch[1] = first
        BY <1>3, <3>1, <3>3
    <3>6. QED
        BY <1>3, <3>2, <3>3, <3>4, <3>5
  <2>2. CASE ~(first <= last)
    <3>1. 1..(last - first + 1) = {}
        BY <1>3, <2>2
    <3>2. DOMAIN batch = {} /\ batch \in [1..0 -> Updates]
        BY <1>1, <3>1
    <3>3. batch \in Seq(Updates)
        BY <3>2
    <3>4. Len(batch) = 0
        BY <3>2, <3>3, LenProperties
    <3>5. batch = <<>>
        BY <3>3, <3>4, EmptySeq
    <3>6. QED
        BY <3>2, <3>3, <3>5
  <2>3. QED
      BY <2>1, <2>2
<1>5. /\ loop' \in [Loops -> LoopRecords] /\ \A k \in Loops : k # l => loop'[k] = loop[k]
      /\ loop'[l].st = "asked" /\ loop'[l].batch = batch /\ loop'[l].off = loop[l].off
    BY <1>2, <1>4 DEF PollInv, Reading, LoopRecords, LoopStates
<1>6. ASSUME NEW k \in Loops PROVE Reads(k)'
    BY <1>2, <1>3, <1>4, <1>5 DEF PollInv, Reading, Reads, Below
<1>7. Reading'
    BY <1>2, <1>5, <1>6 DEF PollInv, Reading, Below
<1>8. Received'
    BY <1>2, <1>3 DEF PollInv, Received, Below
<1>9. Ours' = Ours
    BY <1>2 DEF Ours
<1>10. Recorded'
    BY <1>2, <1>9 DEF PollInv, Recorded, Once, Has
<1>11. QED
    BY <1>2, <1>7, <1>8, <1>9, <1>10 DEF PollInv, GoodRows, Sound, Vouched

LEMMA WaitingInv ==
    ASSUME PollInv, NEW l \in Loops, Receive(l) \/ EndOfBatch(l) \/ Refuse(l) \/ Defer(l)
    PROVE  PollInv'
<1>1. \/ Moves(l, "scan") \/ Moves(l, "ask") \/ AsksAgain(l)
    BY DEF Receive, EndOfBatch, Refuse, Defer
<1>2. UNCHANGED <<ledger, stored, offset, outside, settled, executed>>
    BY DEF Receive, EndOfBatch, Refuse, Defer
<1>3. PICK scan, ask \in LoopStates : scan = "scan" /\ ask = "ask"
    BY DEF LoopStates
<1>4. UNCHANGED <<arrived, blocked>>
    BY <1>2 DEF outside
<1>5. Reading'
    BY <1>1, <1>2, <1>3, <1>4, LoopMoves DEF PollInv
<1>6. QED
    BY <1>2, <1>5, SameLedger

LEMMA PassOverInv == ASSUME PollInv, NEW l \in Loops, PassOver(l) PROVE PollInv'
<1>1. /\ UNCHANGED <<ledger, stored, outside, executed, settled, arrived, blocked>>
      /\ loop[l].batch # <<>> /\ Current(l) \in Foreign /\ Acknowledges(l)
    BY DEF PassOver, Scans, outside
<1>2. Reading'
    BY <1>1, Acknowledged DEF PollInv
<1>3. QED
    BY <1>1, <1>2, SameLedger

(* A row of u in a ledger of sound rows says what StateOf says. *)
LEMMA StateOfRow ==
    ASSUME NEW rows, NEW u, StateOf(rows, u) # "none"
    PROVE  \E i \in DOMAIN rows : rows[i].id = u /\ rows[i].state = StateOf(rows, u)
BY DEF StateOf, Has

LEMMA SkipCompletedInv == ASSUME PollInv, NEW l \in Loops, SkipCompleted(l) PROVE PollInv'
<1>1. /\ loop[l].batch # <<>> /\ StateOf(ledger, Current(l)) = "completed"
      /\ UNCHANGED <<ledger, outside, executed, settled, arrived, blocked>>
      /\ stored' = stored \/ stored' = ledger'
      /\ Acknowledges(l) \/ (AsksAgain(l) /\ UNCHANGED offset)
      /\ ~blocked
    BY DEF SkipCompleted, Mine, Scans, outside, Stores
<1>2. Current(l) \in settled
    BY <1>1, StateOfRow DEF PollInv, GoodRows, Vouched
<1>3. "ask" \in LoopStates
    BY DEF LoopStates
<1>4. Reading'
  <2>1. CASE Acknowledges(l)
      BY <1>1, <1>2, <2>1, Acknowledged DEF PollInv
  <2>2. CASE AsksAgain(l) /\ UNCHANGED offset
      BY <1>1, <1>3, <2>2, LoopMoves DEF PollInv
  <2>3. QED
      BY <1>1, <2>1, <2>2
<1>5. GoodRows(ledger', Ours, settled')
    BY <1>1 DEF PollInv
<1>6. QED
    BY <1>1, <1>4, <1>5, LedgerStep DEF PollInv, Received

LEMMA HoldUncertainInv == ASSUME PollInv, NEW l \in Loops, HoldUncertain(l) PROVE PollInv'
<1>1. /\ loop[l].batch # <<>> /\ StateOf(ledger, Current(l)) = "uncertain"
      /\ UNCHANGED <<ledger, outside, executed, settled, arrived, blocked>>
      /\ stored' = stored \/ stored' = ledger'
      /\ \/ ~NeedsNotice(ledger, Current(l)) /\ Acknowledges(l)
         \/ Moves(l, "telling") /\ UNCHANGED offset
         \/ AsksAgain(l) /\ UNCHANGED offset
      /\ ~blocked
    BY DEF HoldUncertain, Mine, Scans, outside, Stores
<1>2. ASSUME ~NeedsNotice(ledger, Current(l)) PROVE Current(l) \in settled
    BY <1>1, <1>2, StateOfRow DEF PollInv, GoodRows, Vouched, NeedsNotice
<1>3. PICK telling \in LoopStates : telling = "telling"
    BY DEF LoopStates
<1>4. Reading'
  <2>1. CASE ~NeedsNotice(ledger, Current(l)) /\ Acknowledges(l)
      BY <1>1, <1>2, <2>1, Acknowledged DEF PollInv
  <2>2. CASE (Moves(l, telling) \/ AsksAgain(l)) /\ UNCHANGED offset
      BY <1>1, <1>3, <2>2, LoopMoves DEF PollInv
  <2>3. QED
      BY <1>1, <1>3, <2>1, <2>2
<1>5. GoodRows(ledger', Ours, settled')
    BY <1>1 DEF PollInv
<1>6. QED
    BY <1>1, <1>4, <1>5, LedgerStep DEF PollInv, Received

LEMMA OursFinite == ASSUME Received PROVE IsFiniteSet(Ours) /\ Cardinality(Ours) \in Nat
<1>1. PICK n \in Nat : n = arrived
    BY DEF Received
<1>2. IsFiniteSet(1..n)
    BY <1>1, FS_Interval
<1>3. Ours \subseteq 1..n
    BY <1>1 DEF Ours
<1>4. QED
    BY <1>2, <1>3, FS_Subset, FS_CardinalityType

LEMMA RoomForOurs ==
    ASSUME PollInv, Cardinality(Ours) <= MaxRecords
    PROVE  /\ Len(ledger) <= MaxRecords /\ Len(stored) <= MaxRecords
           /\ \A u \in Ours : ~Has(ledger, u) => Len(ledger) < MaxRecords
<1>1. PICK A, S, L, R : A = Ours /\ S = settled /\ L = ledger /\ R = stored
    OBVIOUS
<1>2. GoodRows(L, A, S) /\ GoodRows(R, A, S) /\ IsFiniteSet(A) /\ Cardinality(A) \in Nat
    BY <1>1, OursFinite DEF PollInv
<1>3. /\ Len(L) <= Cardinality(A) /\ Len(R) <= Cardinality(A)
      /\ \A u \in A : ~Has(L, u) => Len(L) < Cardinality(A)
    BY <1>2, RoomForAll
<1>4. Len(L) \in Nat /\ Len(R) \in Nat
    BY <1>2, RowSeqs DEF GoodRows
<1>5. QED
    BY <1>1, <1>2, <1>3, <1>4, MaxRecordsAssumption

(* Where a loop is when it has dispatched an update or has its chat to tell. *)
LEMMA AtWork ==
    ASSUME PollInv, NEW l \in Loops, loop[l].st \in {"executing", "telling"}
    PROVE  loop[l].batch # <<>> /\ ~blocked /\ Current(l) \in Updates
<1>1. loop[l].batch # <<>> /\ ~blocked
    BY DEF PollInv, Reading, Reads
<1>2. QED
    BY <1>1, AtUpdate DEF PollInv

LEMMA SucceedsInv == ASSUME PollInv, NEW l \in Loops, Succeeds(l) PROVE PollInv'
<1>1. PICK u, A, S, L, T : /\ u = Current(l) /\ A = Ours /\ S = settled /\ L = ledger
                           /\ T = settled \cup {u}
    OBVIOUS
<1>2. /\ loop[l].batch # <<>> /\ ~blocked /\ u \in Updates
      /\ settled' = T
      /\ UNCHANGED <<outside, executed, arrived, blocked>>
    BY <1>1, AtWork DEF Succeeds, outside
<1>3. GoodRows(L, A, T)
    BY <1>1, GoodLater DEF PollInv
<1>4. PICK busy : busy = active
    OBVIOUS
<1>5. PICK done : done = Completed(L, busy, u)
    OBVIOUS
<1>6. /\ GoodRows(done, A, T)
      /\ Len(L) <= MaxRecords => \A v : Has(L, v) => Has(done, v)
  <2>1. u \in T
      BY <1>1
  <2>2. QED
      BY <1>2, <1>3, <1>5, <2>1, CompletedGood
<1>7. PICK doubt : doubt = MadeUncertain(done, u)
    OBVIOUS
<1>8. GoodRows(doubt, A, T) /\ \A v : Has(doubt, v) <=> Has(done, v)
  <2>1. PICK state \in RowStates : state = "uncertain"
      BY DEF RowStates
  <2>2. doubt = Marked(done, u, state) /\ (state = "completed" => u \in T)
      BY <1>7, <2>1 DEF MadeUncertain
  <2>3. QED
      BY <1>2, <1>6, <2>2, MarkedGood
<1>9. /\ stored' = stored \/ stored' = ledger'
      /\ ledger' = done \/ ledger' = doubt
      /\ Acknowledges(l) \/ (AsksAgain(l) /\ UNCHANGED offset)
    BY <1>1, <1>4, <1>5, <1>7 DEF Succeeds, Stores
<1>10. Reading'
  <2>1. "ask" \in LoopStates /\ settled \subseteq settled' /\ u \in settled'
      BY <1>1, <1>2 DEF LoopStates
  <2>2. CASE Acknowledges(l)
      BY <1>1, <1>2, <2>1, <2>2, Acknowledged DEF PollInv
  <2>3. CASE AsksAgain(l) /\ UNCHANGED offset
      BY <1>2, <2>1, <2>3, LoopMoves DEF PollInv
  <2>4. QED
      BY <1>9, <2>2, <2>3
<1>11. Cardinality(Ours) <= MaxRecords => \A v \in Updates : Has(ledger, v) => Has(ledger', v)
    BY <1>1, <1>6, <1>8, <1>9, RoomForOurs
<1>12. GoodRows(ledger', Ours, settled') /\ settled \subseteq settled' /\ settled' \subseteq Updates
    BY <1>1, <1>2, <1>6, <1>8, <1>9 DEF PollInv, Received
<1>13. QED
    BY <1>2, <1>9, <1>10, <1>11, <1>12, LedgerStep

LEMMA FailsInv == ASSUME PollInv, NEW l \in Loops, Fails(l) PROVE PollInv'
<1>1. PICK u, A, S, L : u = Current(l) /\ A = Ours /\ S = settled /\ L = ledger
    OBVIOUS
<1>2. /\ loop[l].batch # <<>> /\ ~blocked /\ u \in Updates
      /\ UNCHANGED <<outside, executed, settled, offset, arrived, blocked>>
    BY <1>1, AtWork DEF Fails, outside
<1>3. PICK doubt : doubt = MadeUncertain(L, u)
    OBVIOUS
<1>4. GoodRows(doubt, A, S) /\ \A v : Has(doubt, v) <=> Has(L, v)
  <2>1. PICK state \in RowStates : state = "uncertain"
      BY DEF RowStates
  <2>2. doubt = Marked(L, u, state) /\ (state = "completed" => u \in S) /\ GoodRows(L, A, S)
      BY <1>1, <1>3, <2>1 DEF MadeUncertain, PollInv
  <2>3. QED
      BY <1>2, <2>2, MarkedGood
<1>5. /\ stored' = stored \/ stored' = ledger'
      /\ ledger' = doubt
      /\ Moves(l, "telling") \/ AsksAgain(l)
    BY <1>1, <1>3 DEF Fails, Stores
<1>6. Reading'
  <2>1. PICK telling \in LoopStates : telling = "telling"
      BY DEF LoopStates
  <2>2. QED
      BY <1>2, <1>5, <2>1, LoopMoves DEF PollInv
<1>7. GoodRows(ledger', Ours, settled')
    BY <1>1, <1>2, <1>4, <1>5
<1>8. \A v \in Updates : Has(ledger, v) => Has(ledger', v)
    BY <1>1, <1>4, <1>5
<1>9. QED
    BY <1>2, <1>5, <1>6, <1>7, <1>8, LedgerStep DEF PollInv, Received

LEMMA TellChatInv == ASSUME PollInv, NEW l \in Loops, TellChat(l) PROVE PollInv'
<1>1. PICK u, A, S, L, T : /\ u = Current(l) /\ A = Ours /\ S = settled /\ L = ledger
                           /\ T = settled \cup {u}
    OBVIOUS
<1>2. /\ loop[l].batch # <<>> /\ ~blocked /\ u \in Updates
      /\ UNCHANGED <<outside, executed, arrived, blocked>>
    BY <1>1, AtWork DEF TellChat, outside
<1>3. PICK noted : noted = NoticeSent(L, u)
    OBVIOUS
<1>4. GoodRows(noted, A, T) /\ \A v : Has(noted, v) <=> Has(L, v)
  <2>1. GoodRows(L, A, T) /\ u \in T
      BY <1>1, GoodLater DEF PollInv
  <2>2. QED
      BY <1>3, <2>1, NoticeGood
<1>5. /\ stored' = stored \/ stored' = ledger'
      /\ \/ settled' = T /\ ledger' = noted
         \/ settled' = settled /\ ledger' = ledger
      /\ \/ Acknowledges(l) /\ settled' = T
         \/ AsksAgain(l) /\ UNCHANGED offset
    BY <1>1, <1>3 DEF TellChat, Stores
<1>6. settled \subseteq settled' /\ settled' \subseteq Updates
    BY <1>1, <1>2, <1>5 DEF PollInv, Received
<1>7. Reading'
  <2>1. "ask" \in LoopStates
      BY DEF LoopStates
  <2>2. CASE Acknowledges(l) /\ settled' = T
      BY <1>1, <1>2, <1>6, <2>2, Acknowledged DEF PollInv
  <2>3. CASE AsksAgain(l) /\ UNCHANGED offset
      BY <1>2, <1>6, <2>1, <2>3, LoopMoves DEF PollInv
  <2>4. QED
      BY <1>5, <2>2, <2>3
<1>8. GoodRows(ledger', Ours, settled')
    BY <1>1, <1>4, <1>5 DEF PollInv
<1>9. \A v \in Updates : Has(ledger, v) => Has(ledger', v)
    BY <1>1, <1>4, <1>5
<1>10. QED
    BY <1>2, <1>5, <1>6, <1>7, <1>8, <1>9, LedgerStep

(* An update of which the ledger knows nothing is claimed: as long as there is
   room it was not executed before, and the claim displaces no row. *)
LEMMA ExecuteInv == ASSUME PollInv, NEW l \in Loops, Execute(l) PROVE PollInv'
<1>1. PICK u, A, S, L, busy : u = Current(l) /\ A = Ours /\ S = settled /\ L = ledger /\ busy = active
    OBVIOUS
<1>2. /\ loop[l].batch # <<>> /\ ~blocked /\ u \notin Foreign /\ StateOf(L, u) = "none"
      /\ UNCHANGED <<outside, offset, settled, arrived, forgotten, blocked>>
    BY <1>1 DEF Execute, Mine, Scans, outside
<1>3. u \in Updates /\ u \in A
    BY <1>1, <1>2, AtUpdate DEF PollInv
<1>4. GoodRows(L, A, S)
    BY <1>1 DEF PollInv
<1>5. ~Has(L, u)
  <2> SUFFICES ASSUME Has(L, u) PROVE FALSE
      OBVIOUS
  <2>1. PICK i \in DOMAIN L : L[i].state = "none"
      BY <1>2 DEF Has, StateOf
  <2>2. L[i] \in Rows(Updates)
      BY <1>4, <2>1, RowSeqs DEF GoodRows
  <2>3. QED
      BY <2>1, <2>2 DEF Rows, RowStates
<1>6. PICK room, claimed, given :
          /\ room = MadeRoom(L, busy) /\ claimed = Claimed(L, busy, u)
          /\ given = Cancelled(claimed, u)
    OBVIOUS
<1>7. /\ GoodRows(room, A, S) /\ GoodRows(claimed, A, S) /\ GoodRows(given, A, S)
      /\ Has(claimed, u)
      /\ Len(L) < MaxRecords =>
             \A v : Has(L, v) => Has(room, v) /\ Has(claimed, v) /\ Has(given, v)
    BY <1>3, <1>4, <1>5, <1>6, ClaimGood
<1>8. Cardinality(Ours) <= MaxRecords => Len(L) < MaxRecords
    BY <1>1, <1>3, <1>5, RoomForOurs
<1>9. CASE /\ ledger' = room \/ ledger' = given
           /\ AsksAgain(l) /\ UNCHANGED <<stored, executed>>
  <2>1. "ask" \in LoopStates
      BY DEF LoopStates
  <2>2. Reading'
      BY <1>2, <1>9, <2>1, LoopMoves DEF PollInv
  <2>3. GoodRows(ledger', Ours, settled')
      BY <1>1, <1>2, <1>7, <1>9
  <2>4. Cardinality(Ours) <= MaxRecords => \A v \in Updates : Has(ledger, v) => Has(ledger', v)
      BY <1>1, <1>7, <1>8, <1>9
  <2>5. QED
      BY <1>2, <1>9, <2>2, <2>3, <2>4, LedgerStep DEF PollInv, Received
<1>10. CASE /\ ledger' = claimed /\ stored' = ledger' /\ Moves(l, "executing")
            /\ executed' = [executed EXCEPT ![u] = @ + 1]
  <2>1. PICK executing \in LoopStates : executing = "executing"
      BY DEF LoopStates
  <2>2. Reading'
      BY <1>2, <1>10, <2>1, LoopMoves DEF PollInv
  <2>3. executed \in [Updates -> Nat] /\ executed' \in [Updates -> Nat]
      BY <1>3, <1>10 DEF PollInv, Received
  <2>4. Received'
      BY <1>2, <2>3 DEF PollInv, Received, Below
  <2>5. Ours' = Ours
      BY <1>2 DEF Ours
  <2>6. GoodRows(ledger, Ours, settled)' /\ GoodRows(stored, Ours, settled)'
      BY <1>1, <1>2, <1>7, <1>10, <2>5
  <2>7. Recorded'
    <3> SUFFICES ASSUME Cardinality(Ours) <= MaxRecords, NEW v \in Updates PROVE Once(v)'
        BY <2>5 DEF Recorded
    <3>1. Once(v) /\ Once(u)
        BY <1>3 DEF PollInv, Recorded
    <3>2. executed[u] = 0
        BY <1>1, <1>2, <1>3, <1>5, <2>3, <3>1 DEF Once
    <3>3. executed'[v] = IF v = u THEN 1 ELSE executed[v]
        BY <1>3, <1>10, <2>3, <3>2
    <3>4. executed[v] = 1 => Has(claimed, v)
        BY <1>1, <1>2, <1>7, <1>8, <3>1 DEF Once
    <3>5. Has(ledger, v)' = Has(claimed, v) /\ Has(stored, v)' = Has(claimed, v)
        BY <1>10 DEF Has
    <3>6. executed'[v] = 1 => Has(claimed, v)
        BY <1>7, <3>3, <3>4
    <3>7. executed'[v] <= 1
        BY <3>1, <3>3 DEF Once
    <3>8. QED
        BY <3>5, <3>6, <3>7 DEF Once
  <2>8. QED
      BY <2>2, <2>4, <2>6, <2>7 DEF PollInv
<1>11. QED
    BY <1>1, <1>6, <1>9, <1>10 DEF Execute, Stores

(* A new instance reads the ledger that was stored, or claims nothing. *)
LEMMA RestartInv == ASSUME PollInv, Restart PROVE PollInv'
<1>1. PICK A, S, R : A = Ours /\ S = settled /\ R = stored
    OBVIOUS
<1>2. /\ UNCHANGED <<stored, offset, arrived, forgotten, executed, settled>>
      /\ loop' = [l \in Loops |-> Idle]
      /\ \/ ledger' = Restored(R) /\ blocked' = FALSE
         \/ ledger' = <<>> /\ blocked' = TRUE
    BY <1>1 DEF Restart
<1>3. GoodRows(R, A, S) /\ GoodRows(<<>>, A, S)
    BY <1>1 DEF PollInv, GoodRows, Sound, Vouched
<1>4. /\ GoodRows(Restored(R), A, S)
      /\ Len(R) <= MaxRecords => \A v : Has(R, v) => Has(Restored(R), v)
    BY <1>3, RestoredGood
<1>5. Idle \in LoopRecords /\ Idle.batch = <<>> /\ Idle.st = "off" /\ Idle.off = 1
    BY EmptySeq DEF Idle, LoopRecords, LoopStates
<1>6. \A u \in Updates : ~(u < 1)
    BY LastUpdateAssumption DEF Updates
<1>7. ASSUME NEW l \in Loops PROVE Reads(l)'
    BY <1>2, <1>5, <1>6 DEF Reads, Below
<1>8. Reading'
    BY <1>2, <1>5, <1>7 DEF PollInv, Reading, Below
<1>9. Ours' = Ours
    BY <1>2 DEF Ours
<1>10. Received'
  <2>1. blocked' \in BOOLEAN
      BY <1>2
  <2>2. QED
      BY <1>2, <2>1 DEF PollInv, Received, Below
<1>11. GoodRows(ledger, Ours, settled)' /\ GoodRows(stored, Ours, settled)'
    BY <1>1, <1>2, <1>3, <1>4, <1>9
<1>12. Recorded'
  <2> SUFFICES ASSUME Cardinality(Ours) <= MaxRecords, NEW u \in Updates PROVE Once(u)'
      BY <1>9 DEF Recorded
  <2>1. Once(u) /\ executed'[u] = executed[u]
      BY <1>2 DEF PollInv, Recorded
  <2>2. Has(R, u) => Has(Restored(R), u)
      BY <1>1, <1>4, RoomForOurs
  <2>3. executed[u] = 1 => Has(stored', u) /\ (blocked' \/ Has(ledger', u))
      BY <1>1, <1>2, <2>1, <2>2 DEF Once
  <2>4. QED
      BY <2>1, <2>3 DEF Once, Has
<1>13. QED
    BY <1>8, <1>10, <1>11, <1>12 DEF PollInv

LEMMA UpdateArrivesInv == ASSUME PollInv, UpdateArrives PROVE PollInv'
<1>1. PICK A, B, S, L, R : /\ A = Ours /\ B = Ours' /\ S = settled /\ L = ledger /\ R = stored
    OBVIOUS
<1>2. /\ UNCHANGED <<ledger, stored, offset, loop, forgotten, executed, settled, blocked>>
      /\ arrived < LastUpdate /\ arrived' = arrived + 1
    BY DEF UpdateArrives
<1>3. arrived \in Nat /\ arrived' \in Nat /\ arrived' <= LastUpdate
    BY <1>2, LastUpdateAssumption DEF PollInv, Received
<1>4. A \subseteq B
    BY <1>1, <1>2, <1>3 DEF Ours
<1>5. Received'
    BY <1>2, <1>3 DEF PollInv, Received, Below
<1>6. IsFiniteSet(B) /\ Cardinality(A) \in Nat /\ Cardinality(B) \in Nat
  <2>1. IsFiniteSet(A) /\ Cardinality(A) \in Nat
      BY <1>1, OursFinite DEF PollInv
  <2>2. PICK n \in Nat : n = arrived'
      BY <1>3
  <2>3. B \subseteq 1..n /\ IsFiniteSet(1..n)
      BY <1>1, <2>2, FS_Interval DEF Ours
  <2>4. QED
      BY <2>1, <2>3, FS_Subset, FS_CardinalityType
<1>7. Cardinality(A) <= Cardinality(B)
    BY <1>4, <1>6, FS_Subset
<1>8. GoodRows(L, A, S) /\ GoodRows(R, A, S)
    BY <1>1 DEF PollInv
<1>9. GoodRows(L, B, S) /\ GoodRows(R, B, S)
    BY <1>4, <1>8, GoodLater
<1>10. GoodRows(ledger, Ours, settled)' /\ GoodRows(stored, Ours, settled)'
    BY <1>1, <1>2, <1>9
<1>11. ASSUME NEW l \in Loops PROVE Reads(l)'
  <2>1. Reads(l) /\ loop[l].batch \in Seq(Updates)
      BY DEF PollInv, Reading, LoopRecords
  <2>2. \A i \in DOMAIN loop[l].batch : loop[l].batch[i] \in Nat
      BY <2>1, ElementOfSeq, LenProperties, LastUpdateAssumption DEF Updates
  <2>3. QED
      BY <1>2, <1>3, <2>1, <2>2 DEF Reads, Below
<1>12. Reading'
    BY <1>2, <1>11 DEF PollInv, Reading, Below
<1>13. Recorded'
  <2> SUFFICES ASSUME Cardinality(B) <= MaxRecords PROVE \A u \in Updates : Once(u)'
      BY <1>1 DEF Recorded
  <2>1. Cardinality(A) <= MaxRecords
      BY <1>6, <1>7, MaxRecordsAssumption
  <2>2. QED
      BY <1>1, <1>2, <2>1 DEF PollInv, Recorded, Once, Has
<1>14. QED
    BY <1>5, <1>10, <1>12, <1>13 DEF PollInv

LEMMA PollStutters == ASSUME PollInv, UNCHANGED pollingVars PROVE PollInv'
<1>1. /\ UNCHANGED <<ledger, stored, offset, loop, arrived, forgotten>>
      /\ UNCHANGED <<executed, settled, blocked>>
    BY DEF pollingVars
<1>2. Reading'
    BY <1>1 DEF PollInv, Reading, Reads, Below
<1>3. QED
    BY <1>1, <1>2, SameLedger DEF outside

LEMMA PollStep == PollInv /\ [PollingNext]_pollingVars => PollInv'
<1> SUFFICES ASSUME PollInv, [PollingNext]_pollingVars PROVE PollInv'
    OBVIOUS
<1>1. CASE UpdateArrives \/ Restart
    BY <1>1, UpdateArrivesInv, RestartInv
<1>2. ASSUME NEW l \in Loops, StartLoop(l) PROVE PollInv'
    BY <1>2, StartLoopInv
<1>3. ASSUME NEW l \in Loops, LoopStep(l) PROVE PollInv'
  <2>1. CASE Ask(l) \/ Receive(l) \/ StopLoop(l) \/ EndOfBatch(l) \/ Refuse(l) \/ Defer(l)
      BY <2>1, AskInv, StopLoopInv, WaitingInv
  <2>2. CASE PassOver(l) \/ Execute(l) \/ SkipCompleted(l) \/ HoldUncertain(l)
      BY <2>2, PassOverInv, ExecuteInv, SkipCompletedInv, HoldUncertainInv
  <2>3. CASE Succeeds(l) \/ Fails(l) \/ TellChat(l)
      BY <2>3, SucceedsInv, FailsInv, TellChatInv
  <2>4. QED
      BY <1>3, <2>1, <2>2, <2>3 DEF LoopStep
<1>4. QED
    BY <1>1, <1>2, <1>3, PollStutters DEF PollingNext

(* What every state of the reception of updates keeps. *)
THEOREM PollInvariant == PollingSpec => []PollInv
BY PollInit, PollStep, PTL DEF PollingSpec

(* No update is dispatched twice, whatever the app, its loops and its storage go
   through, as long as the ledger has a row for each that has arrived. *)
THEOREM ExecutedOnce == PollingSpec => []AtMostOnce
<1>1. PollInv => AtMostOnce
    BY DEF PollInv, Recorded, Once, Ours, AtMostOnce
<1>2. QED
    BY <1>1, PollInvariant, PTL

(* Telegram forgets no update of the app that is not settled. *)
THEOREM SettledBeforeForgotten == PollingSpec => []NothingSkipped
<1>1. PollInv => NothingSkipped
    BY DEF PollInv, Received, Below, NothingSkipped
<1>2. QED
    BY <1>1, PollInvariant, PTL
-----------------------------------------------------------------------------
(* What is being processed by the rows, and what the operations of the ledger
   make of it.  Only completed rows make room. *)
AtProcessing(rows) == {i \in DOMAIN rows : rows[i].state = "processing"}
Processed(rows) == {rows[i].id : i \in AtProcessing(rows)}

LEMMA KeptProcessed ==
    ASSUME NEW rows \in Seq(Rows(Updates)), NEW I \in SUBSET DOMAIN rows
    PROVE  /\ Kept(rows, I) \in Seq(Rows(Updates)) /\ Len(Kept(rows, I)) <= Len(rows)
           /\ Processed(Kept(rows, I)) = {rows[i].id : i \in I \cap AtProcessing(rows)}
<1>1. PICK kept : kept = Kept(rows, I)
    OBVIOUS
<1>2. /\ kept \in Seq(Rows(Updates)) /\ Len(kept) = Cardinality(I)
      /\ \A k \in DOMAIN kept : \E i \in I : kept[k] = rows[i]
      /\ \A i \in I : \E k \in DOMAIN kept : kept[k] = rows[i]
    BY <1>1, KeptOnes
<1>3. PICK n \in Nat : n = Len(rows) /\ DOMAIN rows = 1..n
    BY RowSeqs
<1>4. Cardinality(I) <= n
  <2>1. /\ IsFiniteSet(1..n)
        /\ Cardinality(1..n) = IF 1 > n THEN 0 ELSE n - 1 + 1
      BY FS_Interval
  <2>2. Cardinality(1..n) = n
      BY <2>1
  <2>3. QED
      BY <1>3, <2>1, <2>2, FS_Subset
<1>5. Processed(kept) = {rows[i].id : i \in I \cap AtProcessing(rows)}
    BY <1>2 DEF Processed, AtProcessing
<1>6. QED
    BY <1>1, <1>2, <1>3, <1>4, <1>5

LEMMA TrimProcessed ==
    ASSUME NEW rows \in Seq(Rows(Updates)), NEW busy, NEW limit
    PROVE  /\ Trim(rows, busy, limit) \in Seq(Rows(Updates))
           /\ Len(Trim(rows, busy, limit)) <= Len(rows)
           /\ Processed(Trim(rows, busy, limit)) = Processed(rows)
<1> DEFINE done == {i \in DOMAIN rows : rows[i].state = "completed" /\ rows[i].id \notin busy}
           old == {i \in done : Cardinality({j \in done : j < i}) + limit < Len(rows)}
<1>1. Trim(rows, busy, limit) = Kept(rows, DOMAIN rows \ old)
    BY DEF Trim
<1>2. PICK I \in SUBSET DOMAIN rows : I = DOMAIN rows \ old
    OBVIOUS
<1>3. I \cap AtProcessing(rows) = AtProcessing(rows)
    BY <1>2 DEF AtProcessing
<1>4. Processed(rows) = {rows[i].id : i \in I \cap AtProcessing(rows)}
    BY <1>3 DEF Processed
<1>5. Trim(rows, busy, limit) = Kept(rows, I)
    BY <1>1, <1>2
<1>6. QED
    BY <1>4, <1>5, KeptProcessed

LEMMA RewrittenProcessed ==
    ASSUME NEW rows \in Seq(Rows(Updates)), NEW new,
           DOMAIN new = DOMAIN rows, new = [i \in DOMAIN rows |-> new[i]],
           \A i \in DOMAIN rows : new[i] \in Rows(Updates)
    PROVE  new \in Seq(Rows(Updates)) /\ Len(new) = Len(rows)
<1>1. PICK n \in Nat : n = Len(rows) /\ DOMAIN rows = 1..n
    BY RowSeqs
<1>2. new \in [1..n -> Rows(Updates)]
    BY <1>1
<1>3. QED
    BY <1>1, <1>2, IsASeq, LenProperties

LEMMA MarkedProcessed ==
    ASSUME NEW rows \in Seq(Rows(Updates)), NEW u \in Updates,
           NEW state \in RowStates \ {"processing"}
    PROVE  /\ Marked(rows, u, state) \in Seq(Rows(Updates))
           /\ Len(Marked(rows, u, state)) = Len(rows)
           /\ Processed(Marked(rows, u, state)) = Processed(rows) \ {u}
<1>1. \A i \in DOMAIN rows : rows[i] \in Rows(Updates)
    BY RowSeqs
<1>2. PICK new : new = Marked(rows, u, state)
    OBVIOUS
<1>3. Row(u, state) \in Rows(Updates) /\ Row(u, state).id = u /\ Row(u, state).state = state
    BY DEF Row, Rows
<1>4. /\ DOMAIN new = DOMAIN rows /\ new = [i \in DOMAIN rows |-> new[i]]
      /\ \A i \in DOMAIN rows : new[i] = IF rows[i].id = u THEN Row(u, state) ELSE rows[i]
    BY <1>2 DEF Marked
<1>5. /\ \A i \in DOMAIN rows : new[i] \in Rows(Updates) /\ new[i].id = rows[i].id
      /\ \A i \in DOMAIN rows :
             new[i].state = "processing" <=> rows[i].state = "processing" /\ rows[i].id # u
    BY <1>1, <1>3, <1>4
<1>6. Processed(new) = Processed(rows) \ {u}
    BY <1>4, <1>5 DEF Processed, AtProcessing
<1>7. QED
    BY <1>2, <1>4, <1>5, <1>6, RewrittenProcessed

LEMMA NoticeProcessed ==
    ASSUME NEW rows \in Seq(Rows(Updates)), NEW u
    PROVE  /\ NoticeSent(rows, u) \in Seq(Rows(Updates))
           /\ Len(NoticeSent(rows, u)) = Len(rows)
           /\ Processed(NoticeSent(rows, u)) = Processed(rows)
<1>1. \A i \in DOMAIN rows : rows[i] \in Rows(Updates)
    BY RowSeqs
<1>2. PICK new : new = NoticeSent(rows, u)
    OBVIOUS
<1>3. /\ DOMAIN new = DOMAIN rows /\ new = [i \in DOMAIN rows |-> new[i]]
      /\ \A i \in DOMAIN rows : new[i] = IF rows[i].id = u /\ rows[i].state = "uncertain"
                                         THEN [rows[i] EXCEPT !.told = TRUE] ELSE rows[i]
    BY <1>2 DEF NoticeSent
<1>4. \A i \in DOMAIN rows :
          /\ new[i] \in Rows(Updates) /\ new[i].id = rows[i].id /\ new[i].state = rows[i].state
    BY <1>1, <1>3 DEF Rows
<1>5. Processed(new) = Processed(rows)
    BY <1>3, <1>4 DEF Processed, AtProcessing
<1>6. QED
    BY <1>2, <1>3, <1>4, <1>5, RewrittenProcessed

LEMMA ClaimProcessed ==
    ASSUME NEW rows \in Seq(Rows(Updates)), NEW busy, NEW u \in Updates
    PROVE  /\ Len(MadeRoom(rows, busy)) <= Len(rows)
           /\ Processed(MadeRoom(rows, busy)) = Processed(rows)
           /\ Len(Claimed(rows, busy, u)) = Len(MadeRoom(rows, busy)) + 1
           /\ Processed(Claimed(rows, busy, u)) = Processed(rows) \cup {u}
           /\ Len(Cancelled(Claimed(rows, busy, u), u)) <= Len(Claimed(rows, busy, u))
           /\ Processed(Cancelled(Claimed(rows, busy, u), u)) = Processed(rows) \ {u}
<1>1. PICK room, longer : room = MadeRoom(rows, busy) /\ longer = Claimed(rows, busy, u)
    OBVIOUS
<1>2. /\ room \in Seq(Rows(Updates)) /\ Len(room) <= Len(rows)
      /\ Processed(room) = Processed(rows)
    BY <1>1, TrimProcessed DEF MadeRoom
<1>3. PICK row : row = Row(u, "processing")
    OBVIOUS
<1>4. row \in Rows(Updates) /\ row.id = u /\ row.state = "processing"
    BY <1>3 DEF Row, Rows, RowStates
<1>5. Len(room) \in Nat /\ DOMAIN room = 1..Len(room)
    BY <1>2, RowSeqs
<1>6. /\ longer \in Seq(Rows(Updates)) /\ Len(longer) = Len(room) + 1
      /\ DOMAIN longer = DOMAIN room \cup {Len(room) + 1}
      /\ \A i \in DOMAIN room : longer[i] = room[i]
      /\ longer[Len(room) + 1] = row
  <2>1. longer = Append(room, row)
      BY <1>1, <1>3 DEF Claimed
  <2>2. QED
      BY <1>2, <1>4, <1>5, <2>1, AppendProperties, LenProperties
<1>7. Processed(longer) = Processed(room) \cup {u}
  <2>1. AtProcessing(longer) = AtProcessing(room) \cup {Len(room) + 1}
      BY <1>4, <1>6 DEF AtProcessing
  <2>2. \A i \in AtProcessing(room) : longer[i] = room[i]
      BY <1>6 DEF AtProcessing
  <2>3. QED
      BY <1>4, <1>6, <2>1, <2>2 DEF Processed
<1>8. PICK I \in SUBSET DOMAIN longer : I = {i \in DOMAIN longer : longer[i].id # u}
    OBVIOUS
<1>9. /\ Len(Kept(longer, I)) <= Len(longer)
      /\ Processed(Kept(longer, I)) = {longer[i].id : i \in I \cap AtProcessing(longer)}
    BY <1>6, KeptProcessed
<1>10. {longer[i].id : i \in I \cap AtProcessing(longer)} = Processed(longer) \ {u}
    BY <1>8 DEF Processed, AtProcessing
<1>11. Cancelled(longer, u) = Kept(longer, I)
    BY <1>8 DEF Cancelled
<1>12. Processed(longer) \ {u} = Processed(rows) \ {u}
    BY <1>2, <1>7
<1>13. QED
    BY <1>1, <1>2, <1>6, <1>7, <1>9, <1>10, <1>11, <1>12

LEMMA RestoredProcessed ==
    ASSUME NEW rows \in Seq(Rows(Updates))
    PROVE  Len(Restored(rows)) <= Len(rows) /\ Processed(Restored(rows)) = {}
<1>1. \A i \in DOMAIN rows : rows[i] \in Rows(Updates)
    BY RowSeqs
<1>2. PICK new : new = [i \in DOMAIN rows |-> IF rows[i].state = "processing"
                                              THEN Row(rows[i].id, "uncertain") ELSE rows[i]]
    OBVIOUS
<1>3. \A i \in DOMAIN rows : /\ Row(rows[i].id, "uncertain") \in Rows(Updates)
                             /\ Row(rows[i].id, "uncertain").state = "uncertain"
    BY <1>1 DEF Row, Rows, RowStates
<1>4. /\ DOMAIN new = DOMAIN rows /\ new = [i \in DOMAIN rows |-> new[i]]
      /\ \A i \in DOMAIN rows : new[i] \in Rows(Updates) /\ new[i].state # "processing"
    BY <1>1, <1>2, <1>3
<1>5. new \in Seq(Rows(Updates)) /\ Len(new) = Len(rows)
    BY <1>4, RewrittenProcessed
<1>6. Processed(new) = {}
    BY <1>4 DEF Processed, AtProcessing
<1>7. Restored(rows) = Trim(new, {}, MaxRecords)
    BY <1>2 DEF Restored
<1>8. QED
    BY <1>5, <1>6, <1>7, TrimProcessed

(* An instance is processing what its ledger says it is, and a ledger is never
   longer than its limit. *)
Agreed ==
    /\ active = Processed(ledger)
    /\ Len(ledger) <= MaxRecords /\ Len(stored) <= MaxRecords

LEMMA AgreedAfter ==
    ASSUME Agreed, NEW rows, ledger' = rows, active' = Processed(rows), Len(rows) <= MaxRecords,
           stored' = stored \/ stored' = rows
    PROVE  Agreed'
BY DEF Agreed, Processed, AtProcessing

LEMMA ExecuteAgrees == ASSUME PollInv, Agreed, NEW l \in Loops, Execute(l) PROVE Agreed'
<1>1. PICK u, L, busy : u = Current(l) /\ L = ledger /\ busy = active
    OBVIOUS
<1>2. u \in Updates /\ L \in Seq(Rows(Updates))
    BY <1>1, AtUpdate DEF Execute, Mine, Scans, PollInv, GoodRows
<1>3. busy = Processed(L) /\ Len(L) <= MaxRecords
    BY <1>1 DEF Agreed
<1>4. PICK room, claimed, given :
          /\ room = MadeRoom(L, busy) /\ claimed = Claimed(L, busy, u)
          /\ given = Cancelled(claimed, u)
    OBVIOUS
<1>5. /\ Len(room) <= Len(L) /\ Processed(room) = Processed(L)
      /\ Len(claimed) = Len(room) + 1 /\ Processed(claimed) = Processed(L) \cup {u}
      /\ Len(given) <= Len(claimed) /\ Processed(given) = Processed(L) \ {u}
    BY <1>2, <1>4, ClaimProcessed
<1>6. Len(room) \in Nat /\ Len(given) \in Nat
  <2>1. room \in Seq(Rows(Updates))
      BY <1>2, <1>4, TrimProcessed DEF MadeRoom
  <2>2. PICK A, S : A = Ours /\ S = settled /\ GoodRows(L, A, S)
      BY <1>1 DEF PollInv
  <2>3. u \notin Foreign /\ StateOf(L, u) = "none"
      BY <1>1 DEF Execute, Mine
  <2>4. u \in A
      BY <1>1, <2>2, <2>3, AtUpdate DEF Execute, Mine, Scans, PollInv
  <2>5. ~Has(L, u)
    <3> SUFFICES ASSUME Has(L, u) PROVE FALSE
        OBVIOUS
    <3>1. PICK i \in DOMAIN L : L[i].state = "none"
        BY <2>3 DEF Has, StateOf
    <3>2. L[i] \in Rows(Updates)
        BY <1>2, <3>1, RowSeqs
    <3>3. QED
        BY <3>1, <3>2 DEF Rows, RowStates
  <2>6. given \in Seq(Rows(Updates))
      BY <1>2, <1>4, <2>2, <2>4, <2>5, ClaimGood DEF GoodRows
  <2>7. QED
      BY <2>1, <2>6, RowSeqs
<1>7. u \notin Processed(L)
  <2> SUFFICES ASSUME u \in Processed(L) PROVE FALSE
      OBVIOUS
  <2>1. PICK i \in DOMAIN L : L[i].id = u
      BY DEF Processed, AtProcessing
  <2>2. PICK j \in DOMAIN L : StateOf(L, u) = L[j].state
      BY <2>1 DEF StateOf, Has
  <2>3. L[j] \in Rows(Updates)
      BY <1>2, RowSeqs
  <2>4. QED
      BY <1>1, <2>2, <2>3 DEF Execute, Mine, Rows, RowStates
<1>8. ~Full(L, busy) => Len(claimed) <= MaxRecords
    BY <1>4, <1>5, <1>6, MaxRecordsAssumption DEF Full
<1>9. \/ ledger' = room /\ UNCHANGED <<active, stored>>
      \/ ~Full(L, busy) /\ ledger' = claimed /\ active' = active \cup {u} /\ stored' = claimed
      \/ ~Full(L, busy) /\ ledger' = given /\ UNCHANGED <<active, stored>>
    BY <1>1, <1>4 DEF Execute, Stores
<1>10. /\ Len(L) \in Nat /\ Len(room) <= MaxRecords
       /\ ~Full(L, busy) => Len(given) <= MaxRecords
    BY <1>2, <1>3, <1>5, <1>6, <1>8, RowSeqs, MaxRecordsAssumption
<1>11. QED
    BY <1>1, <1>3, <1>5, <1>7, <1>8, <1>9, <1>10, AgreedAfter

LEMMA SettlingAgrees ==
    ASSUME PollInv, Agreed, NEW l \in Loops, Succeeds(l) \/ Fails(l) \/ TellChat(l)
    PROVE  Agreed'
<1>1. PICK u, L, busy : u = Current(l) /\ L = ledger /\ busy = active
    OBVIOUS
<1>2. u \in Updates /\ L \in Seq(Rows(Updates)) /\ Len(L) \in Nat
    BY <1>1, AtWork, RowSeqs DEF Succeeds, Fails, TellChat, PollInv, GoodRows
<1>3. busy = Processed(L) /\ Len(L) <= MaxRecords
    BY <1>1 DEF Agreed
<1>4. PICK completed, uncertain \in RowStates \ {"processing"} :
          completed = "completed" /\ uncertain = "uncertain"
    BY DEF RowStates
<1>5. PICK marked, done, doubt, late, noted :
          /\ marked = Marked(L, u, completed) /\ done = Completed(L, busy, u)
          /\ doubt = MadeUncertain(L, u) /\ late = MadeUncertain(done, u)
          /\ noted = NoticeSent(L, u)
    OBVIOUS
<1>6. /\ marked \in Seq(Rows(Updates)) /\ Len(marked) = Len(L)
      /\ Processed(marked) = Processed(L) \ {u}
    BY <1>2, <1>5, MarkedProcessed
<1>7. /\ done \in Seq(Rows(Updates)) /\ Len(done) <= Len(L)
      /\ Processed(done) = Processed(L) \ {u}
  <2>1. done = Trim(marked, busy \ {u}, MaxRecords)
      BY <1>4, <1>5 DEF Completed
  <2>2. QED
      BY <1>6, <2>1, TrimProcessed
<1>8. Len(late) <= Len(L) /\ Processed(late) = Processed(L) \ {u}
  <2>1. late = Marked(done, u, uncertain)
      BY <1>4, <1>5 DEF MadeUncertain
  <2>2. Len(late) = Len(done) /\ Processed(late) = Processed(done) \ {u}
      BY <1>2, <1>7, <2>1, MarkedProcessed
  <2>3. QED
      BY <1>7, <2>2
<1>9. Len(doubt) = Len(L) /\ Processed(doubt) = Processed(L) \ {u}
  <2>1. doubt = Marked(L, u, uncertain)
      BY <1>4, <1>5 DEF MadeUncertain
  <2>2. QED
      BY <1>2, <2>1, MarkedProcessed
<1>10. Len(noted) = Len(L) /\ Processed(noted) = Processed(L)
    BY <1>2, <1>5, NoticeProcessed
<1>11. Len(done) \in Nat /\ Len(late) \in Nat
  <2>1. late = Marked(done, u, uncertain)
      BY <1>4, <1>5 DEF MadeUncertain
  <2>2. late \in Seq(Rows(Updates))
      BY <1>2, <1>7, <2>1, MarkedProcessed
  <2>3. QED
      BY <1>7, <2>2, RowSeqs
<1>12. /\ \/ ledger' = done /\ active' = active \ {u}
          \/ ledger' = late /\ active' = active \ {u}
          \/ ledger' = doubt /\ active' = active \ {u}
          \/ ledger' = noted /\ active' = active
          \/ ledger' = L /\ active' = active
       /\ stored' = stored \/ stored' = ledger'
    BY <1>1, <1>5 DEF Succeeds, Fails, TellChat, Stores
<1>13. /\ Len(done) <= MaxRecords /\ Len(late) <= MaxRecords /\ Len(doubt) <= MaxRecords
       /\ Len(noted) <= MaxRecords
    BY <1>2, <1>3, <1>7, <1>8, <1>9, <1>10, <1>11, MaxRecordsAssumption
<1>14. QED
    BY <1>1, <1>3, <1>7, <1>8, <1>9, <1>10, <1>12, <1>13, AgreedAfter

LEMMA AgreedStep == PollInv /\ Agreed /\ [PollingNext]_pollingVars => Agreed'
<1> SUFFICES ASSUME PollInv, Agreed, [PollingNext]_pollingVars PROVE Agreed'
    OBVIOUS
<1>1. CASE UNCHANGED <<ledger, active>> /\ (stored' = stored \/ stored' = ledger')
    BY <1>1, AgreedAfter DEF Agreed
<1>2. CASE UNCHANGED pollingVars
    BY <1>1, <1>2 DEF pollingVars
<1>3. CASE UpdateArrives \/ \E l \in Loops : StartLoop(l)
    BY <1>1, <1>3 DEF UpdateArrives, StartLoop
<1>4. CASE Restart
  <2>1. PICK R : R = stored
      OBVIOUS
  <2>2. /\ \/ ledger' = Restored(R) \/ ledger' = <<>>
        /\ active' = {} /\ stored' = stored
      BY <1>4, <2>1 DEF Restart
  <2>3. R \in Seq(Rows(Updates)) /\ Len(R) <= MaxRecords /\ Len(R) \in Nat
      BY <2>1, RowSeqs DEF PollInv, GoodRows, Agreed
  <2>4. PICK new : new = Restored(R)
      OBVIOUS
  <2>5. Len(new) <= Len(R) /\ Processed(new) = {}
      BY <2>3, <2>4, RestoredProcessed
  <2>6. Len(new) \in Nat
      BY <2>4, LenProperties, RestoredGood, RowSeqs, <2>1 DEF PollInv, GoodRows
  <2>7. Len(new) <= MaxRecords
      BY <2>3, <2>5, <2>6, MaxRecordsAssumption
  <2>8. Processed(<<>>) = {} /\ Len(<<>>) <= MaxRecords
      BY MaxRecordsAssumption DEF Processed, AtProcessing
  <2>9. QED
      BY <2>2, <2>4, <2>5, <2>7, <2>8, AgreedAfter
<1>5. ASSUME NEW l \in Loops, LoopStep(l) PROVE Agreed'
  <2>1. CASE Ask(l) \/ Receive(l) \/ StopLoop(l) \/ EndOfBatch(l) \/ PassOver(l) \/ Refuse(l)
             \/ Defer(l)
      BY <1>1, <2>1 DEF Ask, Receive, StopLoop, EndOfBatch, PassOver, Refuse, Defer
  <2>2. CASE SkipCompleted(l) \/ HoldUncertain(l)
      BY <1>1, <2>2 DEF SkipCompleted, HoldUncertain, Stores
  <2>3. CASE Execute(l) \/ Succeeds(l) \/ Fails(l) \/ TellChat(l)
      BY <2>3, ExecuteAgrees, SettlingAgrees
  <2>4. QED
      BY <1>5, <2>1, <2>2, <2>3 DEF LoopStep
<1>6. QED
    BY <1>2, <1>3, <1>4, <1>5 DEF PollingNext

(* No offset leaves the updates. *)
Offsets == 1..(LastUpdate + 1)
InRange ==
    /\ offset \in Offsets /\ forgotten \in Offsets
    /\ \A l \in Loops : loop[l].off \in Offsets

LEMMA InRangeAfter ==
    ASSUME InRange, offset' \in Offsets, forgotten' \in Offsets,
           \A k \in Loops : loop'[k].off \in {loop[k].off, offset, 1} \/ loop'[k].off \in Offsets
    PROVE  InRange'
<1>1. 1 \in Offsets
    BY LastUpdateAssumption DEF Offsets
<1>2. Offsets' = Offsets
    BY DEF Offsets
<1>3. QED
    BY <1>1, <1>2 DEF InRange

(* Where a loop goes on after an update is in range. *)
LEMMA AcknowledgedInRange ==
    ASSUME PollInv, InRange, NEW l \in Loops, loop[l].batch # <<>>, Acknowledges(l)
    PROVE  offset' \in Offsets /\ \A k \in Loops : loop'[k].off \in Offsets
<1>1. PICK u \in Updates : u = Current(l)
    BY AtUpdate DEF PollInv
<1>2. u + 1 \in Offsets
    BY LastUpdateAssumption DEF Updates, Offsets
<1>3. loop \in [Loops -> LoopRecords]
    BY DEF PollInv, Reading
<1>4. PICK rest : rest = Tail(loop[l].batch)
    OBVIOUS
<1>5. \/ /\ offset' = u + 1
         /\ loop' = [loop EXCEPT ![l].st = "scan", ![l].batch = rest, ![l].off = u + 1]
      \/ /\ offset' = offset
         /\ loop' = [loop EXCEPT ![l].st = "ask", ![l].batch = <<>>, ![l].off = u + 1]
    BY <1>1, <1>4 DEF Acknowledges
<1>6. \A k \in Loops : loop'[k].off = IF k = l THEN u + 1 ELSE loop[k].off
    BY <1>3, <1>5 DEF LoopRecords
<1>7. QED
    BY <1>2, <1>5, <1>6 DEF InRange

LEMMA InRangeStep == PollInv /\ InRange /\ [PollingNext]_pollingVars => InRange'
<1> SUFFICES ASSUME PollInv, InRange, [PollingNext]_pollingVars PROVE InRange'
    OBVIOUS
<1>1. loop \in [Loops -> LoopRecords]
    BY DEF PollInv, Reading
<1>2. offset \in Offsets /\ forgotten \in Offsets /\ 1 \in Offsets
    BY LastUpdateAssumption DEF InRange, Offsets
<1>3. CASE UNCHANGED pollingVars
    BY <1>2, <1>3, InRangeAfter DEF pollingVars
<1>4. CASE UpdateArrives
    BY <1>2, <1>4, InRangeAfter DEF UpdateArrives
<1>5. CASE Restart
    BY <1>2, <1>5, InRangeAfter DEF Restart, Idle
<1>6. ASSUME NEW l \in Loops, StartLoop(l) PROVE InRange'
  <2>1. \A k \in Loops : loop'[k].off \in {loop[k].off, offset}
      BY <1>1, <1>6 DEF StartLoop, Idle, LoopRecords
  <2>2. QED
      BY <1>2, <1>6, <2>1, InRangeAfter DEF StartLoop, outside
<1>7. ASSUME NEW l \in Loops, LoopStep(l) PROVE InRange'
  <2>1. ASSUME AsksAgain(l) \/ \E st \in LoopStates : Moves(l, st)
        PROVE  \A k \in Loops : loop'[k].off = loop[k].off
    <3>1. CASE AsksAgain(l)
        BY <1>1, <3>1 DEF AsksAgain, LoopRecords
    <3>2. ASSUME NEW st \in LoopStates, Moves(l, st)
          PROVE  \A k \in Loops : loop'[k].off = loop[k].off
        BY <1>1, <3>2 DEF Moves, LoopRecords
    <3>3. QED
        BY <2>1, <3>1, <3>2
  <2>2. CASE Ask(l)
    <3>1. PICK first, batch : /\ first = IF loop[l].off > forgotten THEN loop[l].off ELSE forgotten
                              /\ loop' = [loop EXCEPT ![l].st = "asked", ![l].batch = batch]
                              /\ forgotten' = first
        BY <2>2 DEF Ask
    <3>2. \A k \in Loops : loop'[k].off = loop[k].off
        BY <1>1, <3>1 DEF LoopRecords
    <3>3. first \in Offsets
        BY <3>1 DEF InRange
    <3>4. offset' = offset
        BY <2>2 DEF Ask
    <3>5. QED
        BY <1>2, <3>1, <3>2, <3>3, <3>4, InRangeAfter
  <2>3. CASE StopLoop(l)
    <3>1. \A k \in Loops : loop'[k].off \in {loop[k].off, 1}
        BY <1>1, <2>3 DEF StopLoop, Idle
    <3>2. QED
        BY <1>2, <2>3, <3>1, InRangeAfter DEF StopLoop, outside
  <2>4. /\ {"scan", "executing", "telling", "ask"} \subseteq LoopStates
      BY DEF LoopStates
  <2>5. ASSUME UNCHANGED <<offset, forgotten>>, AsksAgain(l) \/ \E st \in LoopStates : Moves(l, st)
        PROVE  InRange'
      BY <1>2, <2>1, <2>5, InRangeAfter
  <2>6. ASSUME loop[l].batch # <<>>, Acknowledges(l), UNCHANGED forgotten PROVE InRange'
      BY <1>2, <2>6, AcknowledgedInRange, InRangeAfter
  <2>7. CASE Receive(l) \/ EndOfBatch(l) \/ Refuse(l) \/ Defer(l)
      BY <2>4, <2>5, <2>7 DEF Receive, EndOfBatch, Refuse, Defer, outside
  <2>8. CASE PassOver(l)
      BY <2>6, <2>8 DEF PassOver, Scans, outside
  <2>9. CASE Execute(l)
      BY <2>4, <2>5, <2>9 DEF Execute, outside
  <2>10. CASE SkipCompleted(l)
      BY <2>5, <2>6, <2>10 DEF SkipCompleted, Mine, Scans, outside
  <2>11. CASE HoldUncertain(l)
      BY <2>4, <2>5, <2>6, <2>11 DEF HoldUncertain, Mine, Scans, outside
  <2>12. CASE Succeeds(l)
    <3>1. loop[l].batch # <<>>
        BY <2>12, AtWork DEF Succeeds
    <3>2. QED
        BY <2>5, <2>6, <2>12, <3>1 DEF Succeeds, outside
  <2>13. CASE Fails(l)
      BY <2>4, <2>5, <2>13 DEF Fails, outside
  <2>14. CASE TellChat(l)
    <3>1. loop[l].batch # <<>>
        BY <2>14, AtWork DEF TellChat
    <3>2. QED
        BY <2>5, <2>6, <2>14, <3>1 DEF TellChat, outside
  <2>15. QED
      BY <1>7, <2>2, <2>3, <2>7, <2>8, <2>9, <2>10, <2>11, <2>12, <2>13, <2>14 DEF LoopStep
<1>8. QED
    BY <1>3, <1>4, <1>5, <1>6, <1>7 DEF PollingNext

LEMMA PollingTyped == PollInv /\ Agreed /\ InRange => PollingTypeOK
<1> SUFFICES ASSUME PollInv, Agreed, InRange PROVE PollingTypeOK
    OBVIOUS
<1>1. PICK L : L = ledger
    OBVIOUS
<1>2. /\ L \in Seq(Rows(Updates)) /\ stored \in Seq(Rows(Updates)) /\ Len(L) <= MaxRecords
      /\ \A i, j \in DOMAIN L : i # j => L[i].id # L[j].id
    BY <1>1 DEF PollInv, GoodRows, Sound, Agreed
<1>3. Processed(L) = {u \in Updates : StateOf(L, u) = "processing"}
  <2>1. ASSUME NEW u \in Processed(L) PROVE u \in Updates /\ StateOf(L, u) = "processing"
    <3>1. PICK i \in DOMAIN L : L[i].id = u /\ L[i].state = "processing"
        BY DEF Processed, AtProcessing
    <3>2. PICK j \in DOMAIN L : StateOf(L, u) = L[j].state /\ L[j].id = u
        BY <3>1 DEF StateOf, Has
    <3>3. i = j
        BY <1>2, <3>1, <3>2
    <3>4. L[i] \in Rows(Updates)
        BY <1>2, RowSeqs
    <3>5. QED
        BY <3>1, <3>2, <3>3, <3>4 DEF Rows
  <2>2. ASSUME NEW u \in Updates, StateOf(L, u) = "processing" PROVE u \in Processed(L)
    <3>1. PICK i \in DOMAIN L : L[i].id = u /\ L[i].state = "processing"
        BY <2>2, StateOfRow
    <3>2. QED
        BY <3>1 DEF Processed, AtProcessing
  <2>3. QED
      BY <2>1, <2>2
<1>4. active = {u \in Updates : StateOf(ledger, u) = "processing"}
    BY <1>1, <1>3 DEF Agreed
<1>5. loop \in [Loops -> [st : LoopStates, batch : Seq(Updates), off : 1..(LastUpdate + 1),
                          cancelled : BOOLEAN]]
    BY DEF PollInv, Reading, LoopRecords, InRange, Offsets
<1>6. /\ arrived \in 0..LastUpdate /\ executed \in [Updates -> Nat] /\ settled \subseteq Updates
      /\ blocked \in BOOLEAN
    BY LastUpdateAssumption DEF PollInv, Received
<1>7. offset \in 1..(LastUpdate + 1) /\ forgotten \in 1..(LastUpdate + 1)
    BY DEF InRange, Offsets
<1>8. QED
    BY <1>1, <1>2, <1>4, <1>5, <1>6, <1>7 DEF PollingTypeOK

LEMMA PollingStart == PollingInit => Agreed /\ InRange
<1> SUFFICES ASSUME PollingInit PROVE Agreed /\ InRange
    OBVIOUS
<1>1. Agreed
    BY MaxRecordsAssumption DEF PollingInit, Agreed, Processed, AtProcessing
<1>2. InRange
    BY LastUpdateAssumption DEF PollingInit, Idle, InRange, Offsets
<1>3. QED
    BY <1>1, <1>2

(* Whatever happens, each ledger has one row for an update and no more rows than
   it may have, an instance is processing what its ledger says it is, and every
   offset stays within the updates that there are. *)
THEOREM PollingTypes == PollingSpec => []PollingTypeOK
<1>1. PollingInit => Agreed /\ InRange
    BY PollingStart
<1>2. PollInv /\ Agreed /\ InRange /\ [PollingNext]_pollingVars => (Agreed /\ InRange)'
    BY AgreedStep, InRangeStep
<1>3. PollingSpec => [](Agreed /\ InRange)
    BY <1>1, <1>2, PollInvariant, PTL DEF PollingSpec
<1>4. QED
    BY <1>3, PollingTyped, PollInvariant, PTL
=============================================================================
