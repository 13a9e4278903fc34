----------------------------- MODULE HubDelivery ----------------------------
(***************************************************************************)
(* How the Telegram hub gets the results of turns to the phone             *)
(* (telegramHub.ts, deliverResult to tickDigest): an outbox, a digest for  *)
(* the absent user, results held in quiet hours, and a tick each minute    *)
(* that sends what is left.  All three are kept in memory and stored as a  *)
(* whole; every sending is an await between two of those stores.           *)
(***************************************************************************)
EXTENDS Filters, FiniteSetsExt, SequencesExt

CONSTANTS Results,      \* the results, all for one chat
          Urgent,       \* those that ask for a decision or report an error
          Ticks,        \* activations of tickDigest that may overlap
          MaxCrashes,   \* bound: restarts of the app
          MaxRefusals,  \* bound: messages that Telegram does not get
          MaxLosses,    \* bound: messages that it gets, without the hub knowing
          MaxToggles    \* bound: quiet hours and absences that begin or end

ASSUME TicksAssumption == "first" \notin Ticks /\ "nobody" \notin Ticks

VARIABLES stage,    \* stage[r]: how far deliverResult is with it
          outbox,   \* unsent results, in order
          held,     \* results that wait for the end of the quiet hours
          digest,   \* results for the next summary of the absence
          disk,     \* the three, as stored last
          armed,    \* absenceDigestTimer is set
          timers,   \* a timeout of it has not fired
          sends,    \* results being sent or held: `delivering', and by whom
          mails,    \* batches on their way
          flusher,  \* the tick that runs flushOutbox, or "nobody"
          round,    \* the results it has still to look at
          tick,     \* tick[k]: what that tick is waiting for
          arrived,  \* arrived[r]: times the phone got it, counted to two
          quiet, absent,
          budget

hubVars == <<stage, outbox, held, digest, disk, armed, timers, sends, mails, flusher, round,
             tick, arrived, quiet, absent, budget>>

queues == <<outbox, held, digest, disk>>
timing == <<armed, timers>>
ticking == <<flusher, round, tick>>
outside == <<arrived, quiet, absent, budget>>

Spend(kind) == budget[kind] > 0 /\ budget' = [budget EXCEPT ![kind] = @ - 1]

HubInit ==
    /\ stage = [r \in Results |-> "new"]
    /\ outbox = <<>> /\ held = {} /\ digest = {}
    /\ disk = [outbox |-> <<>>, held |-> {}, digest |-> {}]
    /\ armed = FALSE /\ timers = FALSE
    /\ sends = {} /\ mails = {}
    /\ flusher = "nobody" /\ round = <<>>
    /\ tick = [k \in Ticks |-> "idle"]
    /\ arrived = [r \in Results |-> 0]
    /\ quiet \in BOOLEAN /\ absent \in BOOLEAN
    /\ budget = [crashes |-> MaxCrashes, refusals |-> MaxRefusals, losses |-> MaxLosses,
                 toggles |-> MaxToggles]

(* persist: the three queues as they are after the step. *)
Persist == disk' = [outbox |-> outbox', held |-> held', digest |-> digest']

(* Telegram takes a message: everything in it is on the phone once more. *)
Arrive(R) == arrived' = [r \in Results |-> IF r \in R /\ arrived[r] < 2
                                           THEN arrived[r] + 1 ELSE arrived[r]]
-----------------------------------------------------------------------------
(* deliverPending, begun by deliverResult or by a tick: an ordinary result is
   held in quiet hours, the others are sent. *)
Begin(r, by) ==
    sends' = sends \cup {[res |-> r, by |-> by,
                          st |-> IF quiet /\ r \notin Urgent THEN "holding" ELSE "sending"]}

Delivering(r) == \E s \in sends : s.res = r

(* flushAbsenceDigest: the digest is forgotten, and stored so, before it is sent. *)
SendDigest(by) ==
    /\ mails' = mails \cup {[kind |-> "digest", items |-> digest, by |-> by, st |-> "sending"]}
    /\ digest' = {}
    /\ armed' = FALSE
    /\ UNCHANGED <<outbox, held>> /\ Persist

(* deliverResult.  For the absent user it first ends the progress message, unless
   the result is forced or asks for a decision; else it is stored before anything
   else happens.  What is urgent may be so by its text alone. *)
Report(r) ==
    /\ stage[r] = "new"
    /\ \/ /\ absent
          /\ stage' = [stage EXCEPT ![r] = "noticed"]
          /\ UNCHANGED <<queues, sends>>
       \/ /\ ~absent \/ r \in Urgent
          /\ stage' = [stage EXCEPT ![r] = "posted"]
          /\ outbox' = Append(outbox, r)
          /\ UNCHANGED <<held, digest>> /\ Persist
          /\ Begin(r, "first")
    /\ UNCHANGED <<timing, mails, ticking, outside>>

(* A timer is set unless there is one. *)
Summarise(r) ==
    /\ stage[r] = "noticed" /\ r \notin Urgent
    /\ stage' = [stage EXCEPT ![r] = "digested"]
    /\ digest' = digest \cup {r}
    /\ UNCHANGED <<outbox, held>> /\ Persist
    /\ armed' = TRUE
    /\ timers' = (timers \/ ~armed)
    /\ UNCHANGED <<sends, mails, ticking, outside>>

(* What is urgent goes after the summary of what came before. *)
Hasten(r) ==
    /\ stage[r] = "noticed" /\ r \in Urgent /\ digest # {}
    /\ stage' = [stage EXCEPT ![r] = "behind"]
    /\ SendDigest(r)
    /\ UNCHANGED <<timers, sends, ticking, outside>>

Post(r) ==
    /\ \/ stage[r] = "noticed" /\ r \in Urgent /\ digest = {}
       \/ stage[r] = "behind" /\ ~\E m \in mails : m.by = r
    /\ stage' = [stage EXCEPT ![r] = "posted"]
    /\ outbox' = Append(outbox, r)
    /\ UNCHANGED <<held, digest>> /\ Persist
    /\ Begin(r, "first")
    /\ UNCHANGED <<timing, mails, ticking, outside>>

TimerFires ==
    /\ timers
    /\ timers' = FALSE
    /\ IF digest = {}
       THEN armed' = FALSE /\ UNCHANGED <<mails, queues>>
       ELSE SendDigest("timer")
    /\ UNCHANGED <<stage, sends, ticking, outside>>
-----------------------------------------------------------------------------
(* The answer to a send; a tick goes on to its next result, or stops. *)
RoundGoesOn(s, ok) ==
    IF s.by = "first" THEN UNCHANGED round
    ELSE round' = IF ok THEN Tail(round) ELSE <<>>

Dequeue(r) == outbox' = Kept(outbox, {i \in DOMAIN outbox : outbox[i] # r})

Accept(s) ==
    /\ s.st = "sending"
    /\ Arrive({s.res})
    /\ sends' = (sends \ {s}) \cup {[s EXCEPT !.st = "accepted"]}
    /\ UNCHANGED <<stage, queues, timing, mails, ticking, quiet, absent, budget>>

Sent(s) ==
    /\ s.st = "accepted"
    /\ sends' = sends \ {s}
    /\ Dequeue(s.res) /\ UNCHANGED <<held, digest>> /\ Persist
    /\ RoundGoesOn(s, TRUE)
    /\ UNCHANGED <<stage, timing, mails, flusher, tick, outside>>

Hold(s) ==
    /\ s.st = "holding"
    /\ sends' = sends \ {s}
    /\ held' = held \cup {s.res}
    /\ Dequeue(s.res) /\ UNCHANGED digest /\ Persist
    /\ RoundGoesOn(s, TRUE)
    /\ UNCHANGED <<stage, timing, mails, flusher, tick, outside>>

(* Refused, or accepted by Telegram while the answer is lost. *)
Fails(st) == Spend(IF st = "sending" THEN "refusals" ELSE "losses")

SendFails(s) ==
    /\ s.st \in {"sending", "accepted"} /\ Fails(s.st)
    /\ sends' = sends \ {s}
    /\ RoundGoesOn(s, FALSE)
    /\ UNCHANGED <<stage, queues, timing, mails, flusher, tick, arrived, quiet, absent>>
-----------------------------------------------------------------------------
MailAccepted(m) ==
    /\ m.st = "sending"
    /\ Arrive(m.items)
    /\ mails' = (mails \ {m}) \cup {[m EXCEPT !.st = "accepted"]}
    /\ UNCHANGED <<stage, queues, timing, sends, ticking, quiet, absent, budget>>

(* Only the morning batch is stored when it has gone. *)
MailSent(m) ==
    /\ m.st = "accepted"
    /\ mails' = mails \ {m}
    /\ UNCHANGED <<outbox, held, digest>>
    /\ IF m.kind = "held" THEN Persist ELSE UNCHANGED disk
    /\ UNCHANGED <<stage, timing, sends, ticking, outside>>

(* Deliberately wrong: a batch that failed is not put back. *)
MailFailsForGood(m) ==
    /\ Fails(m.st)
    /\ mails' = mails \ {m}
    /\ UNCHANGED <<outbox, held, digest>> /\ Persist
    /\ UNCHANGED <<stage, timing, sends, ticking, arrived, quiet, absent>>

(* A morning batch goes back before what is held by now; a digest goes back in
   place of what was queued meanwhile. *)
MailFails(m) ==
    /\ Fails(m.st)
    /\ mails' = mails \ {m}
    /\ IF m.kind = "held"
       THEN held' = held \cup m.items /\ UNCHANGED digest
       ELSE digest' = m.items /\ UNCHANGED held
    /\ UNCHANGED outbox /\ Persist
    /\ UNCHANGED <<stage, timing, sends, ticking, arrived, quiet, absent>>
-----------------------------------------------------------------------------
(* tickDigest: the outbox, unless another tick is at it; then the digest, then
   what is held.  Every minute one starts, whether the last has ended or not. *)
Goes(k, st) == tick' = [tick EXCEPT ![k] = st]

Waiting(k) == (\E s \in sends : s.by = k) \/ \E m \in mails : m.by = k

(* Results that are being sent already are passed over. *)
Rest(results) ==
    LET idle == {i \in DOMAIN results : ~Delivering(results[i])}
    IN  IF idle = {} THEN <<>> ELSE SubSeq(results, Min(idle), Len(results))

(* Deliberately wrong: the flag is not taken back at the end. *)
RetriesForGood(k, results) ==
    IF results = <<>>
    THEN round' = <<>> /\ Goes(k, "digest") /\ UNCHANGED <<flusher, sends>>
    ELSE flusher' = k /\ round' = results /\ Goes(k, "outbox") /\ Begin(Head(results), k)

Retries(k, results) ==
    IF results = <<>>
    THEN flusher' = "nobody" /\ round' = <<>> /\ Goes(k, "digest") /\ UNCHANGED sends
    ELSE flusher' = k /\ round' = results /\ Goes(k, "outbox") /\ Begin(Head(results), k)

TickStarts(k) ==
    /\ tick[k] = "idle"
    /\ outbox # <<>> \/ digest # {} \/ held # {}
    /\ IF flusher = "nobody" THEN Retries(k, Rest(outbox))
       ELSE Goes(k, "digest") /\ UNCHANGED <<flusher, round, sends>>
    /\ UNCHANGED <<stage, queues, timing, mails, outside>>

(* It goes through the results that were in the outbox when it began. *)
TickRetries(k) ==
    /\ tick[k] = "outbox" /\ ~Waiting(k)
    /\ Retries(k, Rest(round))
    /\ UNCHANGED <<stage, queues, timing, mails, outside>>

(* Deliberately wrong: the summary is left to its timer. *)
TickLeavesDigest(k) ==
    /\ tick[k] = "digest"
    /\ Goes(k, "held")
    /\ UNCHANGED <<stage, queues, timing, sends, mails, flusher, round, outside>>

TickSendsDigest(k) ==
    /\ tick[k] = "digest"
    /\ IF digest = {} THEN UNCHANGED <<mails, queues, armed>> ELSE SendDigest(k)
    /\ Goes(k, "held")
    /\ UNCHANGED <<stage, timers, sends, flusher, round, outside>>

(* What is held is taken out before it is sent, and not stored until it is. *)
TickSendsHeld(k) ==
    /\ tick[k] = "held" /\ ~Waiting(k)
    /\ IF held = {} \/ quiet THEN UNCHANGED <<mails, held>>
       ELSE /\ mails' = mails \cup {[kind |-> "held", items |-> held, by |-> k, st |-> "sending"]}
            /\ held' = {}
    /\ Goes(k, "last")
    /\ UNCHANGED <<stage, outbox, digest, disk, timing, sends, flusher, round, outside>>

TickEnds(k) ==
    /\ tick[k] = "last" /\ ~Waiting(k)
    /\ Goes(k, "idle")
    /\ UNCHANGED <<stage, queues, timing, sends, mails, flusher, round, outside>>
-----------------------------------------------------------------------------
(* The app is closed and starts again from the store, without a timer. *)
Restart ==
    /\ Spend("crashes")
    /\ stage' = [r \in Results |-> IF stage[r] \in {"noticed", "behind"} THEN "gone" ELSE stage[r]]
    /\ outbox' = disk.outbox /\ held' = disk.held /\ digest' = disk.digest
    /\ armed' = FALSE /\ timers' = FALSE
    /\ sends' = {} /\ mails' = {}
    /\ flusher' = "nobody" /\ round' = <<>>
    /\ tick' = [k \in Ticks |-> "idle"]
    /\ UNCHANGED <<disk, arrived, quiet, absent>>

Toggle ==
    /\ Spend("toggles")
    /\ \/ quiet' = ~quiet /\ UNCHANGED absent
       \/ absent' = ~absent /\ UNCHANGED quiet
    /\ UNCHANGED <<stage, queues, timing, sends, mails, ticking, arrived>>

(* The quiet hours end by themselves. *)
Morning ==
    /\ quiet /\ quiet' = FALSE
    /\ UNCHANGED <<stage, queues, timing, sends, mails, ticking, arrived, absent, budget>>

Answered(s) == Accept(s) \/ Sent(s) \/ Hold(s)
MailAnswers(m) == MailAccepted(m) \/ MailSent(m)
TickGoesOn(k) ==
    \/ TickStarts(k) \/ TickRetries(k)
    \/ TickSendsDigest(k) \/ TickSendsHeld(k) \/ TickEnds(k)

HubNext ==
    \/ \E r \in Results : Report(r) \/ Summarise(r) \/ Hasten(r) \/ Post(r)
    \/ TimerFires
    \/ \E s \in sends : Answered(s) \/ SendFails(s)
    \/ \E m \in mails : MailAnswers(m) \/ MailFails(m)
    \/ \E k \in Ticks : TickGoesOn(k)
    \/ Restart \/ Toggle \/ Morning

HubSpec == HubInit /\ [][HubNext]_hubVars

(* Messages are answered, timers and ticks come, nights end. *)
HubFairness ==
    /\ \A r \in Results : WF_hubVars(Summarise(r) \/ Hasten(r) \/ Post(r))
    /\ WF_hubVars(TimerFires)
    /\ \A r \in Results : WF_hubVars(\E s \in sends : s.res = r /\ Answered(s))
    /\ WF_hubVars(\E m \in mails : MailAnswers(m))
    /\ \A k \in Ticks : WF_hubVars(TickGoesOn(k))
    /\ WF_hubVars(Morning)

HubFairSpec == HubSpec /\ HubFairness
-----------------------------------------------------------------------------
Queue == [outbox : Seq(Results), held : SUBSET Results, digest : SUBSET Results]

HubTypeOK ==
    /\ stage \in [Results -> {"new", "noticed", "digested", "behind", "posted", "gone"}]
    /\ [outbox |-> outbox, held |-> held, digest |-> digest] \in Queue
    /\ disk \in Queue
    /\ armed \in BOOLEAN /\ timers \in BOOLEAN
    /\ sends \subseteq [res : Results, by : Ticks \cup {"first"},
                        st : {"sending", "holding", "accepted"}]
    /\ mails \subseteq [kind : {"digest", "held"}, items : SUBSET Results,
                        by : Ticks \cup Results \cup {"timer"}, st : {"sending", "accepted"}]
    /\ flusher \in Ticks \cup {"nobody"} /\ round \in Seq(Results)
    /\ tick \in [Ticks -> {"idle", "outbox", "digest", "held", "last"}]
    /\ arrived \in [Results -> 0..2]

Stored == Range(disk.outbox) \cup disk.held \cup disk.digest
Travelling == {r \in Results : \E m \in mails : r \in m.items}

(* What the hub has taken on, which begins when it stores it, and still knows of. *)
Unsent == Stored \cup Travelling

Crashed == Spend("crashes")

(* A summary comes back from a failed sending, in place of what is queued. *)
DigestComesBack ==
    \E m \in mails : m.kind = "digest" /\ mails' = mails \ {m} /\ digest' = m.items

(* What the hub has taken on it keeps until the phone has it ("no loss",
   telegramHub.ts:863).  Two ways lead around this in the code, and no third: the
   app closes while a batch is on its way that the store holds no more (lines 615
   and 586), and a summary that could not be sent takes the place of what was
   queued meanwhile (line 620). *)
StoreKeepsUnsent ==
    [][\A r \in Unsent :
          \/ r \in Unsent' \/ arrived'[r] > 0
          \/ Crashed /\ r \notin Stored
          \/ DigestComesBack /\ r \in digest]_hubVars

(* "Restart preserves notification bindings and unsent result text"
   (docs/telegram-absence.md:26), which is more than the code does. *)
UnsentSurvives == [][\A r \in Unsent : r \in Unsent' \/ arrived'[r] > 0]_hubVars

(* One delivery, unless the hub cannot know: an answer is lost, or it crashes
   (docs/telegram-absence.md:28: "an in-flight guard against simultaneous initial
   delivery and retry"). *)
DeliveredOnce ==
    budget.losses = MaxLosses /\ budget.crashes = MaxCrashes
        => \A r \in Results : arrived[r] <= 1

(* What was stored for sending arrives, or is at least held for the morning,
   across failures, restarts and overlapping ticks. *)
OutboxArrives ==
    \A r \in Results : (r \in Range(disk.outbox)) ~> (arrived[r] > 0 \/ r \in held)

FaultsLeft == budget.crashes + budget.refusals + budget.losses

(* Every entry of the summary reaches the phone unless something fails meanwhile,
   and whatever has failed before: also when its timer died with the app, and when
   it came back from a failed sending without one. *)
DigestArrives ==
    \A r \in Results, n \in 0..MaxCrashes + MaxRefusals + MaxLosses :
        (r \in digest /\ FaultsLeft = n) ~> (arrived[r] > 0 \/ FaultsLeft < n)
=============================================================================
