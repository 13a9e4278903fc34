----------------------------- MODULE Approvals ------------------------------
(***************************************************************************)
(* Execution approvals and elicitations of the Codex engine: the bridge    *)
(* holds the request and a timer (codex-app-server-bridge.mjs), the app    *)
(* asks the phone (remoteApproval.ts, telegramHub.ts) or its own list      *)
(* (ApprovalRequests.tsx), and a turn may be stopped or end meanwhile.     *)
(***************************************************************************)
EXTENDS Naturals, Sequences, FiniteSets

CONSTANTS Requests,      \* the requests
          Turns,         \* their turns
          TurnOf,        \* TurnOf[r]
          Elicitations,  \* requests of MCP servers; the others are for execution
          Calls,         \* calls of tools of the server k-personal
          Rereads,       \* its elicitations whose only question is confirm_read
          CallOf,        \* CallOf[r]: the call that makes such a request
          Confirmed,     \* calls of tools that only read, with confirm_read set
          Essential,     \* turns started with essentialApprovals
          Bound,         \* requests of conversations that are bound to a chat
          Plain,         \* those automaticResponse can answer: a bare confirmation
          MaxPending,    \* the bridge refuses elicitations beyond (16)
          MaxIncidents   \* bound: messages and calls that fail, settings that change

ASSUME TurnOfAssumption == TurnOf \in [Requests -> Turns]
ASSUME CallOfAssumption == Rereads \subseteq Elicitations /\ CallOf \in [Rereads -> Calls]
ASSUME IncidentsAssumption == MaxIncidents \in Nat

VARIABLES verdict, consent, late,  \* as in ApprovalContract
          running,    \* running[t]: the engine of the turn
          events,     \* lines from the sidecar that the app has not read
          gate,       \* gate[t]: the turn as the app sees it
          desktop,    \* codexElicitations
          attempted,  \* requests the automatic mode has tried
          failed,     \* requests whose answer from the list failed
          dispatch,   \* RemoteApprovalDispatcher.pending
          hub,        \* TelegramHub.approvals and inputs
          calls,      \* calls into Rust that have not returned
          pipe,       \* answers on their way to the bridges
          remoteOn,   \* the setting for remote approvals
          autoOn,     \* the automatic mode
          incidents   \* failures and changes so far

approvalVars == <<verdict, consent, late, running, events, gate, desktop, attempted, failed,
                  dispatch, hub, calls, pipe, remoteOn, autoOn, incidents>>

Of(t) == {r \in Requests : TurnOf[r] = t}
Pending == {r \in Requests : verdict[r] = "open"}
Live(r) == gate[TurnOf[r]] = "live"
Answer(r, action, from) == [req |-> r, action |-> action, from |-> from]
Actions == {"accept", "decline"}

ApprovalInit ==
    /\ verdict = [r \in Requests |-> "unasked"]
    /\ consent = {} /\ late = {}
    /\ running = [t \in Turns |-> "running"]
    /\ gate = [t \in Turns |-> "live"]
    /\ events = <<>> /\ pipe = <<>> /\ calls = {}
    /\ desktop = {} /\ attempted = {} /\ failed = {}
    /\ dispatch = [r \in Requests |-> "none"]
    /\ hub = [r \in Requests |-> "none"]
    /\ remoteOn \in BOOLEAN /\ autoOn \in BOOLEAN
    /\ incidents = 0

bridgeSide == <<verdict, consent, late, running, pipe>>
settings == <<remoteOn, autoOn, incidents>>
list == <<desktop, attempted, failed>>
remote == <<dispatch, hub>>
app == <<gate, desktop, attempted, failed, dispatch, hub, calls>>

Incident == incidents < MaxIncidents /\ incidents' = incidents + 1

Says(line) == events' = Append(events, line)
(* Only elicitations are reported as resolved. *)
SaysResolved(r) ==
    IF r \in Elicitations THEN Says([kind |-> "resolved", of |-> r]) ELSE UNCHANGED events
-----------------------------------------------------------------------------
(* The bridge. *)
Full(r) == r \in Elicitations /\ Cardinality(Pending \cap Of(TurnOf[r])) >= MaxPending

(* redundantReadContent.  An elicitation does not name its call: it is taken for
   that of the only call under way. *)
Redundant(r, active) ==
    /\ TurnOf[r] \in Essential /\ r \in Rereads
    /\ \E k \in Confirmed : active = {k}

(* The engine announces a call before the call asks and until it is over; active
   are those of the turn.  A request the bridge cannot check is declined. *)
Asks(r) ==
    /\ verdict[r] = "unasked" /\ running[TurnOf[r]] = "running"
    /\ \E active \in SUBSET Calls :
         /\ r \in Rereads => CallOf[r] \in active
         /\ \/ verdict' = [verdict EXCEPT ![r] = "declined"] /\ UNCHANGED events
            \/ /\ ~Full(r) /\ Redundant(r, active)
               /\ verdict' = [verdict EXCEPT ![r] = "accepted"] /\ UNCHANGED events
            \/ /\ ~Full(r) /\ ~Redundant(r, active)
               /\ verdict' = [verdict EXCEPT ![r] = "open"]
               /\ Says([kind |-> "asked", of |-> r])
    /\ UNCHANGED <<consent, late, running, pipe, app, settings>>

Expires(r) ==
    /\ verdict[r] # "unasked" /\ r \notin late
    /\ late' = late \cup {r}
    /\ UNCHANGED <<verdict, consent, running, pipe, events, app, settings>>

(* Deliberately wrong: approvals for execution have no timer. *)
TimerDeclinesElicitations(r) ==
    /\ verdict[r] = "open" /\ r \in late \cap Elicitations
    /\ verdict' = [verdict EXCEPT ![r] = "declined"]
    /\ SaysResolved(r)
    /\ UNCHANGED <<consent, late, running, pipe, app, settings>>

TimerDeclines(r) ==
    /\ verdict[r] = "open" /\ r \in late
    /\ verdict' = [verdict EXCEPT ![r] = "declined"]
    /\ SaysResolved(r)
    /\ UNCHANGED <<consent, late, running, pipe, app, settings>>

(* serverRequest/resolved: the engine no longer waits for an answer. *)
EngineWithdraws(r) ==
    /\ verdict[r] = "open" /\ running[TurnOf[r]] = "running"
    /\ verdict' = [verdict EXCEPT ![r] = "void"]
    /\ SaysResolved(r)
    /\ UNCHANGED <<consent, late, running, pipe, app, settings>>

(* Deliberately wrong: the deadline is left to the timer. *)
BridgeTrustsTimer ==
    /\ pipe # <<>> /\ pipe' = Tail(pipe)
    /\ LET a == Head(pipe) IN
       IF verdict[a.req] = "open"
       THEN /\ verdict' = [verdict EXCEPT ![a.req] =
                              IF a.action = "accept" THEN "accepted" ELSE "declined"]
            /\ SaysResolved(a.req)
       ELSE UNCHANGED <<verdict, events>>
    /\ UNCHANGED <<consent, late, running, app, settings>>

BridgeReads ==
    /\ pipe # <<>> /\ pipe' = Tail(pipe)
    /\ LET a == Head(pipe) IN
       IF verdict[a.req] = "open"
       THEN /\ verdict' = [verdict EXCEPT ![a.req] =
                              IF a.action = "accept" /\ a.req \notin late THEN "accepted"
                              ELSE "declined"]
            /\ SaysResolved(a.req)
       ELSE UNCHANGED <<verdict, events>>
    /\ UNCHANGED <<consent, late, running, app, settings>>

Ends(R, v) == [r \in Requests |-> IF r \in R /\ verdict[r] = "open" THEN v ELSE verdict[r]]

(* turn/completed declines what is open; the process closes after it. *)
TurnCompletes(t) ==
    /\ running[t] = "running"
    /\ running' = [running EXCEPT ![t] = "over"]
    /\ verdict' = Ends(Of(t), "declined")
    /\ Says([kind |-> "over", of |-> t])
    /\ UNCHANGED <<consent, late, pipe, app, settings>>

StopArrives(t) ==
    /\ running[t] = "running" /\ gate[t] = "stopping"
    /\ running' = [running EXCEPT ![t] = "stopping"]
    /\ Says([kind |-> "over", of |-> t])
    /\ UNCHANGED <<verdict, consent, late, pipe, app, settings>>

EngineDies(t) ==
    /\ running[t] \in {"running", "stopping"}
    /\ running' = [running EXCEPT ![t] = "over"]
    /\ verdict' = Ends(Of(t), "void")
    /\ Says([kind |-> "over", of |-> t])
    /\ UNCHANGED <<consent, late, pipe, app, settings>>
-----------------------------------------------------------------------------
(* Lines read by the app.  Whether the dispatcher takes the request: *)
Routed(r) == /\ r \in Bound /\ ~(autoOn /\ r \in Plain)
             /\ Live(r) /\ r \notin late
             /\ r \in Plain \/ (r \in Elicitations /\ remoteOn)

(* Deliberately wrong: what goes to the phone is listed as well. *)
ReadAskedTwice(r) ==
    /\ desktop' = desktop \cup {r}
    /\ IF Routed(r) /\ remoteOn
       THEN /\ hub' = [hub EXCEPT ![r] = "sending"]
            /\ dispatch' = [dispatch EXCEPT ![r] = "waiting"]
       ELSE UNCHANGED remote
    /\ UNCHANGED <<gate, attempted, calls>>

ReadAsked(r) ==
    /\ IF ~Routed(r)
       THEN desktop' = desktop \cup {r} /\ UNCHANGED <<remote, calls>>
       ELSE IF remoteOn
       THEN /\ hub' = [hub EXCEPT ![r] = "sending"]
            /\ dispatch' = [dispatch EXCEPT ![r] = "waiting"]
            /\ UNCHANGED <<desktop, calls>>
       ELSE \* requestApproval is false at once
            /\ dispatch' = [dispatch EXCEPT ![r] = "replying"]
            /\ calls' = calls \cup {Answer(r, "decline", "remote")}
            /\ UNCHANGED <<desktop, hub>>
    /\ UNCHANGED <<gate, attempted>>

(* resolved and resolvedTurn: the entry is cancelled, its button invalid. *)
Withdraws(R) ==
    /\ dispatch' = [r \in Requests |->
           IF r \in R /\ dispatch[r] \in {"waiting", "replying"} THEN "over" ELSE dispatch[r]]
    /\ hub' = [r \in Requests |-> IF r \in R /\ dispatch[r] = "waiting" THEN "over" ELSE hub[r]]
    /\ desktop' = desktop \ R
    /\ attempted' = attempted \ R
    /\ UNCHANGED calls

ReadLine ==
    /\ events # <<>> /\ events' = Tail(events)
    /\ LET line == Head(events) IN
       \/ line.kind = "asked" /\ ReadAsked(line.of)
       \/ line.kind = "resolved" /\ Withdraws({line.of}) /\ UNCHANGED gate
       \/ /\ line.kind = "over" /\ Withdraws(Of(line.of))
          /\ gate' = [gate EXCEPT ![line.of] = IF @ = "live" THEN "over" ELSE @]
    /\ UNCHANGED <<bridgeSide, failed, settings>>
-----------------------------------------------------------------------------
(* The phone.  Deliberately wrong: what was live when the phone was asked
   counts as live when it answers. *)
RepliesUnchecked(r, yes) ==
    /\ hub' = [hub EXCEPT ![r] = "over"]
    /\ IF dispatch[r] = "waiting"
       THEN /\ dispatch' = [dispatch EXCEPT ![r] = "replying"]
            /\ calls' = calls \cup {Answer(r, IF yes THEN "accept" ELSE "decline", "remote")}
       ELSE UNCHANGED <<dispatch, calls>>

(* The promise of the hub is settled; its continuation follows at once. *)
Replies(r, yes) ==
    /\ hub' = [hub EXCEPT ![r] = "over"]
    /\ IF dispatch[r] = "waiting"
       THEN /\ dispatch' = [dispatch EXCEPT ![r] = "replying"]
            /\ calls' = calls \cup
                 {Answer(r, IF yes /\ Live(r) /\ r \notin late THEN "accept" ELSE "decline", "remote")}
       ELSE UNCHANGED <<dispatch, calls>>

phoneRest == <<verdict, late, running, pipe, events, gate, list, remoteOn, autoOn>>

MessageSent(r) ==
    /\ hub[r] = "sending"
    /\ hub' = [hub EXCEPT ![r] = "shown"]
    /\ UNCHANGED <<phoneRest, consent, dispatch, calls, incidents>>

MessageFails(r) ==
    /\ hub[r] = "sending" /\ Incident
    /\ Replies(r, FALSE)
    /\ UNCHANGED <<phoneRest, consent>>

(* A press before the hub knows the id of its message changes nothing. *)
Pressed(r, yes) ==
    /\ hub[r] = "shown" /\ r \notin late
    /\ Replies(r, yes /\ remoteOn)
    /\ consent' = IF yes /\ remoteOn THEN consent \cup {r} ELSE consent
    /\ UNCHANGED <<phoneRest, incidents>>

HubTimer(r) ==
    /\ hub[r] \in {"sending", "shown"} /\ r \in late
    /\ Replies(r, FALSE)
    /\ UNCHANGED <<phoneRest, consent, incidents>>
-----------------------------------------------------------------------------
(* The list of the app: by hand, or by the automatic mode. *)
Sending(r) == \E c \in calls : c.req = r /\ c.from = "list"

Submit(r, action) ==
    /\ r \in desktop /\ ~Sending(r) /\ Live(r) /\ r \notin late
    /\ calls' = calls \cup {Answer(r, action, "list")}
    /\ consent' = IF action = "accept" THEN consent \cup {r} ELSE consent
    /\ UNCHANGED <<verdict, late, running, pipe, events, gate, desktop, failed, remote, settings>>

SubmitByHand(r, action) ==
    /\ r \in failed \/ ~autoOn \/ r \notin Plain
    /\ action = "accept" => r \in Elicitations \cup Plain
    /\ Submit(r, action)
    /\ UNCHANGED attempted

SubmitAutomatically(r) ==
    /\ autoOn /\ r \in Plain \ attempted
    /\ Submit(r, "accept")
    /\ attempted' = attempted \cup {r}

(* An attempt on a request that is dead by now only removes it. *)
ListDrops(r) ==
    /\ r \in desktop /\ ~Sending(r) /\ (~Live(r) \/ r \in late)
    /\ desktop' = desktop \ {r} /\ attempted' = attempted \ {r}
    /\ UNCHANGED <<bridgeSide, events, gate, failed, remote, calls, settings>>

(* invoke returns once Rust has the answer; the sidecar drops it if the turn
   has no process. *)
CallReturns(c) ==
    /\ calls' = calls \ {c}
    /\ pipe' = IF running[TurnOf[c.req]] = "over" THEN pipe ELSE Append(pipe, c)
    /\ IF c.from = "remote"
       THEN /\ dispatch' = [dispatch EXCEPT ![c.req] = "over"]
            /\ UNCHANGED <<desktop, attempted>>
       ELSE /\ desktop' = desktop \ {c.req} /\ attempted' = attempted \ {c.req}
            /\ UNCHANGED dispatch
    /\ UNCHANGED <<verdict, consent, late, running, events, gate, failed, hub, settings>>

CallFails(c) ==
    /\ Incident
    /\ calls' = calls \ {c}
    /\ IF c.from = "remote"
       THEN /\ dispatch' = [dispatch EXCEPT ![c.req] = "over"]
            /\ desktop' = desktop \cup {c.req}
            /\ UNCHANGED failed
       ELSE failed' = failed \cup {c.req} /\ UNCHANGED <<dispatch, desktop>>
    /\ UNCHANGED <<bridgeSide, events, gate, attempted, hub, remoteOn, autoOn>>

UserStops(t) ==
    /\ gate[t] = "live"
    /\ gate' = [gate EXCEPT ![t] = "stopping"]
    /\ UNCHANGED <<bridgeSide, events, list, remote, calls, settings>>

UserToggles ==
    /\ Incident
    /\ \/ remoteOn' = ~remoteOn /\ UNCHANGED autoOn
       \/ autoOn' = ~autoOn /\ UNCHANGED remoteOn
    /\ UNCHANGED <<bridgeSide, events, app>>
-----------------------------------------------------------------------------
ApprovalNext ==
    \/ \E r \in Requests :
         \/ Asks(r) \/ Expires(r) \/ TimerDeclines(r) \/ EngineWithdraws(r)
         \/ MessageSent(r) \/ MessageFails(r) \/ HubTimer(r)
         \/ \E yes \in BOOLEAN : Pressed(r, yes)
         \/ \E a \in Actions : SubmitByHand(r, a)
         \/ SubmitAutomatically(r) \/ ListDrops(r)
    \/ \E t \in Turns : TurnCompletes(t) \/ StopArrives(t) \/ EngineDies(t) \/ UserStops(t)
    \/ BridgeReads \/ ReadLine
    \/ \E c \in calls : CallReturns(c) \/ CallFails(c)
    \/ UserToggles

ApprovalSpec == ApprovalInit /\ [][ApprovalNext]_approvalVars

(* Time passes, timers fire, pipes are read.  No person owes an answer. *)
ApprovalFairness ==
    /\ \A r \in Requests : /\ WF_approvalVars(Expires(r)) /\ WF_approvalVars(TimerDeclines(r))
                           /\ WF_approvalVars(MessageSent(r)) /\ WF_approvalVars(HubTimer(r))
    /\ WF_approvalVars(BridgeReads) /\ WF_approvalVars(ReadLine)
    /\ WF_approvalVars(\E c \in calls : CallReturns(c))

ApprovalFairSpec == ApprovalSpec /\ ApprovalFairness
-----------------------------------------------------------------------------
Lines == [kind : {"asked", "resolved"}, of : Requests] \cup [kind : {"over"}, of : Turns]
Answers == [req : Requests, action : Actions, from : {"remote", "list"}]

ApprovalTypeOK ==
    /\ verdict \in [Requests -> {"unasked", "open", "accepted", "declined", "void"}]
    /\ consent \subseteq Requests /\ late \subseteq Requests
    /\ running \in [Turns -> {"running", "stopping", "over"}]
    /\ gate \in [Turns -> {"live", "stopping", "over"}]
    /\ events \in Seq(Lines) /\ pipe \in Seq(Answers) /\ calls \subseteq Answers
    /\ desktop \subseteq Requests /\ attempted \subseteq Requests /\ failed \subseteq Requests
    /\ dispatch \in [Requests -> {"none", "waiting", "replying", "over"}]
    /\ hub \in [Requests -> {"none", "sending", "shown", "over"}]
    /\ remoteOn \in BOOLEAN /\ autoOn \in BOOLEAN
    /\ incidents \in 0..MaxIncidents

Repeated == {r \in Rereads : CallOf[r] \in Confirmed}
Contract == INSTANCE ApprovalContract

(* A button, the list, the automatic mode, two timers, a withdrawal and the end
   of the turn race for one request; it is answered once, and accepted only
   with consent to it and before its deadline, or unasked if it repeats what its
   own call, not another one under way, has confirmed. *)
AnswersKeepContract == Contract!ContractSpec

(* Once the user has stopped a turn no acceptance leaves the app for it, though
   the phone still shows its button. *)
StopEndsConsent ==
    [][\A c \in calls' \ calls : c.action = "accept" => gate[TurnOf[c.req]] = "live"]_approvalVars

(* A request is in one hand: while the phone is asked, or its answer is under
   way, the list does not show it. *)
OneHand ==
    \A r \in Requests : ~(dispatch[r] \in {"waiting", "replying"} /\ r \in desktop)

(* No request waits forever and no phone is left asking, whatever the people do
   and whichever messages and calls fail. *)
Waits(r) == verdict[r] = "open" \/ hub[r] \in {"sending", "shown"}
EveryRequestSettles == \A r \in Requests : Waits(r) ~> ~Waits(r)
=============================================================================
