------------------------------ MODULE HubProofs ------------------------------
(***************************************************************************)
(* Proofs about the hub, for any number of results, ticks, requests and    *)
(* turns and any number of failures.                                       *)
(*   Approvals: a request is in one hand, a stop ends what the phone may   *)
(* still consent to, and the bridge gives each answer as the contract of   *)
(* approvals allows.  They rest on what is known of a request while its    *)
(* line travels (Fresh), and on each acceptance, wherever it is under way, *)
(* having the consent of a person or a mode (Consented).                   *)
(*   Deliveries: what is stored for sending stays so until it is on its    *)
(* way or on the phone.  The hub has what it has stored (Backed), although *)
(* it stores less often than it changes, a result never changes between    *)
(* outbox and summary (Apart), and one delivery of a tick is under way at  *)
(* a time (Flushing).                                                      *)
(***************************************************************************)
EXTENDS Approvals, HubDelivery, FilterProofs

AppLines ==
    {line \in [kind : {"asked", "resolved", "over"}, of : Requests \cup Turns] :
        line.kind = "asked" => line.of \in Requests}

(* The types of what the proofs read. *)
Typed ==
    /\ verdict \in [Requests -> {"unasked", "open", "accepted", "declined", "void"}]
    /\ dispatch \in [Requests -> {"none", "waiting", "replying", "over"}]
    /\ hub \in [Requests -> {"none", "sending", "shown", "over"}]
    /\ events \in Seq(AppLines)
    /\ calls \subseteq Answers /\ pipe \in Seq(Answers)

AsksFor(i, r) == events[i].kind = "asked" /\ events[i].of = r

(* The line of a request is read once, and nobody holds the request before. *)
Fresh ==
    \A r \in Requests, i \in DOMAIN events : AsksFor(i, r) =>
        /\ verdict[r] # "unasked"
        /\ dispatch[r] = "none" /\ hub[r] = "none" /\ r \notin desktop
        /\ \A j \in DOMAIN events : AsksFor(j, r) => i = j

(* Whoever holds a request, it was asked. *)
Asked ==
    \A r \in Requests :
        /\ dispatch[r] # "none" \/ hub[r] # "none" \/ r \in desktop => verdict[r] # "unasked"
        /\ \A c \in calls : c.req = r /\ c.from = "remote" => dispatch[r] # "none"

(* An acceptance that is under way, in a call or in the pipe, has its consent. *)
Consented ==
    /\ \A c \in calls : c.action = "accept" => c.req \in consent
    /\ \A i \in DOMAIN pipe : pipe[i].action = "accept" => pipe[i].req \in consent

ApprovalInv == Typed /\ Fresh /\ Asked /\ OneHand /\ Consented
-----------------------------------------------------------------------------
LEMMA AppendTo ==
    ASSUME NEW S, NEW s \in Seq(S), NEW e \in S
    PROVE  /\ Append(s, e) \in Seq(S)
           /\ DOMAIN Append(s, e) = DOMAIN s \cup {Len(s) + 1}
           /\ \A i \in DOMAIN s : Append(s, e)[i] = s[i]
           /\ Append(s, e)[Len(s) + 1] = e
OBVIOUS

LEMMA TailOf ==
    ASSUME NEW S, NEW s \in Seq(S), s # <<>>
    PROVE  /\ Head(s) \in S /\ 1 \in DOMAIN s /\ Head(s) = s[1]
           /\ Tail(s) \in Seq(S)
           /\ \A i \in DOMAIN Tail(s) : i + 1 \in DOMAIN s /\ i + 1 # 1 /\ Tail(s)[i] = s[i + 1]
           /\ \A i, j \in DOMAIN Tail(s) : i + 1 = j + 1 => i = j
OBVIOUS

LEMMA ApprovalInitEstablishes == ApprovalInit => ApprovalInv
BY DEF ApprovalInit, ApprovalInv, Typed, Fresh, Asked, OneHand, Consented, AsksFor

Verdicts == {"unasked", "open", "accepted", "declined", "void"}

(* What the bridge may write: the line of a request when it is asked. *)
BridgeWrites ==
    \/ UNCHANGED events
    \/ \E line \in AppLines :
          /\ Says(line)
          /\ line.kind = "asked" => /\ line.of \in Requests /\ verdict[line.of] = "unasked"
                                   /\ verdict'[line.of] # "unasked"

BridgeOnly ==
    /\ verdict' \in [Requests -> Verdicts]
    /\ \A r \in Requests : verdict[r] # "unasked" => verdict'[r] # "unasked"
    /\ BridgeWrites
    /\ UNCHANGED <<consent, desktop, dispatch, hub, calls>>
    /\ pipe' = pipe \/ (pipe # <<>> /\ pipe' = Tail(pipe))

(* The bridge takes no request out of a hand and writes no line twice. *)
LEMMA BridgePreserves ==
    ASSUME ApprovalInv, BridgeOnly
    PROVE  ApprovalInv'
<1> USE DEF ApprovalInv, BridgeOnly
<1>1. \/ pipe' = pipe
      \/ /\ pipe' \in Seq(Answers)
         /\ \A i \in DOMAIN pipe' : i + 1 \in DOMAIN pipe /\ pipe'[i] = pipe[i + 1]
    <2>1. CASE pipe # <<>> /\ pipe' = Tail(pipe)
        <3>1. pipe \in Seq(Answers)
            BY DEF Typed
        <3>2. QED
            BY <2>1, <3>1, TailOf
    <2>2. QED
        BY <2>1
<1>2. Consented'
    BY <1>1 DEF Consented
<1>3. (Asked /\ OneHand)'
    BY DEF Asked, OneHand
<1>4. CASE UNCHANGED events
    BY <1>1, <1>2, <1>3, <1>4 DEF Typed, Verdicts, Fresh, AsksFor
<1>5. CASE ~UNCHANGED events
    <2>1. PICK line \in AppLines :
              /\ events' = Append(events, line)
              /\ line.kind = "asked" => /\ line.of \in Requests /\ verdict[line.of] = "unasked"
                                       /\ verdict'[line.of] # "unasked"
        BY <1>5 DEF BridgeWrites, Says
    <2>2. /\ events' \in Seq(AppLines)
          /\ \A i \in DOMAIN events' : \/ i \in DOMAIN events /\ events'[i] = events[i]
                                       \/ i = Len(events) + 1 /\ events'[i] = line
        BY <2>1, AppendTo DEF Typed
    <2>3. Typed'
        BY <1>1, <2>2 DEF Typed, Verdicts
    <2>4. ASSUME NEW r \in Requests, NEW i \in DOMAIN events', AsksFor(i, r)'
          PROVE  /\ verdict'[r] # "unasked"
                 /\ dispatch[r] = "none" /\ hub[r] = "none" /\ r \notin desktop
                 /\ \A j \in DOMAIN events' : AsksFor(j, r)' => i = j
        BY <2>1, <2>2, <2>4 DEF Fresh, Asked, AsksFor
    <2>5. Fresh'
        BY <2>4 DEF Fresh
    <2>6. QED
        BY <1>2, <1>3, <2>3, <2>5
<1>6. QED
    BY <1>4, <1>5

LEMMA BridgeSteps ==
    ASSUME ApprovalInv,
           \/ \E r \in Requests : Asks(r) \/ Expires(r) \/ TimerDeclines(r) \/ EngineWithdraws(r)
           \/ \E t \in Turns : TurnCompletes(t) \/ StopArrives(t) \/ EngineDies(t)
           \/ BridgeReads
    PROVE  BridgeOnly
<1> USE DEF ApprovalInv, Typed, Verdicts, bridgeSide, app, settings
<1>1. ASSUME NEW kind \in {"asked", "resolved", "over"}, NEW of \in Requests \cup Turns
      PROVE  kind # "asked" \/ of \in Requests => [kind |-> kind, of |-> of] \in AppLines
    BY DEF AppLines
<1>2. ASSUME NEW r \in Requests, Asks(r) PROVE BridgeOnly
    <2>1. /\ verdict[r] = "unasked" /\ UNCHANGED <<consent, pipe, desktop, dispatch, hub, calls>>
          /\ \/ verdict' = [verdict EXCEPT ![r] = "declined"] /\ UNCHANGED events
             \/ verdict' = [verdict EXCEPT ![r] = "accepted"] /\ UNCHANGED events
             \/ /\ verdict' = [verdict EXCEPT ![r] = "open"]
                /\ Says([kind |-> "asked", of |-> r])
        BY <1>2 DEF Asks
    <2>2. [kind |-> "asked", of |-> r] \in AppLines
        BY <1>1
    <2>3. BridgeWrites
        BY <2>1, <2>2 DEF BridgeWrites
    <2>4. QED
        BY <2>1, <2>3 DEF BridgeOnly
<1>3. ASSUME NEW r \in Requests, Expires(r) PROVE BridgeOnly
    BY <1>3 DEF Expires, BridgeOnly, BridgeWrites
<1>4. ASSUME NEW r \in Requests, TimerDeclines(r) \/ EngineWithdraws(r) PROVE BridgeOnly
    <2>1. UNCHANGED events \/ Says([kind |-> "resolved", of |-> r])
        BY <1>4 DEF TimerDeclines, EngineWithdraws, SaysResolved
    <2>2. BridgeWrites
        BY <1>1, <2>1 DEF BridgeWrites
    <2>3. QED
        BY <1>4, <2>2 DEF TimerDeclines, EngineWithdraws, BridgeOnly
<1>5. ASSUME NEW t \in Turns, TurnCompletes(t) \/ StopArrives(t) \/ EngineDies(t) PROVE BridgeOnly
    <2>1. Says([kind |-> "over", of |-> t])
        BY <1>5 DEF TurnCompletes, StopArrives, EngineDies
    <2>2. BridgeWrites
        BY <1>1, <2>1 DEF BridgeWrites
    <2>3. QED
        BY <1>5, <2>2 DEF TurnCompletes, StopArrives, EngineDies, Ends, BridgeOnly
<1>6. ASSUME BridgeReads PROVE BridgeOnly
    <2>1. Head(pipe) \in Answers /\ Head(pipe).req \in Requests
        <3>1. pipe \in Seq(Answers) /\ pipe # <<>>
            BY <1>6 DEF BridgeReads
        <3>2. Head(pipe) \in Answers
            BY <3>1, TailOf
        <3>3. QED
            BY <3>2 DEF Answers
    <2>2. UNCHANGED events \/ Says([kind |-> "resolved", of |-> Head(pipe).req])
        BY <1>6 DEF BridgeReads, SaysResolved
    <2>3. BridgeWrites
        BY <1>1, <2>1, <2>2 DEF BridgeWrites
    <2>4. QED
        BY <1>6, <2>1, <2>3 DEF BridgeReads, BridgeOnly
<1>7. QED
    BY <1>2, <1>3, <1>4, <1>5, <1>6
-----------------------------------------------------------------------------
(* A line is read: no other line of that request follows. *)
LEMMA ReadPreserves ==
    ASSUME ApprovalInv, ReadLine
    PROVE  ApprovalInv'
<1> USE DEF ApprovalInv
<1> DEFINE line == Head(events)
<1>1. /\ line \in AppLines /\ line = events[1] /\ 1 \in DOMAIN events
      /\ events' \in Seq(AppLines)
      /\ \A i \in DOMAIN events' : i + 1 \in DOMAIN events /\ i + 1 # 1 /\ events'[i] = events[i + 1]
      /\ \A i, j \in DOMAIN events' : i + 1 = j + 1 => i = j
    BY TailOf DEF ReadLine, Typed
<1>2. UNCHANGED <<verdict, consent, pipe>>
    BY DEF ReadLine, bridgeSide
<1>3. CASE line.kind = "asked" /\ ReadAsked(line.of)
    <2> DEFINE r == line.of
    <2>1. r \in Requests
        BY <1>1, <1>3 DEF AppLines
    <2>2. /\ verdict[r] # "unasked" /\ dispatch[r] = "none" /\ hub[r] = "none" /\ r \notin desktop
          /\ \A i \in DOMAIN events' : ~(events'[i].kind = "asked" /\ events'[i].of = r)
        BY <1>1, <1>3, <2>1 DEF Fresh, AsksFor
    <2>3. Answer(r, "decline", "remote") \in Answers
        BY <2>1 DEF Answer, Answers, Actions
    <2>4. \/ /\ desktop' = desktop \cup {r} /\ UNCHANGED <<dispatch, hub, calls>>
          \/ /\ hub' = [hub EXCEPT ![r] = "sending"]
             /\ dispatch' = [dispatch EXCEPT ![r] = "waiting"]
             /\ UNCHANGED <<desktop, calls>>
          \/ /\ dispatch' = [dispatch EXCEPT ![r] = "replying"]
             /\ calls' = calls \cup {Answer(r, "decline", "remote")}
             /\ UNCHANGED <<desktop, hub>>
        BY <1>3 DEF ReadAsked, remote
    <2>5. Typed'
        BY <1>1, <1>2, <2>1, <2>3, <2>4 DEF Typed
    <2>6. Fresh'
        BY <1>1, <1>2, <2>1, <2>2, <2>4 DEF Typed, Fresh, AsksFor
    <2>7. (Asked /\ OneHand /\ Consented)'
        BY <1>2, <2>1, <2>2, <2>4 DEF Typed, Asked, OneHand, Consented, Answer
    <2>8. QED
        BY <2>5, <2>6, <2>7
<1>4. CASE \E R : Withdraws(R)
    <2>1. PICK R : Withdraws(R)
        BY <1>4
    <2>2. Typed'
        BY <1>1, <1>2, <2>1 DEF Typed, Withdraws
    <2>3. Fresh'
        BY <1>1, <1>2, <2>1 DEF Typed, Fresh, Withdraws, AsksFor
    <2>4. (Asked /\ OneHand /\ Consented)'
        BY <1>2, <2>1 DEF Typed, Asked, OneHand, Consented, Withdraws
    <2>5. QED
        BY <2>2, <2>3, <2>4
<1>5. QED
    BY <1>3, <1>4 DEF ReadLine

(* The phone, the list and the calls: lines and verdicts stay. *)
Elsewhere == UNCHANGED <<verdict, events>>

(* The hub settles its promise. *)
LEMMA RepliesPreserve ==
    ASSUME ApprovalInv, NEW r \in Requests, NEW yes \in BOOLEAN, Replies(r, yes), Elsewhere,
           hub[r] # "none", pipe' = pipe, desktop' = desktop,
           consent \subseteq consent', yes => r \in consent'
    PROVE  ApprovalInv'
<1> USE DEF ApprovalInv
<1> DEFINE action == IF yes /\ Live(r) /\ r \notin late THEN "accept" ELSE "decline"
<1>1. /\ hub' = [hub EXCEPT ![r] = "over"]
      /\ \/ UNCHANGED <<dispatch, calls>>
         \/ /\ dispatch[r] = "waiting"
            /\ dispatch' = [dispatch EXCEPT ![r] = "replying"]
            /\ calls' = calls \cup {Answer(r, action, "remote")}
    BY DEF Replies
<1>2. /\ Answer(r, action, "remote") \in Answers
      /\ Answer(r, action, "remote").req = r
      /\ Answer(r, action, "remote").action = "accept" => yes
    BY DEF Answer, Answers, Actions
<1> HIDE DEF action
<1>3. Typed'
    BY <1>1, <1>2 DEF Typed, Elsewhere
<1>4. (Fresh /\ Asked /\ OneHand)'
    BY <1>1, <1>2 DEF Typed, Fresh, Asked, OneHand, Elsewhere, AsksFor
<1>5. Consented'
    BY <1>1, <1>2 DEF Consented
<1>6. QED
    BY <1>3, <1>4, <1>5

LEMMA PhonePreserves ==
    ASSUME ApprovalInv, NEW r \in Requests,
           \/ MessageSent(r) \/ MessageFails(r) \/ HubTimer(r)
           \/ \E yes \in BOOLEAN : Pressed(r, yes)
    PROVE  ApprovalInv'
<1>1. CASE MessageSent(r)
    BY <1>1 DEF MessageSent, phoneRest, list, ApprovalInv, Typed, Fresh, Asked, OneHand, Consented,
                AsksFor
<1>2. CASE MessageFails(r) \/ HubTimer(r)
    BY <1>2, RepliesPreserve DEF MessageFails, HubTimer, phoneRest, list, Elsewhere
<1>3. CASE \E yes \in BOOLEAN : Pressed(r, yes)
    BY <1>3, RepliesPreserve DEF Pressed, phoneRest, list, Elsewhere, ApprovalInv
<1>4. QED
    BY <1>1, <1>2, <1>3

(* The list answers what it holds, and only removes from itself. *)
LEMMA ListPreserves ==
    ASSUME ApprovalInv, NEW r \in Requests,
           \/ \E a \in Actions : SubmitByHand(r, a)
           \/ SubmitAutomatically(r) \/ ListDrops(r)
    PROVE  ApprovalInv'
<1> USE DEF ApprovalInv
<1>1. CASE ListDrops(r)
    BY <1>1 DEF ListDrops, bridgeSide, remote, Typed, Fresh, Asked, OneHand, Consented, AsksFor
<1>2. CASE \E a \in Actions : Submit(r, a)
    <2>1. PICK a \in Actions : Submit(r, a)
        BY <1>2
    <2>2. Answer(r, a, "list") \in Answers
        BY DEF Answer, Answers
    <2>3. QED
        BY <2>1, <2>2 DEF Submit, Answer, remote, Typed, Fresh, Asked, OneHand, Consented, AsksFor
<1>3. QED
    BY <1>1, <1>2 DEF SubmitByHand, SubmitAutomatically, Actions

LEMMA CallPreserves ==
    ASSUME ApprovalInv, NEW c \in calls, CallReturns(c) \/ CallFails(c)
    PROVE  ApprovalInv'
<1> USE DEF ApprovalInv
<1>1. c \in Answers /\ c.req \in Requests
    BY DEF Typed, Answers
<1>2. CASE CallReturns(c)
    <2>1. \/ pipe' = pipe
          \/ /\ pipe' \in Seq(Answers)
             /\ \A i \in DOMAIN pipe' : \/ i \in DOMAIN pipe /\ pipe'[i] = pipe[i]
                                        \/ pipe'[i] = c
        <3>1. pipe \in Seq(Answers)
            BY DEF Typed
        <3>2. QED
            BY <1>1, <1>2, <3>1, AppendTo DEF CallReturns
    <2>2. Typed'
        BY <1>1, <1>2, <2>1 DEF CallReturns, Typed
    <2>3. (Fresh /\ Asked /\ OneHand)'
        BY <1>1, <1>2 DEF CallReturns, Typed, Fresh, Asked, OneHand, AsksFor
    <2>4. Consented'
        BY <1>2, <2>1 DEF CallReturns, Consented
    <2>5. QED
        BY <2>2, <2>3, <2>4
<1>3. CASE CallFails(c)
    BY <1>1, <1>3 DEF CallFails, bridgeSide, Typed, Fresh, Asked, OneHand, Consented, AsksFor
<1>4. QED
    BY <1>2, <1>3

LEMMA ApprovalNextPreserves == ApprovalInv /\ [ApprovalNext]_approvalVars => ApprovalInv'
<1> SUFFICES ASSUME ApprovalInv, [ApprovalNext]_approvalVars PROVE ApprovalInv'
    OBVIOUS
<1>1. CASE UNCHANGED approvalVars
    BY <1>1 DEF approvalVars, ApprovalInv, Typed, Fresh, Asked, OneHand, Consented, AsksFor
<1>2. CASE \/ \E r \in Requests : Asks(r) \/ Expires(r) \/ TimerDeclines(r) \/ EngineWithdraws(r)
           \/ \E t \in Turns : TurnCompletes(t) \/ StopArrives(t) \/ EngineDies(t)
           \/ BridgeReads
    BY <1>2, BridgeSteps, BridgePreserves
<1>3. CASE \E r \in Requests :
              \/ MessageSent(r) \/ MessageFails(r) \/ HubTimer(r)
              \/ \E yes \in BOOLEAN : Pressed(r, yes)
    BY <1>3, PhonePreserves
<1>4. CASE \E r \in Requests : \/ \E a \in Actions : SubmitByHand(r, a)
                               \/ SubmitAutomatically(r) \/ ListDrops(r)
    BY <1>4, ListPreserves
<1>5. CASE \E c \in calls : CallReturns(c) \/ CallFails(c)
    BY <1>5, CallPreserves
<1>6. CASE ReadLine
    BY <1>6, ReadPreserves
<1>7. CASE (\E t \in Turns : UserStops(t)) \/ UserToggles
    BY <1>7 DEF UserStops, UserToggles, bridgeSide, list, remote, app, ApprovalInv, Typed, Fresh,
                Asked, OneHand, Consented, AsksFor
<1>8. QED
    BY <1>1, <1>2, <1>3, <1>4, <1>5, <1>6, <1>7 DEF ApprovalNext

LEMMA ApprovalInvariance == ApprovalSpec => []ApprovalInv
BY ApprovalInitEstablishes, ApprovalNextPreserves, PTL DEF ApprovalSpec
(* The rest of the state: turns, lists, settings and deadlines. *)
Listed ==
    /\ consent \subseteq Requests /\ late \subseteq Requests
    /\ desktop \subseteq Requests /\ attempted \subseteq Requests /\ failed \subseteq Requests
    /\ running \in [Turns -> {"running", "stopping", "over"}]
    /\ gate \in [Turns -> {"live", "stopping", "over"}]
    /\ remoteOn \in BOOLEAN /\ autoOn \in BOOLEAN
    /\ incidents \in 0..MaxIncidents
    /\ events \in Seq(Lines)

(* The steps of the bridge and of the turns. *)
LEMMA BridgeLists ==
    ASSUME ApprovalInv, Listed,
           \/ \E r \in Requests : Asks(r) \/ Expires(r) \/ TimerDeclines(r) \/ EngineWithdraws(r)
           \/ \E t \in Turns : TurnCompletes(t) \/ StopArrives(t) \/ EngineDies(t)
           \/ BridgeReads
    PROVE  Listed'
<1>1. /\ UNCHANGED <<consent, desktop, attempted, failed, gate, remoteOn, autoOn, incidents>>
      /\ late' = late \/ \E r \in Requests : late' = late \cup {r}
      /\ \/ running' = running
         \/ \E t \in Turns : running' = [running EXCEPT ![t] = "over"]
         \/ \E t \in Turns : running' = [running EXCEPT ![t] = "stopping"]
    BY DEF Asks, Expires, TimerDeclines, EngineWithdraws, TurnCompletes, StopArrives, EngineDies,
           BridgeReads, app, settings
<1>2. \/ events' = events
      \/ \E line \in Lines : events' = Append(events, line)
  <2>1. \A r \in Requests : /\ [kind |-> "asked", of |-> r] \in Lines
                            /\ [kind |-> "resolved", of |-> r] \in Lines
      BY DEF Lines
  <2>2. \A t \in Turns : [kind |-> "over", of |-> t] \in Lines
      BY DEF Lines
  <2>3. pipe # <<>> => Head(pipe).req \in Requests
    <3>1. pipe # <<>> => Head(pipe) \in Answers
        BY TailOf DEF ApprovalInv, Typed
    <3>2. QED
        BY <3>1 DEF Answers
  <2>4. QED
      BY <2>1, <2>2, <2>3 DEF Asks, Expires, TimerDeclines, EngineWithdraws, TurnCompletes,
             StopArrives, EngineDies, BridgeReads, Says, SaysResolved
<1>3. events' \in Seq(Lines)
    BY <1>2, AppendTo DEF Listed
<1>4. QED
    BY <1>1, <1>3 DEF Listed

(* A line is read. *)
LEMMA ReadLists ==
    ASSUME Listed, ReadLine
    PROVE  Listed'
<1>1. events' \in Seq(Lines) /\ Head(events) \in Lines
    BY TailOf DEF Listed, ReadLine
<1>2. /\ UNCHANGED <<consent, late, running, failed, remoteOn, autoOn, incidents>>
      /\ gate' \in [Turns -> {"live", "stopping", "over"}]
    BY DEF ReadLine, ReadAsked, bridgeSide, settings, Listed
<1>3. desktop' \subseteq Requests /\ attempted' \subseteq Requests
  <2>1. CASE Head(events).kind = "asked" /\ ReadAsked(Head(events).of)
    <3>1. Head(events).of \in Requests
        BY <1>1, <2>1 DEF Lines
    <3>2. QED
        BY <2>1, <3>1 DEF ReadAsked, remote, Listed
  <2>2. CASE \E R : Withdraws(R)
      BY <2>2 DEF Withdraws, Listed
  <2>3. QED
      BY <2>1, <2>2 DEF ReadLine
<1>4. QED
    BY <1>1, <1>2, <1>3 DEF Listed

(* The phone, the list, the calls and the user. *)
AppSide ==
    \/ \E r \in Requests : \/ MessageSent(r) \/ MessageFails(r) \/ HubTimer(r)
                           \/ \E yes \in BOOLEAN : Pressed(r, yes)
                           \/ \E a \in Actions : SubmitByHand(r, a)
                           \/ SubmitAutomatically(r) \/ ListDrops(r)
    \/ \E t \in Turns : UserStops(t)
    \/ \E c \in calls : CallReturns(c) \/ CallFails(c)
    \/ UserToggles

LEMMA AppLists ==
    ASSUME ApprovalInv, Listed, AppSide
    PROVE  Listed'
<1> USE DEF bridgeSide, settings, list, remote, app, phoneRest
<1>1. \A c \in calls : c.req \in Requests
    BY DEF ApprovalInv, Typed, Answers
<1>2. UNCHANGED <<late, running, events>>
    BY DEF AppSide, MessageSent, MessageFails, HubTimer, Pressed, SubmitByHand, SubmitAutomatically,
           Submit, ListDrops, UserStops, CallReturns, CallFails, UserToggles
<1>3. consent' \subseteq Requests
    BY DEF AppSide, MessageSent, MessageFails, HubTimer, Pressed, SubmitByHand, SubmitAutomatically,
           Submit, ListDrops, UserStops, CallReturns, CallFails, UserToggles, Listed
<1>4. desktop' \subseteq Requests /\ attempted' \subseteq Requests /\ failed' \subseteq Requests
  <2>1. /\ desktop' \subseteq desktop \/ \E r \in Requests : desktop' = desktop \cup {r}
        /\ attempted' \subseteq attempted \/ \E r \in Requests : attempted' = attempted \cup {r}
        /\ failed' = failed \/ \E r \in Requests : failed' = failed \cup {r}
    <3>1. CASE \E r \in Requests :
                  \/ MessageSent(r) \/ MessageFails(r) \/ HubTimer(r)
                  \/ \E yes \in BOOLEAN : Pressed(r, yes)
                  \/ \E a \in Actions : SubmitByHand(r, a)
                  \/ SubmitAutomatically(r) \/ ListDrops(r)
        BY <3>1 DEF MessageSent, MessageFails, HubTimer, Pressed, SubmitByHand,
               SubmitAutomatically, Submit, ListDrops
    <3>2. CASE (\E t \in Turns : UserStops(t)) \/ UserToggles
        BY <3>2 DEF UserStops, UserToggles
    <3>3. CASE \E c \in calls : CallReturns(c) \/ CallFails(c)
        BY <1>1, <3>3 DEF CallReturns, CallFails
    <3>4. QED
        BY <3>1, <3>2, <3>3 DEF AppSide
  <2>2. QED
      BY <2>1 DEF Listed
<1>5. gate' \in [Turns -> {"live", "stopping", "over"}]
    BY DEF AppSide, MessageSent, MessageFails, HubTimer, Pressed, SubmitByHand, SubmitAutomatically,
           Submit, ListDrops, UserStops, CallReturns, CallFails, UserToggles, Listed
<1>6. remoteOn' \in BOOLEAN /\ autoOn' \in BOOLEAN
    BY Zenon DEF AppSide, MessageSent, MessageFails, HubTimer, Pressed, SubmitByHand, Submit,
           SubmitAutomatically, ListDrops, UserStops, CallReturns, CallFails, UserToggles, Listed
<1>7. incidents' \in 0..MaxIncidents
  <2>1. incidents' = incidents \/ Incident
      BY DEF AppSide, MessageSent, MessageFails, HubTimer, Pressed, SubmitByHand, Submit,
             SubmitAutomatically, ListDrops, UserStops, CallReturns, CallFails, UserToggles
  <2>2. QED
      BY <2>1, IncidentsAssumption DEF Incident, Listed
<1>8. QED
    BY <1>2, <1>3, <1>4, <1>5, <1>6, <1>7 DEF Listed

(* Every variable of the approvals keeps its type: what is listed are requests,
   and a line names a request or a turn as its kind demands. *)
THEOREM ApprovalTypes == ApprovalSpec => []ApprovalTypeOK
<1>1. ApprovalInit => Listed
    BY IncidentsAssumption DEF ApprovalInit, Listed
<1>2. ApprovalInv /\ Listed /\ [ApprovalNext]_approvalVars => Listed'
  <2> SUFFICES ASSUME ApprovalInv, Listed, [ApprovalNext]_approvalVars PROVE Listed'
      OBVIOUS
  <2>1. CASE UNCHANGED approvalVars
      BY <2>1 DEF approvalVars, Listed
  <2>2. CASE ApprovalNext
      BY <2>2, BridgeLists, ReadLists, AppLists DEF ApprovalNext, AppSide
  <2>3. QED
      BY <2>1, <2>2
<1>3. ApprovalInv /\ Listed => ApprovalTypeOK
    BY DEF ApprovalInv, Typed, Listed, ApprovalTypeOK
<1>4. QED
    BY <1>1, <1>2, <1>3, ApprovalInvariance, PTL DEF ApprovalSpec

(* For any number of requests: what the phone is asked, or has answered, the
   list does not offer as well, so nobody decides a request twice. *)
THEOREM RequestsAreInOneHand == ApprovalSpec => []OneHand
<1>1. ApprovalInv => OneHand
    BY DEF ApprovalInv
<1>2. QED
    BY <1>1, ApprovalInvariance, PTL

(* No acceptance leaves the app for a turn that was stopped or is over, even if
   the button was pressed while it was still shown. *)
THEOREM StoppedTurnsConsentToNothing == ApprovalSpec => StopEndsConsent
<1> DEFINE Sober == \A c \in calls' \ calls : c.action = "accept" => gate[TurnOf[c.req]] = "live"
<1>1. ApprovalInv /\ ApprovalNext => Sober
    <2> SUFFICES ASSUME ApprovalInv, ApprovalNext, NEW c \in calls' \ calls, c.action = "accept"
                 PROVE  gate[TurnOf[c.req]] = "live"
        OBVIOUS
    <2>1. ASSUME NEW r \in Requests, NEW yes \in BOOLEAN, Replies(r, yes)
          PROVE  gate[TurnOf[c.req]] = "live"
        BY <2>1 DEF Replies, Answer, Live
    <2>2. ASSUME NEW r \in Requests, NEW a \in Actions, Submit(r, a)
          PROVE  gate[TurnOf[c.req]] = "live"
        BY <2>2 DEF Submit, Answer, Live
    <2>3. CASE \E r \in Requests :
                  \/ MessageSent(r) \/ MessageFails(r) \/ HubTimer(r)
                  \/ \E yes \in BOOLEAN : Pressed(r, yes)
        BY <2>1, <2>3 DEF MessageSent, MessageFails, HubTimer, Pressed
    <2>4. CASE \E r \in Requests : \/ \E a \in Actions : SubmitByHand(r, a)
                                   \/ SubmitAutomatically(r) \/ ListDrops(r)
        BY <2>2, <2>4 DEF SubmitByHand, SubmitAutomatically, ListDrops, Actions
    <2>5. CASE ReadLine
        BY <2>5 DEF ReadLine, ReadAsked, Withdraws, Answer
    <2>6. CASE \E d \in calls : CallReturns(d) \/ CallFails(d)
        BY <2>6 DEF CallReturns, CallFails
    <2>7. CASE \/ \E r \in Requests : Asks(r) \/ Expires(r) \/ TimerDeclines(r) \/ EngineWithdraws(r)
               \/ \E t \in Turns : TurnCompletes(t) \/ StopArrives(t) \/ EngineDies(t)
               \/ BridgeReads
        BY <2>7, BridgeSteps DEF BridgeOnly
    <2>8. CASE (\E t \in Turns : UserStops(t)) \/ UserToggles
        BY <2>8 DEF UserStops, UserToggles, app
    <2>9. QED
        BY <2>3, <2>4, <2>5, <2>6, <2>7, <2>8 DEF ApprovalNext
<1>2. ApprovalInv /\ [ApprovalNext]_approvalVars => [Sober]_approvalVars
    BY <1>1
<1>3. QED
    BY <1>2, ApprovalInvariance, PTL DEF ApprovalSpec, StopEndsConsent
-----------------------------------------------------------------------------
(* The bridge closes some requests of a turn, or of one. *)
LEMMA CloseMaps ==
    ASSUME NEW R \in SUBSET Requests, NEW v \in {"declined", "void"},
           \A r \in R : verdict[r] \in {"unasked", "open"},
           verdict' = [r \in Requests |-> IF r \in R THEN v ELSE verdict[r]],
           UNCHANGED <<consent, late>>
    PROVE  Contract!Close
BY DEF Contract!Close

(* The end of a turn. *)
LEMMA EndsMaps ==
    ASSUME ApprovalInv, NEW t \in Turns, NEW v \in {"declined", "void"},
           verdict' = Ends(Of(t), v), UNCHANGED <<consent, late>>
    PROVE  Contract!Close
<1> DEFINE R == {r \in Of(t) : verdict[r] = "open"}
<1>1. R \in SUBSET Requests /\ \A r \in R : verdict[r] \in {"unasked", "open"}
    BY DEF Of
<1>2. verdict' = [r \in Requests |-> IF r \in R THEN v ELSE verdict[r]]
    BY DEF Ends
<1> HIDE DEF R
<1>3. QED
    BY <1>1, <1>2, CloseMaps

(* One request gets its verdict without an acceptance. *)
LEMMA DeclineMaps ==
    ASSUME ApprovalInv, NEW r \in Requests, NEW v \in {"declined", "void"},
           verdict[r] \in {"unasked", "open"}, verdict' = [verdict EXCEPT ![r] = v],
           UNCHANGED <<consent, late>>
    PROVE  Contract!Close
<1>1. verdict' = [u \in Requests |-> IF u \in {r} THEN v ELSE verdict[u]]
    BY DEF ApprovalInv, Typed
<1>2. QED
    BY <1>1, CloseMaps

ContractStep == [Contract!ContractNext]_(Contract!contractVars)

(* What the bridge does is what the contract allows of it. *)
LEMMA BridgeMaps ==
    ASSUME ApprovalInv,
           \/ \E r \in Requests : Asks(r) \/ Expires(r) \/ TimerDeclines(r) \/ EngineWithdraws(r)
           \/ \E t \in Turns : TurnCompletes(t) \/ StopArrives(t) \/ EngineDies(t)
           \/ BridgeReads
    PROVE  ContractStep
<1> USE DEF ContractStep, Contract!ContractNext
<1>1. ASSUME NEW r \in Requests, Asks(r) PROVE ContractStep
    <2>1. verdict[r] = "unasked" /\ UNCHANGED <<consent, late>>
        BY <1>1 DEF Asks
    <2>2. ASSUME NEW active \in SUBSET Calls, r \in Rereads => CallOf[r] \in active,
                 Redundant(r, active)
          PROVE  r \in Repeated
        BY <2>2 DEF Redundant, Repeated
    <2>3. \/ verdict' = [verdict EXCEPT ![r] = "declined"]
          \/ verdict' = [verdict EXCEPT ![r] = "open"]
          \/ r \in Repeated /\ verdict' = [verdict EXCEPT ![r] = "accepted"]
        BY <1>1, <2>2 DEF Asks
    <2>4. QED
        BY <2>1, <2>3, DeclineMaps DEF Contract!Ask, Contract!AcceptRepeated
<1>2. ASSUME NEW r \in Requests, Expires(r) PROVE ContractStep
    BY <1>2 DEF Expires, Contract!Expire
<1>3. ASSUME NEW r \in Requests, TimerDeclines(r) \/ EngineWithdraws(r) PROVE ContractStep
    BY <1>3, DeclineMaps DEF TimerDeclines, EngineWithdraws
<1>4. ASSUME NEW t \in Turns, TurnCompletes(t) \/ EngineDies(t) PROVE ContractStep
    BY <1>4, EndsMaps DEF TurnCompletes, EngineDies
<1>5. ASSUME NEW t \in Turns, StopArrives(t) PROVE ContractStep
    BY <1>5 DEF StopArrives, Contract!contractVars
<1>6. ASSUME BridgeReads PROVE ContractStep
    <2> DEFINE a == Head(pipe)
    <2>1. a \in Answers /\ a = pipe[1] /\ 1 \in DOMAIN pipe
        <3>1. pipe \in Seq(Answers) /\ pipe # <<>>
            BY <1>6 DEF BridgeReads, ApprovalInv, Typed
        <3>2. QED
            BY <3>1, TailOf
    <2>2. a.req \in Requests /\ (a.action = "accept" => a.req \in consent)
        BY <2>1 DEF Answers, ApprovalInv, Consented
    <2>3. UNCHANGED <<consent, late>>
        BY <1>6 DEF BridgeReads
    <2>4. \/ UNCHANGED verdict
          \/ /\ verdict[a.req] = "open" /\ a.action = "accept" /\ a.req \notin late
             /\ verdict' = [verdict EXCEPT ![a.req] = "accepted"]
          \/ /\ verdict[a.req] = "open"
             /\ verdict' = [verdict EXCEPT ![a.req] = "declined"]
        BY <1>6 DEF BridgeReads
    <2> HIDE DEF a
    <2>5. QED
        BY <2>2, <2>3, <2>4, DeclineMaps DEF Contract!Accept, Contract!contractVars
<1>7. QED
    BY <1>1, <1>2, <1>3, <1>4, <1>5, <1>6

(* Elsewhere only consent is added, and to a request that was asked. *)
LEMMA AppMaps ==
    ASSUME ApprovalInv, UNCHANGED <<verdict, late>>,
           consent' = consent \/ \E r \in Requests : /\ verdict[r] # "unasked"
                                                   /\ consent' = consent \cup {r}
    PROVE  ContractStep
BY DEF ContractStep, Contract!ContractNext, Contract!Consent, Contract!contractVars

LEMMA StepMaps ==
    ASSUME ApprovalInv, [ApprovalNext]_approvalVars PROVE ContractStep
<1>1. CASE \/ \E r \in Requests : Asks(r) \/ Expires(r) \/ TimerDeclines(r) \/ EngineWithdraws(r)
           \/ \E t \in Turns : TurnCompletes(t) \/ StopArrives(t) \/ EngineDies(t)
           \/ BridgeReads
    BY <1>1, BridgeMaps
<1>2. CASE \E r \in Requests :
              \/ MessageSent(r) \/ MessageFails(r) \/ HubTimer(r)
              \/ \E yes \in BOOLEAN : Pressed(r, yes)
    BY <1>2, AppMaps DEF MessageSent, MessageFails, HubTimer, Pressed, phoneRest, ApprovalInv, Asked
<1>3. CASE \E r \in Requests : \/ \E a \in Actions : SubmitByHand(r, a)
                               \/ SubmitAutomatically(r) \/ ListDrops(r)
    BY <1>3, AppMaps DEF SubmitByHand, SubmitAutomatically, ListDrops, Submit, bridgeSide,
                         ApprovalInv, Asked
<1>4. CASE \/ UNCHANGED approvalVars \/ ReadLine \/ UserToggles
           \/ \E c \in calls : CallReturns(c) \/ CallFails(c)
           \/ \E t \in Turns : UserStops(t)
    BY <1>4, AppMaps DEF approvalVars, ReadLine, UserToggles, CallReturns, CallFails, UserStops,
                         bridgeSide
<1>5. QED
    BY <1>1, <1>2, <1>3, <1>4 DEF ApprovalNext

(* However many hands race for a request, the bridge gives one answer to it, and
   accepts only with consent and in time, or because the call that makes the
   request has confirmed what it asks. *)
THEOREM ApprovalsKeepContract == ApprovalSpec => AnswersKeepContract
<1>1. ApprovalInit => Contract!ContractInit
    BY DEF ApprovalInit, Contract!ContractInit
<1>2. ApprovalInv /\ [ApprovalNext]_approvalVars => [Contract!ContractNext]_(Contract!contractVars)
    BY StepMaps DEF ContractStep
<1>3. QED
    BY <1>1, <1>2, ApprovalInvariance, PTL
       DEF ApprovalSpec, AnswersKeepContract, Contract!ContractSpec
-----------------------------------------------------------------------------
(* The hub has a result, or the phone has it. *)
Known(r) ==
    \/ r \in Range(outbox) \cup held \cup digest
    \/ \E m \in mails : r \in m.items
    \/ arrived[r] > 0

(* A result goes to the outbox or into a summary and never changes between them. *)
Apart ==
    /\ \A r \in Range(outbox) \cup held \cup Range(disk.outbox) \cup disk.held \cup Range(round) :
           stage[r] = "posted"
    /\ \A s \in sends : stage[s.res] = "posted"
    /\ \A r \in digest \cup disk.digest : stage[r] = "digested"
    /\ \A m \in mails : \A r \in m.items :
           stage[r] = IF m.kind = "held" THEN "posted" ELSE "digested"

Heard ==
    /\ \A s \in sends : s.st = "accepted" => arrived[s.res] > 0
    /\ \A m \in mails, r \in Results : m.st = "accepted" /\ r \in m.items => arrived[r] > 0

(* What a tick has under way is the next result of its round. *)
Flushing ==
    /\ \A s \in sends : s.by # "first" => s.by = flusher /\ round # <<>>
    /\ \A s, t \in sends : s.by # "first" /\ t.by # "first" => s = t
    /\ \A k \in Ticks : tick[k] = "outbox" => flusher = k

(* What is stored the hub knows, and what it has in its queues is stored. *)
Backed ==
    /\ digest = disk.digest
    /\ Range(outbox) \cup held \subseteq Range(disk.outbox) \cup disk.held
    /\ \A r \in Range(disk.outbox) \cup disk.held : Known(r)

HubInv == HubTypeOK /\ Apart /\ Heard /\ Flushing /\ Backed

Stages == {"new", "noticed", "digested", "behind", "posted", "gone"}
Sends == [res : Results, by : Ticks \cup {"first"}, st : {"sending", "holding", "accepted"}]
Mails == [kind : {"digest", "held"}, items : SUBSET Results,
          by : Ticks \cup Results \cup {"timer"}, st : {"sending", "accepted"}]
-----------------------------------------------------------------------------
LEMMA RangeOf ==
    ASSUME NEW S, NEW s \in Seq(S)
    PROVE  /\ \A x : x \in Range(s) <=> \E i \in DOMAIN s : s[i] = x
           /\ Range(s) \subseteq S /\ DOMAIN s = 1..Len(s) /\ Len(s) \in Nat
<1>1. \A i \in DOMAIN s : s[i] \in S
    BY ElementOfSeq, LenProperties
<1>2. QED
    BY <1>1, LenProperties DEF Range

LEMMA AppendRange ==
    ASSUME NEW S, NEW s \in Seq(S), NEW e \in S
    PROVE  Append(s, e) \in Seq(S) /\ Range(Append(s, e)) = Range(s) \cup {e}
<1>1. PICK t : t = Append(s, e)
    OBVIOUS
<1>2. /\ t \in Seq(S) /\ Len(t) = Len(s) + 1 /\ t[Len(s) + 1] = e
      /\ \A i \in 1..Len(s) : t[i] = s[i]
    BY <1>1, AppendProperties
<1>3. /\ DOMAIN s = 1..Len(s) /\ DOMAIN t = 1..Len(s) + 1 /\ Len(s) \in Nat
    BY <1>2, LenProperties
<1>4. \A x : x \in Range(t) <=> x \in Range(s) \/ x = e
  <2>1. Len(s) + 1 \in DOMAIN t /\ \A i \in DOMAIN t : i \in DOMAIN s \/ i = Len(s) + 1
      BY <1>3
  <2>2. \A i \in DOMAIN s : i \in DOMAIN t
      BY <1>3
  <2>3. QED
      BY <1>2, <1>3, <2>1, <2>2 DEF Range
<1>5. QED
    BY <1>1, <1>2, <1>4

(* filter takes the one result out, and leaves the others. *)
LEMMA DequeueRange ==
    ASSUME NEW S, NEW s \in Seq(S), NEW e, NEW I \in SUBSET DOMAIN s,
           \A i \in DOMAIN s : i \in I <=> s[i] # e
    PROVE  Kept(s, I) \in Seq(S) /\ \A x : x \in Range(Kept(s, I)) <=> x \in Range(s) /\ x # e
<1>1. PICK t : t = Kept(s, I)
    OBVIOUS
<1>2. /\ t \in Seq(S)
      /\ \A k \in DOMAIN t : \E i \in I : t[k] = s[i]
      /\ \A i \in I : \E k \in DOMAIN t : t[k] = s[i]
    BY <1>1, KeptOnes
<1>3. \A x : x \in Range(t) <=> x \in Range(s) /\ x # e
    BY <1>2 DEF Range
<1>4. QED
    BY <1>1, <1>2, <1>3

LEMMA TailRange ==
    ASSUME NEW S, NEW s \in Seq(S), s # <<>>
    PROVE  Tail(s) \in Seq(S) /\ Range(Tail(s)) \subseteq Range(s) /\ Head(s) \in Range(s)
<1>1. PICK t : t = Tail(s)
    OBVIOUS
<1>2. /\ t \in Seq(S) /\ Len(t) = Len(s) - 1 /\ \A i \in 1..Len(t) : t[i] = s[i + 1]
      /\ Head(s) = s[1]
    BY <1>1, HeadTailProperties
<1>3. /\ DOMAIN s = 1..Len(s) /\ Len(s) \in Nat \ {0} /\ DOMAIN t = 1..Len(s) - 1
    BY <1>2, LenProperties, EmptySeq
<1>4. 1 \in DOMAIN s /\ \A i \in DOMAIN t : i + 1 \in DOMAIN s
    BY <1>3
<1>5. QED
    BY <1>1, <1>2, <1>3, <1>4 DEF Range

LEMMA RestRange ==
    ASSUME NEW s \in Seq(Results)
    PROVE  Rest(s) \in Seq(Results) /\ Range(Rest(s)) \subseteq Range(s)
<1>1. DOMAIN s = 1..Len(s) /\ Len(s) \in Nat /\ \A i \in DOMAIN s : s[i] \in Results
    BY LenProperties, ElementOfSeq
<1> PICK idle \in SUBSET DOMAIN s : idle = {i \in DOMAIN s : ~Delivering(s[i])}
    OBVIOUS
<1>2. CASE idle = {}
  <2>1. Rest(s) = <<>>
      BY <1>2 DEF Rest
  <2>2. QED
      BY <2>1, EmptySeq DEF Range
<1>3. CASE idle # {}
  <2>1. idle \in SUBSET Nat
      BY <1>1
  <2>2. PICK m \in Nat : m = Min(idle) /\ m \in DOMAIN s
      BY <1>1, <1>3, <2>1, SmallestIndex
  <2>3. PICK t, n : t = SubSeq(s, m, n) /\ n = Len(s)
      OBVIOUS
  <2>4. Rest(s) = t
      BY <1>3, <2>2, <2>3 DEF Rest
  <2>5. \A i \in m..n : s[i] \in Results
      BY <1>1, <2>2, <2>3
  <2>6. /\ t \in Seq(Results) /\ Len(t) = n - m + 1
        /\ \A i \in 1..n - m + 1 : t[i] = s[m + i - 1]
    <3>1. m \in Int /\ n \in Int /\ m <= n
        BY <1>1, <2>2, <2>3
    <3>2. /\ t \in Seq(Results) /\ Len(t) = IF m <= n THEN n - m + 1 ELSE 0
          /\ \A i \in 1..n - m + 1 : t[i] = s[m + i - 1]
        BY <2>3, <2>5, <3>1, SubSeqProperties
    <3>3. QED
        BY <3>1, <3>2
  <2>7. DOMAIN t = 1..n - m + 1
      BY <2>6, LenProperties
  <2>8. \A i \in DOMAIN t : m + i - 1 \in DOMAIN s
      BY <1>1, <2>2, <2>3, <2>7
  <2>9. QED
      BY <2>4, <2>6, <2>7, <2>8 DEF Range
<1>4. QED
    BY <1>2, <1>3
-----------------------------------------------------------------------------
Keeps == \A r \in Results : Known(r) => \/ Known(r)'
                                        \/ DigestComesBack /\ r \in digest
StageStays == \A r \in Results : stage[r] \in {"posted", "digested"} => stage'[r] = stage[r]
Writes == Persist \/ (UNCHANGED <<disk, outbox, digest>> /\ held' \subseteq held)
StepOK == HubTypeOK' /\ Apart' /\ Heard' /\ Flushing' /\ Keeps /\ Writes

LEMMA HubTyped ==
    ASSUME HubTypeOK
    PROVE  /\ stage \in [Results -> Stages] /\ arrived \in [Results -> 0..2]
           /\ outbox \in Seq(Results) /\ held \subseteq Results /\ digest \subseteq Results
           /\ disk \in Queue /\ disk.outbox \in Seq(Results)
           /\ disk.held \subseteq Results /\ disk.digest \subseteq Results
           /\ Range(outbox) \subseteq Results /\ Range(disk.outbox) \subseteq Results
           /\ round \in Seq(Results) /\ Range(round) \subseteq Results
           /\ sends \subseteq Sends /\ mails \subseteq Mails
           /\ flusher \in Ticks \cup {"nobody"}
           /\ tick \in [Ticks -> {"idle", "outbox", "digest", "held", "last"}]
<1>1. PICK O, R, D : O = outbox /\ R = round /\ D = disk.outbox
    OBVIOUS
<1>2. O \in Seq(Results) /\ R \in Seq(Results) /\ D \in Seq(Results)
    BY <1>1 DEF HubTypeOK, Queue
<1>3. Range(O) \subseteq Results /\ Range(R) \subseteq Results /\ Range(D) \subseteq Results
    BY <1>2, RangeOf
<1>4. QED
    BY <1>1, <1>3 DEF HubTypeOK, Queue, Stages, Sends, Mails

(* A step that loses nothing the hub knows keeps what is stored or on its way. *)
LEMMA StoreStays ==
    ASSUME HubInv, StepOK
    PROVE  /\ HubInv'
           /\ \A r \in Unsent : \/ r \in Unsent' \/ arrived'[r] > 0
                                \/ DigestComesBack /\ r \in digest
<1>1. \A r \in Unsent : r \in Results /\ Known(r)
    BY HubTyped DEF HubInv, Backed, Unsent, Stored, Travelling, Known
<1>2. \A r \in Range(disk.outbox) \cup disk.held : r \in Results /\ r \notin digest /\ Known(r)'
  <2>1. \A r \in Range(disk.outbox) \cup disk.held : r \in Results /\ Known(r) /\ r \notin digest
      BY HubTyped DEF HubInv, Apart, Backed
  <2>2. QED
      BY <2>1 DEF StepOK, Keeps
<1>3. Backed' /\ Range(outbox') \cup held' \cup digest' \subseteq Stored'
  <2>1. CASE Persist
    <3>1. disk'.outbox = outbox' /\ disk'.held = held' /\ disk'.digest = digest'
        BY <2>1 DEF Persist
    <3>2. QED
        BY <3>1 DEF Backed, Known, Stored
  <2>2. CASE UNCHANGED <<disk, outbox, digest>> /\ held' \subseteq held
      BY <1>2, <2>2 DEF HubInv, Backed, Stored
  <2>3. QED
      BY <2>1, <2>2 DEF StepOK, Writes
<1>4. ASSUME NEW r \in Unsent
      PROVE  r \in Unsent' \/ arrived'[r] > 0 \/ (DigestComesBack /\ r \in digest)
  <2>1. r \in Results /\ (Known(r)' \/ (DigestComesBack /\ r \in digest))
      BY <1>1, <1>4 DEF StepOK, Keeps
  <2>2. Known(r)' => r \in Unsent' \/ arrived'[r] > 0
      BY <1>3, <2>1 DEF Known, Unsent, Travelling
  <2>3. QED
      BY <2>1, <2>2
<1>5. QED
    BY <1>3, <1>4 DEF HubInv, StepOK

LEMMA Begins ==
    ASSUME NEW r \in Results, NEW by \in Ticks \cup {"first"}, Begin(r, by)
    PROVE  \E s \in Sends : /\ s.res = r /\ s.by = by /\ s.st \in {"holding", "sending"}
                            /\ sends' = sends \cup {s}
<1>1. PICK st : st = IF quiet /\ r \notin Urgent THEN "holding" ELSE "sending"
    OBVIOUS
<1>2. PICK s : s = [res |-> r, by |-> by, st |-> st]
    OBVIOUS
<1>3. s \in Sends /\ s.res = r /\ s.by = by /\ s.st \in {"holding", "sending"}
    BY <1>1, <1>2 DEF Sends
<1>4. sends' = sends \cup {s}
    BY <1>1, <1>2 DEF Begin
<1>5. QED
    BY <1>3, <1>4

(* A result goes into the outbox and its first delivery begins. *)
LEMMA Posted ==
    ASSUME HubInv, NEW r \in Results, stage[r] \in {"new", "noticed", "behind"},
           stage' = [stage EXCEPT ![r] = "posted"], outbox' = Append(outbox, r),
           UNCHANGED <<held, digest>>, Persist, Begin(r, "first"),
           UNCHANGED <<timing, mails, ticking, outside>>
    PROVE  StepOK
<1>1. PICK O, P : O = outbox /\ P = Append(O, r)
    OBVIOUS
<1>2. O \in Seq(Results)
    BY <1>1, HubTyped DEF HubInv
<1>3. P \in Seq(Results) /\ Range(P) = Range(O) \cup {r}
    BY <1>1, <1>2, AppendRange
<1>4. PICK s \in Sends : /\ s.res = r /\ s.by = "first" /\ s.st \in {"holding", "sending"}
                         /\ sends' = sends \cup {s}
    BY Begins
<1>5. /\ stage' \in [Results -> Stages] /\ stage'[r] = "posted"
      /\ \A x \in Results : x # r => stage'[x] = stage[x]
    BY HubTyped DEF HubInv, Stages
<1>6. /\ outbox' = P /\ held' = held /\ digest' = digest
      /\ disk' = [outbox |-> P, held |-> held, digest |-> digest]
      /\ UNCHANGED <<mails, round, arrived, armed, timers, flusher, tick>>
    BY <1>1 DEF Persist, timing, ticking, outside
<1>7. HubTypeOK'
    BY <1>3, <1>4, <1>5, <1>6 DEF HubInv, HubTypeOK, Queue, Stages, Sends
<1>8. Apart'
  <2>1. /\ \A x \in Range(O) \cup held \cup Range(round) : stage'[x] = "posted"
        /\ \A x \in digest : stage'[x] = "digested"
        /\ \A m \in mails : \A x \in m.items : stage'[x] = stage[x]
        /\ \A t \in sends : stage'[t.res] = "posted"
      BY <1>1, <1>5, HubTyped DEF HubInv, Apart, Mails, Sends
  <2>2. QED
      BY <1>3, <1>4, <1>5, <1>6, <2>1 DEF HubInv, Apart
<1>9. Heard'
    BY <1>4, <1>6 DEF HubInv, Heard
<1>10. Keeps
    BY <1>1, <1>3, <1>6 DEF Keeps, Known
<1>11. Flushing'
    BY <1>4, <1>6 DEF HubInv, Flushing
<1>12. QED
    BY <1>7, <1>8, <1>9, <1>10, <1>11 DEF StepOK, Writes

(* The summary leaves the hub's memory and store, and is on its way. *)
LEMMA SummaryLeaves ==
    ASSUME HubInv, NEW by \in Ticks \cup Results \cup {"timer"}, SendDigest(by),
           UNCHANGED <<sends, arrived, flusher, round>>, StageStays,
           stage' \in [Results -> Stages], timers' \in BOOLEAN,
           tick' \in [Ticks -> {"idle", "outbox", "digest", "held", "last"}],
           \A k \in Ticks : tick'[k] = "outbox" => tick[k] = "outbox"
    PROVE  StepOK
<1>1. PICK m \in Mails : m.kind = "digest" /\ m.items = digest /\ m.st = "sending"
                         /\ mails' = mails \cup {m}
  <2>1. PICK D : D = digest /\ D \subseteq Results
      BY HubTyped DEF HubInv
  <2>2. PICK m : m = [kind |-> "digest", items |-> D, by |-> by, st |-> "sending"]
      OBVIOUS
  <2>3. m \in Mails /\ m.kind = "digest" /\ m.items = D /\ m.st = "sending"
      BY <2>1, <2>2 DEF Mails
  <2>4. mails' = mails \cup {m}
      BY <2>1, <2>2 DEF SendDigest
  <2>5. QED
      BY <2>1, <2>3, <2>4
<1>2. /\ digest' = {} /\ armed' = FALSE /\ outbox' = outbox /\ held' = held
      /\ disk' = [outbox |-> outbox, held |-> held, digest |-> {}] /\ Persist
    BY DEF SendDigest, Persist
<1>3. HubTypeOK'
    BY ZenonT(40), <1>1, <1>2 DEF HubInv, HubTypeOK, Queue, Stages, Mails
<1>4. Apart'
  <2>1. /\ \A x \in Range(outbox) \cup held \cup Range(round) : stage'[x] = "posted"
        /\ \A x \in digest : stage'[x] = "digested"
        /\ \A n \in mails : \A x \in n.items : stage'[x] = stage[x]
        /\ \A t \in sends : stage'[t.res] = "posted"
      BY HubTyped DEF HubInv, Apart, Mails, Sends, StageStays
  <2>2. QED
      BY <1>1, <1>2, <2>1 DEF HubInv, Apart
<1>5. Heard'
    BY <1>1 DEF HubInv, Heard
<1>6. Keeps
    BY <1>1, <1>2 DEF Keeps, Known
<1>7. Flushing'
    BY DEF HubInv, Flushing
<1>8. QED
    BY <1>2, <1>3, <1>4, <1>5, <1>6, <1>7 DEF StepOK, Writes

(* A step that changes no queue, no delivery and no summary on its way. *)
LEMMA NothingMoves ==
    ASSUME HubInv, UNCHANGED <<outbox, held, digest, disk, sends, mails, arrived, flusher, round>>,
           StageStays, stage' \in [Results -> Stages], armed' \in BOOLEAN, timers' \in BOOLEAN,
           tick' \in [Ticks -> {"idle", "outbox", "digest", "held", "last"}],
           \A k \in Ticks : tick'[k] = "outbox" => tick[k] = "outbox"
    PROVE  StepOK
<1>1. HubTypeOK'
    BY DEF HubInv, HubTypeOK, Stages
<1>2. Apart'
  <2>1. /\ \A x \in Range(outbox) \cup held \cup Range(disk.outbox) \cup disk.held
                    \cup Range(round) : stage'[x] = "posted"
        /\ \A x \in digest \cup disk.digest : stage'[x] = "digested"
        /\ \A n \in mails : \A x \in n.items : stage'[x] = stage[x]
        /\ \A t \in sends : stage'[t.res] = "posted"
      BY HubTyped DEF HubInv, Apart, Mails, Sends, StageStays
  <2>2. QED
      BY <2>1 DEF HubInv, Apart
<1>3. Heard'
    BY DEF HubInv, Heard
<1>4. Keeps
    BY DEF Keeps, Known
<1>5. Flushing'
    BY DEF HubInv, Flushing
<1>6. QED
    BY <1>1, <1>2, <1>3, <1>4, <1>5 DEF StepOK, Writes

-----------------------------------------------------------------------------
LEMMA ReportStep == ASSUME HubInv, NEW r \in Results, Report(r) PROVE StepOK
<1>1. stage[r] = "new" /\ stage \in [Results -> Stages]
    BY HubTyped DEF Report, HubInv
<1>2. CASE stage' = [stage EXCEPT ![r] = "noticed"] /\ UNCHANGED <<queues, sends>>
  <2>1. /\ stage' = [stage EXCEPT ![r] = "noticed"]
        /\ UNCHANGED <<outbox, held, digest, disk, sends, mails, arrived, armed, timers>>
        /\ UNCHANGED <<flusher, round, tick>>
      BY <1>2 DEF Report, queues, timing, ticking, outside
  <2>2. StageStays /\ stage' \in [Results -> Stages]
      BY <1>1, <2>1 DEF StageStays, Stages
  <2>3. armed' \in BOOLEAN /\ timers' \in BOOLEAN
      BY <2>1 DEF HubInv, HubTypeOK
  <2>4. QED
      BY <2>1, <2>2, <2>3, HubTyped, NothingMoves DEF HubInv
<1>3. CASE /\ stage' = [stage EXCEPT ![r] = "posted"] /\ outbox' = Append(outbox, r)
           /\ UNCHANGED <<held, digest>> /\ Persist /\ Begin(r, "first")
    BY <1>1, <1>3, Posted DEF Report
<1>4. QED
    BY <1>2, <1>3 DEF Report

LEMMA PostStep == ASSUME HubInv, NEW r \in Results, Post(r) PROVE StepOK
BY Posted DEF Post

LEMMA HastenStep == ASSUME HubInv, NEW r \in Results, Hasten(r) PROVE StepOK
<1>1. /\ stage[r] = "noticed" /\ stage' = [stage EXCEPT ![r] = "behind"] /\ SendDigest(r)
      /\ UNCHANGED <<timers, sends, flusher, round, tick, arrived>>
    BY DEF Hasten, ticking, outside
<1>2. StageStays /\ stage' \in [Results -> Stages]
    BY <1>1, HubTyped DEF HubInv, StageStays, Stages
<1>3. timers' \in BOOLEAN
    BY <1>1 DEF HubInv, HubTypeOK
<1>4. QED
    BY <1>1, <1>2, <1>3, HubTyped, SummaryLeaves DEF HubInv

LEMMA TimerFiresStep == ASSUME HubInv, TimerFires PROVE StepOK
<1>1. timers' = FALSE /\ UNCHANGED <<stage, sends, flusher, round, tick, arrived>>
    BY DEF TimerFires, ticking, outside
<1>2. StageStays /\ stage' \in [Results -> Stages]
    BY <1>1, HubTyped DEF HubInv, StageStays
<1>3. timers' \in BOOLEAN
    BY <1>1
<1>4. "timer" \in Ticks \cup Results \cup {"timer"}
    OBVIOUS
<1>5. CASE SendDigest("timer")
    BY <1>1, <1>2, <1>3, <1>4, <1>5, HubTyped, SummaryLeaves DEF HubInv
<1>6. CASE armed' = FALSE /\ UNCHANGED <<mails, outbox, held, digest, disk>>
  <2>1. armed' \in BOOLEAN
      BY <1>6
  <2>2. QED
      BY <1>1, <1>2, <1>3, <1>6, <2>1, HubTyped, NothingMoves DEF HubInv
<1>7. \/ armed' = FALSE /\ UNCHANGED <<mails, outbox, held, digest, disk>>
      \/ SendDigest("timer")
    BY DEF TimerFires, queues
<1>8. QED
    BY <1>5, <1>6, <1>7

LEMMA SummariseStep == ASSUME HubInv, NEW r \in Results, Summarise(r) PROVE StepOK
<1>1. /\ stage[r] = "noticed" /\ stage' = [stage EXCEPT ![r] = "digested"]
      /\ digest' = digest \cup {r} /\ UNCHANGED <<outbox, held>> /\ Persist
      /\ disk' = [outbox |-> outbox, held |-> held, digest |-> digest \cup {r}]
      /\ UNCHANGED <<sends, mails, flusher, round, tick, arrived>>
    BY DEF Summarise, ticking, outside, Persist
<1>2. armed' \in BOOLEAN /\ timers' \in BOOLEAN
    BY DEF Summarise
<1>3. /\ stage' \in [Results -> Stages] /\ stage'[r] = "digested"
      /\ \A x \in Results : x # r => stage'[x] = stage[x]
    BY <1>1, HubTyped DEF HubInv, Stages
<1>4. HubTypeOK'
    BY <1>1, <1>2, <1>3 DEF HubInv, HubTypeOK, Queue, Stages
<1>5. Apart'
  <2>1. /\ \A x \in Range(outbox) \cup held \cup Range(round) : stage'[x] = "posted"
        /\ \A x \in digest : stage'[x] = "digested"
        /\ \A m \in mails : \A x \in m.items : stage'[x] = stage[x]
        /\ \A t \in sends : stage'[t.res] = "posted"
      BY <1>1, <1>3, HubTyped DEF HubInv, Apart, Mails, Sends
  <2>2. QED
      BY <1>1, <1>3, <2>1 DEF HubInv, Apart
<1>6. Heard' /\ Flushing' /\ Keeps
    BY <1>1 DEF HubInv, Heard, Flushing, Keeps, Known
<1>7. QED
    BY <1>1, <1>4, <1>5, <1>6 DEF StepOK, Writes
-----------------------------------------------------------------------------
LEMMA Arrives ==
    ASSUME HubTypeOK, NEW R, Arrive(R)
    PROVE  /\ arrived' \in [Results -> 0..2]
           /\ \A r \in Results : arrived[r] > 0 => arrived'[r] > 0
           /\ \A r \in Results : r \in R => arrived'[r] > 0
<1>1. arrived \in [Results -> 0..2]
    BY DEF HubTypeOK
<1>2. ASSUME NEW r \in Results
      PROVE  /\ arrived'[r] = IF r \in R /\ arrived[r] < 2 THEN arrived[r] + 1 ELSE arrived[r]
             /\ arrived[r] \in 0..2
    BY <1>1 DEF Arrive
<1>3. DOMAIN arrived' = Results /\ arrived' = [r \in Results |-> arrived'[r]]
    BY DEF Arrive
<1>4. QED
    BY <1>2, <1>3

(* A delivery is over: the tick that made it goes on. *)
LEMMA DeliveryEnds ==
    ASSUME HubInv, NEW s \in sends, NEW ok \in BOOLEAN, sends' = sends \ {s}, RoundGoesOn(s, ok),
           UNCHANGED <<flusher, tick>>
    PROVE  round' \in Seq(Results) /\ Range(round') \subseteq Range(round) /\ Flushing'
<1>1. CASE s.by = "first"
    BY <1>1, HubTyped DEF HubInv, RoundGoesOn, Flushing
<1>2. CASE s.by # "first"
  <2>1. PICK R : R = round /\ R \in Seq(Results) /\ R # <<>>
      BY <1>2, HubTyped DEF HubInv, Flushing
  <2>2. round' = Tail(R) \/ round' = <<>>
      BY <1>2, <2>1 DEF RoundGoesOn
  <2>3. /\ Tail(R) \in Seq(Results) /\ Range(Tail(R)) \subseteq Range(R)
        /\ <<>> \in Seq(Results) /\ Range(<<>>) \subseteq Range(R)
      BY <2>1, TailRange, EmptySeq DEF Range
  <2>4. \A t \in sends' : t.by = "first"
      BY <1>2 DEF HubInv, Flushing
  <2>5. QED
      BY <2>1, <2>2, <2>3, <2>4 DEF HubInv, Flushing
<1>3. QED
    BY <1>1, <1>2

LEMMA AcceptStep == ASSUME HubInv, NEW s \in sends, Accept(s) PROVE StepOK
<1>1. PICK t : t = [s EXCEPT !.st = "accepted"]
    OBVIOUS
<1>2. s \in Sends /\ s.res \in Results
    BY HubTyped DEF HubInv, Sends
<1>3. t \in Sends /\ t.res = s.res /\ t.by = s.by
    BY <1>1, <1>2 DEF Sends
<1>4. /\ sends' = (sends \ {s}) \cup {t} /\ Arrive({s.res})
      /\ UNCHANGED <<stage, outbox, held, digest, disk, armed, timers, mails>>
      /\ UNCHANGED <<flusher, round, tick>>
    BY <1>1 DEF Accept, queues, timing, ticking
<1>5. /\ arrived' \in [Results -> 0..2] /\ arrived'[s.res] > 0
      /\ \A r \in Results : arrived[r] > 0 => arrived'[r] > 0
    BY <1>2, <1>4, Arrives DEF HubInv
<1>6. HubTypeOK'
    BY <1>3, <1>4, <1>5 DEF HubInv, HubTypeOK, Queue, Sends
<1>7. Apart'
    BY <1>3, <1>4 DEF HubInv, Apart
<1>8. Heard'
    BY <1>3, <1>4, <1>5, HubTyped DEF HubInv, Heard, Sends
<1>9. Flushing'
    BY <1>3, <1>4 DEF HubInv, Flushing
<1>10. Keeps
    BY <1>4, <1>5 DEF Keeps, Known
<1>11. QED
    BY <1>4, <1>6, <1>7, <1>8, <1>9, <1>10 DEF StepOK, Writes

(* A result leaves the outbox: it is on the phone, or held for the morning. *)
LEMMA ResultLeaves ==
    ASSUME HubInv, NEW s \in sends, sends' = sends \ {s}, Dequeue(s.res),
           held' = held \cup {s.res} \/ (held' = held /\ s.st = "accepted"),
           UNCHANGED digest, Persist, RoundGoesOn(s, TRUE),
           UNCHANGED <<stage, timing, mails, flusher, tick, outside>>
    PROVE  StepOK
<1>1. PICK O, r : O = outbox /\ r = s.res
    OBVIOUS
<1>2. PICK I, P : I \in SUBSET DOMAIN O /\ I = {i \in DOMAIN O : O[i] # r} /\ P = Kept(O, I)
    OBVIOUS
<1>3. O \in Seq(Results) /\ r \in Results
    BY <1>1, HubTyped DEF HubInv, Sends
<1>4. P \in Seq(Results) /\ \A x : x \in Range(P) <=> x \in Range(O) /\ x # r
    BY ZenonT(40), <1>2, <1>3, DequeueRange
<1>5. /\ outbox' = P /\ disk' = [outbox |-> P, held |-> held', digest |-> digest]
      /\ UNCHANGED <<stage, armed, timers, mails, flusher, tick, arrived>>
    BY <1>1, <1>2 DEF Dequeue, Persist, timing, outside
<1>6. round' \in Seq(Results) /\ Range(round') \subseteq Range(round) /\ Flushing'
    BY DeliveryEnds DEF outside
<1>7. held' \subseteq Results /\ \A x \in held' : x \in held \/ x = r
    BY <1>1, <1>3, HubTyped DEF HubInv
<1>8. HubTypeOK'
    BY <1>4, <1>5, <1>6, <1>7 DEF HubInv, HubTypeOK, Queue
<1>9. Apart'
  <2>1. stage[r] = "posted"
      BY <1>1 DEF HubInv, Apart
  <2>2. \A x \in Range(outbox') \cup held' \cup Range(disk'.outbox) \cup disk'.held \cup Range(round') :
            x \in Range(outbox) \cup held \cup Range(round) \cup {r}
      BY <1>1, <1>4, <1>5, <1>6, <1>7
  <2>3. QED
      BY <1>5, <2>1, <2>2 DEF HubInv, Apart
<1>10. Heard'
    BY <1>5 DEF HubInv, Heard
<1>11. Keeps
  <2>1. s.st = "accepted" => arrived[r] > 0
      BY <1>1 DEF HubInv, Heard
  <2>2. Known(r)'
      BY <1>1, <1>5, <2>1 DEF Known
  <2>3. ASSUME NEW x \in Results, x # r, Known(x) PROVE Known(x)'
      BY <1>1, <1>4, <1>5, <2>3 DEF Known
  <2>4. QED
      BY <2>2, <2>3 DEF Keeps
<1>12. QED
    BY <1>6, <1>8, <1>9, <1>10, <1>11 DEF StepOK, Writes

LEMMA DeliveredStep == ASSUME HubInv, NEW s \in sends, Sent(s) \/ Hold(s) PROVE StepOK
BY ResultLeaves DEF Sent, Hold

LEMMA SendFailsStep == ASSUME HubInv, NEW s \in sends, SendFails(s) PROVE StepOK
<1>1. /\ sends' = sends \ {s} /\ RoundGoesOn(s, FALSE)
      /\ UNCHANGED <<stage, outbox, held, digest, disk, armed, timers, mails, flusher, tick, arrived>>
    BY DEF SendFails, queues, timing
<1>2. round' \in Seq(Results) /\ Range(round') \subseteq Range(round) /\ Flushing'
    BY <1>1, DeliveryEnds
<1>3. HubTypeOK'
    BY <1>1, <1>2 DEF HubInv, HubTypeOK
<1>4. Apart' /\ Heard' /\ Keeps
    BY <1>1, <1>2 DEF HubInv, Apart, Heard, Keeps, Known
<1>5. QED
    BY <1>1, <1>2, <1>3, <1>4 DEF StepOK, Writes
-----------------------------------------------------------------------------
LEMMA MailAcceptedStep == ASSUME HubInv, NEW m \in mails, MailAccepted(m) PROVE StepOK
<1>1. PICK n : n = [m EXCEPT !.st = "accepted"]
    OBVIOUS
<1>2. m \in Mails /\ m.items \subseteq Results
    BY HubTyped DEF HubInv, Mails
<1>3. n \in Mails /\ n.items = m.items /\ n.kind = m.kind
    BY <1>1, <1>2 DEF Mails
<1>4. /\ mails' = (mails \ {m}) \cup {n} /\ Arrive(m.items)
      /\ UNCHANGED <<stage, outbox, held, digest, disk, armed, timers, sends>>
      /\ UNCHANGED <<flusher, round, tick>>
    BY <1>1 DEF MailAccepted, queues, timing, ticking
<1>5. PICK I : I = m.items
    OBVIOUS
<1>6. /\ arrived' \in [Results -> 0..2] /\ \A r \in I : arrived'[r] > 0
      /\ \A r \in Results : arrived[r] > 0 => arrived'[r] > 0
    BY <1>2, <1>4, <1>5, Arrives DEF HubInv
<1>7. HubTypeOK'
    BY <1>3, <1>4, <1>6 DEF HubInv, HubTypeOK, Queue, Mails
<1>8. Apart'
    BY <1>3, <1>4 DEF HubInv, Apart
<1>9. Heard'
    BY <1>3, <1>4, <1>5, <1>6, HubTyped DEF HubInv, Heard, Sends
<1>10. Flushing'
    BY <1>4 DEF HubInv, Flushing
<1>11. Keeps
    BY <1>3, <1>4, <1>6 DEF Keeps, Known
<1>12. QED
    BY <1>4, <1>7, <1>8, <1>9, <1>10, <1>11 DEF StepOK, Writes

LEMMA MailSentStep == ASSUME HubInv, NEW m \in mails, MailSent(m) PROVE StepOK
<1>1. /\ m.st = "accepted" /\ mails' = mails \ {m} /\ UNCHANGED <<outbox, held, digest>>
      /\ Persist \/ UNCHANGED disk
      /\ UNCHANGED <<stage, armed, timers, sends, flusher, round, tick, arrived>>
    BY DEF MailSent, timing, ticking, outside
<1>2. /\ disk' = disk \/ disk' = [outbox |-> outbox, held |-> held, digest |-> digest]
    BY <1>1 DEF Persist
<1>3. HubTypeOK'
    BY <1>1, <1>2 DEF HubInv, HubTypeOK, Queue
<1>4. Apart'
    BY <1>1, <1>2 DEF HubInv, Apart
<1>5. Heard' /\ Flushing'
    BY <1>1 DEF HubInv, Heard, Flushing
<1>6. Keeps
    BY <1>1 DEF HubInv, Heard, Keeps, Known
<1>7. QED
    BY <1>1, <1>3, <1>4, <1>5, <1>6 DEF StepOK, Writes

(* A morning batch that failed is held again; the digest that comes back takes
   the place of another digest only. *)
LEMMA MailFailsStep == ASSUME HubInv, NEW m \in mails, MailFails(m) PROVE StepOK
<1>1. m \in Mails /\ m.items \subseteq Results
    BY HubTyped DEF HubInv, Mails
<1>2. /\ mails' = mails \ {m} /\ UNCHANGED outbox /\ Persist
      /\ \/ m.kind = "held" /\ held' = held \cup m.items /\ digest' = digest
         \/ m.kind = "digest" /\ digest' = m.items /\ held' = held
      /\ disk' = [outbox |-> outbox, held |-> held', digest |-> digest']
      /\ UNCHANGED <<stage, armed, timers, sends, flusher, round, tick, arrived>>
    BY <1>1 DEF MailFails, Mails, Persist, timing, ticking
<1>3. HubTypeOK'
    BY <1>1, <1>2 DEF HubInv, HubTypeOK, Queue
<1>4. Apart'
    BY <1>2 DEF HubInv, Apart
<1>5. Heard' /\ Flushing'
    BY <1>2 DEF HubInv, Heard, Flushing
<1>6. Keeps
  <2>1. CASE m.kind = "held" /\ held' = held \cup m.items /\ digest' = digest
      BY <1>2, <2>1 DEF Keeps, Known
  <2>2. CASE m.kind = "digest" /\ digest' = m.items /\ held' = held
    <3>1. DigestComesBack
        BY <1>2, <2>2 DEF DigestComesBack
    <3>2. ASSUME NEW r \in Results, Known(r), r \notin digest
          PROVE  Known(r)'
        BY <1>2, <2>2, <3>2 DEF Known
    <3>3. QED
        BY <3>1, <3>2 DEF Keeps
  <2>3. QED
      BY <1>2, <2>1, <2>2
<1>7. QED
    BY <1>2, <1>3, <1>4, <1>5, <1>6 DEF StepOK, Writes
-----------------------------------------------------------------------------
(* A tick sends the next result of its round that no one else is sending, or it
   is through. *)
LEMMA Retried ==
    ASSUME HubInv, NEW k \in Ticks, NEW results \in Seq(Results),
           \A i \in DOMAIN results : stage[results[i]] = "posted",
           \A s \in sends : s.by = "first", flusher \in {"nobody", k}, Retries(k, results),
           UNCHANGED <<stage, queues, timing, mails, outside>>
    PROVE  StepOK
<1>1. UNCHANGED <<stage, outbox, held, digest, disk, armed, timers, mails, arrived>>
    BY DEF queues, timing, outside
<1>2. /\ \A r \in Range(results) : stage[r] = "posted"
      /\ results # <<>> => Head(results) \in Range(results) /\ Head(results) \in Results
    BY TailRange, RangeOf DEF Range
<1>3. \A j \in Ticks : tick[j] = "outbox" => j = k
    BY TicksAssumption DEF HubInv, Flushing
<1>4. CASE results = <<>>
  <2>1. /\ flusher' = "nobody" /\ round' = <<>> /\ sends' = sends
        /\ tick' = [tick EXCEPT ![k] = "digest"]
      BY <1>4 DEF Retries, Goes
  <2>2. /\ tick' \in [Ticks -> {"idle", "outbox", "digest", "held", "last"}]
        /\ \A j \in Ticks : tick'[j] # "outbox"
      BY <1>3, <2>1, HubTyped DEF HubInv
  <2>3. HubTypeOK'
      BY <1>1, <2>1, <2>2, EmptySeq DEF HubInv, HubTypeOK
  <2>4. Apart' /\ Heard' /\ Keeps
      BY <1>1, <2>1 DEF HubInv, Apart, Heard, Keeps, Known, Range
  <2>5. Flushing'
      BY <2>1, <2>2 DEF HubInv, Flushing
  <2>6. QED
      BY <1>1, <2>3, <2>4, <2>5 DEF StepOK, Writes
<1>5. CASE results # <<>>
  <2>1. /\ flusher' = k /\ round' = results /\ Begin(Head(results), k)
        /\ tick' = [tick EXCEPT ![k] = "outbox"]
      BY <1>5 DEF Retries, Goes
  <2>2. PICK r \in Results, by \in Ticks \cup {"first"} :
            r = Head(results) /\ by = k /\ stage[r] = "posted"
      BY <1>2, <1>5
  <2>3. PICK s \in Sends : /\ s.res = r /\ s.by = by /\ s.st \in {"holding", "sending"}
                           /\ sends' = sends \cup {s}
      BY <2>1, <2>2, Begins
  <2>4. /\ tick' \in [Ticks -> {"idle", "outbox", "digest", "held", "last"}]
        /\ \A j \in Ticks : tick'[j] = "outbox" => j = k
      BY <1>3, <2>1, HubTyped DEF HubInv
  <2>5. HubTypeOK'
      BY <1>1, <2>1, <2>3, <2>4 DEF HubInv, HubTypeOK, Sends
  <2>6. Apart'
      BY <1>1, <1>2, <2>1, <2>2, <2>3 DEF HubInv, Apart
  <2>7. Heard' /\ Keeps
      BY <1>1, <2>3 DEF HubInv, Heard, Keeps, Known
  <2>8. Flushing'
      BY <1>5, <2>1, <2>2, <2>3, <2>4, TicksAssumption DEF Flushing
  <2>9. QED
      BY <1>1, <2>5, <2>6, <2>7, <2>8 DEF StepOK, Writes
<1>6. QED
    BY <1>4, <1>5

LEMMA TickRetriesStep ==
    ASSUME HubInv, NEW k \in Ticks, TickStarts(k) \/ TickRetries(k)
    PROVE  StepOK
<1>1. UNCHANGED <<stage, queues, timing, mails, outside>>
    BY DEF TickStarts, TickRetries
<1>2. CASE TickStarts(k) /\ flusher = "nobody"
  <2>1. PICK O, results : O = outbox /\ results = Rest(O)
      OBVIOUS
  <2>2. O \in Seq(Results) /\ \A r \in Range(O) : stage[r] = "posted"
      BY <2>1, HubTyped DEF HubInv, Apart
  <2>3. results \in Seq(Results) /\ Range(results) \subseteq Range(O)
      BY <2>1, <2>2, RestRange
  <2>4. \A i \in DOMAIN results : stage[results[i]] = "posted"
      BY <2>2, <2>3 DEF Range
  <2>5. \A s \in sends : s.by = "first"
      BY <1>2, TicksAssumption, HubTyped DEF HubInv, Flushing, Sends
  <2>6. Retries(k, results)
      BY <1>2, <2>1 DEF TickStarts
  <2>7. QED
      BY <1>1, <1>2, <2>3, <2>4, <2>5, <2>6, Retried
<1>3. CASE TickStarts(k) /\ flusher # "nobody"
  <2>1. /\ tick' = [tick EXCEPT ![k] = "digest"] /\ UNCHANGED <<flusher, round, sends>>
        /\ UNCHANGED <<stage, outbox, held, digest, disk, armed, timers, mails, arrived>>
      BY <1>3 DEF TickStarts, Goes, queues, timing, outside
  <2>2. /\ StageStays /\ stage' \in [Results -> Stages] /\ armed' \in BOOLEAN /\ timers' \in BOOLEAN
        /\ tick' \in [Ticks -> {"idle", "outbox", "digest", "held", "last"}]
        /\ \A j \in Ticks : tick'[j] = "outbox" => tick[j] = "outbox"
      BY <2>1, HubTyped DEF HubInv, HubTypeOK, StageStays
  <2>3. QED
      BY <2>1, <2>2, NothingMoves
<1>4. CASE TickRetries(k)
  <2>1. PICK O, results : O = round /\ results = Rest(O)
      OBVIOUS
  <2>2. O \in Seq(Results) /\ \A r \in Range(O) : stage[r] = "posted"
      BY <2>1, HubTyped DEF HubInv, Apart
  <2>3. results \in Seq(Results) /\ Range(results) \subseteq Range(O)
      BY <2>1, <2>2, RestRange
  <2>4. \A i \in DOMAIN results : stage[results[i]] = "posted"
      BY <2>2, <2>3 DEF Range
  <2>5. flusher = k
      BY <1>4 DEF TickRetries, HubInv, Flushing
  <2>6. \A s \in sends : s.by = "first"
      BY <1>4, <2>5 DEF TickRetries, Waiting, HubInv, Flushing
  <2>7. Retries(k, results)
      BY <1>4, <2>1 DEF TickRetries
  <2>8. QED
      BY <1>1, <2>3, <2>4, <2>5, <2>6, <2>7, Retried
<1>5. QED
    BY <1>2, <1>3, <1>4

LEMMA TickSendsDigestStep == ASSUME HubInv, NEW k \in Ticks, TickSendsDigest(k) PROVE StepOK
<1>1. /\ tick' = [tick EXCEPT ![k] = "held"]
      /\ UNCHANGED <<stage, timers, sends, flusher, round, arrived>>
      /\ UNCHANGED <<mails, outbox, held, digest, disk, armed>> \/ SendDigest(k)
    BY DEF TickSendsDigest, Goes, queues, outside
<1>2. /\ StageStays /\ stage' \in [Results -> Stages] /\ timers' \in BOOLEAN
      /\ tick' \in [Ticks -> {"idle", "outbox", "digest", "held", "last"}]
      /\ \A j \in Ticks : tick'[j] = "outbox" => tick[j] = "outbox"
    BY <1>1, HubTyped DEF HubInv, HubTypeOK, StageStays
<1>3. CASE SendDigest(k)
    BY <1>1, <1>2, <1>3, SummaryLeaves
<1>4. CASE UNCHANGED <<mails, outbox, held, digest, disk, armed>>
  <2>1. armed' \in BOOLEAN
      BY <1>4 DEF HubInv, HubTypeOK
  <2>2. QED
      BY <1>1, <1>2, <1>4, <2>1, NothingMoves
<1>5. QED
    BY <1>1, <1>3, <1>4

(* The morning batch leaves memory, not the store. *)
LEMMA TickSendsHeldStep == ASSUME HubInv, NEW k \in Ticks, TickSendsHeld(k) PROVE StepOK
<1>1. /\ tick' = [tick EXCEPT ![k] = "last"]
      /\ UNCHANGED <<stage, outbox, digest, disk, armed, timers, sends, flusher, round, arrived>>
    BY DEF TickSendsHeld, Goes, timing, outside
<1>2. /\ StageStays /\ stage' \in [Results -> Stages] /\ armed' \in BOOLEAN /\ timers' \in BOOLEAN
      /\ tick' \in [Ticks -> {"idle", "outbox", "digest", "held", "last"}]
      /\ \A j \in Ticks : tick'[j] = "outbox" => tick[j] = "outbox"
    BY <1>1, HubTyped DEF HubInv, HubTypeOK, StageStays
<1>3. CASE UNCHANGED <<mails, held>>
    BY <1>1, <1>2, <1>3, NothingMoves
<1>4. CASE ~(held = {} \/ quiet)
  <2>1. PICK H : H = held /\ H \subseteq Results
      BY HubTyped DEF HubInv
  <2>2. PICK m : m = [kind |-> "held", items |-> H, by |-> k, st |-> "sending"]
      OBVIOUS
  <2>3. m \in Mails /\ m.kind = "held" /\ m.items = H /\ m.st = "sending"
      BY <2>1, <2>2 DEF Mails
  <2>4. mails' = mails \cup {m} /\ held' = {}
      BY <1>4, <2>1, <2>2 DEF TickSendsHeld
  <2>5. HubTypeOK'
      BY <1>1, <1>2, <2>3, <2>4 DEF HubInv, HubTypeOK, Queue, Mails
  <2>6. Apart'
      BY <1>1, <2>1, <2>3, <2>4 DEF HubInv, Apart
  <2>7. Heard' /\ Flushing'
      BY <1>1, <1>2, <2>3, <2>4 DEF HubInv, Heard, Flushing
  <2>8. Keeps
      BY <1>1, <2>1, <2>3, <2>4 DEF Keeps, Known
  <2>9. QED
      BY <1>1, <2>4, <2>5, <2>6, <2>7, <2>8 DEF StepOK, Writes
<1>5. QED
    BY <1>3, <1>4 DEF TickSendsHeld

LEMMA QuietStep ==
    ASSUME HubInv, \/ \E k \in Ticks : TickEnds(k)
                   \/ Toggle \/ Morning \/ UNCHANGED hubVars
    PROVE  StepOK
<1>1. UNCHANGED <<stage, outbox, held, digest, disk, armed, timers, sends, mails, flusher, round, arrived>>
    BY DEF TickEnds, Toggle, Morning, hubVars, queues, timing, ticking, outside
<1>2. tick' = tick \/ \E k \in Ticks : tick' = [tick EXCEPT ![k] = "idle"]
    BY DEF TickEnds, Goes, Toggle, Morning, hubVars, ticking
<1>3. /\ StageStays /\ stage' \in [Results -> Stages] /\ armed' \in BOOLEAN /\ timers' \in BOOLEAN
      /\ tick' \in [Ticks -> {"idle", "outbox", "digest", "held", "last"}]
      /\ \A j \in Ticks : tick'[j] = "outbox" => tick[j] = "outbox"
    BY <1>1, <1>2, HubTyped DEF HubInv, HubTypeOK, StageStays
<1>4. QED
    BY <1>1, <1>3, NothingMoves

(* The hub starts again from what was stored, which stays. *)
LEMMA RestartStep ==
    ASSUME HubInv, Restart
    PROVE  HubInv' /\ Stored' = Stored /\ Crashed
<1>1. /\ stage' = [r \in Results |-> IF stage[r] \in {"noticed", "behind"} THEN "gone" ELSE stage[r]]
      /\ outbox' = disk.outbox /\ held' = disk.held /\ digest' = disk.digest
      /\ armed' = FALSE /\ timers' = FALSE /\ sends' = {} /\ mails' = {}
      /\ flusher' = "nobody" /\ round' = <<>> /\ tick' = [j \in Ticks |-> "idle"]
      /\ UNCHANGED <<disk, arrived>>
    BY DEF Restart
<1>2. /\ stage' \in [Results -> Stages]
      /\ \A r \in Results : stage[r] \in {"posted", "digested"} => stage'[r] = stage[r]
    BY <1>1, HubTyped DEF HubInv, Stages
<1>3. armed' \in BOOLEAN /\ timers' \in BOOLEAN
    BY <1>1
<1>4. HubTypeOK'
    BY <1>1, <1>2, <1>3, HubTyped, EmptySeq DEF HubInv, HubTypeOK, Queue, Stages
<1>5. Apart'
  <2>1. Range(round') = {}
      BY <1>1 DEF Range
  <2>2. QED
      BY <1>1, <1>2, <2>1, HubTyped DEF HubInv, Apart
<1>6. Heard' /\ Flushing'
    BY <1>1 DEF Heard, Flushing
<1>7. Backed'
    BY <1>1 DEF Backed, Known
<1>8. Crashed
    BY DEF Restart, Crashed
<1>9. QED
    BY <1>1, <1>8, <1>4, <1>5, <1>6, <1>7 DEF HubInv, Stored
-----------------------------------------------------------------------------
LEMMA HubStart == HubInit => HubInv
<1> SUFFICES ASSUME HubInit PROVE HubInv
    OBVIOUS
<1>1. armed \in BOOLEAN /\ timers \in BOOLEAN
    BY DEF HubInit
<1>2. HubTypeOK
    BY <1>1, EmptySeq DEF HubInit, HubTypeOK, Queue
<1>3. Range(<<>>) = {}
    BY DEF Range
<1>4. QED
    BY <1>2, <1>3 DEF HubInit, HubInv, Apart, Heard, Flushing, Backed

LEMMA HubSteps ==
    ASSUME HubInv, [HubNext]_hubVars
    PROVE  StepOK \/ Restart
<1>1. CASE \E r \in Results : Report(r) \/ Summarise(r) \/ Hasten(r) \/ Post(r)
    BY <1>1, ReportStep, SummariseStep, HastenStep, PostStep
<1>2. CASE TimerFires
    BY <1>2, TimerFiresStep
<1>3. CASE \E s \in sends : Answered(s) \/ SendFails(s)
  <2>1. PICK s \in sends : Answered(s) \/ SendFails(s)
      BY <1>3
  <2>2. QED
      BY <2>1, AcceptStep, DeliveredStep, SendFailsStep DEF Answered
<1>4. CASE \E m \in mails : MailAnswers(m) \/ MailFails(m)
  <2>1. PICK m \in mails : MailAnswers(m) \/ MailFails(m)
      BY <1>4
  <2>2. QED
      BY <2>1, MailAcceptedStep, MailSentStep, MailFailsStep DEF MailAnswers
<1>5. CASE \E k \in Ticks : TickGoesOn(k)
    BY <1>5, TickRetriesStep, TickSendsDigestStep, TickSendsHeldStep, QuietStep DEF TickGoesOn
<1>6. CASE Toggle \/ Morning \/ UNCHANGED hubVars
    BY <1>6, QuietStep
<1>7. QED
    BY <1>1, <1>2, <1>3, <1>4, <1>5, <1>6 DEF HubNext

(* What every state of the deliveries keeps. *)
THEOREM HubInvariant == HubSpec => []HubInv
<1>1. HubInv /\ [HubNext]_hubVars => HubInv'
    BY HubSteps, StoreStays, RestartStep
<1>2. QED
    BY <1>1, HubStart, PTL DEF HubSpec

(* Every variable of the deliveries keeps its type, and so does what is stored:
   only results are queued, held back, put off or on their way, by known ticks. *)
THEOREM HubTypes == HubSpec => []HubTypeOK
<1>1. HubInv => HubTypeOK
    BY DEF HubInv
<1>2. QED
    BY <1>1, HubInvariant, PTL

(* What the hub has taken on is stored or on its way until it is on the phone,
   whatever overlaps, fails or restarts; it is lost only where the app closes while
   a batch is under way, or where a summary that failed replaces its successor. *)
THEOREM UnsentStaysStored == HubSpec => StoreKeepsUnsent
<1>1. HubInv /\ [HubNext]_hubVars =>
          [\A r \in Unsent :
              \/ r \in Unsent' \/ arrived'[r] > 0
              \/ Crashed /\ r \notin Stored
              \/ DigestComesBack /\ r \in digest]_hubVars
  <2> SUFFICES ASSUME HubInv, [HubNext]_hubVars
               PROVE  \A r \in Unsent :
                          \/ r \in Unsent' \/ arrived'[r] > 0
                          \/ Crashed /\ r \notin Stored
                          \/ DigestComesBack /\ r \in digest
      OBVIOUS
  <2>1. CASE Restart
      BY <2>1, RestartStep DEF Unsent
  <2>2. CASE StepOK
      BY <2>2, StoreStays
  <2>3. QED
      BY <2>1, <2>2, HubSteps
<1>2. QED
    BY <1>1, HubInvariant, PTL DEF HubSpec, StoreKeepsUnsent
=============================================================================
