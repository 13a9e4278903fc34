------------------------- MODULE TurnControlProofs -------------------------
(***************************************************************************)
(* Proofs about the app's control of turns, for every number of            *)
(* activations, conversations, stops and recoveries and whatever fails.    *)
(* That a lock covers what executes needs to know where a turn may be      *)
(* while its message, its execution and its end are (Placed, Told), and    *)
(* that nothing executes while a recovery ends its runs (Stilled).  The    *)
(* messages of the user are followed by MessageInv, the agreement of gate, *)
(* runs, reservations and known turns by TypeInv.                          *)
(***************************************************************************)
EXTENDS TurnControl, FilterProofs, SequenceTheorems

Final == Reported \cup {"refused"}
Phases == {"new", "accepted", "lost"} \cup Final
Callers == {"send", "event", "recover"}
LineSeqs == Seq({"terminal", "rejected"})

(* The types of what the proofs read. *)
Shape ==
    /\ owner \in [Conversations -> Turns \cup {NoTurn}]
    /\ run \in [Conversations -> [turn : Turns \cup {NoTurn}, state : RunStates]]
    /\ at \in [Turns -> Places]
    /\ on \in [Turns -> Conversations \cup {NoConv}]
    /\ \A t \in Turns : at[t] # "free" => on[t] \in Conversations
    /\ stale \in [Turns -> BOOLEAN]
    /\ finishing \in [Turns -> SUBSET Callers]
    /\ journal \in [Turns -> {"none", "running", "closed"}]
    /\ lines \in [Turns -> LineSeqs]
    /\ phase \in [Turns -> Phases]
    /\ recovery \in [st : {"no", "saving", "finishing"}, runs : SUBSET Turns]
    /\ hit \subseteq Turns

(* A message is on its way only from an activation that awaits the call, and the
   sidecar has a turn only of one whose call was made. *)
Placed(t) ==
    /\ <<"send", t>> \in calls => at[t] = "sent" /\ phase[t] = "new"
    /\ phase[t] = "accepted" => at[t] = "delivered"
    /\ at[t] \in {"free", "finishing"} \cup Preparing \cup Claimed => phase[t] = "new"

(* Who is about to free a conversation has a reason: the turn is over, it never
   reached Rust, or a recovery has killed everything. *)
TerminalUnread(t) == \E i \in DOMAIN lines[t] : lines[t][i] = "terminal"
Told(t) ==
    /\ TerminalUnread(t) => phase[t] \in Final
    /\ "event" \in finishing[t] => phase[t] \in Final
    /\ "send" \in finishing[t] => at[t] = "finishing"
    /\ "recover" \in finishing[t] => recovery.st = "finishing" /\ t \in recovery.runs

Stilled(t) == recovery.st = "finishing" => ~InSidecar(t)
Locked(t) == InSidecar(t) => owner[on[t]] = t
Written(t) ==
    InSidecar(t) \/ (at[t] = "journalled" /\ Accepts(on[t], t)) => journal[t] = "running"

(* Where no activation ever was, there is nothing to end. *)
Began(t) == at[t] = "free" =>
    finishing[t] = {} /\ t \notin recovery.runs /\ \A c \in Conversations : owner[c] # t

(* A stop leaves its mark on whatever it found. *)
Outdated(t) == t \in hit =>
    /\ at[t] # "free"
    /\ at[t] \in Preparing => stale[t]
    /\ at[t] \in Claimed /\ Accepts(on[t], t) => IsStoppingRun(on[t])

Covered(t) == Placed(t) /\ Told(t) /\ Stilled(t) /\ Locked(t) /\ Written(t) /\ Began(t) /\ Outdated(t)
ControlInv == Shape /\ \A t \in Turns : Covered(t)
-----------------------------------------------------------------------------
LEMMA InitInv == TurnControlInit => ControlInv
<1> SUFFICES ASSUME TurnControlInit PROVE ControlInv
    OBVIOUS
<1>1. Shape
    BY DEF TurnControlInit, ControlInit, ContractInit, NoRecovery, Shape, RunStates, Places, Phases,
           LineSeqs
<1>2. ASSUME NEW t \in Turns PROVE Covered(t)
    BY NoTurnAssumption DEF TurnControlInit, ControlInit, ContractInit, NoRecovery, Covered, Placed, Told, TerminalUnread, Stilled,
           Locked, Written, Began, Outdated, InSidecar
<1>3. QED
    BY <1>1, <1>2 DEF ControlInv

(* Lines are read and written at one end. *)
LEMMA LineRead ==
    ASSUME Shape, NEW t \in Turns, NEW line, Hears(t, line)
    PROVE  /\ lines' \in [Turns -> LineSeqs]
           /\ \A u \in Turns : TerminalUnread(u)' => TerminalUnread(u)
           /\ line = "terminal" => TerminalUnread(t)
<1>1. lines[t] \in LineSeqs /\ lines[t] # <<>>
    BY DEF Shape, Hears
<1>2. /\ Tail(lines[t]) \in LineSeqs
      /\ \A i \in DOMAIN Tail(lines[t]) : i + 1 \in DOMAIN lines[t] /\ Tail(lines[t])[i] = lines[t][i + 1]
      /\ 1 \in DOMAIN lines[t] /\ Head(lines[t]) = lines[t][1]
    BY <1>1, HeadTailProperties DEF LineSeqs
<1>3. lines' = [lines EXCEPT ![t] = Tail(@)] /\ Head(lines[t]) = line
    BY DEF Hears
<1>4. lines' \in [Turns -> LineSeqs] /\ lines'[t] = Tail(lines[t])
      /\ \A u \in Turns : u # t => lines'[u] = lines[u]
    BY <1>2, <1>3 DEF Shape
<1>5. QED
    BY <1>2, <1>3, <1>4 DEF TerminalUnread

LEMMA LineWritten ==
    ASSUME Shape, NEW t \in Turns, NEW line \in {"terminal", "rejected"},
           lines' = [lines EXCEPT ![t] = Append(@, line)]
    PROVE  /\ lines' \in [Turns -> LineSeqs]
           /\ \A u \in Turns : TerminalUnread(u)' => TerminalUnread(u) \/ (u = t /\ line = "terminal")
<1>1. lines[t] \in Seq({"terminal", "rejected"})
    BY DEF Shape, LineSeqs
<1>2. /\ Append(lines[t], line) \in LineSeqs
      /\ \A i \in DOMAIN Append(lines[t], line) :
             \/ i \in DOMAIN lines[t] /\ Append(lines[t], line)[i] = lines[t][i]
             \/ Append(lines[t], line)[i] = line
    BY <1>1, AppendProperties DEF LineSeqs
<1>3. lines' \in [Turns -> LineSeqs] /\ lines'[t] = Append(lines[t], line)
      /\ \A u \in Turns : u # t => lines'[u] = lines[u]
    BY <1>2 DEF Shape
<1>4. QED
    BY <1>2, <1>3 DEF TerminalUnread

(* Nothing that the invariant reads changes, but a line may have been read. *)
keptVars == <<owner, run, stale, finishing, journal, calls, phase, recovery, hit>>

LEMMA KeptInv ==
    ASSUME ControlInv, UNCHANGED <<keptVars, at, on>>,
           lines' \in [Turns -> LineSeqs],
           \A u \in Turns : TerminalUnread(u)' => TerminalUnread(u)
    PROVE  ControlInv'
<1>1. Shape'
    BY DEF ControlInv, Shape, keptVars
<1>2. ASSUME NEW u \in Turns PROVE Covered(u)'
    BY DEF ControlInv, keptVars, Covered, Placed, Told, Stilled, Locked, Written, Began, Outdated, InSidecar,
           Accepts, IsStoppingRun
<1>3. QED
    BY <1>1, <1>2 DEF ControlInv

LEMMA SameInv == ASSUME ControlInv, UNCHANGED <<keptVars, at, on, lines>> PROVE ControlInv'
BY KeptInv DEF ControlInv, Shape, TerminalUnread

(* An activation starts: it was nowhere before. *)
LEMMA StartInv ==
    ASSUME ControlInv, UNCHANGED <<keptVars, lines>>,
           NEW t \in Turns, NEW c \in Conversations, NEW place \in Preparing,
           NEW item, NEW m, NEW auto, Start(t, c, place, item, m, auto)
    PROVE  ControlInv'
<1>1. at[t] = "free" /\ at' = [at EXCEPT ![t] = place] /\ on' = [on EXCEPT ![t] = c]
    BY DEF Start, Goto
<1>2. Shape'
    BY <1>1 DEF ControlInv, Shape, keptVars, Places
<1>3. ASSUME NEW u \in Turns PROVE Covered(u)'
  <2>1. CASE u = t
    <3>1. ~InSidecar(t) /\ t \notin hit /\ "send" \notin finishing[t] /\ phase[t] = "new"
        BY <1>1 DEF ControlInv, Covered, Placed, Told, Outdated, InSidecar
    <3>2. at'[t] = place /\ place # "journalled" /\ place # "sent" /\ place # "delivered"
          /\ place # "free"
        BY <1>1 DEF ControlInv, Shape, Preparing
    <3>3. QED
        BY <2>1, <3>1, <3>2 DEF ControlInv, keptVars, Covered, Placed, Told, TerminalUnread, Stilled,
           Locked, Written, Began, Outdated, InSidecar
  <2>2. CASE u # t
    <3>1. at'[u] = at[u] /\ on'[u] = on[u]
        BY <1>1, <2>2 DEF ControlInv, Shape
    <3>2. QED
        BY <3>1 DEF ControlInv, keptVars, Covered, Placed, Told, TerminalUnread, Stilled, Locked,
           Written, Began, Outdated, InSidecar, Accepts, IsStoppingRun
  <2>3. QED
      BY <2>1, <2>2
<1>4. QED
    BY <1>2, <1>3 DEF ControlInv
-----------------------------------------------------------------------------
(* Runs are marked as being stopped, and stops are called. *)
LEMMA StoppingRunsKept ==
    ASSUME Shape, NEW C \in SUBSET Conversations, StoppingRuns(C)
    PROVE  /\ run' \in [Conversations -> [turn : Turns \cup {NoTurn}, state : RunStates]]
           /\ \A c \in Conversations : IsStoppingRun(c) => run'[c].state = "stopping"
           /\ \A c \in C : IsActive(c) => run'[c].state = "stopping"
BY DEF Shape, StoppingRuns, IsStoppingRun, RunStates

LEMMA StopInv ==
    ASSUME ControlInv, NEW C \in SUBSET Conversations, NEW S \in SUBSET Turns,
           StoppingRuns(C), calls' \subseteq calls \cup StopCalls(C), calls \subseteq calls',
           stale' = [t \in Turns |-> stale[t] \/ t \in S],
           hit' = hit \cup S,
           S \subseteq {t \in Turns : at[t] \in Preparing \cup Claimed},
           \A t \in S : at[t] \in Claimed /\ IsActive(on[t]) => on[t] \in C,
           recovery' \in [st : {"no", "saving", "finishing"}, runs : SUBSET Turns],
           recovery' = recovery \/ (recovery.st # "finishing" /\ recovery'.st # "finishing"),
           recovery.runs = recovery'.runs \/ recovery.st = "no",
           \A t \in recovery'.runs : at[t] # "free",
           UNCHANGED <<owner, at, on, finishing, journal, phase, lines>>
    PROVE  ControlInv'
<1>1. /\ run' \in [Conversations -> [turn : Turns \cup {NoTurn}, state : RunStates]]
      /\ \A c \in Conversations : IsStoppingRun(c) => run'[c].state = "stopping"
      /\ \A c \in C : IsActive(c) => run'[c].state = "stopping"
    BY StoppingRunsKept DEF ControlInv
<1>2. Shape'
    BY <1>1 DEF ControlInv, Shape
<1>3. \A u \in Turns : <<"send", u>> \in calls' <=> <<"send", u>> \in calls
    BY DEF StopCalls
<1>4. ASSUME NEW u \in Turns PROVE Covered(u)'
  <2>1. (Placed(u) /\ Told(u) /\ Stilled(u) /\ Locked(u) /\ Written(u) /\ Began(u))'
      BY <1>3 DEF ControlInv, Covered, Placed, Told, TerminalUnread, Stilled, Locked, Written,
         Began, InSidecar, Accepts
  <2>2. Outdated(u)'
    <3>1. CASE u \in S
      <4>1. at[u] # "free" /\ stale'[u]
          BY <3>1 DEF Preparing, Claimed
      <4>2. ASSUME at[u] \in Claimed, Accepts(on[u], u) PROVE run'[on[u]].state = "stopping"
          BY <1>1, <3>1, <4>2, NoTurnAssumption DEF IsActive, Accepts
      <4>3. QED
          BY <4>1, <4>2 DEF Outdated, Accepts, IsStoppingRun
    <3>2. CASE u \notin S
      <4>1. u \in hit' => u \in hit
          BY <3>2
      <4>2. at[u] # "free" => on[u] \in Conversations
          BY DEF ControlInv, Shape
      <4>3. QED
          BY <1>1, <3>2, <4>1, <4>2 DEF ControlInv, Covered, Outdated, Accepts, IsStoppingRun, Claimed
    <3>3. QED
        BY <3>1, <3>2
  <2>3. QED
      BY <2>1, <2>2 DEF Covered
<1>5. QED
    BY <1>2, <1>4 DEF ControlInv
-----------------------------------------------------------------------------
(* A turn that the sidecar does not work on frees its conversation: no other
   turn loses its own. *)
LEMMA FreeRunKept ==
    ASSUME Shape, NEW t \in Turns, on[t] \in Conversations, NEW state \in RunStates,
           FreeRun(on[t], t, state)
    PROVE  /\ owner' \in [Conversations -> Turns \cup {NoTurn}]
           /\ run' \in [Conversations -> [turn : Turns \cup {NoTurn}, state : RunStates]]
           /\ \A u \in Turns : u # t /\ on[u] \in Conversations /\ owner[on[u]] = u =>
                  owner'[on[u]] = u
           /\ \A u \in Turns : on[u] \in Conversations /\ owner'[on[u]] = u =>
                  u # t /\ owner[on[u]] = u /\ run'[on[u]] = run[on[u]]
           /\ \A c \in Conversations : owner'[c] = owner[c] \/ owner'[c] = NoTurn
<1>1. CASE Accepts(on[t], t)
  <2>1. owner' = [owner EXCEPT ![on[t]] = NoTurn] /\ run' = [run EXCEPT ![on[t]].state = state]
      BY <1>1 DEF FreeRun
  <2>2. run[on[t]] \in [turn : Turns \cup {NoTurn}, state : RunStates]
      BY DEF Shape
  <2>3. run' \in [Conversations -> [turn : Turns \cup {NoTurn}, state : RunStates]]
      BY <2>1, <2>2 DEF Shape
  <2>4. QED
      BY <1>1, <2>1, <2>3, NoTurnAssumption DEF Shape, Accepts
<1>2. CASE ~Accepts(on[t], t)
    BY <1>2 DEF FreeRun, Shape, Accepts
<1>3. QED
    BY <1>1, <1>2

(* A turn leaves the app: what the ends of a turn have in common. *)
LEMMA LeavesInv ==
    ASSUME ControlInv, NEW t \in Turns, at[t] # "free", NEW state \in RunStates,
           FreeRun(on[t], t, state),
           phase[t] # "accepted" /\ <<"send", t>> \notin calls',
           at' = at \/ (\E place \in {"thrown", "gone", "ended"} : at' = [at EXCEPT ![t] = place]),
           finishing' \in [Turns -> SUBSET Callers],
           \A u \in Turns : finishing'[u] \subseteq finishing[u],
           at' # at => "send" \notin finishing'[t],
           journal' \in [Turns -> {"none", "running", "closed"}],
           \A u \in Turns : u # t => journal'[u] = journal[u],
           calls' \subseteq calls,
           \A u \in Turns : u # t /\ <<"send", u>> \in calls => <<"send", u>> \in calls',
           lines' \in [Turns -> LineSeqs],
           \A u \in Turns : TerminalUnread(u)' => TerminalUnread(u),
           UNCHANGED <<on, stale, phase, recovery, hit>>
    PROVE  ControlInv'
<1>1. on[t] \in Conversations
    BY DEF ControlInv, Shape
<1>2. /\ owner' \in [Conversations -> Turns \cup {NoTurn}]
      /\ run' \in [Conversations -> [turn : Turns \cup {NoTurn}, state : RunStates]]
      /\ \A u \in Turns : u # t /\ on[u] \in Conversations /\ owner[on[u]] = u => owner'[on[u]] = u
      /\ \A u \in Turns : on[u] \in Conversations /\ owner'[on[u]] = u =>
             u # t /\ owner[on[u]] = u /\ run'[on[u]] = run[on[u]]
      /\ \A c \in Conversations : owner'[c] = owner[c] \/ owner'[c] = NoTurn
    BY <1>1, FreeRunKept DEF ControlInv
<1>3. /\ at' \in [Turns -> Places] /\ \A u \in Turns : u # t => at'[u] = at[u]
      /\ at'[t] = at[t] \/ at'[t] \in {"thrown", "gone", "ended"}
      /\ at'[t] # at[t] => "send" \notin finishing'[t]
    BY DEF ControlInv, Shape, Places, Over
<1>4. Shape'
    BY <1>1, <1>2, <1>3 DEF ControlInv, Shape
<1>5. ASSUME NEW u \in Turns PROVE Covered(u)'
  <2>1. on[u] \in Conversations \/ (at[u] = "free" /\ at'[u] = "free")
      BY <1>3 DEF ControlInv, Shape
  <2>2. (InSidecar(u)' <=> InSidecar(u) /\ u # t) /\ (<<"send", u>> \in calls' => <<"send", u>> \in calls)
      BY DEF InSidecar
  <2>3. (Placed(u) /\ Told(u) /\ Stilled(u))'
      BY <1>3, <2>2 DEF ControlInv, Covered, Placed, Told, Stilled, Preparing, Claimed
  <2>4. Locked(u)'
    <3>1. InSidecar(u)' => u # t /\ on[u] \in Conversations
        BY <2>1, <2>2 DEF ControlInv, Covered, Placed, InSidecar
    <3>2. QED
        BY <1>2, <2>2, <3>1 DEF ControlInv, Covered, Locked
  <2>5. Written(u)'
      BY <1>2, <1>3, <2>1, <2>2 DEF ControlInv, Covered, Written, Accepts
  <2>6. Began(u)'
    <3>1. at'[u] = "free" => at[u] = "free"
        BY <1>3
    <3>2. \A c \in Conversations : owner[c] # u => owner'[c] # u
        BY <1>2, NoTurnAssumption
    <3>3. finishing'[u] \subseteq finishing[u]
        OBVIOUS
    <3>4. QED
        BY <3>1, <3>2, <3>3 DEF ControlInv, Covered, Began
  <2>7. Outdated(u)'
      BY <1>2, <1>3, <2>1 DEF ControlInv, Covered, Outdated, Accepts, IsStoppingRun, Preparing, Claimed
  <2>8. QED
      BY <2>3, <2>4, <2>5, <2>6, <2>7 DEF Covered
<1>6. QED
    BY <1>4, <1>5 DEF ControlInv

LEMMA CatchInv ==
    ASSUME ControlInv, NEW t \in Turns, Catch(t),
           at[t] \in Claimed \cup {"finishing", "sent"}, phase[t] # "accepted",
           calls' \subseteq calls, <<"send", t>> \notin calls',
           \A u \in Turns : u # t /\ <<"send", u>> \in calls => <<"send", u>> \in calls',
           \/ at[t] # "finishing" /\ UNCHANGED finishing
           \/ finishing' = [finishing EXCEPT ![t] = @ \ {"send"}],
           UNCHANGED <<lines, journal, on, stale, phase, recovery, hit>>
    PROVE  ControlInv'
<1>1. /\ FreeRun(on[t], t, "completed") /\ "completed" \in RunStates
      /\ \E place \in {"thrown", "gone", "ended"} : at' = [at EXCEPT ![t] = place]
    BY DEF Catch, Goto, RunStates
<1>2. at[t] # "free"
    BY DEF Claimed
<1>3. /\ finishing' \in [Turns -> SUBSET Callers] /\ \A u \in Turns : finishing'[u] \subseteq finishing[u]
      /\ "send" \notin finishing'[t]
    BY DEF ControlInv, Shape, Covered, Told
<1>4. lines' \in [Turns -> LineSeqs] /\ journal' \in [Turns -> {"none", "running", "closed"}]
    BY DEF ControlInv, Shape
<1>5. \A u \in Turns : TerminalUnread(u)' => TerminalUnread(u)
    BY DEF TerminalUnread
<1>6. QED
    BY <1>1, <1>2, <1>3, <1>4, <1>5, LeavesInv

(* The send itself is to acknowledge a stop. *)
LEMMA FinishingInv ==
    ASSUME ControlInv, NEW t \in Turns, at[t] \in Claimed, BeginFinishing(t),
           UNCHANGED <<on, stale, journal, calls, phase, recovery, hit, lines>>
    PROVE  ControlInv'
<1>1. /\ at' = [at EXCEPT ![t] = "finishing"]
      /\ finishing' = [finishing EXCEPT ![t] = @ \cup {"send"}]
      /\ UNCHANGED <<owner, run>>
    BY DEF BeginFinishing, Goto
<1>2. Shape'
    BY <1>1 DEF ControlInv, Shape, Places, Callers, Claimed
<1>3. ASSUME NEW u \in Turns PROVE Covered(u)'
  <2>1. /\ at'[u] = IF u = t THEN "finishing" ELSE at[u]
        /\ finishing'[u] = IF u = t THEN finishing[u] \cup {"send"} ELSE finishing[u]
      BY <1>1 DEF ControlInv, Shape
  <2>2. phase[t] = "new" /\ <<"send", t>> \notin calls
      BY DEF ControlInv, Covered, Placed, Claimed
  <2>3. QED
      BY <1>1, <2>1, <2>2 DEF ControlInv, Covered, Placed, Told, TerminalUnread, Stilled, Locked,
         Written, Began, Outdated, InSidecar, Accepts, IsStoppingRun, Preparing, Claimed
<1>4. QED
    BY <1>2, <1>3 DEF ControlInv

(* An activation that has not claimed moves on, or is over. *)
LEMMA MovesInv ==
    ASSUME ControlInv, NEW t \in Turns, NEW place \in {"prep", "queued", "thrown", "gone", "dropped"},
           at[t] \in Preparing, at' = [at EXCEPT ![t] = place],
           UNCHANGED <<keptVars, on, lines>>
    PROVE  ControlInv'
<1>1. Shape'
    BY DEF ControlInv, Shape, Places, Over, Preparing, keptVars
<1>2. ASSUME NEW u \in Turns PROVE Covered(u)'
  <2>1. at'[u] = IF u = t THEN place ELSE at[u]
      BY DEF ControlInv, Shape
  <2>2. phase[t] = "new" /\ <<"send", t>> \notin calls /\ "send" \notin finishing[t]
      BY DEF ControlInv, Covered, Placed, Told, Preparing
  <2>3. QED
      BY <2>1, <2>2 DEF ControlInv, Covered, Placed, Told, TerminalUnread, Stilled, Locked,
         Written, Began, Outdated, InSidecar, Accepts, IsStoppingRun, Preparing, Claimed, keptVars
<1>3. QED
    BY <1>1, <1>2 DEF ControlInv
-----------------------------------------------------------------------------
LEMMA PreparationFailsInv == ASSUME ControlInv, NEW t \in Turns, PreparationFails(t) PROVE ControlInv'
<1>1. /\ at[t] \in Preparing /\ UNCHANGED <<keptVars, on, lines>>
      /\ \E place \in {"thrown", "gone"} : at' = [at EXCEPT ![t] = place]
    BY DEF PreparationFails, Goto, contractVars, wireVars, sendFrame, keptVars
<1>2. QED
    BY <1>1, MovesInv

LEMMA RouteInv == ASSUME ControlInv, NEW t \in Turns, Route(t) PROVE ControlInv'
<1> DEFINE c == on[t]
<1>1. /\ at[t] = "new" /\ UNCHANGED <<owner, on, stale, finishing, journal, phase, lines, recovery, hit>>
      /\ \E place \in {"prep", "queued"} : at' = [at EXCEPT ![t] = place]
    BY DEF Route, Goto, contractVars, sendFrame
<1>2. CASE UNCHANGED <<run, calls>>
    BY <1>1, <1>2, MovesInv DEF Preparing, keptVars
<1>3. CASE RequestStop({c})
  (* The activation leaves, then the stop is requested of the others. *)
  <2>1. c \in Conversations
      BY <1>1 DEF ControlInv, Shape
  <2>2. StoppingRuns({c}) /\ calls' = calls \cup StopCalls({c})
      BY <1>3 DEF RequestStop
  <2>3. /\ run' \in [Conversations -> [turn : Turns \cup {NoTurn}, state : RunStates]]
        /\ \A d \in Conversations : IsStoppingRun(d) => run'[d].state = "stopping"
      BY <2>1, <2>2, StoppingRunsKept DEF ControlInv
  <2>4. \A u \in Turns : <<"send", u>> \in calls' <=> <<"send", u>> \in calls
      BY <2>2 DEF StopCalls
  <2>5. Shape'
      BY <1>1, <2>3 DEF ControlInv, Shape, Places, Over, Preparing
  <2>6. ASSUME NEW u \in Turns PROVE Covered(u)'
    <3>1. (u # t => at'[u] = at[u]) /\ (u = t => at'[u] \in {"prep", "queued"})
        BY <1>1 DEF ControlInv, Shape
    <3>2. phase[t] = "new" /\ <<"send", t>> \notin calls /\ "send" \notin finishing[t]
        BY <1>1 DEF ControlInv, Covered, Placed, Told, Preparing
    <3>3. (Placed(u) /\ Told(u) /\ Stilled(u) /\ Locked(u) /\ Written(u) /\ Began(u))'
        BY <1>1, <2>4, <3>1, <3>2 DEF ControlInv, Covered, Placed, Told, TerminalUnread, Stilled,
           Locked, Written, Began, InSidecar, Accepts, Preparing, Claimed
    <3>4. Outdated(u)'
      <4>1. at[u] # "free" => on[u] \in Conversations
          BY DEF ControlInv, Shape
      <4>2. QED
          BY <1>1, <2>3, <3>1, <4>1 DEF ControlInv, Covered, Outdated, Accepts, IsStoppingRun,
             Preparing, Claimed
    <3>5. QED
        BY <3>3, <3>4 DEF Covered
  <2>7. QED
      BY <2>5, <2>6 DEF ControlInv
<1>4. QED
    BY <1>2, <1>3 DEF Route, BeginSteering

LEMMA ClaimInv == ASSUME ControlInv, NEW t \in Turns, Claim(t) PROVE ControlInv'
<1> DEFINE c == on[t]
<1>1. /\ at[t] = "prep"
      /\ UNCHANGED <<on, stale, finishing, journal, calls, phase, lines, recovery, hit>>
    BY DEF Claim, contractVars, wireVars
<1>2. CASE /\ UNCHANGED <<owner, run>>
           /\ \E place \in {"queued", "gone", "dropped"} : at' = [at EXCEPT ![t] = place]
    BY <1>1, <1>2, MovesInv DEF Preparing, keptVars
<1>3. CASE ~stale[t] /\ ClaimRun(c, t) /\ at' = [at EXCEPT ![t] = "owned"]
  <2>1. c \in Conversations
      BY <1>1 DEF ControlInv, Shape
  <2>2. /\ owner[c] = NoTurn /\ owner' = [owner EXCEPT ![c] = t]
        /\ run' = [run EXCEPT ![c] = [turn |-> t, state |-> "running"]]
      BY <1>3 DEF ClaimRun, IsActive
  <2>3. run' \in [Conversations -> [turn : Turns \cup {NoTurn}, state : RunStates]]
    <3>1. [turn |-> t, state |-> "running"] \in [turn : Turns \cup {NoTurn}, state : RunStates]
        BY DEF RunStates
    <3>2. QED
        BY <2>2, <3>1 DEF ControlInv, Shape
  <2>4. Shape'
      BY <1>1, <1>3, <2>1, <2>2, <2>3 DEF ControlInv, Shape, Places, Claimed
  <2>5. ASSUME NEW u \in Turns PROVE Covered(u)'
    <3>1. at'[u] = IF u = t THEN "owned" ELSE at[u]
        BY <1>3 DEF ControlInv, Shape
    <3>2. CASE u = t
      <4>1. /\ phase[t] = "new" /\ <<"send", t>> \notin calls /\ "send" \notin finishing[t]
            /\ t \notin hit
          BY <1>1, <1>3 DEF ControlInv, Covered, Placed, Told, Outdated, Preparing
      <4>2. QED
          BY <1>1, <3>1, <3>2, <4>1 DEF ControlInv, Covered, Placed, Told, TerminalUnread, Stilled,
             Locked, Written, Began, Outdated, InSidecar
    <3>3. CASE u # t
      <4>1. (owner[on[u]] = u /\ on[u] \in Conversations) => on[u] # c
          BY <2>2, NoTurnAssumption
      <4>2. on[u] \in Conversations \/ at[u] = "free"
          BY DEF ControlInv, Shape
      <4>3. /\ on[u] \in Conversations /\ owner[on[u]] = u => owner'[on[u]] = u
            /\ on[u] \in Conversations /\ owner'[on[u]] = u =>
                   owner[on[u]] = u /\ run'[on[u]] = run[on[u]]
          BY <2>1, <2>2, <3>3, <4>1 DEF ControlInv, Shape
      <4>4. (Placed(u) /\ Told(u) /\ Stilled(u))'
          BY <1>1, <3>1, <3>3 DEF ControlInv, Covered, Placed, Told, TerminalUnread, Stilled, InSidecar
      <4>5. InSidecar(u) => at[u] # "free"
          BY DEF ControlInv, Covered, Placed, InSidecar
      <4>6. Began(u)'
        <5>1. \A d \in Conversations : owner[d] # u => owner'[d] # u
            BY <2>1, <2>2, <3>3 DEF ControlInv, Shape
        <5>2. QED
            BY <1>1, <3>1, <3>3, <5>1 DEF ControlInv, Covered, Began
      <4>7. (Locked(u) /\ Written(u) /\ Outdated(u))'
          BY <1>1, <3>1, <3>3, <4>2, <4>3, <4>5 DEF ControlInv, Covered, Locked, Written, Outdated,
             InSidecar, Accepts, IsStoppingRun, Preparing, Claimed
      <4>8. QED
          BY <4>4, <4>6, <4>7 DEF Covered
    <3>4. QED
        BY <3>2, <3>3
  <2>6. QED
      BY <2>4, <2>5 DEF ControlInv
<1>4. QED
    BY <1>1, <1>2, <1>3 DEF Claim, LosesRace, Goto
(* The stretch after the claim: the turn goes on to its next check. *)
LEMMA GoesOnInv ==
    ASSUME ControlInv, NEW t \in Turns, at[t] \in {"owned", "saving"},
           \/ at' = [at EXCEPT ![t] = "saving"] /\ UNCHANGED journal
           \/ at' = [at EXCEPT ![t] = "journalled"] /\ journal' = [journal EXCEPT ![t] = "running"],
           UNCHANGED <<owner, run, on, stale, finishing, calls, phase, lines, recovery, hit>>
    PROVE  ControlInv'
<1>1. Shape'
    BY DEF ControlInv, Shape, Places, Claimed
<1>2. ASSUME NEW u \in Turns PROVE Covered(u)'
  <2>1. /\ u # t => at'[u] = at[u] /\ journal'[u] = journal[u]
        /\ u = t => at'[u] = "saving" \/ (at'[u] = "journalled" /\ journal'[u] = "running")
      BY DEF ControlInv, Shape
  <2>2. phase[t] = "new" /\ <<"send", t>> \notin calls /\ "send" \notin finishing[t]
      BY DEF ControlInv, Covered, Placed, Told, Claimed
  <2>3. QED
      BY <2>1, <2>2 DEF ControlInv, Covered, Placed, Told, TerminalUnread, Stilled, Locked, Written,
         Began, Outdated, InSidecar, Accepts, IsStoppingRun, Preparing, Claimed
<1>3. QED
    BY <1>1, <1>2 DEF ControlInv

LEMMA CatchBeforeCallInv ==
    ASSUME ControlInv, NEW t \in Turns, at[t] \in Claimed, Catch(t),
           UNCHANGED <<lines, journal, on, stale, phase, recovery, hit, calls, finishing>>
    PROVE  ControlInv'
<1>1. <<"send", t>> \notin calls' /\ phase[t] # "accepted" /\ at[t] # "finishing"
    BY DEF ControlInv, Covered, Placed, Claimed
<1>2. QED
    BY <1>1, CatchInv

LEMMA CheckOwnerInv == ASSUME ControlInv, NEW t \in Turns, CheckOwner(t) PROVE ControlInv'
<1>1. /\ at[t] = "owned"
      /\ UNCHANGED <<on, stale, journal, calls, phase, lines, recovery, hit>>
    BY DEF CheckOwner, checkFrame, contractVars
<1>2. CASE BeginFinishing(t)
    BY <1>1, <1>2, FinishingInv DEF Claimed
<1>3. CASE Catch(t) /\ UNCHANGED finishing
    BY <1>1, <1>3, CatchBeforeCallInv DEF Claimed
<1>4. CASE Goto(t, "saving") /\ UNCHANGED <<owner, run, finishing>>
  <2>1. at[t] \in {"owned", "saving"} /\ at' = [at EXCEPT ![t] = "saving"] /\ UNCHANGED journal
      BY <1>1, <1>4 DEF Goto
  <2>2. QED
      BY <1>1, <1>4, <2>1, GoesOnInv
<1>5. QED
    BY <1>2, <1>3, <1>4 DEF CheckOwner

LEMMA SaveRequestInv == ASSUME ControlInv, NEW t \in Turns, SaveRequest(t) PROVE ControlInv'
<1>1. /\ at[t] = "saving"
      /\ UNCHANGED <<on, stale, calls, phase, lines, recovery, hit>>
    BY DEF SaveRequest, checkFrame, contractVars
<1>2. CASE Catch(t) /\ UNCHANGED <<finishing, journal>>
    BY <1>1, <1>2, CatchBeforeCallInv DEF Claimed
<1>3. CASE BeginFinishing(t) /\ UNCHANGED journal
    BY <1>1, <1>3, FinishingInv DEF Claimed
<1>4. CASE /\ Goto(t, "journalled") /\ journal' = [journal EXCEPT ![t] = "running"]
           /\ UNCHANGED <<owner, run, finishing>>
    BY <1>1, <1>4, GoesOnInv DEF Goto
<1>5. QED
    BY <1>2, <1>3, <1>4 DEF SaveRequest

LEMMA SendingFailsInv == ASSUME ControlInv, NEW t \in Turns, SendingFails(t) PROVE ControlInv'
<1>1. /\ at[t] \in Claimed /\ Catch(t)
      /\ UNCHANGED <<lines, journal, on, stale, phase, recovery, hit, calls, finishing>>
    BY DEF SendingFails, checkFrame, contractVars, Claimed
<1>2. QED
    BY <1>1, CatchBeforeCallInv

LEMMA DispatchInv == ASSUME ControlInv, NEW t \in Turns, Dispatch(t) PROVE ControlInv'
<1>1. /\ at[t] = "journalled"
      /\ UNCHANGED <<on, stale, journal, phase, lines, recovery, hit>>
    BY DEF Dispatch, checkFrame, contractVars
<1>2. CASE Catch(t) /\ UNCHANGED <<finishing, calls>>
    BY <1>1, <1>2, CatchBeforeCallInv DEF Claimed
<1>3. CASE BeginFinishing(t) /\ UNCHANGED calls
    BY <1>1, <1>3, FinishingInv DEF Claimed
<1>4. CASE /\ ~MustEnd(t) /\ ~Recovering /\ Goto(t, "sent") /\ calls' = calls \cup {<<"send", t>>}
           /\ UNCHANGED <<owner, run, finishing>>
  <2>1. Shape'
      BY <1>1, <1>4 DEF ControlInv, Shape, Places, Goto
  <2>2. ASSUME NEW u \in Turns PROVE Covered(u)'
    <3>1. at'[u] = IF u = t THEN "sent" ELSE at[u]
        BY <1>4 DEF ControlInv, Shape, Goto
    <3>2. <<"send", u>> \in calls' <=> <<"send", u>> \in calls \/ u = t
        BY <1>4
    <3>3. CASE u = t
      <4>1. /\ owner[on[t]] = t /\ journal[t] = "running" /\ phase[t] = "new"
            /\ "send" \notin finishing[t]
          BY <1>1, <1>4 DEF ControlInv, Covered, Placed, Told, Written, MustEnd, Accepts, Claimed
      <4>2. recovery.st = "no"
          BY <1>4 DEF Recovering
      <4>3. QED
          BY <1>1, <1>4, <3>1, <3>3, <4>1, <4>2 DEF ControlInv, Covered, Placed, Told, TerminalUnread,
             Stilled, Locked, Written, Began, Outdated, InSidecar, Preparing, Claimed
    <3>4. CASE u # t
        BY <1>1, <1>4, <3>1, <3>2, <3>4 DEF ControlInv, Covered, Placed, Told, TerminalUnread, Stilled,
           Locked, Written, Began, Outdated, InSidecar, Accepts, IsStoppingRun
    <3>5. QED
        BY <3>3, <3>4
  <2>3. QED
      BY <2>1, <2>2 DEF ControlInv
<1>5. QED
    BY <1>2, <1>3, <1>4 DEF Dispatch

LEMMA InvokeFailsInv == ASSUME ControlInv, NEW t \in Turns, InvokeFails(t) PROVE ControlInv'
<1>1. /\ at[t] = "sent" /\ Catch(t) /\ calls' = calls \ {<<"send", t>>}
      /\ UNCHANGED <<lines, journal, on, stale, phase, recovery, hit, finishing>>
    BY DEF InvokeFails, checkFrame, contractVars
<1>2. phase[t] # "accepted"
    BY <1>1 DEF ControlInv, Covered, Placed
<1>3. QED
    BY <1>1, <1>2, CatchInv
-----------------------------------------------------------------------------
LEMMA DeliverSendInv == ASSUME ControlInv, NEW t \in Turns, DeliverSend(t) PROVE ControlInv'
<1>1. /\ <<"send", t>> \in calls /\ calls' = calls \ {<<"send", t>>}
      /\ at' = [at EXCEPT ![t] = "delivered"]
      /\ UNCHANGED <<owner, run, on, stale, finishing, journal, recovery, hit>>
    BY DEF DeliverSend, Goto, controlVars, sendFrame
<1>2. \/ RefuseTurn(t) /\ lines' = [lines EXCEPT ![t] = Append(@, "terminal")]
      \/ (\E n \in Needs : AcceptTurn(t, on[t], n)) /\ UNCHANGED lines
    BY DEF DeliverSend
<1>3. /\ phase' \in {[phase EXCEPT ![t] = "refused"], [phase EXCEPT ![t] = "accepted"]}
      /\ lines' \in [Turns -> LineSeqs]
      /\ \A u \in Turns : TerminalUnread(u)' => TerminalUnread(u) \/ (u = t /\ phase'[t] = "refused")
  <2>1. CASE RefuseTurn(t) /\ lines' = [lines EXCEPT ![t] = Append(@, "terminal")]
    <3>1. phase' = [phase EXCEPT ![t] = "refused"]
        BY <2>1 DEF RefuseTurn, Becomes
    <3>2. phase'[t] = "refused"
        BY <3>1 DEF ControlInv, Shape
    <3>3. QED
        BY <2>1, <3>1, <3>2, LineWritten DEF ControlInv
  <2>2. CASE (\E n \in Needs : AcceptTurn(t, on[t], n)) /\ UNCHANGED lines
    <3>1. phase' = [phase EXCEPT ![t] = "accepted"]
        BY <2>2 DEF AcceptTurn, Becomes
    <3>2. QED
        BY <2>2, <3>1 DEF ControlInv, Shape, TerminalUnread
  <2>3. QED
      BY <1>2, <2>1, <2>2
<1>4. Shape'
  <2>1. phase' \in [Turns -> Phases] /\ at' \in [Turns -> Places]
      BY <1>1, <1>3 DEF ControlInv, Shape, Places, Over, Phases, Final
  <2>2. at[t] # "free"
      BY <1>1 DEF ControlInv, Covered, Placed
  <2>3. QED
      BY <1>1, <1>3, <2>1, <2>2 DEF ControlInv, Shape
<1>5. ASSUME NEW u \in Turns PROVE Covered(u)'
  <2>1. at'[u] = IF u = t THEN "delivered" ELSE at[u]
      BY <1>1 DEF ControlInv, Shape
  <2>2. (u # t => phase'[u] = phase[u]) /\ (phase'[t] = "refused" \/ phase'[t] = "accepted")
      BY <1>3 DEF ControlInv, Shape
  <2>3. <<"send", u>> \in calls' <=> <<"send", u>> \in calls /\ u # t
      BY <1>1
  <2>4. CASE u = t
    <3>1. /\ owner[on[t]] = t /\ journal[t] = "running" /\ phase[t] = "new" /\ at[t] = "sent"
          /\ recovery.st # "finishing" /\ "send" \notin finishing[t] /\ "event" \notin finishing[t]
        BY <1>1 DEF ControlInv, Covered, Placed, Told, Stilled, Locked, Written, Began, InSidecar, Final, Reported
    <3>2. ~TerminalUnread(t)
        BY <3>1 DEF ControlInv, Covered, Told, Final, Reported
    <3>3. TerminalUnread(t)' => phase'[t] = "refused"
        BY <1>3, <3>2 DEF ControlInv, Shape
    <3>4. QED
        BY <1>1, <2>1, <2>2, <2>3, <2>4, <3>1, <3>3 DEF ControlInv, Covered, Placed, Told, Stilled, Locked,
           Written, Began, Outdated, InSidecar, Preparing, Claimed, Final
  <2>5. CASE u # t
      BY <1>1, <1>3, <2>1, <2>2, <2>3, <2>5 DEF ControlInv, Covered, Placed, Told, Stilled, Locked,
         Written, Began, Outdated, InSidecar, Accepts, IsStoppingRun
  <2>6. QED
      BY <2>4, <2>5
<1>6. QED
    BY <1>4, <1>5 DEF ControlInv

LEMMA SendIsLostInv == ASSUME ControlInv, NEW t \in Turns, SendIsLost(t) PROVE ControlInv'
<1>1. /\ at[t] = "sent" /\ phase[t] = "lost" /\ at' = [at EXCEPT ![t] = "delivered"]
      /\ UNCHANGED <<keptVars, on, lines>>
    BY DEF SendIsLost, Goto, controlVars, contractVars, wireVars, sendFrame, keptVars
<1>2. Shape'
    BY <1>1 DEF ControlInv, Shape, Places, Over, keptVars
<1>3. ASSUME NEW u \in Turns PROVE Covered(u)'
  <2>1. at'[u] = IF u = t THEN "delivered" ELSE at[u]
      BY <1>1 DEF ControlInv, Shape
  <2>2. QED
      BY <1>1, <2>1 DEF ControlInv, Covered, Placed, Told, TerminalUnread, Stilled, Locked, Written,
         Began, Outdated, InSidecar, Accepts, IsStoppingRun, Preparing, Claimed, keptVars
<1>4. QED
    BY <1>2, <1>3 DEF ControlInv

(* Calls of stops come and go, refusals are written: no turn is touched. *)
LEMMA StopsTravelInv ==
    ASSUME ControlInv, NEW t \in Turns,
           UNCHANGED <<owner, run, at, on, stale, finishing, journal, phase, recovery, hit>>,
           \A u \in Turns : <<"send", u>> \in calls' <=> <<"send", u>> \in calls,
           UNCHANGED lines \/ lines' = [lines EXCEPT ![t] = Append(@, "rejected")]
    PROVE  ControlInv'
<1>1. lines' \in [Turns -> LineSeqs] /\ \A u \in Turns : TerminalUnread(u)' => TerminalUnread(u)
    BY LineWritten DEF ControlInv, Shape, TerminalUnread
<1>2. Shape'
    BY <1>1 DEF ControlInv, Shape
<1>3. ASSUME NEW u \in Turns PROVE Covered(u)'
    BY <1>1 DEF ControlInv, Covered, Placed, Told, Stilled, Locked, Written, Began, Outdated, InSidecar,
       Accepts, IsStoppingRun
<1>4. QED
    BY <1>2, <1>3 DEF ControlInv

LEMMA DeliverStopInv == ASSUME ControlInv, NEW t \in Turns, DeliverStop(t) PROVE ControlInv'
<1>1. /\ UNCHANGED <<owner, run, at, on, stale, finishing, journal, phase, recovery, hit>>
      /\ calls' = calls \ {<<"stop", t>>}
      /\ UNCHANGED lines \/ lines' = [lines EXCEPT ![t] = Append(@, "rejected")]
    BY DEF DeliverStop, AskStop, contractVars, controlVars, appVars
<1>2. \A u \in Turns : <<"send", u>> \in calls' <=> <<"send", u>> \in calls
    BY <1>1
<1>3. QED
    BY <1>1, <1>2, StopsTravelInv

LEMMA StopCallFailsInv == ASSUME ControlInv, NEW t \in Turns, StopCallFails(t) PROVE ControlInv'
<1>1. /\ UNCHANGED <<owner, run, at, on, stale, finishing, journal, phase, recovery, hit>>
      /\ calls' = calls \ {<<"stop", t>>} /\ UNCHANGED lines
    BY DEF StopCallFails, contractVars, controlVars, sendFrame
<1>2. \A u \in Turns : <<"send", u>> \in calls' <=> <<"send", u>> \in calls
    BY <1>1
<1>3. QED
    BY <1>1, <1>2, StopsTravelInv

LEMMA SidecarReportsInv == ASSUME ControlInv, NEW t \in Turns, SidecarReports(t) PROVE ControlInv'
<1>1. /\ phase[t] = "accepted" /\ lines' = [lines EXCEPT ![t] = Append(@, "terminal")]
      /\ UNCHANGED <<owner, run, at, on, stale, finishing, journal, calls, recovery, hit>>
    BY DEF SidecarReports, Report, controlVars, appVars
<1>2. PICK p \in Reported : phase' = [phase EXCEPT ![t] = p]
    BY DEF SidecarReports, Report, Becomes
<1>3. /\ lines' \in [Turns -> LineSeqs]
      /\ \A u \in Turns : u # t /\ TerminalUnread(u)' => TerminalUnread(u)
    BY <1>1, LineWritten DEF ControlInv
<1>4. Shape'
    BY <1>1, <1>2, <1>3 DEF ControlInv, Shape, Phases, Final
<1>5. ASSUME NEW u \in Turns PROVE Covered(u)'
  <2>1. phase'[u] = IF u = t THEN p ELSE phase[u]
      BY <1>2 DEF ControlInv, Shape
  <2>2. p \in Final /\ p # "accepted"
      BY DEF Final, Reported
  <2>3. at[t] = "delivered" /\ <<"send", t>> \notin calls
      BY <1>1 DEF ControlInv, Covered, Placed
  <2>4. QED
      BY <1>1, <1>3, <2>1, <2>2, <2>3 DEF ControlInv, Covered, Placed, Told, Stilled, Locked, Written,
         Began, Outdated, InSidecar, Accepts, IsStoppingRun, Preparing, Claimed
<1>6. QED
    BY <1>4, <1>5 DEF ControlInv

LEMMA HearRejectedInv == ASSUME ControlInv, NEW t \in Turns, HearRejected(t) PROVE ControlInv'
<1>1. Hears(t, "rejected") /\ UNCHANGED <<keptVars, at, on>>
    BY DEF HearRejected, contractVars, controlVars, sendFrame, keptVars
<1>2. lines' \in [Turns -> LineSeqs] /\ \A u \in Turns : TerminalUnread(u)' => TerminalUnread(u)
    BY <1>1, LineRead DEF ControlInv
<1>3. QED
    BY <1>1, <1>2, KeptInv

LEMMA HearTerminalInv == ASSUME ControlInv, NEW t \in Turns, HearTerminal(t) PROVE ControlInv'
<1>1. /\ Hears(t, "terminal") /\ UNCHANGED <<at, on, stale, calls, phase, recovery, hit>>
    BY DEF HearTerminal, contractVars
<1>2. /\ lines' \in [Turns -> LineSeqs] /\ \A u \in Turns : TerminalUnread(u)' => TerminalUnread(u)
      /\ phase[t] \in Final
    BY <1>1, LineRead DEF ControlInv, Covered, Told
<1>3. /\ phase[t] # "accepted" /\ <<"send", t>> \notin calls
      /\ at[t] \notin {"free", "finishing"} \cup Preparing \cup Claimed
    BY <1>2 DEF ControlInv, Covered, Placed, Final, Reported
<1>4. CASE UNCHANGED <<owner, run, finishing, journal>>
    BY <1>1, <1>2, <1>4, KeptInv DEF keptVars
<1>5. CASE /\ \E state \in RunStates : FreeRun(on[t], t, state)
           /\ UNCHANGED finishing /\ journal' \in {journal, [journal EXCEPT ![t] = "closed"]}
  <2>1. /\ journal' \in [Turns -> {"none", "running", "closed"}]
        /\ \A u \in Turns : u # t => journal'[u] = journal[u]
      BY <1>5 DEF ControlInv, Shape
  <2>2. finishing' \in [Turns -> SUBSET Callers] /\ \A u \in Turns : finishing'[u] \subseteq finishing[u]
      BY <1>5 DEF ControlInv, Shape
  <2>3. QED
      BY <1>1, <1>2, <1>3, <1>5, <2>1, <2>2, LeavesInv
<1>6. CASE /\ finishing' = [finishing EXCEPT ![t] = @ \cup {"event"}]
           /\ UNCHANGED <<owner, run>> /\ journal' \in {journal, [journal EXCEPT ![t] = "closed"]}
  <2>1. Shape'
      BY <1>1, <1>2, <1>6 DEF ControlInv, Shape, Callers
  <2>2. ASSUME NEW u \in Turns PROVE Covered(u)'
    <3>1. /\ finishing'[u] = IF u = t THEN finishing[u] \cup {"event"} ELSE finishing[u]
          /\ u # t => journal'[u] = journal[u]
        BY <1>6 DEF ControlInv, Shape
    <3>2. QED
        BY <1>1, <1>2, <1>3, <1>6, <3>1 DEF ControlInv, Covered, Placed, Told, Stilled, Locked, Written,
           Began, Outdated, InSidecar, Accepts, IsStoppingRun, Claimed
  <2>3. QED
      BY <2>1, <2>2 DEF ControlInv
<1>7. QED
    BY <1>4, <1>5, <1>6 DEF HearTerminal, RunStates

(* A turn whose end is being finished is not in the sidecar any more. *)
LEMMA FinishedIsOut ==
    ASSUME ControlInv, NEW t \in Turns, finishing[t] # {}
    PROVE  ~InSidecar(t) /\ at[t] # "free"
<1>1. finishing[t] \subseteq Callers
    BY DEF ControlInv, Shape
<1>2. CASE "event" \in finishing[t]
    BY <1>2 DEF ControlInv, Covered, Placed, Told, InSidecar, Final, Reported
<1>3. CASE "send" \in finishing[t]
    BY <1>3 DEF ControlInv, Covered, Placed, Told, InSidecar
<1>4. CASE "recover" \in finishing[t]
    BY <1>4 DEF ControlInv, Covered, Told, Stilled, Began
<1>5. QED
    BY <1>1, <1>2, <1>3, <1>4 DEF Callers

LEMMA FinishStoppedInv ==
    ASSUME ControlInv, NEW t \in Turns, NEW caller \in Callers, FinishStopped(t, caller)
    PROVE  ControlInv'
<1>1. /\ caller \in finishing[t] /\ FreeRun(on[t], t, "stopped") /\ "stopped" \in RunStates
      /\ finishing' = [finishing EXCEPT ![t] = @ \ {caller}]
      /\ journal' = [journal EXCEPT ![t] = IF @ = "none" THEN @ ELSE "closed"]
      /\ UNCHANGED <<on, stale, calls, phase, lines, recovery, hit>>
    BY DEF FinishStopped, contractVars, wireVars, RunStates
<1>2. ~InSidecar(t) /\ at[t] # "free"
    BY <1>1, FinishedIsOut
<1>3. /\ finishing' \in [Turns -> SUBSET Callers] /\ \A u \in Turns : finishing'[u] \subseteq finishing[u]
      /\ caller \notin finishing'[t]
      /\ journal' \in [Turns -> {"none", "running", "closed"}]
      /\ \A u \in Turns : u # t => journal'[u] = journal[u]
    BY <1>1 DEF ControlInv, Shape
<1>4. lines' \in [Turns -> LineSeqs] /\ \A u \in Turns : TerminalUnread(u)' => TerminalUnread(u)
    BY <1>1 DEF ControlInv, Shape, TerminalUnread
<1>5. CASE caller = "send" /\ at' = [at EXCEPT ![t] = "ended"]
    BY <1>1, <1>2, <1>3, <1>4, <1>5, LeavesInv DEF InSidecar
<1>6. CASE at' = at
    BY <1>1, <1>2, <1>3, <1>4, <1>6, LeavesInv DEF InSidecar
<1>7. QED
    BY <1>5, <1>6 DEF FinishStopped, Goto

LEMMA FinishStoppedFailsInv ==
    ASSUME ControlInv, NEW t \in Turns, NEW caller \in Callers, FinishStoppedFails(t, caller)
    PROVE  ControlInv'
<1>1. /\ caller \in finishing[t]
      /\ finishing' = [finishing EXCEPT ![t] = @ \ {caller}]
      /\ UNCHANGED <<on, stale, journal, calls, phase, lines, recovery, hit>>
    BY DEF FinishStoppedFails, contractVars, wireVars
<1>2. CASE caller = "send" /\ Catch(t)
  <2>1. at[t] = "finishing" /\ phase[t] # "accepted" /\ <<"send", t>> \notin calls
      BY <1>1, <1>2 DEF ControlInv, Covered, Placed, Told
  <2>2. QED
      BY <1>1, <1>2, <2>1, CatchInv
<1>3. CASE UNCHANGED <<at, owner, run>>
  <2>1. finishing' \in [Turns -> SUBSET Callers] /\ \A u \in Turns : finishing'[u] \subseteq finishing[u]
      BY <1>1 DEF ControlInv, Shape
  <2>2. Shape'
      BY <1>1, <1>3, <2>1 DEF ControlInv, Shape
  <2>3. ASSUME NEW u \in Turns PROVE Covered(u)'
      BY <1>1, <1>3, <2>1 DEF ControlInv, Covered, Placed, Told, TerminalUnread, Stilled, Locked, Written,
         Began, Outdated, InSidecar, Accepts, IsStoppingRun
  <2>4. QED
      BY <2>2, <2>3 DEF ControlInv
<1>4. QED
    BY <1>2, <1>3 DEF FinishStoppedFails
-----------------------------------------------------------------------------
(* A death ends what the sidecar works on and what is lost on the way; nothing
   else happens to the turns. *)
LEMMA DiesInv ==
    ASSUME ControlInv, NEW lost, Dies(lost), NEW R \in SUBSET Turns,
           finishing' = [t \in Turns |-> IF t \in R THEN finishing[t] \cup {"recover"} ELSE finishing[t]],
           \A t \in R : at[t] # "free" /\ t \in recovery.runs,
           recovery' \in [st : {"no", "saving", "finishing"}, runs : SUBSET Turns],
           recovery'.runs = recovery.runs,
           \/ R = {} /\ recovery' = recovery
           \/ recovery'.st = "finishing" /\ lost = calls,
           UNCHANGED <<owner, run, at, on, stale, journal, hit>>
    PROVE  ControlInv'
<1>1. /\ calls' = calls \ lost /\ lines' = lines
      /\ phase' = [t \in Turns |-> IF phase[t] = "accepted" \/ <<"send", t>> \in lost
                                   THEN "lost" ELSE phase[t]]
      /\ lost \subseteq calls
    BY DEF Dies
<1>2. Shape'
    BY <1>1 DEF ControlInv, Shape, Phases, Callers
<1>3. ASSUME NEW u \in Turns PROVE Covered(u)'
  <2>1. /\ phase'[u] = IF phase[u] = "accepted" \/ <<"send", u>> \in lost THEN "lost" ELSE phase[u]
        /\ finishing'[u] = IF u \in R THEN finishing[u] \cup {"recover"} ELSE finishing[u]
      BY <1>1
  <2>2. InSidecar(u)' => InSidecar(u) /\ <<"send", u>> \in calls /\ <<"send", u>> \notin lost
      BY <1>1, <2>1 DEF InSidecar
  <2>3. <<"send", u>> \in lost \/ phase[u] = "accepted" => at[u] \in {"sent", "delivered"}
      BY <1>1 DEF ControlInv, Covered, Placed
  <2>4. Placed(u)'
      BY <1>1, <2>1, <2>3 DEF ControlInv, Covered, Placed, Preparing, Claimed
  <2>5. Told(u)'
    <3>1. phase[u] \in Final => phase'[u] = phase[u]
        BY <1>1, <2>1 DEF ControlInv, Covered, Placed, Final, Reported
    <3>2. QED
        BY <1>1, <2>1, <3>1 DEF ControlInv, Covered, Told, TerminalUnread
  <2>6. Stilled(u)'
      BY <2>2 DEF ControlInv, Covered, Stilled
  <2>7. (Locked(u) /\ Written(u) /\ Began(u) /\ Outdated(u))'
      BY <2>1, <2>2 DEF ControlInv, Covered, Locked, Written, Began, Outdated, Accepts, IsStoppingRun
  <2>8. QED
      BY <2>4, <2>5, <2>6, <2>7 DEF Covered
<1>4. QED
    BY <1>2, <1>3 DEF ControlInv

LEMMA SidecarDiesInv == ASSUME ControlInv, SidecarDies PROVE ControlInv'
<1>1. PICK lost \in SUBSET calls : Dies(lost)
    BY DEF SidecarDies
<1>2. UNCHANGED <<owner, run, at, on, stale, finishing, journal, recovery, hit>>
    BY DEF SidecarDies, controlVars, appVars
<1>3. finishing' = [t \in Turns |-> IF t \in {} THEN finishing[t] \cup {"recover"} ELSE finishing[t]]
    BY <1>2 DEF ControlInv, Shape
<1>4. recovery' \in [st : {"no", "saving", "finishing"}, runs : SUBSET Turns]
    BY <1>2 DEF ControlInv, Shape
<1>5. PICK R \in SUBSET Turns : R = {}
    OBVIOUS
<1>6. finishing' = [t \in Turns |-> IF t \in R THEN finishing[t] \cup {"recover"} ELSE finishing[t]]
    BY <1>3, <1>5
<1>7. QED
    BY <1>1, <1>2, <1>4, <1>5, <1>6, DiesInv

LEMMA RecoveryKillsInv == ASSUME ControlInv, RecoveryKills PROVE ControlInv'
<1>1. /\ Dies(calls) /\ recovery' = [recovery EXCEPT !.st = "finishing"]
      /\ finishing' = [t \in Turns |-> IF t \in recovery.runs
                                       THEN finishing[t] \cup {"recover"} ELSE finishing[t]]
      /\ UNCHANGED <<owner, run, at, on, stale, journal, hit>>
    BY DEF RecoveryKills, controlVars
<1>2. recovery \in [st : {"no", "saving", "finishing"}, runs : SUBSET Turns]
    BY DEF ControlInv, Shape
<1>3. recovery.runs \in SUBSET Turns /\ \A t \in recovery.runs : at[t] # "free"
    BY <1>2 DEF ControlInv, Covered, Began
<1>4. /\ recovery' \in [st : {"no", "saving", "finishing"}, runs : SUBSET Turns]
      /\ recovery'.runs = recovery.runs /\ recovery'.st = "finishing"
    BY <1>1, <1>2
<1>5. QED
    BY <1>1, <1>3, <1>4, DiesInv

LEMMA RecoveryOverInv == ASSUME ControlInv, RecoveryFails \/ RecoveryEnds PROVE ControlInv'
<1>1. /\ recovery' = NoRecovery
      /\ UNCHANGED <<owner, run, at, on, stale, finishing, journal, calls, phase, lines, hit>>
    BY DEF RecoveryFails, RecoveryEnds, controlVars, contractVars, wireVars
<1>2. \A t \in Turns : "recover" \notin finishing[t]
    BY DEF RecoveryFails, RecoveryEnds, ControlInv, Covered, Told
<1>3. Shape'
    BY <1>1 DEF ControlInv, Shape, NoRecovery
<1>4. ASSUME NEW u \in Turns PROVE Covered(u)'
    BY <1>1, <1>2 DEF ControlInv, Covered, Placed, Told, TerminalUnread, Stilled, Locked, Written,
       Began, Outdated, InSidecar, Accepts, IsStoppingRun, NoRecovery
<1>5. QED
    BY <1>3, <1>4 DEF ControlInv

LEMMA BeginRecoveryInv == ASSUME ControlInv, BeginRecovery PROVE ControlInv'
<1>1. /\ recovery.st = "no"
      /\ recovery' = [st |-> "saving", runs |-> {owner[c] : c \in ActiveConversations}]
      /\ StoppingRuns(Conversations) /\ calls' = calls
      /\ stale' = [t \in Turns |-> stale[t] \/ t \in Hit(Conversations)]
      /\ hit' = hit \cup Hit(Conversations)
      /\ UNCHANGED <<owner, at, on, finishing, journal, phase, lines>>
    BY DEF BeginRecovery, Recovering, Outdates, contractVars, wireVars
<1>2. /\ recovery'.runs \subseteq Turns /\ \A t \in recovery'.runs : at[t] # "free"
      /\ recovery' \in [st : {"no", "saving", "finishing"}, runs : SUBSET Turns]
    BY <1>1 DEF ActiveConversations, IsActive, ControlInv, Shape, Covered, Began
<1>3. /\ Hit(Conversations) \subseteq {t \in Turns : at[t] \in Preparing \cup Claimed}
      /\ \A t \in Hit(Conversations) : on[t] \in Conversations
    BY DEF Hit
<1>4. Hit(Conversations) \in SUBSET Turns /\ calls' \subseteq calls \cup StopCalls(Conversations)
      /\ recovery'.st # "finishing"
    BY <1>1, <1>3
<1>5. QED
    BY <1>1, <1>2, <1>3, <1>4, StopInv

LEMMA StopConversationsInv ==
    ASSUME ControlInv, NEW C \in SUBSET Conversations, NEW S \in SUBSET Turns, StopConversations(C, S),
           S \subseteq {t \in Turns : at[t] \in Preparing \cup Claimed},
           \A t \in S : at[t] \in Claimed /\ IsActive(on[t]) => on[t] \in C
    PROVE  ControlInv'
<1>1. /\ StoppingRuns(C) /\ calls' = calls \cup StopCalls(C)
      /\ stale' = [t \in Turns |-> stale[t] \/ t \in S] /\ hit' = hit \cup S
      /\ UNCHANGED <<owner, at, on, finishing, journal, phase, lines, recovery>>
    BY DEF StopConversations, RequestStop, Outdates, contractVars
<1>2. /\ recovery' \in [st : {"no", "saving", "finishing"}, runs : SUBSET Turns]
      /\ \A t \in recovery'.runs : at[t] # "free"
    BY <1>1 DEF ControlInv, Shape, Covered, Began
<1>3. QED
    BY <1>1, <1>2, StopInv

LEMMA StopConversationInv ==
    ASSUME ControlInv, NEW c \in Conversations, StopConversation(c) PROVE ControlInv'
<1>1. /\ Hit({c}) \in SUBSET Turns /\ Hit({c}) \subseteq {t \in Turns : at[t] \in Preparing \cup Claimed}
      /\ \A t \in Hit({c}) : on[t] \in {c}
    BY DEF Hit
<1>2. QED
    BY <1>1, StopConversationsInv DEF StopConversation

LEMMA HardStopInv == ASSUME ControlInv, HardStop PROVE ControlInv'
<1> DEFINE C == {c \in Conversations : IsActive(c) \/ queue[c] # <<>>}
<1>1. /\ Hit(Conversations) \in SUBSET Turns
      /\ Hit(Conversations) \subseteq {t \in Turns : at[t] \in Preparing \cup Claimed}
      /\ \A t \in Hit(Conversations) : IsActive(on[t]) => on[t] \in C
    BY DEF Hit
<1>2. QED
    BY <1>1, StopConversationsInv DEF HardStop

LEMMA FlushInv == ASSUME ControlInv, NEW c \in Conversations, FlushQueueNow(c) PROVE ControlInv'
<1>1. /\ StoppingRuns({c}) /\ calls' = calls \cup StopCalls({c})
      /\ UNCHANGED <<owner, at, on, stale, finishing, journal, phase, lines, recovery, hit>>
    BY DEF FlushQueueNow, BeginSteering, RequestStop, contractVars, sendFrame
<1>2. PICK S \in SUBSET Turns : S = {}
    OBVIOUS
<1>3. stale' = [t \in Turns |-> stale[t] \/ t \in S] /\ hit' = hit \cup S
    BY <1>1, <1>2 DEF ControlInv, Shape
<1>4. /\ recovery' \in [st : {"no", "saving", "finishing"}, runs : SUBSET Turns]
      /\ \A t \in recovery'.runs : at[t] # "free"
    BY <1>1 DEF ControlInv, Shape, Covered, Began
<1>5. QED
    BY <1>1, <1>2, <1>3, <1>4, StopInv
-----------------------------------------------------------------------------
LEMMA SubmitInv ==
    ASSUME ControlInv, NEW t \in Turns, NEW c \in Conversations, NEW m, Submit(t, c, m)
    PROVE  ControlInv'
<1>1. Start(t, c, "new", NoTurn, m, FALSE) /\ UNCHANGED <<keptVars, lines>>
    BY DEF Submit, controlVars, contractVars, wireVars, sendFrame, keptVars
<1>2. QED
    BY <1>1, StartInv DEF Preparing

LEMMA DrainInv == ASSUME ControlInv, NEW c \in Conversations, Drain(c) PROVE ControlInv'
<1>1. /\ UNCHANGED <<keptVars, lines>>
      /\ \/ UNCHANGED <<at, on>>
         \/ \E t \in Turns : Start(t, c, "prep", Head(queue[c]).id, Head(queue[c]).mode, TRUE)
    BY DEF Drain, contractVars, wireVars, sendFrame, keptVars
<1>2. QED
    BY <1>1, StartInv, SameInv DEF Preparing

LEMMA ResumeInv == ASSUME ControlInv, NEW c \in Conversations, Resume(c) PROVE ControlInv'
<1>1. /\ UNCHANGED <<keptVars, lines>>
      /\ \/ UNCHANGED <<at, on>>
         \/ \E t \in Turns : Start(t, c, "prep", Head(queue[c]).id, Head(queue[c]).mode, FALSE)
    BY DEF Resume, contractVars, wireVars, sendFrame, keptVars
<1>2. QED
    BY <1>1, StartInv, SameInv DEF Preparing

LEMMA SteeringSendsInv == ASSUME ControlInv, NEW c \in Conversations, SteeringSends(c) PROVE ControlInv'
<1>1. /\ UNCHANGED <<keptVars, lines>>
      /\ \/ UNCHANGED <<at, on>>
         \/ \E t \in Turns : Start(t, c, "prep", steer[c].item, "steer", FALSE)
    BY DEF SteeringSends, controlVars, contractVars, wireVars, sendFrame, keptVars
<1>2. QED
    BY <1>1, StartInv, SameInv DEF Preparing

LEMMA IdleStepsInv ==
    ASSUME ControlInv,
           \/ \E c \in Conversations : SteeringTimesOut(c) \/ CancelQueuedSend(c)
           \/ ResumeAutomation
           \/ UNCHANGED turnControlVars
    PROVE  ControlInv'
<1>1. UNCHANGED <<keptVars, at, on, lines>>
    BY DEF SteeringTimesOut, CancelQueuedSend, ResumeAutomation, turnControlVars, controlVars,
       contractVars, wireVars, appVars, sendFrame, keptVars
<1>2. QED
    BY <1>1, SameInv

LEMMA NextInv == ControlInv /\ [TurnControlNext]_turnControlVars => ControlInv'
<1> SUFFICES ASSUME ControlInv, [TurnControlNext]_turnControlVars PROVE ControlInv'
    OBVIOUS
<1>1. CASE \E t \in Typed, c \in Conversations, m \in Modes : Submit(t, c, m)
  <2>1. PICK t \in Typed, c \in Conversations, m \in Modes : Submit(t, c, m)
      BY <1>1
  <2>2. QED
      BY <2>1, TypedAssumption, SubmitInv
<1>2. CASE \E c \in Conversations :
              Resume(c) \/ CancelQueuedSend(c) \/ StopConversation(c) \/ FlushQueueNow(c)
    BY <1>2, ResumeInv, IdleStepsInv, StopConversationInv, FlushInv
<1>3. CASE HardStop \/ ResumeAutomation \/ BeginRecovery
    BY <1>3, HardStopInv, IdleStepsInv, BeginRecoveryInv
<1>4. CASE SidecarDies \/ RecoveryStep
    BY <1>4, SidecarDiesInv, RecoveryKillsInv, RecoveryOverInv DEF RecoveryStep
<1>5. CASE \E t \in Turns : SendStep(t)
    BY <1>5, RouteInv, ClaimInv, CheckOwnerInv, SaveRequestInv, DispatchInv DEF SendStep
<1>6. CASE \E t \in Turns : FaultStep(t)
    BY <1>6, PreparationFailsInv, SendingFailsInv, InvokeFailsInv, StopCallFailsInv,
       FinishStoppedFailsInv DEF FaultStep, Callers
<1>7. CASE \E t \in Turns : WireStep(t)
    BY <1>7, DeliverSendInv, SendIsLostInv, DeliverStopInv, SidecarReportsInv, HearRejectedInv,
       HearTerminalInv, FinishStoppedInv DEF WireStep, Callers
<1>8. CASE \E c \in Conversations : SteerStep(c)
    BY <1>8, DrainInv, SteeringSendsInv, IdleStepsInv DEF SteerStep
<1>9. CASE UNCHANGED turnControlVars
    BY <1>9, IdleStepsInv
<1>10. QED
    BY <1>1, <1>2, <1>3, <1>4, <1>5, <1>6, <1>7, <1>8, <1>9 DEF TurnControlNext, UserStep

THEOREM ControlInvariant == TurnControlSpec => []ControlInv
BY InitInv, NextInv, PTL DEF TurnControlSpec

(* While the sidecar works on a turn, or its message is on the way there, the turn
   owns its conversation: no race of stops, refusals, failing calls, late events and
   recoveries frees it before (src/App.tsx, handleSendMessage to finishStoppedTurn). *)
THEOREM LockCovers == TurnControlSpec => []LockCoversExecution
<1>1. ControlInv => LockCoversExecution
    BY DEF ControlInv, Covered, Locked, LockCoversExecution
<1>2. QED
    BY <1>1, ControlInvariant, PTL

(* What executes has an open row in the journal (src/db.ts, long_tasks). *)
THEOREM JournalCovers == TurnControlSpec => []ExecutionIsJournalled
<1>1. ControlInv => ExecutionIsJournalled
    BY DEF ControlInv, Covered, Written, ExecutionIsJournalled
<1>2. QED
    BY <1>1, ControlInvariant, PTL
-----------------------------------------------------------------------------
(* Only the last check of a turn that still owns a run nobody stops hands it over. *)
LEMMA OnlyDispatchSends ==
    ASSUME ControlInv, [TurnControlNext]_turnControlVars, NEW u \in Turns, at[u] # "sent", at'[u] = "sent"
    PROVE  at[u] = "journalled" /\ ~MustEnd(u)
<1> DEFINE Elsewhere(t, place) == at' = [at EXCEPT ![t] = place]
           Away == \E t \in Turns, place \in Places \ {"sent"} : Elsewhere(t, place)
<1>1. at \in [Turns -> Places]
    BY DEF ControlInv, Shape
<1>2. ~Away /\ at' # at
    BY <1>1
<1>3. ASSUME NEW t \in Turns, Catch(t) \/ BeginFinishing(t) PROVE Away
    BY <1>3 DEF Catch, BeginFinishing, Goto, Places, Over
<1>4. ASSUME NEW t \in Turns, NEW c, NEW place \in Preparing, NEW item, NEW m, NEW auto,
             Start(t, c, place, item, m, auto)
      PROVE  Away
    BY <1>4 DEF Start, Goto, Places, Preparing
<1>5. CASE UserStep
  <2>1. ASSUME NEW t \in Typed, NEW c \in Conversations, NEW m \in Modes, Submit(t, c, m) PROVE FALSE
      BY <1>2, <1>4, <2>1, TypedAssumption DEF Submit, Preparing
  <2>2. ASSUME NEW c \in Conversations, Resume(c) PROVE FALSE
      BY <1>2, <1>4, <2>2 DEF Resume, Preparing
  <2>3. QED
      BY <1>2, <1>5, <2>1, <2>2 DEF UserStep, CancelQueuedSend, StopConversation, FlushQueueNow, HardStop,
         StopConversations, ResumeAutomation, BeginRecovery, appVars
<1>6. CASE SidecarDies \/ RecoveryStep
    BY <1>2, <1>6 DEF SidecarDies, RecoveryStep, RecoveryKills, RecoveryFails, RecoveryEnds, appVars
<1>7. ASSUME NEW c \in Conversations, SteerStep(c) PROVE FALSE
    BY <1>2, <1>4, <1>7 DEF SteerStep, Drain, SteeringSends, SteeringTimesOut, Preparing
<1>8. ASSUME NEW t \in Turns, FaultStep(t) PROVE FALSE
    BY <1>2, <1>3, <1>8 DEF FaultStep, PreparationFails, SendingFails, InvokeFails, StopCallFails,
       FinishStoppedFails, Goto, Places, Over
<1>9. ASSUME NEW t \in Turns, WireStep(t) PROVE FALSE
    BY <1>2, <1>9 DEF WireStep, DeliverSend, SendIsLost, DeliverStop, SidecarReports, HearRejected,
       HearTerminal, FinishStopped, Goto, Places, Over, appVars
<1>10. ASSUME NEW t \in Turns, Route(t) \/ Claim(t) \/ CheckOwner(t) \/ SaveRequest(t) PROVE FALSE
    BY <1>2, <1>3, <1>10 DEF Route, Claim, LosesRace, CheckOwner, SaveRequest, Goto, Places, Over,
       Preparing, Claimed
<1>11. ASSUME NEW t \in Turns, Dispatch(t) PROVE t = u /\ at[t] = "journalled" /\ ~MustEnd(t)
    BY <1>1, <1>2, <1>3, <1>11 DEF Dispatch, Goto
<1>12. CASE UNCHANGED turnControlVars
    BY <1>2, <1>12 DEF turnControlVars, appVars
<1>13. QED
    BY <1>5, <1>6, <1>7, <1>8, <1>9, <1>10, <1>11, <1>12 DEF TurnControlNext, SendStep

(* A stop wins over every send it found under way (src/App.tsx, the stop
   generations and the checks of sendOwnedMessage). *)
THEOREM StopsWin == TurnControlSpec => StopWins
<1>1. ControlInv /\ [TurnControlNext]_turnControlVars =>
          [\A t \in hit : at[t] # "sent" => at'[t] # "sent"]_turnControlVars
  <2> SUFFICES ASSUME ControlInv, [TurnControlNext]_turnControlVars,
                      NEW t \in hit, at[t] # "sent", at'[t] = "sent"
               PROVE  FALSE
      OBVIOUS
  <2>1. t \in Turns
      BY DEF ControlInv, Shape
  <2>2. at[t] = "journalled" /\ ~MustEnd(t)
      BY <2>1, OnlyDispatchSends
  <2>3. QED
      BY <2>1, <2>2 DEF ControlInv, Covered, Outdated, MustEnd, Claimed
<1>2. QED
    BY <1>1, ControlInvariant, PTL DEF TurnControlSpec, StopWins
-----------------------------------------------------------------------------
(* Every conversation has a record of its steering, and one that waits goes on
   only because a turn was finished. *)
Steered == DOMAIN steer = Conversations /\ \A c \in Conversations : "st" \in DOMAIN steer[c]
GoesOn(c) == steer[c].st = "stopping" /\ steer'[c].st = "go"
StillWaits == Steered' /\ \A c \in Conversations : ~GoesOn(c)

LEMMA SteerKept == ASSUME Steered, UNCHANGED steer PROVE StillWaits
BY DEF Steered, StillWaits, GoesOn

(* One record is replaced, by one that does not go on unless it did not wait. *)
LEMMA SteerReplaced ==
    ASSUME Steered, NEW c \in Conversations, NEW s,
           steer' = [steer EXCEPT ![c] = s], "st" \in DOMAIN s,
           steer[c].st # "stopping" \/ s.st # "go"
    PROVE  StillWaits
BY DEF Steered, StillWaits, GoesOn

LEMMA SteerBegins ==
    ASSUME Steered, NEW c \in Conversations, NEW item, BeginSteering(c, item), ~Busy(c)
    PROVE  StillWaits
<1> DEFINE s == [st |-> IF IsActive(c) THEN "stopping" ELSE "go", item |-> item,
                 turn |-> owner[c], stale |-> FALSE]
<1>1. steer' = [steer EXCEPT ![c] = s]
    BY DEF BeginSteering
<1>2. "st" \in DOMAIN s /\ steer[c].st # "stopping"
    BY DEF Busy
<1>3. QED
    BY <1>1, <1>2, SteerReplaced

LEMMA SteerOutdated ==
    ASSUME Steered, NEW C, NEW S, Outdates(C, S)
    PROVE  StillWaits
<1>1. steer' = [c \in Conversations |-> IF c \in C /\ steer[c].st \in {"stopping", "go"}
                                         THEN [steer[c] EXCEPT !.stale = TRUE] ELSE steer[c]]
    BY DEF Outdates
<1>2. ASSUME NEW c \in Conversations
      PROVE  "st" \in DOMAIN steer'[c] /\ steer'[c].st = steer[c].st
  <2>1. "st" \in DOMAIN steer[c]
      BY DEF Steered
  <2>2. DOMAIN [steer[c] EXCEPT !.stale = TRUE] = DOMAIN steer[c]
        /\ [steer[c] EXCEPT !.stale = TRUE].st = steer[c].st
      BY <2>1
  <2>3. QED
      BY <1>1, <2>1, <2>2
<1>3. QED
    BY <1>1, <1>2 DEF Steered, StillWaits, GoesOn

LEMMA SteerRejected ==
    ASSUME Steered, NEW t, steer' = Rejected(t)
    PROVE  StillWaits
<1>1. "st" \in DOMAIN NoSteer /\ NoSteer.st = "idle"
    BY DEF NoSteer
<1>2. QED
    BY <1>1 DEF Rejected, Steered, StillWaits, GoesOn

LEMMA SteerConfirmed ==
    ASSUME Steered, NEW t, steer' = Confirmed(t)
    PROVE  Steered' /\ \A c \in Conversations : GoesOn(c) => steer[c].turn = t
<1>1. ASSUME NEW c \in Conversations PROVE "st" \in DOMAIN steer'[c]
  <2>1. "st" \in DOMAIN steer[c] /\ DOMAIN [steer[c] EXCEPT !.st = "go"] = DOMAIN steer[c]
      BY DEF Steered
  <2>2. QED
      BY <2>1 DEF Confirmed
<1>2. QED
    BY <1>1 DEF Confirmed, Steered, GoesOn

LEMMA SteeringStep ==
    ASSUME ControlInv, Steered, [TurnControlNext]_turnControlVars
    PROVE  Steered' /\ \A c \in Conversations : GoesOn(c) => ~InSidecar(steer[c].turn)
<1>1. CASE UserStep
  <2>1. CASE \E c \in Conversations : FlushQueueNow(c)
      BY <2>1, SteerBegins DEF FlushQueueNow, StillWaits
  <2>2. CASE HardStop \/ \E c \in Conversations : StopConversation(c)
      BY <2>2, SteerOutdated DEF HardStop, StopConversation, StopConversations, StillWaits
  <2>3. CASE BeginRecovery
      BY <2>3, SteerOutdated DEF BeginRecovery, StillWaits
  <2>4. CASE \/ ResumeAutomation
             \/ \E t \in Typed, c \in Conversations, m \in Modes : Submit(t, c, m)
             \/ \E c \in Conversations : Resume(c) \/ CancelQueuedSend(c)
    <3>1. UNCHANGED steer
        BY <2>4 DEF ResumeAutomation, Submit, Resume, CancelQueuedSend, appVars
    <3>2. QED
        BY <3>1, SteerKept DEF StillWaits
  <2>5. QED
      BY <1>1, <2>1, <2>2, <2>3, <2>4 DEF UserStep
<1>2. CASE SidecarDies \/ RecoveryStep
  <2>1. UNCHANGED steer
      BY <1>2 DEF SidecarDies, RecoveryStep, RecoveryKills, RecoveryFails, RecoveryEnds, appVars
  <2>2. QED
      BY <2>1, SteerKept DEF StillWaits
<1>3. ASSUME NEW t \in Turns, SendStep(t) PROVE StillWaits
  <2>1. CASE Route(t)
    <3>1. on[t] \in Conversations
        BY <2>1 DEF ControlInv, Shape, Route
    <3>2. UNCHANGED steer \/ (BeginSteering(on[t], t) /\ ~Busy(on[t]))
        BY <2>1 DEF Route
    <3>3. QED
        BY <3>1, <3>2, SteerKept, SteerBegins
  <2>2. CASE Claim(t) \/ CheckOwner(t) \/ SaveRequest(t) \/ Dispatch(t)
    <3>1. UNCHANGED steer
        BY <2>2 DEF Claim, CheckOwner, SaveRequest, Dispatch, checkFrame
    <3>2. QED
        BY <3>1, SteerKept
  <2>3. QED
      BY <1>3, <2>1, <2>2 DEF SendStep
<1>4. ASSUME NEW t \in Turns, FaultStep(t) PROVE StillWaits
  <2>1. UNCHANGED steer \/ steer' = Rejected(t)
      BY <1>4 DEF FaultStep, PreparationFails, SendingFails, InvokeFails, StopCallFails,
         FinishStoppedFails, checkFrame
  <2>2. QED
      BY <2>1, SteerKept, SteerRejected
<1>5. ASSUME NEW t \in Turns, WireStep(t)
      PROVE  Steered' /\ \A c \in Conversations : GoesOn(c) => ~InSidecar(steer[c].turn)
  <2>1. CASE \E caller \in Callers : FinishStopped(t, caller)
    <3>1. finishing[t] # {} /\ (UNCHANGED steer \/ steer' = Confirmed(t))
        BY <2>1 DEF FinishStopped
    <3>2. ~InSidecar(t)
        BY <3>1, FinishedIsOut
    <3>3. QED
        BY <3>1, <3>2, SteerKept, SteerConfirmed DEF StillWaits
  <2>2. CASE \/ DeliverSend(t) \/ SendIsLost(t) \/ DeliverStop(t) \/ SidecarReports(t)
             \/ HearRejected(t) \/ HearTerminal(t)
    <3>1. UNCHANGED steer \/ steer' = Rejected(t)
        BY <2>2 DEF DeliverSend, SendIsLost, DeliverStop, SidecarReports, HearRejected, HearTerminal, appVars
    <3>2. QED
        BY <3>1, SteerKept, SteerRejected DEF StillWaits
  <2>3. QED
      BY <1>5, <2>1, <2>2 DEF WireStep, Callers
<1>6. ASSUME NEW c \in Conversations, SteerStep(c) PROVE StillWaits
  <2>1. CASE Drain(c)
      BY <2>1, SteerKept DEF Drain
  <2>2. CASE SteeringTimesOut(c)
    <3>1. steer' = [steer EXCEPT ![c] = NoSteer]
        BY <2>2 DEF SteeringTimesOut
    <3>2. "st" \in DOMAIN NoSteer /\ NoSteer.st # "go"
        BY DEF NoSteer
    <3>3. QED
        BY <3>1, <3>2, SteerReplaced
  <2>3. CASE SteeringSends(c)
    <3>1. steer[c].st = "go" /\ "st" \in DOMAIN steer[c]
        BY <2>3 DEF SteeringSends, Steered
    <3>2. CASE \E t \in Turns : steer' = [steer EXCEPT ![c].st = "sending", ![c].turn = t]
      <4>1. PICK t \in Turns : steer' = [steer EXCEPT ![c].st = "sending", ![c].turn = t]
          BY <3>2
      <4>2. /\ DOMAIN steer' = Conversations
            /\ \A d \in Conversations : d # c => steer'[d] = steer[d]
            /\ DOMAIN steer'[c] = DOMAIN steer[c]
          BY <4>1 DEF Steered
      <4>3. QED
          BY <3>1, <4>2 DEF Steered, StillWaits, GoesOn
    <3>3. CASE steer' = [steer EXCEPT ![c] = NoSteer]
        BY <3>1, <3>3, SteerReplaced DEF NoSteer
    <3>4. QED
        BY <2>3, <3>2, <3>3 DEF SteeringSends
  <2>4. QED
      BY <1>6, <2>1, <2>2, <2>3 DEF SteerStep
<1>7. CASE UNCHANGED turnControlVars
    BY <1>7, SteerKept DEF turnControlVars, appVars, StillWaits
<1>8. QED
    BY <1>1, <1>2, <1>3, <1>4, <1>5, <1>6, <1>7 DEF TurnControlNext, StillWaits

(* A steering message goes on only when the turn before it is out of the sidecar
   (src/App.tsx, applySteering and finishStoppedTurn). *)
THEOREM SteeringFollows == TurnControlSpec => SteeringWaits
<1>1. TurnControlInit => Steered
    BY DEF TurnControlInit, NoSteer, Steered
<1>2. ControlInv /\ Steered /\ [TurnControlNext]_turnControlVars => Steered'
    BY SteeringStep
<1>3. ControlInv /\ Steered /\ [TurnControlNext]_turnControlVars =>
          [\A c \in Conversations : steer[c].st = "stopping" /\ steer'[c].st = "go" =>
              ~InSidecar(steer[c].turn)]_turnControlVars
    BY SteeringStep DEF GoesOn
<1>4. QED
    BY <1>1, <1>2, <1>3, ControlInvariant, PTL DEF TurnControlSpec, SteeringWaits
-----------------------------------------------------------------------------
(* Where a message of the user is, from the activation that brought it (Origin). *)
PendingSends == Seq([id : Turns, mode : Modes])
Origin(m) == at[m] # "free" /\ from[m] = NoTurn
OnTheWay == Claimed \cup {"sent", "delivered", "finishing", "ended"}

(* Only messages of a conversation wait in it, and are sent in it. *)
Reserved(m) == \A c \in Conversations : Waits(c, m) => Origin(m) /\ on[m] = c
Sends(t) ==
    /\ at[t] = "new" => from[t] = NoTurn
    /\ from[t] # NoTurn => at[t] # "free" /\ Origin(from[t]) /\ on[from[t]] = on[t]

(* An activation that holds its message, for itself or for a reservation that it
   took out of the queue: before that, the reservation still waits. *)
Holds(t, m) ==
    \/ t = m /\ at[t] \in Preparing \cup OnTheWay
    \/ from[t] = m /\ at[t] \in OnTheWay

Safe(m) ==
    \/ m \in withdrawn \/ Waits(on[m], m) \/ at[m] \in {"thrown", "dropped"}
    \/ \E t \in Turns : Holds(t, m)

Sorted ==
    /\ queue \in [Conversations -> PendingSends]
    /\ mode \in [Turns -> Modes]
    /\ from \in [Turns -> Turns \cup {NoTurn}]

MessageInv == Sorted /\ \A m \in Turns : Reserved(m) /\ Sends(m) /\ (Origin(m) => Safe(m))

LEMMA MessageInit == TurnControlInit => MessageInv
<1> SUFFICES ASSUME TurnControlInit PROVE MessageInv
    OBVIOUS
<1>1. Sorted
    BY DEF TurnControlInit, ControlInit, Sorted, PendingSends, Modes
<1>2. QED
    BY <1>1 DEF TurnControlInit, ControlInit, MessageInv, Reserved, Waits, Sends, Origin
-----------------------------------------------------------------------------
(* What the operations on a queue do to who waits: one is added, or those of a set
   may leave. *)
Added(c, m) ==
    /\ queue' \in [Conversations -> PendingSends]
    /\ \A d \in Conversations, n \in Turns : Waits(d, n)' <=> Waits(d, n) \/ (d = c /\ n = m)
Removed(D) ==
    /\ queue' \in [Conversations -> PendingSends]
    /\ \A d \in Conversations, n \in Turns :
           /\ Waits(d, n)' => Waits(d, n)
           /\ Waits(d, n) => Waits(d, n)' \/ n \in D

LEMMA EnqueueAdds ==
    ASSUME Sorted, NEW c \in Conversations, NEW m \in Turns, NEW x \in Modes, Enqueue(c, m, x)
    PROVE  Added(c, m)
<1> DEFINE item == [id |-> m, mode |-> x]
<1>1. queue[c] \in Seq([id : Turns, mode : Modes]) /\ item \in [id : Turns, mode : Modes]
    BY DEF Sorted, PendingSends
<1>2. CASE Waits(c, m)
  <2>1. queue' = queue
      BY <1>2 DEF Enqueue, Sorted
  <2>2. QED
      BY <1>2, <2>1 DEF Added, Sorted, Waits
<1>3. CASE ~Waits(c, m)
  <2>1. queue' = [queue EXCEPT ![c] = Append(queue[c], item)]
      BY <1>3 DEF Enqueue
  <2>2. PICK longer : longer = Append(queue[c], item)
      OBVIOUS
  <2>3. /\ longer \in PendingSends /\ Len(longer) = Len(queue[c]) + 1 /\ Len(queue[c]) \in Nat
        /\ \A i \in 1..Len(queue[c]) : longer[i] = queue[c][i]
        /\ longer[Len(queue[c]) + 1] = item
      BY <1>1, <2>2, AppendProperties, LenProperties DEF PendingSends
  <2>4. DOMAIN longer = 1..Len(queue[c]) + 1 /\ DOMAIN queue[c] = 1..Len(queue[c])
      BY <1>1, <2>3, LenProperties DEF PendingSends
  <2>5. /\ \A i \in DOMAIN longer : i \in DOMAIN queue[c] \/ i = Len(queue[c]) + 1
        /\ \A i \in DOMAIN queue[c] : i \in DOMAIN longer /\ longer[i] = queue[c][i]
        /\ Len(queue[c]) + 1 \in DOMAIN longer
      BY <2>3, <2>4
  <2>6. /\ queue' \in [Conversations -> PendingSends]
        /\ queue'[c] = longer /\ \A d \in Conversations : d # c => queue'[d] = queue[d]
      BY <2>1, <2>2, <2>3 DEF Sorted
  <2>7. ASSUME NEW n \in Turns PROVE Waits(c, n)' <=> Waits(c, n) \/ n = m
      BY <2>3, <2>5, <2>6 DEF Waits
  <2>8. ASSUME NEW d \in Conversations, d # c, NEW n \in Turns PROVE Waits(d, n)' <=> Waits(d, n)
      BY <2>6, <2>8 DEF Waits
  <2>9. QED
      BY <2>6, <2>7, <2>8 DEF Added, Waits
<1>4. QED
    BY <1>2, <1>3

LEMMA FilterWaits ==
    ASSUME Sorted, NEW c \in Conversations, NEW I \in SUBSET DOMAIN queue[c],
           queue'[c] = Kept(queue[c], I)
    PROVE  /\ queue'[c] \in PendingSends
           /\ \A n \in Turns : Waits(c, n)' <=> \E i \in I : queue[c][i].id = n
<1>1. queue[c] \in Seq([id : Turns, mode : Modes])
    BY DEF Sorted, PendingSends
<1>2. /\ queue'[c] \in PendingSends
      /\ \A k \in DOMAIN queue'[c] : \E i \in I : queue'[c][k] = queue[c][i]
      /\ \A i \in I : \E k \in DOMAIN queue'[c] : queue'[c][k] = queue[c][i]
    BY <1>1, KeptOnes DEF PendingSends
<1>3. QED
    BY <1>2 DEF Waits

LEMMA WithoutRemoves ==
    ASSUME Sorted, NEW c \in Conversations, NEW m, queue' = [queue EXCEPT ![c] = Without(c, m)]
    PROVE  Removed({m})
<1>1. PICK I \in SUBSET DOMAIN queue[c] : I = {i \in DOMAIN queue[c] : queue[c][i].id # m}
    OBVIOUS
<1>2. queue'[c] = Kept(queue[c], I) /\ \A d \in Conversations : d # c => queue'[d] = queue[d]
    BY <1>1 DEF Sorted, Without
<1>3. /\ queue'[c] \in PendingSends
      /\ \A n \in Turns : Waits(c, n)' <=> \E i \in I : queue[c][i].id = n
    BY <1>2, FilterWaits
<1>4. queue' \in [Conversations -> PendingSends]
    BY <1>2, <1>3 DEF Sorted
<1>5. ASSUME NEW d \in Conversations, NEW n \in Turns
      PROVE  (Waits(d, n)' => Waits(d, n)) /\ (Waits(d, n) => Waits(d, n)' \/ n = m)
  <2>1. CASE d = c
      BY <1>1, <1>3, <2>1 DEF Waits
  <2>2. CASE d # c
      BY <1>2, <2>2 DEF Waits
  <2>3. QED
      BY <2>1, <2>2
<1>6. QED
    BY <1>4, <1>5 DEF Removed

LEMMA OrdinaryRemoves ==
    ASSUME Sorted, NEW C \in SUBSET Conversations, OrdinaryOnly(C), NEW D,
           D = UNION {Steering(c) : c \in C}
    PROVE  Removed(D)
<1>1. ASSUME NEW c \in Conversations
      PROVE  /\ queue'[c] \in PendingSends
             /\ \A n \in Turns : Waits(c, n)' => Waits(c, n)
             /\ \A n \in Turns : Waits(c, n) => Waits(c, n)' \/ n \in D
  <2>1. CASE c \in C
    <3>1. PICK I \in SUBSET DOMAIN queue[c] : I = {i \in DOMAIN queue[c] : queue[c][i].mode # "steer"}
        OBVIOUS
    <3>2. queue'[c] = Kept(queue[c], I)
        BY <2>1, <3>1 DEF OrdinaryOnly
    <3>3. /\ queue'[c] \in PendingSends
          /\ \A n \in Turns : Waits(c, n)' <=> \E i \in I : queue[c][i].id = n
        BY <3>2, FilterWaits
    <3>4. \A i \in DOMAIN queue[c] : i \in I \/ queue[c][i].id \in D
        BY <2>1, <3>1 DEF Steering
    <3>5. QED
        BY <3>3, <3>4 DEF Waits
  <2>2. CASE c \notin C
    <3>1. queue'[c] = queue[c]
        BY <2>2 DEF OrdinaryOnly
    <3>2. QED
        BY <3>1 DEF Sorted, Waits
  <2>3. QED
      BY <2>1, <2>2
<1>2. queue' \in [Conversations -> PendingSends]
    BY <1>1 DEF OrdinaryOnly
<1>3. QED
    BY <1>1, <1>2 DEF Removed
-----------------------------------------------------------------------------
(* The head of a queue is one that waits, and leaves it alone. *)
LEMMA HeadWaits ==
    ASSUME Sorted, NEW c \in Conversations, queue[c] # <<>>
    PROVE  /\ Head(queue[c]) \in [id : Turns, mode : Modes]
           /\ Waits(c, Head(queue[c]).id)
           /\ queue' = [queue EXCEPT ![c] = Tail(@)] => Removed({Head(queue[c]).id})
<1> DEFINE q == queue[c]
<1>1. q \in Seq([id : Turns, mode : Modes]) /\ q # <<>>
    BY DEF Sorted, PendingSends
<1>2. PICK rest : rest = Tail(q)
    OBVIOUS
<1>3. /\ Head(q) = q[1] /\ 1 \in DOMAIN q /\ rest \in Seq([id : Turns, mode : Modes])
      /\ Len(rest) = Len(q) - 1 /\ \A i \in 1..Len(q) - 1 : rest[i] = q[i + 1]
      /\ DOMAIN q = 1..Len(q) /\ DOMAIN rest = 1..Len(rest) /\ Len(q) \in Nat \ {0}
    BY <1>1, <1>2, HeadTailProperties, EmptySeq, LenProperties
<1>4. Head(q) \in [id : Turns, mode : Modes] /\ Waits(c, Head(q).id)
  <2>1. q[1] \in [id : Turns, mode : Modes]
      BY <1>1, <1>3, ElementOfSeq
  <2>2. QED
      BY <1>3, <2>1 DEF Waits
<1>5. ASSUME queue' = [queue EXCEPT ![c] = Tail(@)] PROVE Removed({Head(q).id})
  <2>1. /\ queue' \in [Conversations -> PendingSends]
        /\ queue'[c] = rest /\ \A d \in Conversations : d # c => queue'[d] = queue[d]
      BY <1>2, <1>3, <1>5 DEF Sorted, PendingSends
  <2>2. ASSUME NEW n \in Turns, Waits(c, n)' PROVE Waits(c, n)
    <3>1. PICK i \in DOMAIN rest : rest[i].id = n
        BY <2>1, <2>2 DEF Waits
    <3>2. i + 1 \in DOMAIN q /\ q[i + 1].id = n
        BY <1>3, <3>1
    <3>3. QED
        BY <3>2 DEF Waits
  <2>3. ASSUME NEW n \in Turns, Waits(c, n), n # Head(q).id PROVE Waits(c, n)'
    <3>1. PICK i \in DOMAIN q : q[i].id = n
        BY <2>3 DEF Waits
    <3>2. i - 1 \in DOMAIN rest /\ rest[i - 1] = q[i]
        BY <1>3, <2>3, <3>1
    <3>3. QED
        BY <2>1, <3>1, <3>2 DEF Waits
  <2>4. \A d \in Conversations, n \in Turns : d # c => (Waits(d, n)' <=> Waits(d, n))
      BY <2>1 DEF Waits
  <2>5. QED
      BY <2>1, <2>2, <2>3, <2>4 DEF Removed
<1>6. QED
    BY <1>4, <1>5
-----------------------------------------------------------------------------
messageVars == <<queue, at, on, from, mode, withdrawn>>

LEMMA SameMessages == ASSUME MessageInv, UNCHANGED messageVars PROVE MessageInv'
BY DEF MessageInv, messageVars, Sorted, Reserved, Sends, Origin, Safe, Holds, Waits

(* Reservations leave their queue because the user gave them up. *)
LEMMA GivenUp ==
    ASSUME MessageInv, Removed(withdrawn'), withdrawn \subseteq withdrawn',
           UNCHANGED <<at, on, from, mode>>, Shape
    PROVE  MessageInv'
<1>1. Sorted'
    BY DEF MessageInv, Sorted, Removed
<1>2. ASSUME NEW m \in Turns PROVE (Reserved(m) /\ Sends(m))'
    BY DEF MessageInv, Reserved, Sends, Origin, Removed
<1>3. ASSUME NEW m \in Turns, Origin(m)' PROVE Safe(m)'
  <2>1. on[m] \in Conversations /\ Safe(m)
      BY <1>3 DEF MessageInv, Origin, Shape
  <2>2. Waits(on[m], m) => Waits(on[m], m)' \/ m \in withdrawn'
      BY <2>1 DEF Removed
  <2>3. QED
      BY <2>1, <2>2 DEF Safe, Holds, Waits
<1>4. QED
    BY <1>1, <1>2, <1>3 DEF MessageInv

(* An activation starts, with a message of its own or one that waits. *)
LEMMA StartKeeps ==
    ASSUME MessageInv, Shape, UNCHANGED <<queue, withdrawn>>,
           NEW t \in Turns, NEW c \in Conversations, NEW place \in Preparing,
           NEW item \in Turns \cup {NoTurn}, NEW x \in Modes, NEW auto,
           Start(t, c, place, item, x, auto),
           item = NoTurn \/ (place # "new" /\ Waits(c, item))
    PROVE  MessageInv'
<1>1. /\ at[t] = "free" /\ place # "free"
      /\ at'[t] = place /\ on'[t] = c /\ from'[t] = item
      /\ \A u \in Turns : u # t => at'[u] = at[u] /\ on'[u] = on[u] /\ from'[u] = from[u]
    BY DEF Start, Goto, Shape, MessageInv, Sorted, Preparing
<1>2. Sorted'
    BY DEF Start, MessageInv, Sorted
<1>3. \A d \in Conversations, m \in Turns : Waits(d, m)' <=> Waits(d, m)
    BY DEF Waits
<1>4. ASSUME NEW m \in Turns, Origin(m) PROVE m # t /\ Origin(m)' /\ on'[m] = on[m] /\ on[m] \in Conversations
    BY <1>1, <1>4 DEF Origin, Shape
<1>5. ASSUME NEW m \in Turns PROVE Reserved(m)'
    BY <1>3, <1>4 DEF MessageInv, Reserved
<1>6. ASSUME NEW u \in Turns PROVE Sends(u)'
  <2>1. CASE u = t
    <3>1. item # NoTurn => item \in Turns /\ Origin(item) /\ on[item] = c
        BY DEF MessageInv, Reserved
    <3>2. QED
        BY <1>1, <1>4, <2>1, <3>1 DEF Sends
  <2>2. CASE u # t
      BY <1>1, <1>4, <2>2 DEF MessageInv, Sorted, Sends
  <2>3. QED
      BY <2>1, <2>2
<1>7. ASSUME NEW m \in Turns, Origin(m)' PROVE Safe(m)'
  <2>1. CASE m = t
      BY <1>1, <2>1 DEF Safe, Holds
  <2>2. CASE m # t
    <3>1. Origin(m) /\ Safe(m) /\ on[m] \in Conversations
        BY <1>1, <1>7, <2>2 DEF MessageInv, Origin, Shape
    <3>2. \A u \in Turns : Holds(u, m) => Holds(u, m)'
        BY <1>1 DEF Holds, OnTheWay, Preparing, Claimed
    <3>3. QED
        BY <1>1, <1>3, <2>2, <3>1, <3>2 DEF Safe
  <2>3. QED
      BY <2>1, <2>2
<1>8. QED
    BY <1>2, <1>5, <1>6, <1>7 DEF MessageInv

(* An activation moves to place: it holds its message there, or a new message is
   with the user, or its reservation waits, or waited all the time. *)
LEMMA MoveKeeps ==
    ASSUME MessageInv, Shape, NEW t \in Turns, NEW place \in Places \ {"free", "new"},
           at[t] # "free", at' = [at EXCEPT ![t] = place],
           queue' \in [Conversations -> PendingSends],
           \A d \in Conversations, n \in Turns :
               Waits(d, n)' => Waits(d, n) \/ (d = on[t] /\ n = Message(t)),
           \A d \in Conversations, n \in Turns :
               Waits(d, n) => Waits(d, n)' \/ (n = from[t] /\ place \in OnTheWay),
           \/ place \in OnTheWay
           \/ from[t] = NoTurn /\ place \in {"thrown", "dropped"} \cup Preparing
           \/ Waits(on[t], Message(t))'
           \/ from[t] # NoTurn /\ at[t] \in Preparing,
           UNCHANGED <<on, from, mode, withdrawn>>
    PROVE  MessageInv'
<1>1. at'[t] = place /\ \A u \in Turns : u # t => at'[u] = at[u]
    BY DEF Shape
<1>2. Sorted'
    BY DEF MessageInv, Sorted
<1>3. \A m \in Turns : Origin(m)' <=> Origin(m)
    BY <1>1 DEF Origin
<1>4. /\ Message(t) \in Turns /\ Origin(Message(t)) /\ on[Message(t)] = on[t]
      /\ from[t] = NoTurn => Message(t) = t
      /\ from[t] # NoTurn => Message(t) = from[t]
    BY DEF MessageInv, Sorted, Sends, Origin, Message
<1>5. ASSUME NEW m \in Turns PROVE Reserved(m)'
  <2>1. ASSUME NEW d \in Conversations, Waits(d, m)' PROVE Origin(m) /\ on[m] = d
      BY <1>4, <2>1 DEF MessageInv, Reserved
  <2>2. QED
      BY <1>3, <2>1 DEF Reserved
<1>6. ASSUME NEW u \in Turns PROVE Sends(u)'
    BY <1>1, <1>3 DEF MessageInv, Sorted, Sends
<1>7. ASSUME NEW m \in Turns, Origin(m)' PROVE Safe(m)'
  <2>1. Origin(m) /\ Safe(m) /\ on[m] \in Conversations /\ m # NoTurn
      BY <1>3, <1>7, NoTurnAssumption DEF MessageInv, Origin, Shape
  <2>2. CASE m = Message(t)
    <3>1. CASE place \in OnTheWay
        BY <1>1, <1>4, <2>2, <3>1 DEF Safe, Holds
    <3>2. CASE from[t] = NoTurn /\ place \in {"thrown", "dropped"} \cup Preparing
        BY <1>1, <1>4, <2>2, <3>2 DEF Safe, Holds
    <3>3. CASE Waits(on[t], Message(t))'
        BY <1>4, <2>2, <3>3 DEF Safe, Waits, Message
    <3>4. CASE from[t] # NoTurn /\ at[t] \in Preparing
      <4>1. ~Holds(t, m) /\ m # t
          BY <1>4, <2>1, <2>2, <3>4 DEF Holds, OnTheWay, Preparing, Claimed, Origin
      <4>2. \A u \in Turns : Holds(u, m) => Holds(u, m)'
          BY <1>1, <4>1 DEF Holds
      <4>3. Waits(on[m], m) => Waits(on[m], m)' \/ place \in OnTheWay
          BY <2>1
      <4>4. QED
          BY <1>1, <2>1, <3>1, <4>1, <4>2, <4>3 DEF Safe, Waits
    <3>5. QED
        BY <3>1, <3>2, <3>3, <3>4
  <2>3. CASE m # Message(t)
    <3>1. m # from[t]
        BY <1>4, <2>1, <2>3
    <3>2. Waits(on[m], m) => Waits(on[m], m)'
        BY <2>1, <3>1
    <3>3. m # t
        BY <1>4, <2>1, <2>3 DEF Origin
    <3>4. \A u \in Turns : Holds(u, m) => Holds(u, m)'
        BY <1>1, <3>1, <3>3 DEF Holds
    <3>5. QED
        BY <1>1, <2>1, <3>2, <3>3, <3>4 DEF Safe, Waits
  <2>4. QED
      BY <2>2, <2>3
<1>8. QED
    BY <1>2, <1>5, <1>6, <1>7 DEF MessageInv
-----------------------------------------------------------------------------
(* The queues are left alone. *)
LEMMA MoveAlone ==
    ASSUME MessageInv, Shape, NEW t \in Turns, NEW place \in Places \ {"free", "new"},
           at[t] # "free", at' = [at EXCEPT ![t] = place],
           \/ place \in OnTheWay
           \/ from[t] = NoTurn /\ place \in {"thrown", "dropped"} \cup Preparing
           \/ from[t] # NoTurn /\ at[t] \in Preparing,
           UNCHANGED <<queue, on, from, mode, withdrawn>>
    PROVE  MessageInv'
<1>1. queue' \in [Conversations -> PendingSends]
    BY DEF MessageInv, Sorted
<1>2. \A d \in Conversations, n \in Turns : Waits(d, n)' <=> Waits(d, n)
    BY DEF Waits
<1>3. QED
    BY <1>1, <1>2, MoveKeeps

(* What an activation carries is reserved. *)
LEMMA MoveReserves ==
    ASSUME MessageInv, Shape, NEW t \in Turns, NEW place \in Places \ {"free", "new"},
           at[t] # "free", at' = [at EXCEPT ![t] = place],
           Enqueue(on[t], Message(t), mode[t]),
           UNCHANGED <<on, from, mode, withdrawn>>
    PROVE  MessageInv'
<1>1. on[t] \in Conversations /\ Message(t) \in Turns /\ mode[t] \in Modes /\ Sorted
    BY DEF MessageInv, Sorted, Shape, Message
<1>2. Added(on[t], Message(t))
  <2>1. PICK c \in Conversations, m \in Turns, x \in Modes : c = on[t] /\ m = Message(t) /\ x = mode[t]
      BY <1>1
  <2>2. QED
      BY <1>1, <2>1, EnqueueAdds
<1>3. /\ queue' \in [Conversations -> PendingSends]
      /\ \A d \in Conversations, n \in Turns :
             Waits(d, n)' <=> Waits(d, n) \/ (d = on[t] /\ n = Message(t))
    BY <1>2 DEF Added
<1>4. Waits(on[t], Message(t))'
    BY <1>1, <1>3 DEF Waits, Message
<1>5. QED
    BY <1>3, <1>4, MoveKeeps

LEMMA CatchKeeps ==
    ASSUME MessageInv, Shape, NEW t \in Turns, Catch(t), at[t] # "free",
           UNCHANGED <<on, from, mode, withdrawn>>
    PROVE  MessageInv'
<1>1. CASE from[t] = NoTurn
    BY <1>1, MoveAlone DEF Catch, Goto, Places, Over
<1>2. CASE from[t] # NoTurn
  <2>1. at' = [at EXCEPT ![t] = "gone"] /\ Enqueue(on[t], Message(t), mode[t])
      BY <1>2 DEF Catch, Goto, Message
  <2>2. QED
      BY <2>1, MoveReserves DEF Places, Over
<1>3. QED
    BY <1>1, <1>2

LEMMA RouteKeeps == ASSUME MessageInv, Shape, NEW t \in Turns, Route(t) PROVE MessageInv'
<1>1. at[t] = "new" /\ from[t] = NoTurn /\ UNCHANGED <<on, from, mode, withdrawn>>
    BY DEF Route, MessageInv, Sends, sendFrame
<1>2. CASE at' = [at EXCEPT ![t] = "queued"] /\ Enqueue(on[t], t, mode[t])
    BY <1>1, <1>2, MoveReserves DEF Message, Places, Over
<1>3. CASE at' = [at EXCEPT ![t] = "prep"] /\ UNCHANGED queue
    BY <1>1, <1>3, MoveAlone DEF Places, Preparing
<1>4. QED
    BY <1>2, <1>3 DEF Route, Goto

LEMMA ClaimKeeps == ASSUME MessageInv, Shape, NEW t \in Turns, Claim(t) PROVE MessageInv'
<1>1. at[t] = "prep" /\ at[t] \in Preparing /\ UNCHANGED <<on, from, mode, withdrawn>>
    BY DEF Claim, Preparing
<1>2. CASE at' = [at EXCEPT ![t] = "dropped"] /\ UNCHANGED queue
    BY <1>1, <1>2, MoveAlone DEF Places, Over
<1>3. CASE LosesRace(t)
  <2>1. CASE from[t] = NoTurn
    <3>1. at' = [at EXCEPT ![t] = "queued"] /\ Enqueue(on[t], Message(t), mode[t])
        BY <1>3, <2>1 DEF LosesRace, Goto, Message
    <3>2. QED
        BY <1>1, <3>1, MoveReserves DEF Places, Over
  <2>2. CASE from[t] # NoTurn
      BY <1>1, <1>3, <2>2, MoveAlone DEF LosesRace, Goto, Places, Over
  <2>3. QED
      BY <2>1, <2>2
<1>4. CASE /\ at' = [at EXCEPT ![t] = "owned"]
           /\ queue' = [queue EXCEPT ![on[t]] = Without(on[t], from[t])]
  <2>1. PICK c, m : c \in Conversations /\ c = on[t] /\ m = from[t]
      BY <1>1 DEF Shape
  <2>2. Removed({m})
      BY <1>4, <2>1, WithoutRemoves DEF MessageInv
  <2>3. /\ queue' \in [Conversations -> PendingSends]
        /\ \A d \in Conversations, n \in Turns :
              (Waits(d, n)' => Waits(d, n)) /\ (Waits(d, n) => Waits(d, n)' \/ n = from[t])
      BY <2>1, <2>2 DEF Removed
  <2>4. "owned" \in OnTheWay /\ "owned" \in Places \ {"free", "new"}
      BY DEF OnTheWay, Claimed, Places
  <2>5. QED
      BY <1>1, <1>4, <2>3, <2>4, MoveKeeps
<1>5. QED
    BY <1>2, <1>3, <1>4 DEF Claim, Goto

(* After the claim: to the next check, to its own end, or into the catch. *)
LEMMA ChecksKeep ==
    ASSUME MessageInv, Shape, NEW t \in Turns,
           CheckOwner(t) \/ SaveRequest(t) \/ Dispatch(t) \/ SendingFails(t) \/ InvokeFails(t)
    PROVE  MessageInv'
<1>1. at[t] # "free" /\ UNCHANGED <<on, from, mode, withdrawn>>
    BY DEF CheckOwner, SaveRequest, Dispatch, SendingFails, InvokeFails, checkFrame
<1>2. CASE Catch(t)
    BY <1>1, <1>2, CatchKeeps
<1>3. CASE \E place \in {"saving", "journalled", "sent", "finishing"} :
               at' = [at EXCEPT ![t] = place] /\ UNCHANGED queue
    BY <1>1, <1>3, MoveAlone DEF OnTheWay, Places, Claimed
<1>4. \/ Catch(t)
      \/ BeginFinishing(t)
      \/ \E place \in {"saving", "journalled", "sent"} : Goto(t, place) /\ UNCHANGED queue
    BY DEF CheckOwner, SaveRequest, Dispatch, SendingFails, InvokeFails
<1>5. QED
    BY <1>2, <1>3, <1>4 DEF BeginFinishing, Goto

LEMMA OthersKeep ==
    ASSUME MessageInv, ControlInv, NEW t \in Turns,
           \/ PreparationFails(t) \/ DeliverSend(t) \/ SendIsLost(t)
           \/ \E caller \in Callers : FinishStopped(t, caller) \/ FinishStoppedFails(t, caller)
    PROVE  MessageInv'
<1>1. Shape /\ Placed(t) /\ Told(t)
    BY DEF ControlInv, Covered
<1>2. UNCHANGED <<on, from, mode, withdrawn>>
    BY DEF PreparationFails, DeliverSend, SendIsLost, FinishStopped, FinishStoppedFails, sendFrame
<1>3. CASE PreparationFails(t)
  <2>1. at[t] \in Preparing /\ at[t] # "free" /\ UNCHANGED queue
      BY <1>3 DEF PreparationFails, Preparing
  <2>2. PICK place \in {"thrown", "gone"} :
            at' = [at EXCEPT ![t] = place] /\ (place = "thrown" <=> from[t] = NoTurn)
      BY <1>3 DEF PreparationFails, Goto
  <2>3. place \in Places \ {"free", "new"}
      BY DEF Places, Over
  <2>4. QED
      BY <1>1, <1>2, <2>1, <2>2, <2>3, MoveAlone
<1>4. CASE DeliverSend(t) \/ SendIsLost(t)
  <2>1. at[t] # "free" /\ at' = [at EXCEPT ![t] = "delivered"] /\ UNCHANGED queue
      BY <1>1, <1>4 DEF DeliverSend, SendIsLost, Goto, Placed, controlVars
  <2>2. QED
      BY <1>1, <1>2, <2>1, MoveAlone DEF OnTheWay, Places, Over
<1>5. CASE \E caller \in Callers : FinishStopped(t, caller) \/ FinishStoppedFails(t, caller)
  <2>1. CASE UNCHANGED <<at, queue>>
      BY <1>2, <2>1, SameMessages DEF messageVars
  <2>2. CASE "send" \in finishing[t] /\ at' = [at EXCEPT ![t] = "ended"] /\ UNCHANGED queue
      BY <1>1, <1>2, <2>2, MoveAlone DEF Told, OnTheWay, Places, Over
  <2>3. CASE "send" \in finishing[t] /\ Catch(t)
      BY <1>1, <1>2, <2>3, CatchKeeps DEF Told
  <2>4. QED
      BY <1>5, <2>1, <2>2, <2>3 DEF FinishStopped, FinishStoppedFails, Goto
<1>6. QED
    BY <1>3, <1>4, <1>5

LEMMA StartsKeep ==
    ASSUME MessageInv, Shape,
           \/ \E t \in Typed, c \in Conversations, x \in Modes : Submit(t, c, x)
           \/ \E c \in Conversations : Drain(c) \/ Resume(c) \/ SteeringSends(c)
    PROVE  MessageInv'
<1>1. CASE \E t \in Typed, c \in Conversations, x \in Modes : Submit(t, c, x)
  <2>1. PICK t \in Turns, c \in Conversations, x \in Modes :
            Start(t, c, "new", NoTurn, x, FALSE) /\ UNCHANGED <<queue, withdrawn>>
      BY <1>1, TypedAssumption DEF Submit, controlVars, sendFrame
  <2>2. QED
      BY <2>1, StartKeeps DEF Preparing
<1>2. ASSUME NEW c \in Conversations, NEW t \in Turns, NEW auto, queue[c] # <<>>,
             Start(t, c, "prep", Head(queue[c]).id, Head(queue[c]).mode, auto),
             UNCHANGED <<queue, withdrawn>>
      PROVE  MessageInv'
  <2>1. Head(queue[c]) \in [id : Turns, mode : Modes] /\ Waits(c, Head(queue[c]).id)
      BY <1>2, HeadWaits DEF MessageInv
  <2>2. PICK item \in Turns, x \in Modes : item = Head(queue[c]).id /\ x = Head(queue[c]).mode
      BY <2>1
  <2>3. QED
      BY <1>2, <2>1, <2>2, StartKeeps DEF Preparing
<1>3. ASSUME NEW c \in Conversations, Drain(c) \/ Resume(c) PROVE MessageInv'
  <2>1. CASE UNCHANGED <<at, on, from, mode>>
      BY <1>3, <2>1, SameMessages DEF Drain, Resume, sendFrame, messageVars
  <2>2. QED
      BY <1>2, <1>3, <2>1 DEF Drain, Resume, sendFrame
<1>4. ASSUME NEW c \in Conversations, SteeringSends(c) PROVE MessageInv'
  <2>1. UNCHANGED <<queue, withdrawn>>
      BY <1>4 DEF SteeringSends, controlVars, sendFrame
  <2>2. CASE UNCHANGED <<at, on, from, mode>>
      BY <2>1, <2>2, SameMessages DEF messageVars
  <2>3. CASE Waits(c, steer[c].item) /\ \E t \in Turns : Start(t, c, "prep", steer[c].item, "steer", FALSE)
    <3>1. PICK item : item = steer[c].item
        OBVIOUS
    <3>2. item \in Turns
      <4>1. queue[c] \in Seq([id : Turns, mode : Modes])
          BY DEF MessageInv, Sorted, PendingSends
      <4>2. PICK i \in DOMAIN queue[c] : queue[c][i].id = item
          BY <2>3, <3>1 DEF Waits
      <4>3. queue[c][i] \in [id : Turns, mode : Modes]
          BY <4>1, <4>2, ElementOfSeq, LenProperties
      <4>4. QED
          BY <4>2, <4>3
    <3>3. QED
        BY <2>1, <2>3, <3>1, <3>2, StartKeeps DEF Preparing, Modes
  <2>4. QED
      BY <1>4, <2>2, <2>3 DEF SteeringSends
<1>5. QED
    BY <1>1, <1>3, <1>4

LEMMA GivingUpKeeps ==
    ASSUME MessageInv, Shape,
           HardStop \/ BeginRecovery \/ \E c \in Conversations : CancelQueuedSend(c) \/ StopConversation(c)
    PROVE  MessageInv'
<1>1. ASSUME NEW C \in SUBSET Conversations, OrdinaryOnly(C),
             withdrawn' = withdrawn \cup UNION {Steering(c) : c \in C},
             UNCHANGED <<at, on, from, mode>>
      PROVE  MessageInv'
  <2>1. PICK D : D = UNION {Steering(c) : c \in C}
      OBVIOUS
  <2>2. Removed(D)
      BY <1>1, <2>1, OrdinaryRemoves DEF MessageInv
  <2>3. Removed(withdrawn') /\ withdrawn \subseteq withdrawn'
      BY <1>1, <2>1, <2>2 DEF Removed
  <2>4. QED
      BY <1>1, <2>3, GivenUp
<1>2. CASE HardStop
  <2>1. PICK C \in SUBSET Conversations : C = {c \in Conversations : IsActive(c) \/ queue[c] # <<>>}
      OBVIOUS
  <2>2. QED
      BY <1>1, <1>2, <2>1 DEF HardStop, StopConversations
<1>3. CASE BeginRecovery
  <2>1. PICK C \in SUBSET Conversations : C = ActiveConversations
      BY DEF ActiveConversations
  <2>2. QED
      BY <1>1, <1>3, <2>1 DEF BeginRecovery
<1>4. CASE \E c \in Conversations : StopConversation(c)
    BY <1>1, <1>4 DEF StopConversation, StopConversations
<1>5. ASSUME NEW c \in Conversations, CancelQueuedSend(c) PROVE MessageInv'
  <2>1. /\ queue[c] # <<>> /\ queue' = [queue EXCEPT ![c] = Tail(@)]
        /\ withdrawn' = withdrawn \cup {Head(queue[c]).id} /\ UNCHANGED <<at, on, from, mode>>
      BY <1>5 DEF CancelQueuedSend
  <2>2. Removed({Head(queue[c]).id})
      BY <2>1, HeadWaits DEF MessageInv
  <2>3. Removed(withdrawn') /\ withdrawn \subseteq withdrawn'
      BY <2>1, <2>2 DEF Removed
  <2>4. QED
      BY <2>1, <2>3, GivenUp
<1>6. QED
    BY <1>2, <1>3, <1>4, <1>5

LEMMA IdleKeep ==
    ASSUME MessageInv,
           \/ SidecarDies \/ RecoveryStep \/ ResumeAutomation \/ UNCHANGED turnControlVars
           \/ \E c \in Conversations : SteeringTimesOut(c) \/ FlushQueueNow(c)
           \/ \E t \in Turns : \/ StopCallFails(t) \/ DeliverStop(t) \/ SidecarReports(t)
                               \/ HearRejected(t) \/ HearTerminal(t)
    PROVE  MessageInv'
<1>1. UNCHANGED messageVars
    BY DEF SidecarDies, RecoveryStep, RecoveryKills, RecoveryFails, RecoveryEnds, ResumeAutomation,
       SteeringTimesOut, FlushQueueNow, StopCallFails, DeliverStop, SidecarReports, HearRejected,
       HearTerminal, turnControlVars, controlVars, appVars, sendFrame, messageVars
<1>2. QED
    BY <1>1, SameMessages

LEMMA MessagesNext ==
    ControlInv /\ MessageInv /\ [TurnControlNext]_turnControlVars => MessageInv'
<1> SUFFICES ASSUME ControlInv, MessageInv, [TurnControlNext]_turnControlVars PROVE MessageInv'
    OBVIOUS
<1>1. Shape
    BY DEF ControlInv
<1>2. CASE UserStep
    BY <1>1, <1>2, StartsKeep, GivingUpKeeps, IdleKeep DEF UserStep
<1>3. CASE SidecarDies \/ RecoveryStep \/ UNCHANGED turnControlVars
    BY <1>3, IdleKeep
<1>4. ASSUME NEW t \in Turns, SendStep(t) PROVE MessageInv'
    BY <1>1, <1>4, RouteKeeps, ClaimKeeps, ChecksKeep DEF SendStep
<1>5. ASSUME NEW t \in Turns, FaultStep(t) PROVE MessageInv'
    BY <1>1, <1>5, OthersKeep, ChecksKeep, IdleKeep DEF FaultStep, Callers
<1>6. ASSUME NEW t \in Turns, WireStep(t) PROVE MessageInv'
    BY <1>6, OthersKeep, IdleKeep DEF WireStep, Callers
<1>7. ASSUME NEW c \in Conversations, SteerStep(c) PROVE MessageInv'
    BY <1>1, <1>7, StartsKeep, IdleKeep DEF SteerStep
<1>8. QED
    BY <1>2, <1>3, <1>4, <1>5, <1>6, <1>7 DEF TurnControlNext

THEOREM MessageInvariant == TurnControlSpec => []MessageInv
BY MessageInit, MessagesNext, ControlInvariant, PTL DEF TurnControlSpec

(* No message of the user disappears: after every race of sends, stops, steerings,
   failures and recoveries it is on its way, in the conversation, reserved, back in
   the composer or given up (src/App.tsx, handleSendMessage with its catch, and the
   queue of src/conversationControl.ts). *)
THEOREM MessagesAreKept == TurnControlSpec => []NothingLost
<1>1. MessageInv => NothingLost
  <2> SUFFICES ASSUME MessageInv, NEW m \in Turns, Origin(m)
               PROVE  \/ m \in withdrawn \/ Waits(on[m], m) \/ at[m] \in {"thrown", "dropped"}
                      \/ \E t \in Turns :
                            /\ Carries(t, m)
                            /\ at[t] \in Preparing \cup Claimed
                                          \cup {"sent", "delivered", "finishing", "ended"}
      BY DEF NothingLost, Origin
  <2>1. ASSUME NEW t \in Turns, Holds(t, m)
        PROVE  Carries(t, m) /\ at[t] \in Preparing \cup OnTheWay
      BY <2>1, NoTurnAssumption DEF Holds, Carries, Message, Origin, OnTheWay, Claimed
  <2>2. QED
      BY <2>1 DEF MessageInv, Safe, OnTheWay
<1>2. QED
    BY <1>1, MessageInvariant, PTL
-----------------------------------------------------------------------------
(* The rest of the types.  What no proof above reads: *)
Kinds ==
    /\ paused \in [Conversations -> Pauses] /\ allPaused \in BOOLEAN
    /\ drained \in [Turns -> BOOLEAN] /\ known \subseteq Turns
    /\ calls \subseteq {"send", "stop"} \X Turns

LEMMA RequestStopKinds ==
    ASSUME Shape, Kinds, NEW C \in SUBSET Conversations, RequestStop(C)
    PROVE  paused' \in [Conversations -> Pauses] /\ calls' \subseteq {"send", "stop"} \X Turns
<1>1. paused' \in [Conversations -> Pauses]
    BY DEF RequestStop, Kinds, Pauses
<1>2. ASSUME NEW d \in Conversations, IsActive(d) PROVE owner[d] \in Turns
    BY <1>2 DEF Shape, IsActive
<1>3. StopCalls(C) \subseteq {"send", "stop"} \X Turns
    BY <1>2 DEF StopCalls
<1>4. QED
    BY <1>1, <1>3 DEF RequestStop, Kinds

LEMMA CatchKinds ==
    ASSUME Kinds, NEW t \in Turns, Catch(t)
    PROVE  paused' \in [Conversations -> Pauses] /\ known' \subseteq Turns
BY DEF Catch, Pause, Kinds, Pauses

LEMMA StartKinds ==
    ASSUME Kinds, NEW t \in Turns, NEW c, NEW place, NEW item, NEW m, NEW auto \in BOOLEAN,
           Start(t, c, place, item, m, auto)
    PROVE  drained' \in [Turns -> BOOLEAN]
BY DEF Start, Kinds

LEMMA KindsStep ==
    ASSUME ControlInv, Kinds, [TurnControlNext]_turnControlVars
    PROVE  Kinds'
<1>1. Shape
    BY DEF ControlInv
<1>2. CASE UNCHANGED <<paused, allPaused, drained, known, calls>>
    BY <1>2 DEF Kinds
<1>3. CASE UNCHANGED turnControlVars
    BY <1>2, <1>3 DEF turnControlVars, controlVars, appVars, wireVars
<1>4. CASE UserStep
  <2>1. ASSUME NEW t \in Typed, NEW c \in Conversations, NEW m \in Modes, Submit(t, c, m)
        PROVE  Kinds'
    <3>1. t \in Turns
        BY TypedAssumption
    <3>2. drained' \in [Turns -> BOOLEAN]
        BY <2>1, <3>1, StartKinds DEF Submit
    <3>3. QED
        BY <2>1, <3>2 DEF Submit, Kinds, controlVars, wireVars, sendFrame
  <2>2. ASSUME NEW c \in Conversations, Resume(c) PROVE Kinds'
    <3>1. drained' \in [Turns -> BOOLEAN]
        BY <2>2, StartKinds DEF Resume, Kinds
    <3>2. paused' \in [Conversations -> Pauses]
        BY <2>2 DEF Resume, Pause, Kinds, Pauses
    <3>3. QED
        BY <2>2, <3>1, <3>2 DEF Resume, Kinds, wireVars, sendFrame
  <2>3. ASSUME NEW C \in SUBSET Conversations, NEW S, StopConversations(C, S),
               allPaused' \in BOOLEAN
        PROVE  Kinds'
    <3>1. paused' \in [Conversations -> Pauses] /\ calls' \subseteq {"send", "stop"} \X Turns
        BY <1>1, <2>3, RequestStopKinds DEF StopConversations
    <3>2. UNCHANGED <<drained, known>>
        BY <2>3 DEF StopConversations
    <3>3. QED
        BY <2>3, <3>1, <3>2 DEF Kinds
  <2>4. ASSUME NEW c \in Conversations, StopConversation(c) PROVE Kinds'
      BY <2>3, <2>4 DEF StopConversation, Kinds
  <2>5. CASE HardStop
    <3>1. PICK C \in SUBSET Conversations : C = {c \in Conversations : IsActive(c) \/ queue[c] # <<>>}
        OBVIOUS
    <3>2. StopConversations(C, Hit(Conversations)) /\ allPaused' = TRUE
        BY <2>5, <3>1 DEF HardStop
    <3>3. QED
        BY <2>3, <3>2
  <2>6. ASSUME NEW c \in Conversations, FlushQueueNow(c) PROVE Kinds'
    <3>1. RequestStop({c})
        BY <2>6 DEF FlushQueueNow, BeginSteering
    <3>2. paused' \in [Conversations -> Pauses] /\ calls' \subseteq {"send", "stop"} \X Turns
        BY <1>1, <3>1, RequestStopKinds
    <3>3. UNCHANGED <<allPaused, drained, known>>
        BY <2>6 DEF FlushQueueNow, sendFrame
    <3>4. QED
        BY <3>2, <3>3 DEF Kinds
  <2>7. CASE ResumeAutomation
      BY <2>7 DEF ResumeAutomation, Kinds, appVars, wireVars
  <2>8. CASE BeginRecovery
    <3>1. paused' \in [Conversations -> Pauses]
        BY <2>8 DEF BeginRecovery, Kinds, Pauses
    <3>2. QED
        BY <2>8, <3>1 DEF BeginRecovery, Kinds, wireVars
  <2>9. ASSUME NEW c \in Conversations, CancelQueuedSend(c) PROVE Kinds'
      BY <1>2, <2>9 DEF CancelQueuedSend, wireVars
  <2>10. QED
      BY <1>4, <2>1, <2>2, <2>4, <2>5, <2>6, <2>7, <2>8, <2>9 DEF UserStep
<1>5. CASE SidecarDies \/ RecoveryStep
  <2>1. UNCHANGED <<paused, allPaused, drained, known>> /\ calls' \subseteq calls
      BY <1>5 DEF SidecarDies, RecoveryStep, RecoveryKills, RecoveryFails, RecoveryEnds, Dies,
         controlVars, appVars, wireVars
  <2>2. QED
      BY <2>1 DEF Kinds
<1>6. ASSUME NEW t \in Turns, SendStep(t) PROVE Kinds'
  <2>1. CASE Route(t)
    <3>1. on[t] \in Conversations
        BY <1>1, <2>1 DEF Shape, Route
    <3>2. UNCHANGED <<paused, calls>> \/ RequestStop({on[t]})
        BY <2>1 DEF Route, BeginSteering
    <3>3. paused' \in [Conversations -> Pauses] /\ calls' \subseteq {"send", "stop"} \X Turns
        BY <1>1, <3>1, <3>2, RequestStopKinds DEF Kinds
    <3>4. UNCHANGED <<allPaused, drained, known>>
        BY <2>1 DEF Route, sendFrame
    <3>5. QED
        BY <3>3, <3>4 DEF Kinds
  <2>2. CASE Claim(t)
    <3>1. paused' \in [Conversations -> Pauses] /\ known' \subseteq Turns
        BY <2>2 DEF Claim, Pause, Kinds, Pauses
    <3>2. QED
        BY <2>2, <3>1 DEF Claim, Kinds, wireVars
  <2>3. CASE CheckOwner(t) \/ SaveRequest(t) \/ Dispatch(t)
    <3>1. UNCHANGED <<paused, known>> \/ Catch(t)
        BY <2>3 DEF CheckOwner, SaveRequest, Dispatch, BeginFinishing
    <3>2. paused' \in [Conversations -> Pauses] /\ known' \subseteq Turns
        BY <3>1, CatchKinds DEF Kinds
    <3>3. UNCHANGED <<allPaused, drained>> /\ calls' \subseteq calls \cup {<<"send", t>>}
        BY <2>3 DEF CheckOwner, SaveRequest, Dispatch, checkFrame
    <3>4. QED
        BY <3>2, <3>3 DEF Kinds
  <2>4. QED
      BY <1>6, <2>1, <2>2, <2>3 DEF SendStep
<1>7. ASSUME NEW t \in Turns, FaultStep(t) PROVE Kinds'
  <2>1. CASE PreparationFails(t)
    <3>1. paused' \in [Conversations -> Pauses]
        BY <2>1 DEF PreparationFails, Pause, Kinds, Pauses
    <3>2. QED
        BY <2>1, <3>1 DEF PreparationFails, Kinds, wireVars, sendFrame
  <2>2. CASE ~PreparationFails(t)
    <3>1. UNCHANGED <<paused, known>> \/ Catch(t)
        BY <1>7, <2>2 DEF FaultStep, SendingFails, InvokeFails, StopCallFails, FinishStoppedFails,
           controlVars, sendFrame
    <3>2. paused' \in [Conversations -> Pauses] /\ known' \subseteq Turns
        BY <3>1, CatchKinds DEF Kinds
    <3>3. UNCHANGED <<allPaused, drained>> /\ calls' \subseteq calls
        BY <1>7, <2>2 DEF FaultStep, SendingFails, InvokeFails, StopCallFails, FinishStoppedFails,
           controlVars, sendFrame, checkFrame, wireVars
    <3>4. QED
        BY <3>2, <3>3 DEF Kinds
  <2>3. QED
      BY <2>1, <2>2
<1>8. ASSUME NEW t \in Turns, WireStep(t) PROVE Kinds'
  <2>1. paused' \in [Conversations -> Pauses]
    <3>1. CASE HearTerminal(t)
        BY <3>1 DEF HearTerminal, PauseOnFailure, Pause, Kinds, Pauses
    <3>2. CASE ~HearTerminal(t)
        BY <1>8, <3>2 DEF WireStep, DeliverSend, SendIsLost, DeliverStop, SidecarReports, HearRejected,
           FinishStopped, Kinds, controlVars
    <3>3. QED
        BY <3>1, <3>2
  <2>2. UNCHANGED <<allPaused, drained>> /\ calls' \subseteq calls /\ known' \subseteq known
      BY <1>8 DEF WireStep, DeliverSend, SendIsLost, DeliverStop, SidecarReports, HearRejected,
         HearTerminal, FinishStopped, controlVars, appVars, wireVars, sendFrame
  <2>3. QED
      BY <2>1, <2>2 DEF Kinds
<1>9. ASSUME NEW c \in Conversations, SteerStep(c) PROVE Kinds'
  <2>1. drained' \in [Turns -> BOOLEAN]
      BY <1>9, StartKinds DEF SteerStep, Drain, SteeringSends, SteeringTimesOut, Kinds, sendFrame
  <2>2. paused' \in [Conversations -> Pauses]
      BY <1>9 DEF SteerStep, Drain, SteeringSends, SteeringTimesOut, Pause, Kinds, Pauses, controlVars
  <2>3. UNCHANGED <<allPaused, known, calls>>
      BY <1>9 DEF SteerStep, Drain, SteeringSends, SteeringTimesOut, controlVars, wireVars, sendFrame
  <2>4. QED
      BY <2>1, <2>2, <2>3 DEF Kinds
<1>10. QED
    BY <1>3, <1>4, <1>5, <1>6, <1>7, <1>8, <1>9 DEF TurnControlNext
-----------------------------------------------------------------------------
(* The gate and the runs shown agree: an owned conversation shows the turn that
   owns it, running or being stopped, and that turn was started for it. *)
Shown(c) ==
    /\ IsActive(c) => owner[c] = run[c].turn /\ on[owner[c]] = c
    /\ IsActive(c) <=> run[c].state \in {"running", "stopping"}

(* How a step may change who owns what. *)
Outcomes == {"completed", "failed", "stopped"}
Enters == \E t \in Turns, c \in Conversations :
              at[t] = "free" /\ on' = [on EXCEPT ![t] = c] /\ UNCHANGED <<owner, run>>
Stops == UNCHANGED <<owner, on>> /\ \E C \in SUBSET Conversations : StoppingRuns(C)
Frees == UNCHANGED on /\ \E t \in Turns, state \in Outcomes : FreeRun(on[t], t, state)
Takes == UNCHANGED on /\ \E t \in Turns : on[t] \in Conversations /\ ClaimRun(on[t], t)
OwnersChange == UNCHANGED <<owner, run, on>> \/ Enters \/ Stops \/ Frees \/ Takes

LEMMA ShownAfter ==
    ASSUME ControlInv, \A c \in Conversations : Shown(c), OwnersChange, NEW c \in Conversations
    PROVE  Shown(c)'
<1>1. /\ owner \in [Conversations -> Turns \cup {NoTurn}]
      /\ run \in [Conversations -> [turn : Turns \cup {NoTurn}, state : RunStates]]
      /\ on \in [Turns -> Conversations \cup {NoConv}]
    BY DEF ControlInv, Shape
<1>2. CASE UNCHANGED <<owner, run, on>>
    BY <1>2 DEF Shown, IsActive
<1>3. CASE Enters
  <2>1. PICK t \in Turns, d \in Conversations :
            at[t] = "free" /\ on' = [on EXCEPT ![t] = d] /\ UNCHANGED <<owner, run>>
      BY <1>3 DEF Enters
  <2>2. owner[c] # t
      BY <2>1 DEF ControlInv, Covered, Began
  <2>3. QED
      BY <1>1, <2>1, <2>2 DEF Shown, IsActive
<1>4. CASE Stops
    BY <1>1, <1>4 DEF Stops, StoppingRuns, Shown, IsActive
<1>5. CASE Frees
  <2>1. PICK t \in Turns, state \in Outcomes : FreeRun(on[t], t, state) /\ UNCHANGED on
      BY <1>5 DEF Frees
  <2>2. CASE Accepts(on[t], t) /\ c = on[t]
    <3>1. owner'[c] = NoTurn /\ run'[c].state = state
        BY <1>1, <2>1, <2>2 DEF FreeRun
    <3>2. QED
        BY <3>1 DEF Shown, IsActive, Outcomes
  <2>3. CASE ~(Accepts(on[t], t) /\ c = on[t])
    <3>1. owner'[c] = owner[c] /\ run'[c] = run[c]
        BY <1>1, <2>1, <2>3 DEF FreeRun
    <3>2. QED
        BY <2>1, <3>1 DEF Shown, IsActive
  <2>4. QED
      BY <2>2, <2>3
<1>6. CASE Takes
  <2>1. PICK t \in Turns : on[t] \in Conversations /\ ClaimRun(on[t], t) /\ UNCHANGED on
      BY <1>6 DEF Takes
  <2>2. QED
      BY <1>1, <2>1, NoTurnAssumption DEF ClaimRun, Shown, IsActive
<1>7. QED
    BY <1>2, <1>3, <1>4, <1>5, <1>6 DEF OwnersChange

LEMMA StartEnters ==
    ASSUME NEW t \in Turns, NEW c \in Conversations, NEW place, NEW item, NEW m, NEW auto,
           Start(t, c, place, item, m, auto), UNCHANGED <<owner, run>>
    PROVE  OwnersChange
BY DEF Start, Enters, OwnersChange

LEMMA CatchFrees == ASSUME NEW t \in Turns, Catch(t), UNCHANGED on PROVE OwnersChange
BY DEF Catch, Frees, Outcomes, OwnersChange

LEMMA OwnersStep ==
    ASSUME ControlInv, [TurnControlNext]_turnControlVars
    PROVE  OwnersChange
<1>1. CASE UNCHANGED <<owner, run, on>>
    BY <1>1 DEF OwnersChange
<1>2. CASE UNCHANGED turnControlVars \/ SidecarDies \/ RecoveryStep
    BY <1>1, <1>2 DEF turnControlVars, controlVars, appVars, SidecarDies, RecoveryStep,
       RecoveryKills, RecoveryFails, RecoveryEnds
<1>3. ASSUME NEW C \in SUBSET Conversations, StoppingRuns(C), UNCHANGED <<owner, on>>
      PROVE  OwnersChange
    BY <1>3 DEF Stops, OwnersChange
<1>4. CASE UserStep
  <2>1. ASSUME NEW t \in Typed, NEW c \in Conversations, NEW m \in Modes, Submit(t, c, m)
        PROVE  OwnersChange
    <3>1. t \in Turns
        BY TypedAssumption
    <3>2. QED
        BY <2>1, <3>1, StartEnters DEF Submit, controlVars
  <2>2. ASSUME NEW c \in Conversations, Resume(c) PROVE OwnersChange
      BY <1>1, <2>2, StartEnters DEF Resume
  <2>3. ASSUME NEW c \in Conversations, CancelQueuedSend(c) \/ ResumeAutomation PROVE OwnersChange
      BY <1>1, <2>3 DEF CancelQueuedSend, ResumeAutomation, appVars
  <2>4. ASSUME NEW c \in Conversations, StopConversation(c) PROVE OwnersChange
      BY <1>3, <2>4 DEF StopConversation, StopConversations, RequestStop
  <2>5. ASSUME NEW c \in Conversations, FlushQueueNow(c) PROVE OwnersChange
      BY <1>3, <2>5 DEF FlushQueueNow, BeginSteering, RequestStop
  <2>6. CASE HardStop
    <3>1. PICK C \in SUBSET Conversations : C = {c \in Conversations : IsActive(c) \/ queue[c] # <<>>}
        OBVIOUS
    <3>2. StoppingRuns(C) /\ UNCHANGED <<owner, on>>
        BY <2>6, <3>1 DEF HardStop, StopConversations, RequestStop
    <3>3. QED
        BY <1>3, <3>2
  <2>7. CASE BeginRecovery
      BY <1>3, <2>7 DEF BeginRecovery
  <2>8. CASE ResumeAutomation
      BY <1>1, <2>8 DEF ResumeAutomation, appVars
  <2>9. QED
      BY <1>4, <2>1, <2>2, <2>3, <2>4, <2>5, <2>6, <2>7, <2>8 DEF UserStep
<1>5. ASSUME NEW t \in Turns, SendStep(t) PROVE OwnersChange
  <2>1. CASE Route(t)
    <3>1. on[t] \in Conversations
        BY <2>1 DEF ControlInv, Shape, Route
    <3>2. (UNCHANGED run \/ StoppingRuns({on[t]})) /\ UNCHANGED <<owner, on>>
        BY <2>1 DEF Route, BeginSteering, RequestStop
    <3>3. QED
        BY <1>1, <1>3, <3>1, <3>2
  <2>2. CASE Claim(t)
    <3>1. on[t] \in Conversations
        BY <2>2 DEF ControlInv, Shape, Claim
    <3>2. UNCHANGED on /\ (UNCHANGED <<owner, run>> \/ ClaimRun(on[t], t))
        BY <2>2 DEF Claim
    <3>3. QED
        BY <1>1, <3>1, <3>2 DEF Takes, OwnersChange
  <2>3. CASE CheckOwner(t) \/ SaveRequest(t) \/ Dispatch(t)
    <3>1. UNCHANGED on /\ (UNCHANGED <<owner, run>> \/ Catch(t))
        BY <2>3 DEF CheckOwner, SaveRequest, Dispatch, BeginFinishing, checkFrame
    <3>2. QED
        BY <1>1, <3>1, CatchFrees
  <2>4. QED
      BY <1>5, <2>1, <2>2, <2>3 DEF SendStep
<1>6. ASSUME NEW t \in Turns, FaultStep(t) PROVE OwnersChange
  <2>1. UNCHANGED on /\ (UNCHANGED <<owner, run>> \/ Catch(t))
      BY <1>6 DEF FaultStep, PreparationFails, SendingFails, InvokeFails, StopCallFails,
         FinishStoppedFails, checkFrame, controlVars
  <2>2. QED
      BY <1>1, <2>1, CatchFrees
<1>7. ASSUME NEW t \in Turns, WireStep(t) PROVE OwnersChange
  <2>1. CASE HearTerminal(t)
    <3>1. UNCHANGED on /\ (UNCHANGED <<owner, run>> \/ \E state \in Outcomes : FreeRun(on[t], t, state))
        BY <2>1 DEF HearTerminal, Outcomes
    <3>2. QED
        BY <1>1, <3>1 DEF Frees, OwnersChange
  <2>2. CASE \E caller \in Callers : FinishStopped(t, caller)
    <3>1. UNCHANGED on /\ \E state \in Outcomes : FreeRun(on[t], t, state)
        BY <2>2 DEF FinishStopped, Outcomes
    <3>2. QED
        BY <3>1 DEF Frees, OwnersChange
  <2>3. CASE DeliverSend(t) \/ SendIsLost(t) \/ DeliverStop(t) \/ SidecarReports(t) \/ HearRejected(t)
      BY <1>1, <2>3 DEF DeliverSend, SendIsLost, DeliverStop, SidecarReports, HearRejected,
         controlVars, appVars
  <2>4. QED
      BY <1>7, <2>1, <2>2, <2>3 DEF WireStep, Callers
<1>8. ASSUME NEW c \in Conversations, SteerStep(c) PROVE OwnersChange
  <2>1. UNCHANGED <<owner, run>>
      BY <1>8 DEF SteerStep, Drain, SteeringSends, SteeringTimesOut, controlVars
  <2>2. QED
      BY <1>1, <1>8, <2>1, StartEnters DEF SteerStep, Drain, SteeringSends, SteeringTimesOut
<1>9. QED
    BY <1>2, <1>4, <1>5, <1>6, <1>7, <1>8 DEF TurnControlNext
-----------------------------------------------------------------------------
(* A message is reserved once. *)
Single(c) == \A i, j \in DOMAIN queue[c] : i # j => queue[c][i].id # queue[c][j].id
Singles == \A c \in Conversations : Single(c)

LEMMA EnqueueSingle ==
    ASSUME Sorted, Singles, NEW c, NEW m \in Turns, NEW x \in Modes, Enqueue(c, m, x)
    PROVE  Singles'
<1> DEFINE item == [id |-> m, mode |-> x]
<1>1. CASE c \notin Conversations \/ Waits(c, m)
  <2>1. queue' = queue
      BY <1>1 DEF Enqueue, Sorted
  <2>2. QED
      BY <2>1 DEF Singles, Single
<1>2. CASE c \in Conversations /\ ~Waits(c, m)
  <2>1. queue[c] \in Seq([id : Turns, mode : Modes]) /\ item \in [id : Turns, mode : Modes]
      BY <1>2 DEF Sorted, PendingSends
  <2>2. PICK longer : longer = Append(queue[c], item)
      OBVIOUS
  <2>3. PICK n \in Nat : n = Len(queue[c])
      BY <2>1, LenProperties
  <2>4. /\ DOMAIN queue[c] = 1..n /\ DOMAIN longer = 1..(n + 1)
        /\ \A i \in 1..n : longer[i] = queue[c][i]
        /\ longer[n + 1].id = m
      BY <2>1, <2>2, <2>3, AppendProperties, LenProperties
  <2>5. ASSUME NEW i \in 1..(n + 1), NEW j \in 1..(n + 1), i # j PROVE longer[i].id # longer[j].id
    <3>1. \A k \in 1..n : queue[c][k].id # m
        BY <1>2, <2>4 DEF Waits
    <3>2. (i \in 1..n \/ i = n + 1) /\ (j \in 1..n \/ j = n + 1)
        OBVIOUS
    <3>3. QED
        BY <1>2, <2>4, <2>5, <3>1, <3>2 DEF Singles, Single
  <2>6. queue'[c] = longer /\ \A d \in Conversations : d # c => queue'[d] = queue[d]
      BY <1>2, <2>2 DEF Enqueue, Sorted
  <2>7. QED
      BY <2>4, <2>5, <2>6 DEF Singles, Single
<1>3. QED
    BY <1>1, <1>2

LEMMA KeptSingle ==
    ASSUME NEW V, NEW s \in Seq(V), NEW I \in SUBSET DOMAIN s,
           \A i, j \in DOMAIN s : i # j => s[i].id # s[j].id
    PROVE  \A k, l \in DOMAIN Kept(s, I) : k # l => Kept(s, I)[k].id # Kept(s, I)[l].id
<1>1. PICK kept : kept = Kept(s, I)
    OBVIOUS
<1>2. \A k, l \in DOMAIN kept : k # l => \E i, j \in I : i # j /\ kept[k] = s[i] /\ kept[l] = s[j]
    BY <1>1, KeptOnes
<1>3. \A k, l \in DOMAIN kept : k # l => kept[k].id # kept[l].id
    BY <1>2
<1>4. QED
    BY <1>1, <1>3

(* What a filter leaves, in some or all conversations. *)
LEMMA FilteredSingle ==
    ASSUME Sorted, Singles,
           \A c \in Conversations :
               \/ queue'[c] = queue[c]
               \/ \E I \in SUBSET DOMAIN queue[c] : queue'[c] = Kept(queue[c], I)
    PROVE  Singles'
<1> SUFFICES ASSUME NEW c \in Conversations PROVE Single(c)'
    BY DEF Singles
<1>1. CASE queue'[c] = queue[c]
    BY <1>1 DEF Singles, Single
<1>2. ASSUME NEW I \in SUBSET DOMAIN queue[c], queue'[c] = Kept(queue[c], I) PROVE Single(c)'
  <2>1. queue[c] \in Seq([id : Turns, mode : Modes])
      BY DEF Sorted, PendingSends
  <2>2. \A i, j \in DOMAIN queue[c] : i # j => queue[c][i].id # queue[c][j].id
      BY DEF Singles, Single
  <2>3. QED
      BY <1>2, <2>1, <2>2, KeptSingle DEF Single
<1>3. QED
    BY <1>1, <1>2

LEMMA TailSingle ==
    ASSUME Sorted, Singles, NEW c \in Conversations, queue[c] # <<>>,
           queue' = [queue EXCEPT ![c] = Tail(@)]
    PROVE  Singles'
<1>1. queue[c] \in Seq([id : Turns, mode : Modes])
    BY DEF Sorted, PendingSends
<1>2. PICK rest : rest = Tail(queue[c])
    OBVIOUS
<1>3. \A i \in DOMAIN rest : i \in Int /\ i + 1 \in DOMAIN queue[c] /\ rest[i] = queue[c][i + 1]
    BY <1>1, <1>2, HeadTailProperties, LenProperties
<1>4. \A i, j \in DOMAIN rest : i # j => rest[i].id # rest[j].id
    BY <1>3 DEF Singles, Single
<1>5. queue'[c] = rest /\ \A d \in Conversations : d # c => queue'[d] = queue[d]
    BY <1>2 DEF Sorted
<1>6. QED
    BY <1>4, <1>5 DEF Singles, Single

LEMMA WithoutSingle ==
    ASSUME Sorted, Singles, NEW c, NEW m, queue' = [queue EXCEPT ![c] = Without(c, m)]
    PROVE  Singles'
<1>1. PICK I \in SUBSET DOMAIN queue[c] : I = {i \in DOMAIN queue[c] : queue[c][i].id # m}
    OBVIOUS
<1>2. \A d \in Conversations : queue'[d] = queue[d] \/ (d = c /\ queue'[d] = Kept(queue[d], I))
    BY <1>1 DEF Sorted, Without
<1>3. QED
    BY <1>2, FilteredSingle

LEMMA OrdinarySingle ==
    ASSUME Sorted, Singles, NEW C, OrdinaryOnly(C)
    PROVE  Singles'
<1>1. ASSUME NEW c \in Conversations
      PROVE  \/ queue'[c] = queue[c]
             \/ \E I \in SUBSET DOMAIN queue[c] : queue'[c] = Kept(queue[c], I)
  <2>1. PICK I \in SUBSET DOMAIN queue[c] : I = {i \in DOMAIN queue[c] : queue[c][i].mode # "steer"}
      OBVIOUS
  <2>2. queue'[c] = queue[c] \/ queue'[c] = Kept(queue[c], I)
      BY <2>1 DEF OrdinaryOnly
  <2>3. QED
      BY <2>2
<1>2. QED
    BY <1>1, FilteredSingle

LEMMA CatchSingle ==
    ASSUME Sorted, Singles, NEW t \in Turns, Catch(t)
    PROVE  Singles'
<1>1. UNCHANGED queue \/ (from[t] # NoTurn /\ Enqueue(on[t], from[t], mode[t]))
    BY DEF Catch
<1>2. from[t] \in Turns \cup {NoTurn} /\ mode[t] \in Modes
    BY DEF Sorted
<1>3. CASE UNCHANGED queue
    BY <1>3 DEF Singles, Single
<1>4. QED
    BY <1>1, <1>2, <1>3, EnqueueSingle

LEMMA SinglesStep ==
    ASSUME Sorted, Singles, [TurnControlNext]_turnControlVars
    PROVE  Singles'
<1>1. CASE UNCHANGED queue
    BY <1>1 DEF Singles, Single
<1>2. CASE UNCHANGED turnControlVars \/ SidecarDies \/ RecoveryStep
    BY <1>1, <1>2 DEF turnControlVars, controlVars, SidecarDies, RecoveryStep,
       RecoveryKills, RecoveryFails, RecoveryEnds
<1>3. CASE UserStep
  <2>1. CASE \E c \in Conversations : CancelQueuedSend(c)
      BY <2>1, TailSingle DEF CancelQueuedSend
  <2>2. CASE HardStop \/ \E c \in Conversations : StopConversation(c)
      BY <2>2, OrdinarySingle DEF HardStop, StopConversation, StopConversations
  <2>3. CASE BeginRecovery
      BY <2>3, OrdinarySingle DEF BeginRecovery
  <2>4. CASE \/ ResumeAutomation
             \/ \E t \in Typed, c \in Conversations, m \in Modes : Submit(t, c, m)
             \/ \E c \in Conversations : Resume(c) \/ FlushQueueNow(c)
      BY <1>1, <2>4 DEF ResumeAutomation, Submit, Resume, FlushQueueNow, controlVars
  <2>5. QED
      BY <1>3, <2>1, <2>2, <2>3, <2>4 DEF UserStep
<1>4. ASSUME NEW t \in Turns, SendStep(t) PROVE Singles'
  <2>1. from[t] \in Turns \cup {NoTurn} /\ mode[t] \in Modes
      BY DEF Sorted
  <2>2. CASE Route(t)
    <3>1. UNCHANGED queue \/ Enqueue(on[t], t, mode[t])
        BY <2>2 DEF Route
    <3>2. QED
        BY <1>1, <2>1, <3>1, EnqueueSingle
  <2>3. CASE Claim(t)
    <3>1. \/ UNCHANGED queue \/ Enqueue(on[t], t, mode[t])
          \/ queue' = [queue EXCEPT ![on[t]] = Without(on[t], from[t])]
        BY <2>3 DEF Claim, LosesRace
    <3>2. QED
        BY <1>1, <2>1, <3>1, EnqueueSingle, WithoutSingle
  <2>4. CASE CheckOwner(t) \/ SaveRequest(t) \/ Dispatch(t)
    <3>1. UNCHANGED queue \/ Catch(t)
        BY <2>4 DEF CheckOwner, SaveRequest, Dispatch, BeginFinishing
    <3>2. QED
        BY <1>1, <3>1, CatchSingle
  <2>5. QED
      BY <1>4, <2>2, <2>3, <2>4 DEF SendStep
<1>5. ASSUME NEW t \in Turns, FaultStep(t) PROVE Singles'
  <2>1. UNCHANGED queue \/ Catch(t)
      BY <1>5 DEF FaultStep, PreparationFails, SendingFails, InvokeFails, StopCallFails,
         FinishStoppedFails, controlVars
  <2>2. QED
      BY <1>1, <2>1, CatchSingle
<1>6. ASSUME NEW t \in Turns, WireStep(t) PROVE Singles'
    BY <1>1, <1>6 DEF WireStep, DeliverSend, SendIsLost, DeliverStop, SidecarReports, HearRejected,
       HearTerminal, FinishStopped, controlVars
<1>7. ASSUME NEW c \in Conversations, SteerStep(c) PROVE Singles'
    BY <1>1, <1>7 DEF SteerStep, Drain, SteeringSends, SteeringTimesOut, controlVars
<1>8. QED
    BY <1>2, <1>3, <1>4, <1>5, <1>6, <1>7 DEF TurnControlNext
-----------------------------------------------------------------------------
(* A claimed turn is known as long as it owns its conversation, so its events
   are routed; a send that acknowledges a stop is among those who finish it. *)
Agrees(t) ==
    /\ at[t] \in Claimed /\ Accepts(on[t], t) => t \in known
    /\ at[t] = "finishing" => "send" \in finishing[t]

(* Where nobody is claimed or begins to finish, and nobody is forgotten. *)
LEMMA AgreesKept ==
    ASSUME \A u \in Turns : Agrees(u), NEW u \in Turns,
           at'[u] \in Claimed => at[u] \in Claimed /\ on'[u] = on[u],
           at'[u] \in Claimed /\ owner'[on[u]] = u => owner[on[u]] = u /\ (u \in known => u \in known'),
           at'[u] = "finishing" => at[u] = "finishing",
           at'[u] = "finishing" /\ "send" \in finishing[u] => "send" \in finishing'[u]
    PROVE  Agrees(u)'
BY DEF Agrees, Accepts

LEMMA StartAgrees ==
    ASSUME Shape, \A u \in Turns : Agrees(u), NEW u \in Turns,
           NEW t \in Turns, NEW c \in Conversations, NEW place \in Preparing, NEW item, NEW m, NEW auto,
           Start(t, c, place, item, m, auto), UNCHANGED <<owner, known, finishing>>
    PROVE  Agrees(u)'
<1>1. at' = [at EXCEPT ![t] = place] /\ on' = [on EXCEPT ![t] = c]
    BY DEF Start, Goto
<1>2. at'[u] = IF u = t THEN place ELSE at[u]
    BY <1>1 DEF Shape
<1>3. u # t => on'[u] = on[u]
    BY <1>1 DEF Shape
<1>4. place \notin Claimed /\ place # "finishing"
    BY DEF Preparing, Claimed
<1>5. QED
    BY <1>2, <1>3, <1>4, AgreesKept

(* A turn frees its conversation and is forgotten. *)
LEMMA FreedAgrees ==
    ASSUME Shape, \A u \in Turns : Agrees(u), NEW u \in Turns,
           NEW t \in Turns, on[t] \in Conversations, NEW state \in RunStates,
           FreeRun(on[t], t, state), UNCHANGED on,
           known \ {t} \subseteq known',
           at' = at \/ \E place \in {"thrown", "gone", "ended"} : at' = [at EXCEPT ![t] = place],
           u # t \/ at' = at => ("send" \in finishing[u] => "send" \in finishing'[u])
    PROVE  Agrees(u)'
<1>1. \A v \in Turns : on[v] \in Conversations /\ owner'[on[v]] = v => v # t /\ owner[on[v]] = v
    BY FreeRunKept
<1>2. at'[u] = at[u] \/ (u = t /\ at'[u] \in {"thrown", "gone", "ended"})
    BY DEF Shape
<1>3. at[u] \in Claimed => on[u] \in Conversations
    BY DEF Shape, Claimed
<1>4. at'[u] \in Claimed \cup {"finishing"} => at'[u] = at[u] /\ (u # t \/ at' = at)
  <2>1. CASE u = t /\ at' # at
      BY <2>1 DEF Shape, Claimed
  <2>2. CASE ~(u = t /\ at' # at)
      BY <1>2, <2>2 DEF Claimed
  <2>3. QED
      BY <2>1, <2>2
<1>5. QED
    BY <1>1, <1>3, <1>4, AgreesKept

LEMMA CatchAgrees ==
    ASSUME Shape, \A u \in Turns : Agrees(u), NEW u \in Turns,
           NEW t \in Turns, at[t] # "free", Catch(t), UNCHANGED on,
           u # t => finishing'[u] = finishing[u]
    PROVE  Agrees(u)'
<1>1. on[t] \in Conversations
    BY DEF Shape
<1>2. PICK place \in {"thrown", "gone"} : at' = [at EXCEPT ![t] = place]
    BY DEF Catch, Goto
<1>3. FreeRun(on[t], t, "completed") /\ known' = known \ {t} /\ "completed" \in RunStates
    BY DEF Catch, RunStates
<1>4. CASE u # t
    BY <1>1, <1>2, <1>3, <1>4, FreedAgrees
<1>5. CASE u = t
  <2>1. at'[u] \in {"thrown", "gone"}
      BY <1>2, <1>5 DEF Shape
  <2>2. QED
      BY <2>1 DEF Agrees, Claimed
<1>6. QED
    BY <1>4, <1>5

(* The send goes on, or acknowledges a stop. *)
LEMMA GoesOnAgrees ==
    ASSUME Shape, \A u \in Turns : Agrees(u), NEW u \in Turns,
           NEW t \in Turns, NEW place,
           at' = [at EXCEPT ![t] = place],
           place \in Claimed => at[t] \in Claimed,
           place = "finishing" => "send" \in finishing'[t],
           \A v \in Turns : finishing[v] \subseteq finishing'[v],
           UNCHANGED <<owner, on, known>>
    PROVE  Agrees(u)'
<1>1. at'[u] = IF u = t THEN place ELSE at[u]
    BY DEF Shape
<1>2. CASE u = t
    BY <1>1, <1>2 DEF Agrees, Accepts
<1>3. CASE u # t
    BY <1>1, <1>3, AgreesKept
<1>4. QED
    BY <1>2, <1>3

LEMMA ClaimAgrees ==
    ASSUME Shape, \A u \in Turns : Agrees(u), NEW u \in Turns, NEW t \in Turns, Claim(t)
    PROVE  Agrees(u)'
<1>1. on[t] \in Conversations /\ UNCHANGED <<on, finishing>>
    BY DEF Claim, Shape
<1>2. CASE ClaimRun(on[t], t) /\ Goto(t, "owned") /\ known' = known \cup {t}
  <2>1. at'[u] = IF u = t THEN "owned" ELSE at[u]
      BY <1>2 DEF Shape, Goto
  <2>2. owner' = [owner EXCEPT ![on[t]] = t]
      BY <1>2 DEF ClaimRun
  <2>3. CASE u = t
      BY <1>2, <2>1, <2>3 DEF Agrees
  <2>4. CASE u # t
    <3>1. at[u] \in Claimed => on[u] \in Conversations
        BY DEF Shape, Claimed
    <3>2. at[u] \in Claimed /\ owner'[on[u]] = u => owner[on[u]] = u
        BY <1>1, <2>2, <2>4, <3>1 DEF Shape
    <3>3. QED
        BY <1>1, <1>2, <2>1, <2>4, <3>2, AgreesKept
  <2>5. QED
      BY <2>3, <2>4
<1>3. CASE UNCHANGED <<owner, known>> /\ \E place \in {"dropped", "queued", "gone"} : Goto(t, place)
  <2>1. PICK place \in {"dropped", "queued", "gone"} : at' = [at EXCEPT ![t] = place]
      BY <1>3 DEF Goto
  <2>2. place \notin Claimed /\ place # "finishing"
      BY DEF Claimed
  <2>3. QED
      BY <1>1, <1>3, <2>1, <2>2, GoesOnAgrees
<1>4. QED
    BY <1>2, <1>3 DEF Claim, LosesRace

LEMMA SendAgrees ==
    ASSUME Shape, \A u \in Turns : Agrees(u), NEW u \in Turns, NEW t \in Turns, SendStep(t)
    PROVE  Agrees(u)'
<1>1. ASSUME NEW place \in {"queued", "prep", "saving", "journalled", "sent"}, Goto(t, place),
             place \in Claimed => at[t] \in Claimed, UNCHANGED <<owner, on, known, finishing>>
      PROVE  Agrees(u)'
  <2>1. at' = [at EXCEPT ![t] = place] /\ place # "finishing"
      BY <1>1 DEF Goto
  <2>2. QED
      BY <1>1, <2>1, GoesOnAgrees
<1>2. ASSUME BeginFinishing(t), UNCHANGED on PROVE Agrees(u)'
  <2>1. /\ at' = [at EXCEPT ![t] = "finishing"] /\ "finishing" \notin Claimed
        /\ UNCHANGED <<owner, known>>
      BY <1>2 DEF BeginFinishing, Goto, Claimed
  <2>2. "send" \in finishing'[t] /\ \A v \in Turns : finishing[v] \subseteq finishing'[v]
      BY <1>2 DEF BeginFinishing, Shape
  <2>3. QED
      BY <1>2, <2>1, <2>2, GoesOnAgrees
<1>3. ASSUME Catch(t), at[t] # "free", UNCHANGED <<on, finishing>> PROVE Agrees(u)'
    BY <1>3, CatchAgrees
<1>4. CASE Route(t)
    BY <1>1, <1>4 DEF Route, sendFrame, Claimed
<1>5. CASE Claim(t)
    BY <1>5, ClaimAgrees
<1>6. CASE CheckOwner(t)
    BY <1>1, <1>2, <1>3, <1>6 DEF CheckOwner, checkFrame, Claimed
<1>7. CASE SaveRequest(t)
    BY <1>1, <1>2, <1>3, <1>7 DEF SaveRequest, checkFrame, Claimed
<1>8. CASE Dispatch(t)
    BY <1>1, <1>2, <1>3, <1>8 DEF Dispatch, checkFrame, Claimed
<1>9. QED
    BY <1>4, <1>5, <1>6, <1>7, <1>8 DEF SendStep

LEMMA FinishAgrees ==
    ASSUME ControlInv, \A u \in Turns : Agrees(u), NEW u \in Turns, NEW t \in Turns,
           NEW caller \in Callers, FinishStopped(t, caller) \/ FinishStoppedFails(t, caller)
    PROVE  Agrees(u)'
<1>1. Shape /\ caller \in finishing[t] /\ UNCHANGED on
    BY DEF ControlInv, FinishStopped, FinishStoppedFails
<1>2. at[t] # "free" /\ on[t] \in Conversations /\ (caller = "send" => at[t] = "finishing")
    BY <1>1 DEF ControlInv, Covered, Began, Told, Shape
<1>3. finishing' = [finishing EXCEPT ![t] = @ \ {caller}]
    BY DEF FinishStopped, FinishStoppedFails
<1>4. (u # t => finishing'[u] = finishing[u]) /\ (caller # "send" /\ "send" \in finishing[u] => "send" \in finishing'[u])
    BY <1>1, <1>3 DEF Shape
<1>5. CASE FinishStopped(t, caller)
  <2>1. FreeRun(on[t], t, "stopped") /\ known \ {t} \subseteq known' /\ "stopped" \in RunStates
      BY <1>5 DEF FinishStopped, RunStates
  <2>2. CASE caller = "send"
    <3>1. at' = [at EXCEPT ![t] = "ended"] /\ at' # at
        BY <1>1, <1>2, <1>5, <2>2 DEF FinishStopped, Goto, Shape
    <3>2. QED
        BY <1>1, <1>2, <1>4, <2>1, <3>1, FreedAgrees
  <2>3. CASE caller # "send"
    <3>1. at' = at
        BY <1>5, <2>3 DEF FinishStopped
    <3>2. QED
        BY <1>1, <1>2, <1>4, <2>1, <2>3, <3>1, FreedAgrees
  <2>4. QED
      BY <2>2, <2>3
<1>6. CASE FinishStoppedFails(t, caller)
  <2>1. CASE caller = "send"
    <3>1. Catch(t)
        BY <1>6, <2>1 DEF FinishStoppedFails
    <3>2. QED
        BY <1>1, <1>2, <1>4, <3>1, CatchAgrees
  <2>2. CASE caller # "send"
    <3>1. UNCHANGED <<at, known, owner>>
        BY <1>6, <2>2 DEF FinishStoppedFails
    <3>2. QED
        BY <1>1, <1>4, <2>2, <3>1, AgreesKept
  <2>3. QED
      BY <2>1, <2>2
<1>7. QED
    BY <1>5, <1>6

LEMMA HearAgrees ==
    ASSUME ControlInv, \A u \in Turns : Agrees(u), NEW u \in Turns, NEW t \in Turns, HearTerminal(t)
    PROVE  Agrees(u)'
<1>1. Shape /\ UNCHANGED <<at, on>>
    BY DEF ControlInv, HearTerminal
<1>2. on[t] \in Conversations
  <2>1. Hears(t, "terminal")
      BY DEF HearTerminal
  <2>2. TerminalUnread(t)
      BY <1>1, <2>1, LineRead
  <2>3. phase[t] # "new"
      BY <2>2 DEF ControlInv, Covered, Told, Final, Reported
  <2>4. QED
      BY <1>1, <2>3 DEF ControlInv, Covered, Placed, Shape
<1>3. CASE UNCHANGED <<owner, known>> /\ finishing' = [finishing EXCEPT ![t] = @ \cup {"event"}]
  <2>1. finishing[u] \subseteq finishing'[u]
      BY <1>1, <1>3 DEF Shape
  <2>2. QED
      BY <1>1, <1>3, <2>1, AgreesKept
<1>4. CASE UNCHANGED <<owner, known, finishing>>
    BY <1>1, <1>4, AgreesKept
<1>5. CASE /\ known' = known \ {t} /\ UNCHANGED finishing
           /\ \E state \in {"completed", "failed"} : FreeRun(on[t], t, state)
  <2>1. PICK state \in RunStates : FreeRun(on[t], t, state)
      BY <1>5 DEF RunStates
  <2>2. QED
      BY <1>1, <1>2, <1>5, <2>1, FreedAgrees
<1>6. QED
    BY <1>3, <1>4, <1>5 DEF HearTerminal

LEMMA AgreesStep ==
    ASSUME ControlInv, \A u \in Turns : Agrees(u), [TurnControlNext]_turnControlVars, NEW u \in Turns
    PROVE  Agrees(u)'
<1>1. Shape
    BY DEF ControlInv
<1>2. ASSUME UNCHANGED <<at, on, owner, known>>, finishing[u] \subseteq finishing'[u]
      PROVE  Agrees(u)'
    BY <1>2, AgreesKept
<1>3. CASE UNCHANGED turnControlVars \/ SidecarDies \/ RecoveryFails \/ RecoveryEnds
    BY <1>2, <1>3 DEF turnControlVars, controlVars, appVars, SidecarDies, RecoveryFails, RecoveryEnds
<1>4. CASE RecoveryKills
  <2>1. finishing[u] \subseteq finishing'[u]
      BY <1>4 DEF RecoveryKills
  <2>2. QED
      BY <1>2, <1>4, <2>1 DEF RecoveryKills, controlVars
<1>5. CASE UserStep
  <2>1. ASSUME NEW t \in Typed, NEW c \in Conversations, NEW m \in Modes, Submit(t, c, m)
        PROVE  Agrees(u)'
    <3>1. t \in Turns /\ "new" \in Preparing
        BY TypedAssumption DEF Preparing
    <3>2. QED
        BY <1>1, <2>1, <3>1, StartAgrees DEF Submit, controlVars, sendFrame
  <2>2. ASSUME NEW c \in Conversations, Resume(c) PROVE Agrees(u)'
    <3>1. "prep" \in Preparing
        BY DEF Preparing
    <3>2. QED
        BY <1>1, <1>2, <2>2, <3>1, StartAgrees DEF Resume, sendFrame
  <2>3. CASE \/ HardStop \/ ResumeAutomation \/ BeginRecovery
             \/ \E c \in Conversations : CancelQueuedSend(c) \/ StopConversation(c) \/ FlushQueueNow(c)
      BY <1>2, <2>3 DEF HardStop, ResumeAutomation, BeginRecovery, CancelQueuedSend, StopConversation,
         StopConversations, FlushQueueNow, appVars, sendFrame
  <2>4. QED
      BY <1>5, <2>1, <2>2, <2>3 DEF UserStep
<1>6. ASSUME NEW t \in Turns, SendStep(t) PROVE Agrees(u)'
    BY <1>1, <1>6, SendAgrees
<1>7. ASSUME NEW t \in Turns, FaultStep(t) PROVE Agrees(u)'
  <2>1. CASE PreparationFails(t)
    <3>1. PICK place \in {"thrown", "gone"} : at' = [at EXCEPT ![t] = place]
        BY <2>1 DEF PreparationFails, Goto
    <3>2. place \notin Claimed /\ place # "finishing"
        BY DEF Claimed
    <3>3. QED
        BY <1>1, <2>1, <3>1, <3>2, GoesOnAgrees DEF PreparationFails, sendFrame
  <2>2. CASE SendingFails(t) \/ InvokeFails(t)
    <3>1. Catch(t) /\ at[t] # "free" /\ UNCHANGED <<on, finishing>>
        BY <2>2 DEF SendingFails, InvokeFails, checkFrame
    <3>2. QED
        BY <1>1, <3>1, CatchAgrees
  <2>3. CASE StopCallFails(t)
      BY <1>2, <2>3 DEF StopCallFails, controlVars, sendFrame
  <2>4. CASE \E caller \in Callers : FinishStoppedFails(t, caller)
      BY <2>4, FinishAgrees
  <2>5. QED
      BY <1>7, <2>1, <2>2, <2>3, <2>4 DEF FaultStep, Callers
<1>8. ASSUME NEW t \in Turns, WireStep(t) PROVE Agrees(u)'
  <2>1. CASE DeliverSend(t) \/ SendIsLost(t)
    <3>1. at' = [at EXCEPT ![t] = "delivered"] /\ "delivered" \notin Claimed
        BY <2>1 DEF DeliverSend, SendIsLost, Goto, Claimed
    <3>2. QED
        BY <1>1, <2>1, <3>1, GoesOnAgrees DEF DeliverSend, SendIsLost, controlVars, sendFrame
  <2>2. CASE DeliverStop(t) \/ SidecarReports(t) \/ HearRejected(t)
      BY <1>2, <2>2 DEF DeliverStop, SidecarReports, HearRejected, controlVars, appVars, sendFrame
  <2>3. CASE HearTerminal(t)
      BY <2>3, HearAgrees
  <2>4. CASE \E caller \in Callers : FinishStopped(t, caller)
      BY <2>4, FinishAgrees
  <2>5. QED
      BY <1>8, <2>1, <2>2, <2>3, <2>4 DEF WireStep, Callers
<1>9. ASSUME NEW c \in Conversations, SteerStep(c) PROVE Agrees(u)'
  <2>1. "prep" \in Preparing
      BY DEF Preparing
  <2>2. UNCHANGED <<owner, known, finishing>>
      BY <1>9 DEF SteerStep, Drain, SteeringSends, SteeringTimesOut, controlVars, sendFrame
  <2>3. QED
      BY <1>1, <1>2, <1>9, <2>1, <2>2, StartAgrees DEF SteerStep, Drain, SteeringSends, SteeringTimesOut
<1>10. QED
    BY <1>3, <1>4, <1>5, <1>6, <1>7, <1>8, <1>9 DEF TurnControlNext, RecoveryStep
-----------------------------------------------------------------------------
TypeInv == Kinds /\ Singles /\ (\A c \in Conversations : Shown(c)) /\ (\A t \in Turns : Agrees(t))

LEMMA TypeStart == TurnControlInit => TypeInv
<1> SUFFICES ASSUME TurnControlInit PROVE TypeInv
    OBVIOUS
<1>1. Kinds
    BY DEF TurnControlInit, ControlInit, Kinds, Pauses
<1>2. Singles
    BY DEF TurnControlInit, ControlInit, Singles, Single
<1>3. \A c \in Conversations : Shown(c)
    BY DEF TurnControlInit, ControlInit, Shown, IsActive
<1>4. \A t \in Turns : Agrees(t)
    BY DEF TurnControlInit, Agrees, Claimed
<1>5. QED
    BY <1>1, <1>2, <1>3, <1>4 DEF TypeInv

LEMMA TypeNext ==
    ControlInv /\ MessageInv /\ TypeInv /\ [TurnControlNext]_turnControlVars => TypeInv'
<1> SUFFICES ASSUME ControlInv, MessageInv, TypeInv, [TurnControlNext]_turnControlVars PROVE TypeInv'
    OBVIOUS
<1>1. Kinds'
    BY KindsStep DEF TypeInv
<1>2. Singles'
    BY SinglesStep DEF TypeInv, MessageInv
<1>3. \A c \in Conversations : Shown(c)'
    BY OwnersStep, ShownAfter DEF TypeInv
<1>4. \A t \in Turns : Agrees(t)'
    BY AgreesStep DEF TypeInv
<1>5. QED
    BY <1>1, <1>2, <1>3, <1>4 DEF TypeInv

(* Through every race of sends, stops and recoveries the parts of the app agree: a
   conversation shows the run of the turn that owns it, a claimed turn is known as
   long as it owns its conversation, and a message is reserved once (the gate, the
   runs and the queue of src/conversationControl.ts with the maps of src/App.tsx). *)
THEOREM TurnControlTypes == TurnControlSpec => []TurnControlTypeOK
<1>1. ControlInv /\ MessageInv /\ TypeInv => TurnControlTypeOK
  <2> SUFFICES ASSUME ControlInv, MessageInv, TypeInv PROVE TurnControlTypeOK
      OBVIOUS
  <2>1. /\ owner \in [Conversations -> Turns \cup {NoTurn}]
        /\ run \in [Conversations -> [turn : Turns \cup {NoTurn}, state : RunStates]]
        /\ at \in [Turns -> Places] /\ on \in [Turns -> Conversations \cup {NoConv}]
        /\ stale \in [Turns -> BOOLEAN]
        /\ finishing \in [Turns -> SUBSET {"send", "event", "recover"}]
        /\ journal \in [Turns -> {"none", "running", "closed"}]
        /\ lines \in [Turns -> Seq({"terminal", "rejected"})]
      BY DEF ControlInv, Shape, Callers, LineSeqs
  <2>2. /\ queue \in [Conversations -> Seq([id : Turns, mode : Modes])]
        /\ mode \in [Turns -> Modes] /\ from \in [Turns -> Turns \cup {NoTurn}]
      BY DEF MessageInv, Sorted, PendingSends
  <2>3. \A c \in Conversations :
            /\ IsActive(c) => owner[c] = run[c].turn /\ on[owner[c]] = c
            /\ IsActive(c) <=> run[c].state \in {"running", "stopping"}
            /\ \A i, j \in DOMAIN queue[c] : i # j => queue[c][i].id # queue[c][j].id
      BY DEF TypeInv, Shown, Singles, Single
  <2>4. \A t \in Turns :
            /\ at[t] \in Claimed /\ Accepts(on[t], t) => t \in known
            /\ "send" \in finishing[t] <=> at[t] = "finishing"
      BY DEF TypeInv, Agrees, ControlInv, Covered, Told
  <2>5. QED
      BY <2>1, <2>2, <2>3, <2>4 DEF TurnControlTypeOK, TypeInv, Kinds
<1>2. TurnControlSpec => []TypeInv
    BY TypeStart, TypeNext, ControlInvariant, MessageInvariant, PTL DEF TurnControlSpec
<1>3. QED
    BY <1>1, <1>2, ControlInvariant, MessageInvariant, PTL
==============================================================================
