---------------------------- MODULE RestartProofs ----------------------------
(***************************************************************************)
(* Proofs about the two restarts: of the sidecar process (Supervisor) and  *)
(* of the app (Resumption).                                                *)
(*                                                                         *)
(* The sidecar, for every number of sidecars, attempts, reloads, deaths    *)
(* and faults.  Each caller of spawn_sidecar is kept apart from the others *)
(* by something else: the start of the app by having nothing to recover    *)
(* yet, the supervisor and a reload by the guard of a recovery (Guarded).  *)
(* With one caller at a time, the handles can be followed from the start   *)
(* of a process to the store of its channel (Handed), although the two     *)
(* handles are stored in separate steps.                                   *)
(*                                                                         *)
(* The app, for every set of turns and conversations and any number of     *)
(* crashes.  The stores are read apart from each other, so what they have  *)
(* to agree on is said about each of them: a turn that was stopped is in a *)
(* paused conversation (Halted); a conversation only moves on, in the      *)
(* stored snapshot and in every one on its way (Onward); and a turn that   *)
(* is being recovered is mentioned by none of them (Fresh).                *)
(***************************************************************************)
EXTENDS Supervisor, Resumption, FilterProofs

(* The types of what the proofs read. *)
Typed ==
    /\ process \in [Sidecars -> Living \cup {"unborn", "dead"}]
    /\ reader \in [Sidecars -> {"none", "reading", "closing", "reporting", "over"}]
    /\ born \in 0..MaxSpawns
    /\ child \in 0..MaxSpawns /\ channel \in 0..MaxSpawns
    /\ caller \in [Callers -> {"out", "begun", "started", "kept"}]
    /\ starting \in [Callers -> 0..MaxSpawns]
    /\ recovery \in {"free", "supervisor", "reload"}
    /\ reload \in {"idle", "failed", "killing", "clearing", "spawning"}
    /\ watchdog \in {"watching", "killing"}

(* The app is about to start its first sidecar: there is nothing to recover. *)
Pristine ==
    /\ born = 0 /\ requests = <<>>
    /\ \A s \in Sidecars : reader[s] = "none"
    /\ task.st = "receiving" /\ reload = "idle"
    /\ watchdog = "watching" /\ ~stale

(* What each caller holds while it spawns. *)
Guarded ==
    /\ Spawning("supervisor") <=> recovery = "supervisor"
    /\ Spawning("supervisor") <=> task.st = "spawning"
    /\ recovery = "reload" <=> reload \notin AtRest
    /\ Spawning("reload") <=> reload = "spawning"
    /\ Spawning("app") => recovery = "free"
    /\ caller["app"] = "begun" => Pristine

(* A reload gave up between the two handles, and none has succeeded since. *)
Parted == intentional /\ child = 0 /\ reload \in {"failed", "killing"}

(* Where the handles of the sidecars are. *)
Handed ==
    /\ \A s \in Sidecars : s > born => process[s] = "unborn"
    /\ NoOrphanSidecar
    /\ \A c \in Callers : caller[c] = "kept" => child = starting[c]
    /\ (\A c \in Callers : caller[c] \in {"out", "begun"}) /\ reload # "clearing"
          => channel = child \/ Parted
    /\ reload = "clearing" => child = 0
    /\ reload \in {"killing", "clearing", "failed"} => intentional
    /\ caller["app"] = "begun" => ~intentional

SupervisorInv == Typed /\ Guarded /\ Handed
-----------------------------------------------------------------------------
(* One caller at a time: what guards them excludes each other. *)
LEMMA GuardedExclude == Guarded => SpawnsExclude
BY DEF Guarded, SpawnsExclude, Spawning, Callers, AtRest

LEMMA SupervisorInitEstablishes == SupervisorInit => SupervisorInv
<1> SUFFICES ASSUME SupervisorInit PROVE SupervisorInv
    OBVIOUS
<1> USE SpawnsAssumption DEF SupervisorInit, Callers, Receiving
<1>1. Typed
    BY DEF Typed, Living
<1>2. Guarded
    BY DEF Guarded, Pristine, AtRest, Spawning
<1>3. Handed
    BY DEF Handed, Parted, NoOrphanSidecar, Alive, Living
<1>4. QED
    BY <1>1, <1>2, <1>3 DEF SupervisorInv

(* A new process is the one that its caller is starting. *)
LEMMA StartPreserves ==
    ASSUME SupervisorInv, NEW c \in Callers, SpawnStarts(c)
    PROVE  SupervisorInv'
<1> USE SpawnsAssumption DEF SupervisorInv, Typed, Guarded, Handed, Pristine, NoOrphanSidecar,
        Parted, AtRest, Spawning, Alive, Living, Callers, Sidecars, Receiving
<1>1. Typed'
    BY DEF SpawnStarts, handles, flags
<1>2. Guarded'
    BY DEF SpawnStarts, handles, flags
<1>3. Handed'
    BY DEF SpawnStarts, handles, flags
<1>4. QED
    BY <1>1, <1>2, <1>3

(* A caller that fails gives back what it held. *)
LEMMA FailPreserves ==
    ASSUME SupervisorInv, NEW c \in Callers, SpawnFails(c)
    PROVE  SupervisorInv'
<1> USE SpawnsAssumption DEF SupervisorInv, Typed, Guarded, Handed, Pristine, NoOrphanSidecar,
        Parted, AtRest, Spawning, Alive, Living, Callers, Sidecars, Receiving
<1>1. Typed'
    <2>1. caller' = [caller EXCEPT ![c] = "out"] /\ starting' = [starting EXCEPT ![c] = 0]
        BY DEF SpawnFails, Returns
    <2>2. recovery' \in {recovery, "free"} /\ reload' \in {reload, "idle"}
        BY DEF SpawnFails, Returns
    <2>3. UNCHANGED <<process, reader, born, child, channel, watchdog>>
        BY DEF SpawnFails, processes, handles
    <2>4. QED
        BY <2>1, <2>2, <2>3
<1>2. Guarded'
    BY DEF SpawnFails, Returns, processes, handles, flags
<1>3. Handed'
    BY DEF SpawnFails, Returns, processes, handles, flags
<1>4. QED
    BY <1>1, <1>2, <1>3

(* The old child ends with its handle. *)
LEMMA KeepChildPreserves ==
    ASSUME SupervisorInv, NEW c \in Callers, SpawnKeepsChild(c)
    PROVE  SupervisorInv'
<1> USE SpawnsAssumption DEF SupervisorInv, Typed, Guarded, Handed, Pristine, NoOrphanSidecar,
        Parted, AtRest, Spawning, Alive, Living, Callers, Sidecars, Receiving
<1>1. Typed'
    BY DEF SpawnKeepsChild, Killed, flags
<1>2. Guarded'
    BY DEF SpawnKeepsChild, Killed, flags
<1>3. Handed'
    BY DEF SpawnKeepsChild, Killed, flags
<1>4. QED
    BY <1>1, <1>2, <1>3

(* The child was stored by the same caller. *)
LEMMA KeepChannelPreserves ==
    ASSUME SupervisorInv, NEW c \in Callers, SpawnKeepsChannel(c)
    PROVE  SupervisorInv'
<1> USE SpawnsAssumption DEF SupervisorInv, Typed, Guarded, Handed, Pristine, NoOrphanSidecar,
        Parted, AtRest, Spawning, Alive, Living, Callers, Sidecars, Receiving
<1>1. Typed'
    BY DEF SpawnKeepsChannel, Returns, processes, flags
<1>2. Guarded'
    BY DEF SpawnKeepsChannel, Returns, processes, flags
<1>3. Handed'
    BY DEF SpawnKeepsChannel, Returns, processes, flags
<1>4. QED
    BY <1>1, <1>2, <1>3

(* What a sidecar does, and its reader; no handle changes. *)
LEMMA SidecarPreserves ==
    ASSUME SupervisorInv, NEW s \in Sidecars, Reads(s) \/ Dies(s) \/ Hangs(s)
    PROVE  SupervisorInv'
<1> USE SpawnsAssumption DEF SupervisorInv, Typed, Guarded, Handed, Pristine, NoOrphanSidecar,
        Parted, AtRest, Spawning, Alive, Living, Callers, Sidecars, Receiving
<1>1. CASE FirstLine(s)
  <2>1. Typed'
      BY <1>1 DEF FirstLine, handles, calls
  <2>2. Guarded'
      BY <1>1 DEF FirstLine, handles, calls
  <2>3. Handed'
      BY <1>1 DEF FirstLine, handles, calls
  <2>4. QED
      BY <2>1, <2>2, <2>3
<1>2. CASE OutputEnds(s)
  <2>1. Typed'
      BY <1>2 DEF OutputEnds, Spend, handles, calls, flags
  <2>2. Guarded'
      BY <1>2 DEF OutputEnds, Spend, handles, calls, flags
  <2>3. Handed'
      BY <1>2 DEF OutputEnds, Spend, handles, calls, flags
  <2>4. QED
      BY <2>1, <2>2, <2>3
<1>3. CASE ReaderLooks(s)
  <2>1. Typed'
      BY <1>3 DEF ReaderLooks, handles, calls, flags
  <2>2. Guarded'
      BY <1>3 DEF ReaderLooks, handles, calls, flags
  <2>3. Handed'
      BY <1>3 DEF ReaderLooks, handles, calls, flags
  <2>4. QED
      BY <2>1, <2>2, <2>3
<1>4. CASE ReaderReports(s)
  <2>1. Typed'
      BY <1>4 DEF ReaderReports, handles, calls
  <2>2. Guarded'
      BY <1>4 DEF ReaderReports, handles, calls
  <2>3. Handed'
      BY <1>4 DEF ReaderReports, handles, calls
  <2>4. QED
      BY <2>1, <2>2, <2>3
<1>5. CASE Dies(s)
  <2>1. Typed'
      BY <1>5 DEF Dies, Spend, handles, calls, flags
  <2>2. Guarded'
      BY <1>5 DEF Dies, Spend, handles, calls, flags
  <2>3. Handed'
      BY <1>5 DEF Dies, Spend, handles, calls, flags
  <2>4. QED
      BY <2>1, <2>2, <2>3
<1>6. CASE Hangs(s)
  <2>1. Typed'
      BY <1>6 DEF Hangs, Spend, handles, calls, flags
  <2>2. Guarded'
      BY <1>6 DEF Hangs, Spend, handles, calls, flags
  <2>3. Handed'
      BY <1>6 DEF Hangs, Spend, handles, calls, flags
  <2>4. QED
      BY <2>1, <2>2, <2>3
<1>7. QED
    BY <1>1, <1>2, <1>3, <1>4, <1>5, <1>6 DEF Reads

(* The supervisor spawns under the guard, which a reload would hold. *)
LEMMA TaskPreserves ==
    ASSUME SupervisorInv, TaskReceives \/ TaskWakes
    PROVE  SupervisorInv'
<1> USE SpawnsAssumption DEF SupervisorInv, Typed, Guarded, Handed, Pristine, NoOrphanSidecar,
        Parted, AtRest, Spawning, Alive, Living, Callers, Sidecars, Receiving
<1>1. CASE TaskReceives
  <2>1. Typed'
      BY <1>1 DEF TaskReceives, processes, handles, calls, flags
  <2>2. Guarded'
      BY <1>1 DEF TaskReceives, processes, handles, calls, flags
  <2>3. Handed'
      BY <1>1 DEF TaskReceives, processes, handles, calls, flags
  <2>4. QED
      BY <2>1, <2>2, <2>3
<1>2. CASE TaskWakes
    <2>1. CASE task' = Receiving /\ UNCHANGED <<caller, starting, recovery, stale, born>>
        BY <1>2, <2>1 DEF TaskWakes, handles
    <2>2. CASE recovery = "free" /\ recovery' = "supervisor" /\ BeginsSpawn("supervisor")
        BY <1>2, <2>2 DEF TaskWakes, BeginsSpawn, HandlesAreKept, handles
    <2>3. QED
        BY <1>2, <2>1, <2>2 DEF TaskWakes, calls
<1>3. QED
    BY <1>1, <1>2

(* A reload begins when no recovery is under way, and forgets both handles. *)
LEMMA ReloadPreserves ==
    ASSUME SupervisorInv, ReloadBegins \/ ReloadWorks
    PROVE  SupervisorInv'
<1> USE SpawnsAssumption DEF SupervisorInv, Typed, Guarded, Handed, Pristine, NoOrphanSidecar,
        Parted, AtRest, Spawning, Alive, Living, Callers, Sidecars, Receiving
<1>1. CASE ReloadBegins
  <2>1. Typed'
      BY <1>1 DEF ReloadBegins, Spend, AppHasStarted, processes, handles, calls
  <2>2. Guarded'
      BY <1>1 DEF ReloadBegins, Spend, AppHasStarted, processes, handles, calls
  <2>3. Handed'
      BY <1>1 DEF ReloadBegins, Spend, AppHasStarted, processes, handles, calls
  <2>4. QED
      BY <2>1, <2>2, <2>3
<1>2. CASE ReloadKills
  <2>1. Typed'
      BY <1>2 DEF ReloadKills, Killed, calls, flags
  <2>2. Guarded'
      BY <1>2 DEF ReloadKills, Killed, calls, flags
  <2>3. Handed'
      BY <1>2 DEF ReloadKills, Killed, calls, flags
  <2>4. QED
      BY <2>1, <2>2, <2>3
<1>3. CASE ReloadFails
  <2>1. Typed'
      BY <1>3 DEF ReloadFails, ReloadGivesUp, Killed, Spend, handles, calls, flags
  <2>2. Guarded'
      BY <1>3 DEF ReloadFails, ReloadGivesUp, Killed, Spend, handles, calls, flags
  <2>3. Handed'
    <3>1. /\ UNCHANGED <<born, child, channel, caller, starting, intentional>>
          /\ reload' = "failed" /\ process' \in {process, Killed(child)}
        BY <1>3 DEF ReloadFails, ReloadGivesUp, handles, calls, flags
    <3>2. ASSUME NEW s \in Sidecars
          PROVE  process'[s] = process[s] \/ (process[s] \in Living /\ process'[s] = "dead")
        BY <3>1 DEF Killed
    <3>3. (\A s \in Sidecars : s > born => process[s] = "unborn")'
        BY <3>1, <3>2
    <3>4. NoOrphanSidecar'
        BY <3>1, <3>2
    <3>5. QED
        BY <1>3, <3>1, <3>3, <3>4 DEF ReloadFails
  <2>4. QED
      BY <2>1, <2>2, <2>3
<1>4. CASE ReloadClearFails
  <2>1. Typed'
      BY <1>4 DEF ReloadClearFails, ReloadGivesUp, processes, handles, calls
  <2>2. Guarded'
      BY <1>4 DEF ReloadClearFails, ReloadGivesUp, processes, handles, calls
  <2>3. Handed'
      BY <1>4 DEF ReloadClearFails, ReloadGivesUp, processes, handles, calls, flags
  <2>4. QED
      BY <2>1, <2>2, <2>3
<1>5. CASE ReloadClears
  <2>1. Typed'
      BY <1>5 DEF ReloadClears, BeginsSpawn
  <2>2. Guarded'
      BY <1>5 DEF ReloadClears, BeginsSpawn
  <2>3. Handed'
      BY <1>5 DEF ReloadClears, BeginsSpawn
  <2>4. QED
      BY <2>1, <2>2, <2>3
<1>6. QED
    BY <1>1, <1>2, <1>3, <1>4, <1>5 DEF ReloadWorks

(* The watchdog kills what the handle names, and changes no handle. *)
LEMMA WatchdogPreserves ==
    ASSUME SupervisorInv, SilenceLasts \/ WatchdogLooks \/ WatchdogKills
    PROVE  SupervisorInv'
<1> USE SpawnsAssumption DEF SupervisorInv, Typed, Guarded, Handed, Pristine, NoOrphanSidecar,
        Parted, AtRest, Spawning, Alive, Living, Callers, Sidecars, Receiving
<1>1. CASE SilenceLasts
  <2>1. Typed'
      BY <1>1 DEF SilenceLasts, AppHasStarted, processes, handles, calls, flags
  <2>2. Guarded'
      BY <1>1 DEF SilenceLasts, AppHasStarted, processes, handles, calls, flags
  <2>3. Handed'
      BY <1>1 DEF SilenceLasts, AppHasStarted, processes, handles, calls, flags
  <2>4. QED
      BY <2>1, <2>2, <2>3
<1>2. CASE WatchdogLooks
  <2>1. Typed'
      BY <1>2 DEF WatchdogLooks, processes, handles, calls, flags
  <2>2. Guarded'
      BY <1>2 DEF WatchdogLooks, processes, handles, calls, flags
  <2>3. Handed'
      BY <1>2 DEF WatchdogLooks, processes, handles, calls, flags
  <2>4. QED
      BY <2>1, <2>2, <2>3
<1>3. CASE WatchdogKills
  <2>1. Typed'
      BY <1>3 DEF WatchdogKills, Killed, handles, calls
  <2>2. Guarded'
      BY <1>3 DEF WatchdogKills, Killed, handles, calls
  <2>3. Handed'
      BY <1>3 DEF WatchdogKills, Killed, handles, calls
  <2>4. QED
      BY <2>1, <2>2, <2>3
<1>4. QED
    BY <1>1, <1>2, <1>3

LEMMA SupervisorNextPreserves == SupervisorInv /\ [SupervisorNext]_supervisorVars => SupervisorInv'
<1> SUFFICES ASSUME SupervisorInv, [SupervisorNext]_supervisorVars PROVE SupervisorInv'
    OBVIOUS
<1>1. CASE UNCHANGED supervisorVars
    BY <1>1 DEF supervisorVars, SupervisorInv, Typed, Guarded, Handed, Pristine, NoOrphanSidecar,
                Parted, Spawning, Alive
<1>2. CASE \E c \in Callers : Spawns(c)
    BY <1>2, StartPreserves, FailPreserves, KeepChildPreserves, KeepChannelPreserves DEF Spawns
<1>3. CASE \E s \in Sidecars : Reads(s) \/ Dies(s) \/ Hangs(s)
    BY <1>3, SidecarPreserves
<1>4. CASE TaskReceives \/ TaskWakes
    BY <1>4, TaskPreserves
<1>5. CASE ReloadBegins \/ ReloadWorks
    BY <1>5, ReloadPreserves
<1>6. CASE SilenceLasts \/ WatchdogLooks \/ WatchdogKills
    BY <1>6, WatchdogPreserves
<1>7. QED
    BY <1>1, <1>2, <1>3, <1>4, <1>5, <1>6 DEF SupervisorNext

LEMMA SupervisorInvariance == SupervisorSpec => []SupervisorInv
BY SupervisorInitEstablishes, SupervisorNextPreserves, PTL DEF SupervisorSpec

(* What the proofs above do not read: flags, requests, the task, what was lost. *)
Flagged ==
    /\ intentional \in BOOLEAN /\ stale \in BOOLEAN
    /\ generation \in Nat /\ attempts \in Nat
    /\ lost \in {"no", "permanently", "spawn_failed", "reload_failed"}
Requested == requests \in Seq(Nat)
Tasked == task \in [st : {"receiving", "sleeping", "spawning"}, gen : Nat]

(* Each step changes few of them, and in few ways. *)
SignalStep ==
    /\ intentional' \in {intentional, TRUE, FALSE} /\ stale' \in {stale, TRUE, FALSE}
    /\ generation' \in {generation, generation + 1}
    /\ attempts' \in {attempts, 0, attempts + 1}
    /\ lost' \in {lost, "no", "permanently", "spawn_failed", "reload_failed"}
    /\ \/ requests' = requests
       \/ requests' = Append(requests, generation)
       \/ requests # <<>> /\ requests' = Tail(requests)
    /\ \/ task' \in {task, Receiving}
       \/ requests # <<>> /\ task' = [st |-> "sleeping", gen |-> Head(requests)]
       \/ task' = [st |-> "spawning", gen |-> task.gen]

LEMMA SignalSteps == ASSUME SupervisorNext PROVE SignalStep
<1> USE DEF flags, SignalStep
<1>2. CASE \E c \in Callers : Spawns(c)
    BY <1>2 DEF Spawns, SpawnStarts, SpawnFails, SpawnKeepsChild, SpawnKeepsChannel, Returns
<1>3. CASE \E s \in Sidecars : Reads(s) \/ Dies(s) \/ Hangs(s)
    BY <1>3 DEF Reads, FirstLine, OutputEnds, ReaderLooks, ReaderReports, OneMore, Dies, Hangs, Told
<1>4. CASE TaskReceives
    BY <1>4 DEF TaskReceives
<1>5. CASE TaskWakes
    BY <1>5 DEF TaskWakes, BeginsSpawn
<1>6. CASE ReloadBegins
    BY <1>6 DEF ReloadBegins
<1>7. CASE ReloadWorks
    BY <1>7 DEF ReloadWorks, ReloadKills, ReloadFails, ReloadClears, ReloadClearFails,
                ReloadGivesUp, Told, BeginsSpawn
<1>8. CASE SilenceLasts \/ WatchdogLooks
    BY <1>8 DEF SilenceLasts, WatchdogLooks
<1>9. CASE WatchdogKills
    BY <1>9 DEF WatchdogKills, OneMore, Told
<1>10. QED
    BY <1>2, <1>3, <1>4, <1>5, <1>6, <1>7, <1>8, <1>9 DEF SupervisorNext

LEMMA SignalsAreKept ==
    Flagged /\ Requested /\ Tasked /\ [SupervisorNext]_supervisorVars
        => Flagged' /\ Requested' /\ Tasked'
<1> SUFFICES ASSUME Flagged, Requested, Tasked, [SupervisorNext]_supervisorVars
             PROVE  Flagged' /\ Requested' /\ Tasked'
    OBVIOUS
<1>1. CASE UNCHANGED supervisorVars
    BY <1>1 DEF supervisorVars, Flagged, Requested, Tasked
<1>2. CASE SupervisorNext
  <2>0. SignalStep
      BY <1>2, SignalSteps
  <2>1. Flagged'
    <3>1. generation' \in Nat /\ attempts' \in Nat
        BY <2>0 DEF SignalStep, Flagged
    <3>2. intentional' \in BOOLEAN /\ stale' \in BOOLEAN
        BY Zenon, <2>0 DEF SignalStep, Flagged
    <3>3. lost' \in {"no", "permanently", "spawn_failed", "reload_failed"}
        BY Zenon, <2>0 DEF SignalStep, Flagged
    <3>4. QED
        BY <3>1, <3>2, <3>3 DEF Flagged
  <2>2. requests # <<>> => Head(requests) \in Nat /\ Tail(requests) \in Seq(Nat)
      BY DEF Requested
  <2>3. Append(requests, generation) \in Seq(Nat)
      BY DEF Requested, Flagged
  <2>4. Requested'
      BY <2>0, <2>2, <2>3 DEF SignalStep, Requested
  <2>5. Tasked'
    <3>1. task.gen \in Nat
        BY DEF Tasked
    <3>2. QED
        BY <2>0, <2>2, <3>1 DEF SignalStep, Tasked, Receiving
  <2>6. QED
      BY <2>1, <2>4, <2>5
<1>3. QED
    BY <1>1, <1>2

(* Every variable of the supervisor keeps its type: the handles name sidecars
   that can have been started, and requests carry generations. *)
THEOREM SupervisorTypes == SupervisorSpec => []SupervisorTypeOK
<1>1. SupervisorInit => Flagged /\ Requested /\ Tasked
  <2> SUFFICES ASSUME SupervisorInit PROVE Flagged /\ Requested /\ Tasked
      OBVIOUS
  <2>1. Flagged
      BY DEF SupervisorInit, Flagged
  <2>2. Requested
      BY DEF SupervisorInit, Requested
  <2>3. Tasked
      BY DEF SupervisorInit, Tasked, Receiving
  <2>4. QED
      BY <2>1, <2>2, <2>3
<1>2. SupervisorInv /\ Flagged /\ Requested /\ Tasked => SupervisorTypeOK
    BY DEF SupervisorInv, Typed, Flagged, Requested, Tasked, SupervisorTypeOK
<1>3. QED
    BY <1>1, <1>2, SignalsAreKept, SupervisorInvariance, PTL DEF SupervisorSpec

(* However reloads, deaths and the watchdog interleave, one caller at a time
   starts a sidecar: two would leave a process that neither handle names. *)
THEOREM SpawnsAreExclusive == SupervisorSpec => []SpawnsExclude
BY SupervisorInvariance, GuardedExclude, PTL DEF SupervisorInv

(* No sidecar lives on after its handle is gone: every one can be stopped. *)
THEOREM SidecarsAreOwned == SupervisorSpec => []NoOrphanSidecar
<1>1. SupervisorInv => NoOrphanSidecar
    BY DEF SupervisorInv, Handed
<1>2. QED
    BY <1>1, SupervisorInvariance, PTL

(* What the app writes outside of a restart goes to the child that is kept. *)
THEOREM ChannelFollowsChild == SupervisorSpec => []ChannelNamesChild
<1>1. SupervisorInv => ChannelNamesChild
    BY DEF SupervisorInv, Typed, Handed, Parted, ChannelNamesChild, NoOrphanSidecar, Spawning,
           AtRest, Callers, Alive
<1>2. QED
    BY <1>1, SupervisorInvariance, PTL
-----------------------------------------------------------------------------
(* The turns that may be carried on: they are over or were cut off. *)
Gone == {"over", "cut"}
(* The turns that hold their conversation. *)
Held == {"owned", "dying", "sent", "finishing"}

Runs == [turn : Turns \cup {NoTurn}, state : ShownStates]
Items == [id : Turns, mode : Modes]
Snapshots == [runs : [Conversations -> Runs], queues : [Conversations -> Seq(Items)]]

RTyped ==
    /\ life \in {"down", "restored", "up"}
    /\ at \in [Turns -> Places]
    /\ on \in [Turns -> Conversations \cup {NoConv}]
    /\ from \in [Turns -> Turns \cup {NoTurn}]
    /\ resumes \in [Turns -> Turns \cup {NoTurn}]
    /\ overtaken \in [Turns -> BOOLEAN]
    /\ row \in [Turns -> Statuses] /\ endings \subseteq Turns
    /\ owner \in [Conversations -> Turns \cup {NoTurn}]
    /\ paused \in [Conversations -> Pauses]
    /\ allPaused \in BOOLEAN
    /\ Snapshot \in Snapshots
    /\ saved \in Snapshots
    /\ writes \in Seq(Snapshots)
    /\ parked \in Seq(Turns)
    /\ slot \in Turns \cup {NoTurn}
    /\ stopped \subseteq Turns
    /\ shown \subseteq Turns
    /\ listed \subseteq Turns

(* What a snapshot names was sent in the conversation it names it for. *)
Sane(s) ==
    \A c \in Conversations :
        /\ s.runs[c].turn # NoTurn =>
              at[s.runs[c].turn] \notin {"free", "prep"} /\ on[s.runs[c].turn] = c
        /\ \A i \in DOMAIN s.queues[c] :
              at[s.queues[c][i].id] # "free" /\ on[s.queues[c][i].id] = c

Rooted ==
    \A t \in Turns : /\ at[t] = "free" <=> on[t] = NoConv
                     /\ row[t] # "none" => at[t] \in Gone \cup Held
                     /\ from[t] # NoTurn =>
                           at[from[t]] # "free" /\ on[t] = on[from[t]] /\ resumes[t] = NoTurn
                     /\ resumes[t] # NoTurn =>
                           at[resumes[t]] \in Gone /\ on[t] = on[resumes[t]]

Placed ==
    /\ Rooted
    /\ \A o \in shown \ {NoTurn} : at[o] \in Gone
    /\ \A k \in DOMAIN parked : at[parked[k]] \in Gone
    /\ slot # NoTurn => at[slot] \in Gone
    /\ Sane(Snapshot) /\ Sane(saved) /\ \A k \in DOMAIN writes : Sane(writes[k])

Latest == IF writes = <<>> THEN saved ELSE writes[Len(writes)]

Locked ==
    /\ \A t \in Turns : at[t] \in Held =>
          /\ owner[on[t]] = t /\ run[on[t]].turn = t
          /\ run[on[t]].state \in {"running", "stopping"}
    /\ \A c \in Conversations : owner[c] # NoTurn => at[owner[c]] \in Held /\ on[owner[c]] = c
    /\ life = "down" => writes = <<>> /\ \A t \in Turns : at[t] \notin OnTheWay
    /\ life # "up" => /\ parked = <<>> /\ slot = NoTurn
                      /\ \A t \in Turns : at[t] = "prep" => resumes[t] = NoTurn
    /\ life # "down" => Snapshot = Latest

Halted ==
    /\ \A o \in stopped : at[o] # "free" /\ (allPaused \/ paused[on[o]] # "no")
    /\ \A t \in Turns, o \in stopped :
          at[t] = "prep" /\ ~overtaken[t] /\ CarriesOn(t) # NoTurn => on[o] # on[t]
    /\ \A t \in Turns : at[t] = "owned" /\ CarriesOn(t) \in stopped => IsStoppingRun(on[t])

Mentions(s, o) ==
    \E c \in Conversations :
        \/ s.runs[c].turn # NoTurn /\ CarriesOn(s.runs[c].turn) = o
        \/ \E i \in DOMAIN s.queues[c] : resumes[s.queues[c][i].id] = o

(* The conversation has moved on from o, or the user has closed it since. *)
Beyond(s, o) == o \in forgotten \/ s.runs[on[o]].turn \notin {NoTurn, o}

Onward ==
    \A o \in Turns :
        /\ o \in shown \/ Mentions(saved, o) =>
              Beyond(saved, o) /\ \A k \in DOMAIN writes : Beyond(writes[k], o)
        /\ \A j, k \in DOMAIN writes : j <= k /\ Mentions(writes[j], o) => Beyond(writes[k], o)

SendsAgain(t, o) == at[t] = "prep" /\ from[t] # NoTurn /\ resumes[from[t]] = o
Recovers(t, o) == at[t] = "prep" /\ from[t] = NoTurn /\ resumes[t] = o

Recovering(o) ==
    /\ o \notin forgotten
    /\ \/ \E k \in DOMAIN parked : parked[k] = o
       \/ slot = o
       \/ \E t \in Turns : Recovers(t, o)

Fresh(o) ==
    /\ o \notin shown /\ ~Mentions(saved, o) /\ \A k \in DOMAIN writes : ~Mentions(writes[k], o)
    /\ \A t \in Turns : ~SendsAgain(t, o)

Once ==
    /\ \A j, k \in DOMAIN parked : parked[j] = parked[k] => j = k
    /\ \A k \in DOMAIN parked : parked[k] # slot
    /\ \A t \in Turns, o \in Turns : Recovers(t, o) =>
          /\ o # slot /\ \A k \in DOMAIN parked : parked[k] # o
          /\ \A u \in Turns : Recovers(u, o) => u = t

NewRecoveries ==
    /\ Once
    /\ \A o \in Turns : Recovering(o) => Fresh(o)
    /\ \A t \in Turns, o \in Turns : SendsAgain(t, o) => Beyond(Snapshot, o)

ResumptionInv == RTyped /\ Placed /\ Locked /\ Halted /\ Onward /\ NewRecoveries
-----------------------------------------------------------------------------
(* A turn is sent once, in one conversation, for one reservation or recovery;
   what is over stays over. *)
Grows ==
    /\ forgotten \subseteq forgotten'
    /\ \A t \in Turns :
          /\ at[t] # "free" => /\ at'[t] # "free"
                               /\ on'[t] = on[t] /\ from'[t] = from[t] /\ resumes'[t] = resumes[t]
          /\ at[t] \notin {"free", "prep"} => at'[t] \notin {"free", "prep"}
          /\ at[t] \in Gone => at'[t] \in Gone

LEMMA CarriesType == ASSUME RTyped, NEW t \in Turns PROVE CarriesOn(t) \in Turns \cup {NoTurn}
BY DEF RTyped, CarriesOn

(* A turn is carried on in its conversation, and only when it is over. *)
LEMMA CarriesHere ==
    ASSUME RTyped, Placed, NEW t \in Turns, CarriesOn(t) # NoTurn
    PROVE  /\ CarriesOn(t) \in Turns /\ on[CarriesOn(t)] = on[t] /\ at[CarriesOn(t)] \in Gone
           /\ at[t] # "free"
BY NoTurnAssumption, ConversationsAssumption DEF RTyped, Placed, Rooted, CarriesOn, Gone

LEMMA CarriesKept ==
    ASSUME RTyped, Placed, Grows, NEW t \in Turns, at[t] # "free"
    PROVE  CarriesOn(t)' = CarriesOn(t)
BY DEF RTyped, Placed, Rooted, CarriesOn, Grows

LEMMA SnapshotShape ==
    ASSUME NEW s \in Snapshots, NEW c \in Conversations
    PROVE  /\ s.runs[c].turn \in Turns \cup {NoTurn}
           /\ s.queues[c] \in Seq(Items)
           /\ \A i \in DOMAIN s.queues[c] : s.queues[c][i].id \in Turns
<1>1. s.runs[c] \in Runs /\ s.queues[c] \in Seq(Items)
    BY DEF Snapshots
<1>2. \A i \in DOMAIN s.queues[c] : s.queues[c][i] \in Items
    BY <1>1
<1>3. QED
    BY <1>1, <1>2 DEF Runs, Items

LEMMA SaneKept ==
    ASSUME RTyped, Grows, NEW s \in Snapshots, Sane(s)
    PROVE  Sane(s)'
BY SnapshotShape DEF Sane, Grows

(* What a snapshot mentions is over and stays mentioned, no more and no less. *)
LEMMA MentionsKept ==
    ASSUME RTyped, Placed, Grows, NEW s \in Snapshots, Sane(s), NEW o \in Turns
    PROVE  /\ Mentions(s, o) => at[o] \in Gone
           /\ Mentions(s, o)' <=> Mentions(s, o)
           /\ at[o] # "free" /\ Beyond(s, o) => Beyond(s, o)'
<1>1. ASSUME NEW c \in Conversations, s.runs[c].turn # NoTurn
      PROVE  /\ CarriesOn(s.runs[c].turn)' = CarriesOn(s.runs[c].turn)
             /\ CarriesOn(s.runs[c].turn) = o => at[o] \in Gone
    BY <1>1, SnapshotShape, CarriesKept, CarriesHere, NoTurnAssumption DEF Sane
<1>2. ASSUME NEW c \in Conversations, NEW i \in DOMAIN s.queues[c]
      PROVE  /\ resumes'[s.queues[c][i].id] = resumes[s.queues[c][i].id]
             /\ resumes[s.queues[c][i].id] = o => at[o] \in Gone
    BY <1>2, SnapshotShape, NoTurnAssumption DEF Sane, Grows, Placed, Rooted
<1>3. Mentions(s, o) => at[o] \in Gone
    BY <1>1, <1>2 DEF Mentions
<1>4. Mentions(s, o)' <=> Mentions(s, o)
    BY <1>1, <1>2 DEF Mentions
<1>5. at[o] # "free" /\ Beyond(s, o) => Beyond(s, o)'
    BY DEF Beyond, Grows
<1>6. QED
    BY <1>3, <1>4, <1>5
-----------------------------------------------------------------------------
(* The step stores what it shows: in a new snapshot, or because the latest one
   shows it already. *)
Stores ==
    /\ saved' = saved
    /\ \/ writes' = writes /\ Snapshot' = Latest
       \/ writes' = Append(writes, Snapshot')

LEMMA WrittenType ==
    ASSUME RTyped
    PROVE  /\ \A k \in DOMAIN writes : writes[k] \in Snapshots
           /\ Latest \in Snapshots
           /\ writes # <<>> => Len(writes) \in DOMAIN writes
BY DEF RTyped, Latest

LEMMA StoresType ==
    ASSUME RTyped, Stores, Snapshot' \in Snapshots
    PROVE  /\ saved' \in Snapshots /\ writes' \in Seq(Snapshots) /\ Latest' = Snapshot'
           /\ DOMAIN writes \subseteq DOMAIN writes'
           /\ \A k \in DOMAIN writes : writes'[k] = writes[k]
           /\ \A k \in DOMAIN writes' \ DOMAIN writes : k = Len(writes') /\ writes'[k] = Snapshot'
           /\ \A k \in DOMAIN writes : \A l \in DOMAIN writes' \ DOMAIN writes : k < l
<1>1. writes \in Seq(Snapshots) /\ saved' = saved /\ saved' \in Snapshots
    BY DEF RTyped, Stores
<1>2. CASE writes' = writes /\ Snapshot' = Latest
    BY <1>1, <1>2 DEF Latest
<1>3. CASE writes' = Append(writes, Snapshot')
  <2>1. /\ writes' \in Seq(Snapshots) /\ Len(writes') = Len(writes) + 1
        /\ DOMAIN writes = 1..Len(writes) /\ DOMAIN writes' = 1..Len(writes')
        /\ Len(writes) \in Nat
        /\ \A k \in 1..Len(writes) : writes'[k] = writes[k]
        /\ writes'[Len(writes')] = Snapshot'
      BY <1>1, <1>3
  <2>2. Latest' = Snapshot'
      BY <2>1 DEF Latest
  <2>3. QED
      BY <1>1, <2>1, <2>2
<1>4. QED
    BY <1>2, <1>3 DEF Stores

LEMMA StoresSane ==
    ASSUME RTyped, Placed, Grows, Stores, Snapshot' \in Snapshots, Sane(Snapshot)'
    PROVE  Sane(saved)' /\ \A k \in DOMAIN writes' : Sane(writes[k])'
<1>1. Sane(saved)'
  <2>1. PICK s \in Snapshots : s = saved
      BY DEF RTyped
  <2>2. Sane(s)'
      BY <2>1, SaneKept DEF Placed
  <2>3. saved' = s
      BY <2>1 DEF Stores
  <2>4. QED
      BY <2>2, <2>3 DEF Sane
<1>2. ASSUME NEW k \in DOMAIN writes PROVE Sane(writes[k])'
  <2>1. PICK s \in Snapshots : s = writes[k]
      BY WrittenType
  <2>2. Sane(s)'
      BY <2>1, SaneKept DEF Placed
  <2>3. writes'[k] = s
      BY <2>1, StoresType
  <2>4. QED
      BY <2>2, <2>3 DEF Sane
<1>3. ASSUME NEW k \in DOMAIN writes' \ DOMAIN writes PROVE Sane(writes[k])'
  <2>1. writes'[k] = Snapshot'
      BY StoresType
  <2>2. QED
      BY <2>1 DEF Sane
<1>4. QED
    BY <1>1, <1>2, <1>3

(* What the stored snapshots say of a turn does not change. *)
LEMMA StoresKept ==
    ASSUME RTyped, Placed, Grows, NEW o \in Turns,
           saved' = saved
    PROVE  /\ Mentions(saved, o)' <=> Mentions(saved, o)
           /\ Mentions(saved, o) => at[o] \in Gone
           /\ at[o] # "free" /\ Beyond(saved, o) => Beyond(saved, o)'
<1>1. PICK s \in Snapshots : s = saved
    BY DEF RTyped
<1>2. saved' = s
    BY <1>1
<1>3. /\ Mentions(s, o) => at[o] \in Gone
      /\ Mentions(s, o)' <=> Mentions(s, o)
      /\ at[o] # "free" /\ Beyond(s, o) => Beyond(s, o)'
    BY <1>1, MentionsKept DEF Placed
<1>4. QED
    BY <1>1, <1>2, <1>3 DEF Mentions, Beyond

LEMMA WritesKept ==
    ASSUME RTyped, Placed, Grows, NEW o \in Turns,
           NEW k \in DOMAIN writes, NEW l, writes'[l] = writes[k]
    PROVE  /\ Mentions(writes[l], o)' <=> Mentions(writes[k], o)
           /\ Mentions(writes[k], o) => at[o] \in Gone
           /\ at[o] # "free" /\ Beyond(writes[k], o) => Beyond(writes[l], o)'
<1>1. PICK s \in Snapshots : s = writes[k]
    BY WrittenType
<1>2. writes'[l] = s
    BY <1>1
<1>3. /\ Mentions(s, o) => at[o] \in Gone
      /\ Mentions(s, o)' <=> Mentions(s, o)
      /\ at[o] # "free" /\ Beyond(s, o) => Beyond(s, o)'
    BY <1>1, MentionsKept DEF Placed
<1>4. QED
    BY <1>1, <1>2, <1>3 DEF Mentions, Beyond

LEMMA LatestBeyond ==
    ASSUME RTyped, Onward, NEW o \in Turns,
           \/ o \in shown \/ Mentions(saved, o)
           \/ \E k \in DOMAIN writes : Mentions(writes[k], o)
    PROVE  Beyond(Latest, o)
<1>1. CASE writes = <<>>
    BY <1>1 DEF Onward, Latest
<1>2. CASE writes # <<>>
  <2>1. Len(writes) \in DOMAIN writes /\ \A k \in DOMAIN writes : k <= Len(writes)
      BY <1>2 DEF RTyped
  <2>2. QED
      BY <1>2, <2>1 DEF Onward, Latest
<1>3. QED
    BY <1>1, <1>2

(* A conversation only moves on: what a snapshot mentions was replaced in it by
   a later turn, and in every later snapshot. *)
LEMMA StoresOnward ==
    ASSUME RTyped, Placed, Onward, Grows, Stores, Snapshot' \in Snapshots, shown' \subseteq shown,
           \A o \in Turns : at[o] \in Gone /\ Beyond(Latest, o) => Beyond(Snapshot, o)',
           \A o \in Turns : Mentions(Snapshot, o)' => at[o] \in Gone /\ Beyond(Snapshot, o)'
    PROVE  Onward'
<1> SUFFICES ASSUME NEW o \in Turns
             PROVE  /\ o \in shown' \/ Mentions(saved, o)' =>
                          Beyond(saved, o)' /\ \A k \in DOMAIN writes' : Beyond(writes[k], o)'
                    /\ \A j, k \in DOMAIN writes' :
                          j <= k /\ Mentions(writes[j], o)' => Beyond(writes[k], o)'
    BY DEF Onward
<1>1. /\ DOMAIN writes \subseteq DOMAIN writes'
      /\ \A k \in DOMAIN writes : writes'[k] = writes[k]
      /\ \A k \in DOMAIN writes' \ DOMAIN writes : k = Len(writes') /\ writes'[k] = Snapshot'
      /\ \A k \in DOMAIN writes : \A l \in DOMAIN writes' \ DOMAIN writes : k < l
    BY StoresType
<1>2. /\ Mentions(saved, o)' <=> Mentions(saved, o)
      /\ Mentions(saved, o) => at[o] \in Gone
      /\ at[o] # "free" /\ Beyond(saved, o) => Beyond(saved, o)'
    BY StoresKept DEF Stores
<1>3. \A k \in DOMAIN writes :
         /\ Mentions(writes[k], o)' <=> Mentions(writes[k], o)
         /\ Mentions(writes[k], o) => at[o] \in Gone
         /\ at[o] # "free" /\ Beyond(writes[k], o) => Beyond(writes[k], o)'
    BY <1>1, WritesKept
<1>4. \A k \in DOMAIN writes' \ DOMAIN writes :
         /\ Mentions(writes[k], o)' <=> Mentions(Snapshot, o)'
         /\ Beyond(writes[k], o)' <=> Beyond(Snapshot, o)'
    BY <1>1 DEF Mentions, Beyond
<1>5. o \in shown' => at[o] \in Gone
    BY NoTurnAssumption DEF Placed
<1>6. (\/ o \in shown \/ Mentions(saved, o) \/ \E k \in DOMAIN writes : Mentions(writes[k], o))
        => Beyond(Latest, o)
    BY LatestBeyond
<1>7. ASSUME o \in shown' \/ Mentions(saved, o)'
      PROVE  Beyond(saved, o)' /\ \A k \in DOMAIN writes' : Beyond(writes[k], o)'
  <2>1. at[o] \in Gone /\ (o \in shown \/ Mentions(saved, o))
      BY <1>2, <1>5, <1>7
  <2>2. at[o] # "free"
      BY <2>1 DEF Gone
  <2>3. \A k \in DOMAIN writes' \ DOMAIN writes : Beyond(writes[k], o)'
      BY <1>4, <1>6, <2>1
  <2>4. QED
      BY <1>2, <1>3, <2>1, <2>2, <2>3 DEF Onward
<1>8. ASSUME NEW j \in DOMAIN writes', NEW k \in DOMAIN writes', j <= k, Mentions(writes[j], o)'
      PROVE  Beyond(writes[k], o)'
  <2>1. CASE j \in DOMAIN writes
    <3>1. Mentions(writes[j], o) /\ at[o] \in Gone
        BY <1>3, <1>8, <2>1
    <3>2. at[o] # "free"
        BY <3>1 DEF Gone
    <3>3. CASE k \in DOMAIN writes
        BY <1>3, <1>8, <2>1, <3>1, <3>2, <3>3 DEF Onward
    <3>4. CASE k \notin DOMAIN writes
        BY <1>4, <1>6, <2>1, <3>1, <3>4
    <3>5. QED
        BY <3>3, <3>4
  <2>2. CASE j \notin DOMAIN writes
    <3>1. k \notin DOMAIN writes
      <4>1. DOMAIN writes \subseteq Int /\ DOMAIN writes' \subseteq Int
          BY StoresType DEF RTyped
      <4>2. QED
          BY <1>1, <1>8, <2>2, <4>1
    <3>2. QED
        BY <1>4, <1>8, <2>2, <3>1
  <2>3. QED
      BY <2>1, <2>2
<1>9. QED
    BY <1>7, <1>8

LEMMA LatestKnown ==
    ASSUME RTyped, NEW o \in Turns, Mentions(Latest, o)
    PROVE  Mentions(saved, o) \/ \E k \in DOMAIN writes : Mentions(writes[k], o)
BY WrittenType DEF Latest

LEMMA StoresFresh ==
    ASSUME RTyped, Placed, Grows, Stores, Snapshot' \in Snapshots, shown' \subseteq shown,
           NEW o \in Turns, Fresh(o), ~Mentions(Snapshot, o)',
           \A t \in Turns : ~SendsAgain(t, o)'
    PROVE  Fresh(o)'
<1>1. ~Mentions(saved, o)'
    BY StoresKept DEF Fresh, Stores
<1>2. ASSUME NEW k \in DOMAIN writes' PROVE ~Mentions(writes[k], o)'
  <2>1. CASE k \in DOMAIN writes
      BY <2>1, StoresType, WritesKept DEF Fresh
  <2>2. CASE k \notin DOMAIN writes
    <3>1. writes'[k] = Snapshot'
        BY <2>2, StoresType
    <3>2. QED
        BY <3>1 DEF Mentions
  <2>3. QED
      BY <2>1, <2>2
<1>3. QED
    BY <1>1, <1>2 DEF Fresh

(* What the app shows as carried on is over, and its conversation moved on. *)
LEMMA MentionedBeyond ==
    ASSUME ResumptionInv, life # "down", NEW o \in Turns, Mentions(Snapshot, o)
    PROVE  at[o] \in Gone /\ Beyond(Snapshot, o)
<1> USE DEF ResumptionInv
<1>1. Snapshot = Latest
    BY DEF Locked
<1>2. Mentions(saved, o) \/ \E k \in DOMAIN writes : Mentions(writes[k], o)
    BY <1>1, LatestKnown
<1>3. PICK r \in Snapshots : r = Snapshot
    BY DEF RTyped
<1>4. at[o] \in Gone
  <2>1. \A d \in Conversations :
            /\ r.runs[d].turn # NoTurn => /\ r.runs[d].turn \in Turns
                                          /\ at[r.runs[d].turn] # "free"
            /\ \A i \in DOMAIN r.queues[d] : r.queues[d][i].id \in Turns
      BY <1>3, SnapshotShape, NoTurnAssumption DEF Placed, Sane
  <2>2. PICK d \in Conversations :
            \/ r.runs[d].turn # NoTurn /\ CarriesOn(r.runs[d].turn) = o
            \/ \E i \in DOMAIN r.queues[d] : resumes[r.queues[d][i].id] = o
      BY <1>3 DEF Mentions
  <2>3. QED
      BY <2>1, <2>2, CarriesHere, NoTurnAssumption DEF Placed, Rooted
<1>5. QED
    BY <1>1, <1>2, <1>4, LatestBeyond

(* A step of the app that stores what it shows: it shows a new turn only for a
   cut-off one that is not being recovered any more. *)
LEMMA MovesOn ==
    ASSUME ResumptionInv, life # "down", Grows, Stores, Snapshot' \in Snapshots,
           shown' \subseteq shown,
           \A c \in Conversations : run'[c].turn = run[c].turn \/
               (run'[c].turn \in Turns /\ at[run'[c].turn] = "prep"),
           \A o \in Turns : Mentions(Snapshot, o)' =>
               \/ Mentions(Snapshot, o)
               \/ at[o] \in Gone /\ run'[on[o]].turn \notin {NoTurn, o} /\ ~Recovering(o)',
           \A t \in Turns, o \in Turns :
               SendsAgain(t, o)' => SendsAgain(t, o) \/ Mentions(Snapshot, o),
           \A o \in Turns : Recovering(o)' => Recovering(o),
           Once'
    PROVE  Onward' /\ NewRecoveries'
<1> USE DEF ResumptionInv
<1>1. Snapshot = Latest
    BY DEF Locked
<1>2. ASSUME NEW o \in Turns, at[o] \in Gone
      PROVE  /\ on'[o] = on[o] /\ on[o] \in Conversations
             /\ Beyond(Snapshot, o) => Beyond(Snapshot, o)'
             /\ run'[on[o]].turn \notin {NoTurn, o} => Beyond(Snapshot, o)'
  <2>1. on'[o] = on[o] /\ on[o] \in Conversations
      BY <1>2 DEF Grows, Gone, Placed, Rooted, RTyped
  <2>2. at[o] # "prep"
      BY <1>2 DEF Gone
  <2>3. QED
      BY <2>1, <2>2, NoTurnAssumption DEF Beyond, Snapshot, Grows
<1>3. ASSUME NEW o \in Turns, Mentions(Snapshot, o)
      PROVE  at[o] \in Gone /\ Beyond(Snapshot, o)
    BY <1>3, MentionedBeyond
<1>4. Onward'
  <2>1. \A o \in Turns : at[o] \in Gone /\ Beyond(Latest, o) => Beyond(Snapshot, o)'
      BY <1>1, <1>2
  <2>2. \A o \in Turns : Mentions(Snapshot, o)' => at[o] \in Gone /\ Beyond(Snapshot, o)'
      BY <1>2, <1>3
  <2>3. QED
      BY <2>1, <2>2, StoresOnward
<1>5. ASSUME NEW o \in Turns, Recovering(o)' PROVE Fresh(o)'
  <2>1. Fresh(o)
      BY <1>5 DEF NewRecoveries
  <2>2. ~Mentions(Snapshot, o)
      BY <1>1, <2>1, LatestKnown DEF Fresh
  <2>3. ~Mentions(Snapshot, o)' /\ \A t \in Turns : ~SendsAgain(t, o)'
      BY <1>5, <2>1, <2>2 DEF Fresh
  <2>4. QED
      BY <2>1, <2>3, StoresFresh
<1>6. ASSUME NEW t \in Turns, NEW o \in Turns, SendsAgain(t, o)' PROVE Beyond(Snapshot, o)'
  <2>1. at[o] \in Gone /\ Beyond(Snapshot, o)
    <3>1. CASE SendsAgain(t, o)
      <4>1. from[t] \in Turns /\ resumes[from[t]] = o
          BY <3>1 DEF SendsAgain, RTyped
      <4>2. at[o] \in Gone
          BY <4>1, NoTurnAssumption DEF Placed, Rooted
      <4>3. QED
          BY <3>1, <4>2 DEF NewRecoveries
    <3>2. CASE Mentions(Snapshot, o)
        BY <1>3, <3>2
    <3>3. QED
        BY <1>6, <3>1, <3>2
  <2>2. QED
      BY <1>2, <2>1
<1>7. QED
    BY <1>4, <1>5, <1>6 DEF NewRecoveries

(* What the app shows after a step that shows no more than before, and S. *)
LEMMA Names ==
    ASSUME RTyped, Placed, Grows, Snapshot' \in Snapshots,
           NEW S \in SUBSET Turns, \A t \in S : at[t] # "free",
           \A c \in Conversations : run'[c].turn = run[c].turn \/
               (run'[c].turn \in S /\ c = on[run'[c].turn] /\ at'[run'[c].turn] \notin {"free", "prep"}),
           \A c \in Conversations : \A i \in DOMAIN queue'[c] :
               \/ \E j \in DOMAIN queue[c] : queue'[c][i].id = queue[c][j].id
               \/ \E t \in S : c = on[t] /\ queue'[c][i].id \in {t, from[t]}
    PROVE  /\ Sane(Snapshot)'
           /\ \A o \in Turns : Mentions(Snapshot, o)' =>
                  Mentions(Snapshot, o) \/ \E t \in S : CarriesOn(t) = o
<1>1. \A c \in Conversations : run[c].turn \in Turns \cup {NoTurn} /\
          \A i \in DOMAIN queue[c] : queue[c][i].id \in Turns
  <2>1. PICK s \in Snapshots : s = Snapshot
      BY DEF RTyped
  <2>2. s.runs = run /\ s.queues = queue
      BY <2>1 DEF Snapshot
  <2>3. QED
      BY <2>2, SnapshotShape
<1>2. \A c \in Conversations : run'[c].turn \in Turns \cup {NoTurn} /\
          \A i \in DOMAIN queue'[c] : queue'[c][i].id \in Turns
  <2>1. PICK s \in Snapshots : s = Snapshot'
      OBVIOUS
  <2>2. s.runs = run' /\ s.queues = queue'
      BY <2>1 DEF Snapshot
  <2>3. QED
      BY <2>2, SnapshotShape
<1>3. \A c \in Conversations :
          /\ run[c].turn # NoTurn => at[run[c].turn] \notin {"free", "prep"} /\ on[run[c].turn] = c
          /\ \A i \in DOMAIN queue[c] : at[queue[c][i].id] # "free" /\ on[queue[c][i].id] = c
    BY DEF Placed, Sane, Snapshot
<1>4. ASSUME NEW t \in S
      PROVE  /\ CarriesOn(t)' = CarriesOn(t) /\ on'[t] = on[t] /\ at'[t] # "free"
             /\ resumes'[t] \in Turns => resumes'[t] = CarriesOn(t)
             /\ from[t] \in Turns => /\ at'[from[t]] # "free" /\ on'[from[t]] = on[t]
                                     /\ resumes'[from[t]] = CarriesOn(t)
  <2>1. CarriesOn(t)' = CarriesOn(t) /\ on'[t] = on[t] /\ at'[t] # "free" /\ resumes'[t] = resumes[t]
      BY CarriesKept DEF Grows
  <2>2. resumes[t] \in Turns => resumes[t] = CarriesOn(t)
      BY NoTurnAssumption DEF CarriesOn, Placed, Rooted
  <2>3. from[t] \in Turns => /\ at[from[t]] # "free" /\ on[from[t]] = on[t]
                             /\ resumes[from[t]] = CarriesOn(t)
      BY NoTurnAssumption DEF CarriesOn, Placed, Rooted
  <2>4. QED
      BY <2>1, <2>2, <2>3 DEF Grows
<1>5. ASSUME NEW c \in Conversations, run'[c].turn # NoTurn
      PROVE  /\ at'[run'[c].turn] \notin {"free", "prep"} /\ on'[run'[c].turn] = c
             /\ \A o \in Turns : CarriesOn(run[c].turn)' = o =>
                    \/ \E t \in S : CarriesOn(t) = o
                    \/ run[c].turn # NoTurn /\ CarriesOn(run[c].turn) = o
  <2>1. PICK u \in Turns : u = run'[c].turn
      BY <1>2, <1>5
  <2>2. CarriesOn(run[c].turn)' = CarriesOn(u)'
      BY <2>1 DEF CarriesOn
  <2>3. CASE u \in S /\ c = on[u] /\ at'[u] \notin {"free", "prep"}
      BY SMTT(30), <1>4, <2>1, <2>2, <2>3
  <2>4. CASE u = run[c].turn
    <3>1. at[u] \notin {"free", "prep"} /\ on[u] = c
        BY <1>3, <1>5, <2>1, <2>4
    <3>2. CarriesOn(u)' = CarriesOn(u) /\ at'[u] \notin {"free", "prep"} /\ on'[u] = c
        BY <3>1, CarriesKept DEF Grows
    <3>3. CarriesOn(u) = CarriesOn(run[c].turn)
        BY <2>4
    <3>4. QED
        BY <1>5, <2>1, <2>2, <2>4, <3>2, <3>3
  <2>5. QED
      BY <2>1, <2>3, <2>4
<1>6. ASSUME NEW c \in Conversations, NEW i \in DOMAIN queue'[c]
      PROVE  /\ at'[queue'[c][i].id] # "free" /\ on'[queue'[c][i].id] = c
             /\ \A o \in Turns : resumes'[queue'[c][i].id] = o =>
                    \/ \E t \in S : CarriesOn(t) = o
                    \/ \E j \in DOMAIN queue[c] : resumes[queue[c][j].id] = o
  <2>1. CASE \E j \in DOMAIN queue[c] : queue'[c][i].id = queue[c][j].id
      BY <1>1, <1>3, <2>1 DEF Grows
  <2>2. CASE \E t \in S : c = on[t] /\ queue'[c][i].id \in {t, from[t]}
      BY <1>2, <1>4, <2>2
  <2>3. QED
      BY <1>6, <2>1, <2>2
<1>7. Sane(Snapshot)'
    BY <1>5, <1>6 DEF Sane, Snapshot
<1>8. ASSUME NEW o \in Turns, Mentions(Snapshot, o)'
      PROVE  Mentions(Snapshot, o) \/ \E t \in S : CarriesOn(t) = o
  <2>1. PICK c \in Conversations : \/ run'[c].turn # NoTurn /\ CarriesOn(run[c].turn)' = o
                                   \/ \E i \in DOMAIN queue'[c] : resumes'[queue'[c][i].id] = o
      BY <1>8 DEF Mentions, Snapshot
  <2>2. CASE run'[c].turn # NoTurn /\ CarriesOn(run[c].turn)' = o
      BY <1>5, <2>2 DEF Mentions, Snapshot
  <2>3. CASE \E i \in DOMAIN queue'[c] : resumes'[queue'[c][i].id] = o
      BY <1>6, <2>3 DEF Mentions, Snapshot
  <2>4. QED
      BY <2>1, <2>2, <2>3
<1>9. QED
    BY <1>7, <1>8
-----------------------------------------------------------------------------
LEMMA PlacedStep ==
    ASSUME ResumptionInv, Grows, Stores, Snapshot' \in Snapshots, Sane(Snapshot)', Rooted',
           shown' \subseteq shown,
           \A k \in DOMAIN parked' : \E j \in DOMAIN parked : parked'[k] = parked[j],
           \/ slot' \in {slot, NoTurn}
           \/ \E j \in DOMAIN parked : slot' = parked[j]
    PROVE  Placed'
<1>1. Sane(saved)' /\ \A k \in DOMAIN writes' : Sane(writes[k])'
    BY StoresSane DEF ResumptionInv
<1>2. \A o \in shown' \ {NoTurn} : at'[o] \in Gone
    BY DEF ResumptionInv, RTyped, Placed, Grows
<1>3. \A j \in DOMAIN parked : parked[j] \in Turns /\ at'[parked[j]] \in Gone
    BY DEF ResumptionInv, RTyped, Placed, Grows
<1>4. slot # NoTurn => at'[slot] \in Gone
    BY DEF ResumptionInv, RTyped, Placed, Grows
<1>5. QED
    BY <1>1, <1>2, <1>3, <1>4 DEF Placed

(* A send starts: a new message, a reservation, or the recovery in the slot. *)
LEMMA StartInv ==
    ASSUME ResumptionInv, life # "down", NEW t \in Turns, at[t] = "free",
           NEW c \in Conversations,
           NEW item \in Turns \cup {NoTurn}, NEW old \in Turns \cup {NoTurn},
           at' = [at EXCEPT ![t] = "prep"], on' = [on EXCEPT ![t] = c],
           from' = [from EXCEPT ![t] = item], resumes' = [resumes EXCEPT ![t] = old],
           UNCHANGED <<overtaken, owner, run, queue, allPaused, life, storeVars, parked, listed,
                       shown, forgotten>>,
           slot' = IF old = NoTurn THEN slot ELSE NoTurn,
           old # NoTurn => old = slot /\ item = NoTurn /\ c = on[old],
           item # NoTurn => \E i \in DOMAIN queue[c] : queue[c][i].id = item,
           paused' \in [Conversations -> Pauses], stopped' \subseteq stopped,
           \A o \in stopped' : allPaused \/ paused'[on[o]] # "no",
           item # NoTurn \/ old # NoTurn => \A o \in stopped' : on[o] # c
    PROVE  ResumptionInv'
<1> USE DEF ResumptionInv
<1>1. Grows
    BY DEF Grows, RTyped, Gone
<1>2. Snapshot' = Snapshot /\ Stores /\ Snapshot' \in Snapshots
    BY DEF Snapshot, Stores, Locked, RTyped, storeVars
<1>3. RTyped'
    BY <1>2 DEF RTyped, Places, OnTheWay, storeVars
<1>4. \A u \in Turns : u # t => /\ at'[u] = at[u] /\ on'[u] = on[u] /\ from'[u] = from[u]
                                /\ resumes'[u] = resumes[u]
    BY DEF RTyped
<1>5. at'[t] = "prep" /\ on'[t] = c /\ from'[t] = item /\ resumes'[t] = old
    BY DEF RTyped
<1>6. /\ Sane(Snapshot)'
      /\ \A o \in Turns : Mentions(Snapshot, o)' => Mentions(Snapshot, o)
    BY <1>1, <1>2, Names, \A S \in SUBSET {} : S = {}
<1>7. item # NoTurn => /\ at[item] # "free" /\ on[item] = c /\ item # t
                       /\ resumes'[item] = resumes[item]
                       /\ \A o \in Turns : resumes[item] = o => Mentions(Snapshot, o)
    BY <1>4 DEF Placed, Sane, Snapshot, Mentions
<1>8. old # NoTurn => at[old] \in Gone /\ old # t
    BY DEF Placed, Gone
<1>9. Rooted'
    BY <1>4, <1>5, <1>7, <1>8, NoTurnAssumption, ConversationsAssumption
    DEF Placed, Rooted, Gone, Held, RTyped, storeVars
<1>10. Placed'
    BY <1>1, <1>2, <1>6, <1>9, PlacedStep
<1>11. Locked'
    BY <1>2, <1>4, <1>5 DEF Locked, Held, RTyped, storeVars, Latest
<1>12. Halted'
  <2>1. \A u \in Turns : u # t /\ at[u] # "free" => CarriesOn(u)' = CarriesOn(u)
      BY <1>1, CarriesKept
  <2>2. \A o \in stopped' : o \in stopped /\ o # t /\ o \in Turns
      BY DEF Halted, RTyped
  <2>3. CarriesOn(t)' # NoTurn => item # NoTurn \/ old # NoTurn
      BY <1>5 DEF CarriesOn
  <2>4. \A o \in stopped' : at'[o] # "free" /\ (allPaused' \/ paused'[on'[o]] # "no")
      BY <1>4, <2>2 DEF Halted
  <2>5. \A u \in Turns, o \in stopped' :
            at'[u] = "prep" /\ ~overtaken'[u] /\ CarriesOn(u)' # NoTurn => on'[o] # on'[u]
    <3>1. SUFFICES ASSUME NEW u \in Turns, NEW o \in stopped',
                          at'[u] = "prep", ~overtaken'[u], CarriesOn(u)' # NoTurn
                   PROVE  on'[o] # on'[u]
        OBVIOUS
    <3>2. CASE u = t
        BY <1>4, <1>5, <2>2, <2>3, <3>1, <3>2
    <3>3. CASE u # t
        BY <1>4, <2>1, <2>2, <3>1, <3>3 DEF Halted
    <3>4. QED
        BY <3>2, <3>3
  <2>6. \A u \in Turns : at'[u] = "owned" /\ CarriesOn(u)' \in stopped' => IsStoppingRun(on[u])'
      BY <1>4, <1>5, <2>1, <2>2 DEF Halted, IsStoppingRun
  <2>7. QED
      BY <2>4, <2>5, <2>6 DEF Halted
<1>13. Onward' /\ NewRecoveries'
  <2>1. \A u, o \in Turns : Recovers(u, o)' => Recovers(u, o) \/ (u = t /\ o = old /\ o = slot)
      BY <1>4, <1>5, NoTurnAssumption DEF Recovers
  <2>2. \A o \in Turns : Recovering(o)' => Recovering(o)
      BY <2>1, NoTurnAssumption DEF Recovering
  <2>3. \A u, o \in Turns : SendsAgain(u, o)' => SendsAgain(u, o) \/ Mentions(Snapshot, o)
    <3>1. SUFFICES ASSUME NEW u \in Turns, NEW o \in Turns, SendsAgain(u, o)'
                   PROVE  SendsAgain(u, o) \/ Mentions(Snapshot, o)
        OBVIOUS
    <3>2. CASE u = t
        BY <1>5, <1>7, <3>1, <3>2 DEF SendsAgain
    <3>3. CASE u # t
      <4>1. at[u] = "prep" /\ from[u] # NoTurn /\ resumes'[from[u]] = o
          BY <1>4, <3>1, <3>3 DEF SendsAgain
      <4>2. from[u] \in Turns /\ at[from[u]] # "free"
          BY <4>1 DEF RTyped, Placed, Rooted
      <4>3. QED
          BY <1>4, <4>1, <4>2 DEF SendsAgain
    <3>4. QED
        BY <3>2, <3>3
  <2>4. Once'
    <3>1. slot' # slot => slot' = NoTurn
        OBVIOUS
    <3>2. \A k \in DOMAIN parked : parked[k] \in Turns
        BY DEF RTyped
    <3>3. \A u, o \in Turns : Recovers(u, o) => o # slot
        BY DEF NewRecoveries, Once
    <3>4. ASSUME NEW u \in Turns, NEW o \in Turns, Recovers(u, o)'
          PROVE  /\ o # slot' /\ \A k \in DOMAIN parked : parked[k] # o
                 /\ \A v \in Turns : Recovers(v, o)' => v = u
      <4>1. CASE Recovers(u, o)
          BY <2>1, <3>1, <3>3, <3>4, <4>1, NoTurnAssumption DEF NewRecoveries, Once
      <4>2. CASE u = t /\ o = old /\ o = slot
          BY <2>1, <3>3, <3>4, <4>2, NoTurnAssumption DEF NewRecoveries, Once
      <4>3. QED
          BY <2>1, <3>4, <4>1, <4>2
    <3>5. QED
        BY <3>1, <3>2, <3>4, NoTurnAssumption DEF NewRecoveries, Once
  <2>5. QED
      BY <1>1, <1>2, <1>6, <2>2, <2>3, <2>4, MovesOn
<1>14. QED
    BY <1>3, <1>10, <1>11, <1>12, <1>13

LEMMA HeadReserved ==
    ASSUME ResumptionInv, NEW c \in Conversations, queue[c] # <<>>
    PROVE  1 \in DOMAIN queue[c] /\ queue[c][1].id = Head(queue[c]).id /\ Head(queue[c]).id \in Turns
<1>1. PICK s \in Snapshots : s = Snapshot
    BY DEF ResumptionInv, RTyped
<1>2. queue[c] \in Seq(Items) /\ \A i \in DOMAIN queue[c] : queue[c][i].id \in Turns
    BY <1>1, SnapshotShape DEF Snapshot
<1>3. QED
    BY <1>2

LEMMA TypesInv == ASSUME ResumptionInv, NEW c \in Conversations, Types(c) PROVE ResumptionInv'
<1>1. PICK t \in Turns : /\ at[t] = "free" /\ at' = [at EXCEPT ![t] = "prep"]
                         /\ on' = [on EXCEPT ![t] = c] /\ from' = [from EXCEPT ![t] = NoTurn]
                         /\ resumes' = [resumes EXCEPT ![t] = NoTurn]
    BY DEF Types, Send, Goto
<1>2. /\ life # "down"
      /\ UNCHANGED <<overtaken, controlVars, life, storeVars, resumeVars, stopped, shown, forgotten>>
    BY DEF Types, Send, Up
<1>3. QED
    BY <1>1, <1>2, StartInv DEF controlVars, resumeVars, ResumptionInv, RTyped, Halted

LEMMA DrainInv == ASSUME ResumptionInv, NEW c \in Conversations, Drain(c) PROVE ResumptionInv'
<1> DEFINE item == Head(queue[c]).id
<1>1. PICK t \in Turns : /\ at[t] = "free" /\ at' = [at EXCEPT ![t] = "prep"]
                         /\ on' = [on EXCEPT ![t] = c] /\ from' = [from EXCEPT ![t] = item]
                         /\ resumes' = [resumes EXCEPT ![t] = NoTurn]
    BY DEF Drain, Send, Goto
<1>2. /\ life # "down" /\ ~allPaused /\ paused[c] = "no" /\ queue[c] # <<>>
      /\ UNCHANGED <<overtaken, controlVars, life, storeVars, resumeVars, stopped, shown, forgotten>>
    BY DEF Drain, Send, Up, Drains, CanAutoRun, pastVars
<1>3. 1 \in DOMAIN queue[c] /\ queue[c][1].id = item /\ item \in Turns
    BY <1>2, HeadReserved
<1>4. \A o \in stopped : on[o] # c
    BY <1>2 DEF ResumptionInv, Halted
<1>5. QED
    BY <1>1, <1>2, <1>3, <1>4, StartInv DEF controlVars, resumeVars, ResumptionInv, RTyped, Halted

LEMMA RecoverInv == ASSUME ResumptionInv, Recover PROVE ResumptionInv'
<1>1. PICK t \in Turns : /\ at[t] = "free" /\ at' = [at EXCEPT ![t] = "prep"]
                         /\ on' = [on EXCEPT ![t] = on[slot]] /\ from' = [from EXCEPT ![t] = NoTurn]
                         /\ resumes' = [resumes EXCEPT ![t] = slot]
    BY DEF Recover, Send, Goto
<1>2. /\ life # "down" /\ ~allPaused /\ paused[on[slot]] = "no" /\ slot # NoTurn /\ slot' = NoTurn
      /\ UNCHANGED <<overtaken, controlVars, life, storeVars, parked, listed, stopped, shown, forgotten>>
    BY DEF Recover, Send, Up, CanAutoRun, pastVars
<1>3. slot \in Turns /\ on[slot] \in Conversations
    BY <1>2 DEF ResumptionInv, RTyped, Placed, Rooted, Gone
<1>4. \A o \in stopped : on[o] # on[slot]
    BY <1>2 DEF ResumptionInv, Halted
<1>5. PICK c \in Conversations, old \in Turns : c = on[slot] /\ old = slot
    BY <1>3
<1>6. QED
    BY <1>1, <1>2, <1>3, <1>4, <1>5, StartInv, NoTurnAssumption
    DEF controlVars, ResumptionInv, RTyped, Halted

(* A step that sends nothing and shows nothing: pauses that are lifted, rows
   that are closed. *)
LEMMA SameInv ==
    ASSUME ResumptionInv,
           UNCHANGED <<owner, run, queue, life, sendVars, saved, writes, parked, slot, shown, forgotten>>,
           row' \in [Turns -> Statuses], endings' \subseteq Turns,
           \A t \in Turns : row'[t] # "none" => row[t] # "none",
           paused' \in [Conversations -> Pauses], allPaused' \in BOOLEAN,
           listed' \subseteq Turns, stopped' \subseteq stopped,
           \A o \in stopped' : allPaused' \/ paused'[on[o]] # "no"
    PROVE  ResumptionInv'
<1> USE DEF ResumptionInv, sendVars, resumeVars
<1>1. Snapshot' = Snapshot /\ Latest' = Latest
    BY DEF Snapshot, Latest
<1>2. RTyped'
    BY <1>1 DEF RTyped
<1>3. Sane(Snapshot)' /\ Sane(saved)' /\ \A k \in DOMAIN writes' : Sane(writes[k])'
    BY <1>1 DEF Placed, Sane
<1>4. Placed'
    BY <1>3 DEF Placed, Rooted
<1>5. Locked'
    BY <1>1 DEF Locked
<1>6. \A t \in Turns : CarriesOn(t)' = CarriesOn(t)
    BY DEF CarriesOn
<1>7. Halted'
    BY <1>6 DEF Halted, IsStoppingRun, RTyped
<1>8. \A o \in Turns : /\ Mentions(saved, o)' = Mentions(saved, o)
                       /\ Beyond(saved, o)' = Beyond(saved, o)
                       /\ Beyond(Snapshot, o)' = Beyond(Snapshot, o)
    BY <1>1 DEF Mentions, Beyond, CarriesOn
<1>9. \A o \in Turns : \A k \in DOMAIN writes : /\ Mentions(writes[k], o)' = Mentions(writes[k], o)
                                                /\ Beyond(writes[k], o)' = Beyond(writes[k], o)
    BY DEF Mentions, Beyond, CarriesOn
<1>10. Onward'
    BY <1>8, <1>9 DEF Onward
<1>11. \A t, o \in Turns : Recovers(t, o)' = Recovers(t, o) /\ SendsAgain(t, o)' = SendsAgain(t, o)
    BY DEF Recovers, SendsAgain
<1>12. \A o \in Turns : Recovering(o)' = Recovering(o) /\ Fresh(o)' = Fresh(o)
    BY <1>8, <1>9, <1>11 DEF Recovering, Fresh
<1>13. Once' = Once
    BY <1>11 DEF Once
<1>14. NewRecoveries'
    BY <1>8, <1>11, <1>12, <1>13 DEF NewRecoveries
<1>15. QED
    BY <1>2, <1>4, <1>5, <1>7, <1>10, <1>14

LEMMA ResumeInv == ASSUME ResumptionInv, NEW c \in Conversations, Resume(c) PROVE ResumptionInv'
<1>1. /\ life # "down" /\ paused' = [paused EXCEPT ![c] = "no"]
      /\ stopped' = {t \in stopped : on[t] # c}
      /\ UNCHANGED <<owner, run, queue, allPaused, life, storeVars, resumeVars, shown, forgotten>>
    BY DEF Resume, Up, Pause, GoesOn
<1>2. paused' \in [Conversations -> Pauses] /\ stopped' \subseteq stopped
    BY <1>1 DEF ResumptionInv, RTyped, Pauses
<1>3. \A o \in stopped' : on[o] # c /\ (allPaused \/ paused'[on[o]] # "no")
    BY <1>1 DEF ResumptionInv, Halted, RTyped
<1>4. CASE UNCHANGED sendVars
    BY <1>1, <1>2, <1>3, <1>4, SameInv DEF ResumptionInv, RTyped, storeVars, resumeVars
<1>5. CASE queue[c] # <<>> /\ Send(c, Head(queue[c]).id, NoTurn)
  <2> DEFINE item == Head(queue[c]).id
  <2>1. PICK t \in Turns : /\ at[t] = "free" /\ at' = [at EXCEPT ![t] = "prep"]
                           /\ on' = [on EXCEPT ![t] = c] /\ from' = [from EXCEPT ![t] = item]
                           /\ resumes' = [resumes EXCEPT ![t] = NoTurn]
      BY <1>5 DEF Send, Goto
  <2>2. 1 \in DOMAIN queue[c] /\ queue[c][1].id = item /\ item \in Turns
      BY <1>5, HeadReserved
  <2>3. UNCHANGED overtaken
      BY <1>5 DEF Send
  <2>4. QED
      BY <1>1, <1>2, <1>3, <2>1, <2>2, <2>3, StartInv DEF resumeVars
<1>6. QED
    BY <1>4, <1>5 DEF Resume

LEMMA ResumeAutomationInv == ASSUME ResumptionInv, ResumeAutomation PROVE ResumptionInv'
<1>1. /\ allPaused' = FALSE
      /\ stopped' = {t \in stopped : on[t] \notin {c \in Conversations : paused[c] = "no"}}
      /\ UNCHANGED <<owner, run, queue, paused, life, sendVars, storeVars, resumeVars, shown, forgotten>>
    BY DEF ResumeAutomation, GoesOn
<1>2. \A o \in stopped' : paused[on[o]] # "no"
    BY <1>1 DEF ResumptionInv, Halted, Placed, Rooted, RTyped
<1>3. QED
    BY <1>1, <1>2, SameInv DEF ResumptionInv, RTyped, storeVars, resumeVars

LEMMA DiscardInv == ASSUME ResumptionInv, Discard PROVE ResumptionInv'
<1>1. /\ endings' = endings \cup listed /\ listed' = {}
      /\ UNCHANGED <<controlVars, life, sendVars, row, saved, writes, parked, slot, stopped,
                     shown, forgotten>>
    BY DEF Discard
<1>2. endings' \subseteq Turns
    BY <1>1 DEF ResumptionInv, RTyped
<1>3. QED
    BY <1>1, <1>2, SameInv DEF ResumptionInv, RTyped, Halted, controlVars

LEMMA EndingLandsInv ==
    ASSUME ResumptionInv, NEW t \in Turns, EndingLands(t) PROVE ResumptionInv'
<1>1. /\ endings' = endings \ {t} /\ row' = [row EXCEPT ![t] = Closing(@)]
      /\ UNCHANGED <<controlVars, life, sendVars, saved, writes, resumeVars, stopped, shown, forgotten>>
    BY DEF EndingLands, pastVars
<1>2. \A status : Closing(status) \in Statuses /\ (Closing(status) # "none" => status # "none")
    BY DEF Closing, Statuses
<1>3. /\ row' \in [Turns -> Statuses] /\ endings' \subseteq Turns
      /\ \A u \in Turns : row'[u] # "none" => row[u] # "none"
    BY <1>1, <1>2 DEF ResumptionInv, RTyped
<1>4. QED
    BY <1>1, <1>3, SameInv DEF ResumptionInv, RTyped, Halted, controlVars, resumeVars

LEMMA TakeSlotInv == ASSUME ResumptionInv, TakeSlot PROVE ResumptionInv'
<1> USE DEF ResumptionInv
<1> DEFINE Ready == {i \in DOMAIN parked : CanAutoRun(on[parked[i]])}
<1>1. /\ life # "down" /\ slot = NoTurn /\ Ready # {}
      /\ UNCHANGED <<owner, run, queue, paused, allPaused, life, sendVars, row, endings, saved, writes,
                     listed, stopped, shown, forgotten>>
    BY DEF TakeSlot, Up, controlVars, storeVars, pastVars
<1>2. PICK i \in DOMAIN parked : slot' = parked[i] /\ parked' = RemoveAt(parked, i)
  <2>1. Ready \in SUBSET Nat
      BY DEF RTyped
  <2>2. Min(Ready) \in Ready
      BY <1>1, <2>1, SmallestIndex
  <2>3. slot' = parked[Min(Ready)] /\ parked' = RemoveAt(parked, Min(Ready))
      BY DEF TakeSlot, Min
  <2>4. QED
      BY <2>2, <2>3
<1>3. /\ parked' \in Seq(Turns)
      /\ \A k \in DOMAIN parked' : \E j \in DOMAIN parked :
             j # i /\ parked'[k] = parked[j] /\ j = IF k < i THEN k ELSE k + 1
  <2>1. parked \in Seq(Turns) /\ DOMAIN parked = 1..Len(parked) /\ Len(parked) \in Nat
      BY DEF RTyped
  <2>2. /\ parked' \in Seq(Turns) /\ DOMAIN parked' = 1..(Len(parked) - 1)
        /\ \A k \in 1..(Len(parked) - 1) : parked'[k] = IF k < i THEN parked[k] ELSE parked[k + 1]
      BY <1>2, <2>1, RemovedOnes
  <2>3. QED
      BY <2>1, <2>2
<1>4. slot' \in Turns /\ life = "up"
    BY <1>2 DEF RTyped, Locked
<1>5. Snapshot' = Snapshot /\ Stores /\ Grows /\ Snapshot' \in Snapshots
    BY <1>1 DEF Snapshot, Stores, Grows, Locked, RTyped, sendVars
<1>6. RTyped'
    BY <1>1, <1>3, <1>4, <1>5 DEF RTyped, sendVars
<1>7. Sane(Snapshot)' /\ \A o \in Turns : Mentions(Snapshot, o)' => Mentions(Snapshot, o)
    BY <1>1, <1>5, Names, \A S \in SUBSET {} : S = {}
<1>8. Placed'
  <2>1. Rooted'
      BY <1>1 DEF Placed, Rooted, sendVars
  <2>2. QED
      BY <1>1, <1>2, <1>3, <1>5, <1>7, <2>1, PlacedStep
<1>9. Locked'
    BY <1>1, <1>4, <1>5 DEF Locked, Latest, sendVars
<1>10. Halted'
    BY <1>1 DEF Halted, CarriesOn, IsStoppingRun, sendVars
<1>11. \A t, o \in Turns : Recovers(t, o)' = Recovers(t, o) /\ SendsAgain(t, o)' = SendsAgain(t, o)
    BY <1>1 DEF Recovers, SendsAgain, sendVars
<1>12. \A o \in Turns : Recovering(o)' => Recovering(o)
    BY <1>1, <1>2, <1>3, <1>11 DEF Recovering
<1>13. Once'
  <2>1. ASSUME NEW k \in DOMAIN parked', NEW l \in DOMAIN parked', parked'[k] = parked'[l]
        PROVE  k = l
    <3>1. k \in Nat /\ l \in Nat /\ i \in Nat
        BY <1>3 DEF RTyped
    <3>2. PICK m \in DOMAIN parked : parked'[k] = parked[m] /\ m = IF k < i THEN k ELSE k + 1
        BY <1>3
    <3>3. PICK n \in DOMAIN parked : parked'[l] = parked[n] /\ n = IF l < i THEN l ELSE l + 1
        BY <1>3
    <3>4. m = n
        BY <2>1, <3>2, <3>3 DEF NewRecoveries, Once
    <3>5. QED
        BY <3>1, <3>2, <3>3, <3>4
  <2>2. \A k \in DOMAIN parked' : parked'[k] # slot'
      BY <1>2, <1>3 DEF NewRecoveries, Once
  <2>3. \A t, o \in Turns : Recovers(t, o)' =>
            /\ o # slot' /\ \A k \in DOMAIN parked' : parked'[k] # o
            /\ \A u \in Turns : Recovers(u, o)' => u = t
      BY <1>2, <1>3, <1>11 DEF NewRecoveries, Once
  <2>4. QED
      BY <2>1, <2>2, <2>3 DEF Once
<1>14. Onward' /\ NewRecoveries'
  <2>1. \A c \in Conversations : run'[c].turn = run[c].turn
      BY <1>1
  <2>2. QED
      BY <1>1, <1>5, <1>7, <1>11, <1>12, <1>13, <2>1, MovesOn
<1>15. QED
    BY <1>6, <1>8, <1>9, <1>10, <1>14

(* Candidates of different conversations are no more than the conversations. *)
LEMMA FewCandidates ==
    ASSUME RTyped, Placed, NEW C \in SUBSET Turns,
           \A t \in C : at[t] # "free",
           \A t, u \in C : on[t] = on[u] => t = u
    PROVE  Cardinality(C) \in Nat
<1> DEFINE f == [t \in C |-> on[t]]
<1>1. f \in [C -> Conversations]
    BY DEF RTyped, Placed, Rooted
<1>2. f \in Injection(C, Conversations)
    BY <1>1 DEF Injection, IsInjective
<1>3. IsFiniteSet(C)
    BY <1>2, FS_Injection, ConversationsAssumption
<1>4. QED
    BY <1>3, FS_CardinalityType

(* A candidate is over, or was cut off before, and no later turn is shown in its
   conversation, unless the user closed that. *)
LEMMA CandidateFresh ==
    ASSUME ResumptionInv, life = "restored", NEW o \in Turns, Candidate(o)
    PROVE  at[o] \in Gone /\ (o \notin forgotten => Fresh(o))
<1> USE DEF ResumptionInv
<1>1. row[o] = "running" /\ run[on[o]] \in {NoRun, [turn |-> o, state |-> "interrupted"]}
    BY DEF Candidate
<1>2. o \notin forgotten => ~Beyond(Snapshot, o)
    BY <1>1 DEF Beyond, Snapshot, NoRun
<1>3. at[o] \in Gone
    BY <1>1, NoTurnAssumption DEF Placed, Rooted, Locked, NoRun
<1>4. Snapshot = Latest
    BY DEF Locked
<1>5. o \notin forgotten => /\ o \notin shown /\ ~Mentions(saved, o)
                           /\ \A k \in DOMAIN writes : ~Mentions(writes[k], o)
    BY <1>2, <1>4, LatestBeyond
<1>6. o \notin forgotten => \A t \in Turns : ~SendsAgain(t, o)
    BY <1>2 DEF NewRecoveries
<1>7. QED
    BY <1>3, <1>5, <1>6 DEF Fresh

LEMMA ReadJournalInv == ASSUME ResumptionInv, ReadJournal PROVE ResumptionInv'
<1> USE DEF ResumptionInv
<1>1. PICK C \in SUBSET {t \in Turns : Candidate(t)} :
          /\ \A t, u \in C : on[t] = on[u] => t = u
          /\ parked' \in SetToSeqs(C)
          /\ listed' \subseteq Turns
    BY DEF ReadJournal, Rows, OpenRows
<1>2. /\ life = "restored" /\ life' = "up" /\ slot = NoTurn
      /\ UNCHANGED <<owner, run, queue, paused, allPaused, sendVars, row, endings, saved, writes, slot,
                     stopped, shown, forgotten>>
    BY DEF ReadJournal, controlVars, storeVars, pastVars, Locked
<1>3. \A o \in C : o \in Turns /\ at[o] \in Gone /\ (o \notin forgotten => Fresh(o))
    BY <1>1, <1>2, CandidateFresh
<1>4. Cardinality(C) \in Nat
    BY <1>1, <1>3, FewCandidates DEF Gone
<1>5. parked' \in [1..Cardinality(C) -> C]
      /\ \A j, k \in 1..Cardinality(C) : j # k => parked'[j] # parked'[k]
    BY <1>1 DEF SetToSeqs
<1>6. /\ parked' \in Seq(Turns) /\ DOMAIN parked' = 1..Cardinality(C)
      /\ \A k \in DOMAIN parked' : parked'[k] \in C
    BY <1>3, <1>4, <1>5
<1>7. Snapshot' = Snapshot /\ Latest' = Latest
    BY <1>2 DEF Snapshot, Latest
<1>8. RTyped'
    BY <1>1, <1>2, <1>6, <1>7 DEF RTyped, sendVars
<1>9. Placed'
  <2>1. Sane(Snapshot)' /\ Sane(saved)' /\ \A k \in DOMAIN writes' : Sane(writes[k])'
      BY <1>2, <1>7 DEF Placed, Sane, sendVars
  <2>2. Rooted'
      BY <1>2 DEF Placed, Rooted, sendVars
  <2>3. QED
      BY <1>2, <1>3, <1>6, <2>1, <2>2 DEF Placed, sendVars
<1>10. Locked'
    BY <1>2, <1>7 DEF Locked, sendVars
<1>11. Halted'
    BY <1>2 DEF Halted, CarriesOn, IsStoppingRun, sendVars
<1>12. \A o \in Turns : /\ Mentions(saved, o)' = Mentions(saved, o)
                        /\ Beyond(saved, o)' = Beyond(saved, o)
                        /\ Beyond(Snapshot, o)' = Beyond(Snapshot, o)
    BY <1>2, <1>7 DEF Mentions, Beyond, CarriesOn, sendVars
<1>13. \A o \in Turns : \A k \in DOMAIN writes : /\ Mentions(writes[k], o)' = Mentions(writes[k], o)
                                                 /\ Beyond(writes[k], o)' = Beyond(writes[k], o)
    BY <1>2 DEF Mentions, Beyond, CarriesOn, sendVars
<1>14. Onward'
    BY <1>2, <1>12, <1>13 DEF Onward
<1>15. \A t, o \in Turns : ~Recovers(t, o)' /\ SendsAgain(t, o)' = SendsAgain(t, o)
    BY <1>2, NoTurnAssumption DEF Recovers, SendsAgain, sendVars, Locked
<1>16. \A o \in Turns : Recovering(o)' => o \in C /\ o \notin forgotten
    BY <1>2, <1>6, <1>15, NoTurnAssumption DEF Recovering
<1>17. \A o \in Turns : Fresh(o)' = Fresh(o)
    BY <1>2, <1>12, <1>13, <1>15 DEF Fresh
<1>18. Once'
    BY <1>2, <1>3, <1>5, <1>6, <1>15, NoTurnAssumption DEF Once
<1>19. NewRecoveries'
    BY <1>3, <1>12, <1>15, <1>16, <1>17, <1>18 DEF NewRecoveries
<1>20. QED
    BY <1>8, <1>9, <1>10, <1>11, <1>14, <1>19

LEMMA SyncStores == ASSUME SyncControl, saved' = saved PROVE Stores
BY DEF SyncControl, Stores, Latest, Last

(* A stop: the runs of C are being stopped, the recoveries of D end. *)
LEMMA StopInv ==
    ASSUME ResumptionInv, life # "down",
           NEW C \in SUBSET Conversations, NEW D \in SUBSET Conversations,
           \A c \in D : IsActive(c) => c \in C,
           StoppingRuns(C), EndsRecoveries(D), SyncControl,
           UNCHANGED <<owner, queue, life, at, on, from, resumes, row, endings, saved, listed,
                     shown, forgotten>>,
           paused' \in [Conversations -> Pauses], allPaused' \in BOOLEAN,
           allPaused => allPaused',
           \A c \in Conversations : paused[c] # "no" => paused'[c] # "no",
           \A c \in D : allPaused' \/ paused'[c] # "no"
    PROVE  ResumptionInv'
<1> USE DEF ResumptionInv
<1>1. /\ run' \in [Conversations -> Runs]
      /\ \A c \in Conversations : run'[c].turn = run[c].turn
      /\ \A c \in Conversations : run'[c].state \in {run[c].state, "stopping"}
      /\ \A c \in C : IsActive(c) => run'[c].state = "stopping"
  <2>1. run \in [Conversations -> Runs]
      BY DEF RTyped, Snapshot, Snapshots
  <2>2. \A c \in Conversations : [run[c] EXCEPT !.state = "stopping"] \in Runs
      BY <2>1 DEF Runs, ShownStates, RunStates
  <2>3. QED
      BY <2>1, <2>2 DEF StoppingRuns, Runs
<1>2. Snapshot' \in Snapshots /\ Stores /\ Grows
  <2>1. queue \in [Conversations -> Seq(Items)]
      BY DEF RTyped, Snapshot, Snapshots
  <2>2. QED
      BY <1>1, <2>1, SyncStores DEF Snapshot, Snapshots, Grows
<1>3. /\ parked' \in Seq(Turns)
      /\ \A k \in DOMAIN parked' : \E j \in DOMAIN parked : parked'[k] = parked[j]
      /\ \A k, l \in DOMAIN parked' : k # l =>
             \E i, j \in DOMAIN parked : i # j /\ parked'[k] = parked[i] /\ parked'[l] = parked[j]
  <2> DEFINE I == {k \in DOMAIN parked : on[parked[k]] \notin D}
  <2>1. I \in SUBSET DOMAIN parked /\ parked' = Kept(parked, I)
      BY DEF EndsRecoveries
  <2>2. parked \in Seq(Turns)
      BY DEF RTyped
  <2> HIDE DEF I
  <2>3. QED
      BY <2>1, <2>2, KeptOnes
<1>4. slot' \in {slot, NoTurn}
    BY DEF EndsRecoveries
<1>5. \A t \in Turns : overtaken'[t] = (overtaken[t] \/ (at[t] = "prep" /\ on[t] \in D))
    BY DEF EndsRecoveries
<1>6. stopped' = stopped \cup {t \in Turns : on[t] \in D /\ at[t] # "queued"}
    BY DEF EndsRecoveries
<1>7. RTyped'
  <2>1. overtaken' \in [Turns -> BOOLEAN]
      BY DEF EndsRecoveries, RTyped
  <2>2. QED
      BY <1>2, <1>3, <1>4, <1>6, <2>1, StoresType DEF RTyped
<1>8. Sane(Snapshot)' /\ \A o \in Turns : Mentions(Snapshot, o)' => Mentions(Snapshot, o)
    BY <1>1, <1>2, Names, \A S \in SUBSET {} : S = {}
<1>9. Placed'
  <2>1. Rooted'
      BY DEF Placed, Rooted
  <2>2. QED
      BY <1>2, <1>3, <1>4, <1>8, <2>1, PlacedStep
<1>10. Locked'
  <2>1. Latest' = Snapshot'
      BY <1>2, StoresType
  <2>2. \A t \in Turns : at[t] \in Held => on[t] \in Conversations
      BY DEF Held, Placed, Rooted, RTyped
  <2>3. life' # "up" => parked' = <<>> /\ slot' = NoTurn
    <3>1. ASSUME life # "up" PROVE parked' = <<>>
      <4>1. DOMAIN parked = {}
          BY <3>1 DEF Locked
      <4>2. DOMAIN parked' = {}
          BY <1>3, <4>1
      <4>3. QED
          BY <1>3, <4>2
    <3>2. QED
        BY <1>4, <3>1 DEF Locked
  <2>4. QED
      BY <1>1, <2>1, <2>2, <2>3 DEF Locked
<1>11. Halted'
  <2>1. \A t \in Turns : CarriesOn(t)' = CarriesOn(t)
      BY DEF CarriesOn
  <2>2. \A o \in stopped' : at[o] # "free" /\ (allPaused' \/ paused'[on[o]] # "no")
      BY <1>6, ConversationsAssumption DEF Halted, Placed, Rooted, RTyped
  <2>3. \A t \in Turns, o \in stopped' :
            at[t] = "prep" /\ ~overtaken'[t] /\ CarriesOn(t)' # NoTurn => on[o] # on[t]
      BY <1>5, <1>6, <2>1 DEF Halted
  <2>4. ASSUME NEW t \in Turns, at[t] = "owned", CarriesOn(t) \in stopped'
        PROVE  IsStoppingRun(on[t])'
    <3>1. on[t] \in Conversations /\ IsActive(on[t]) /\ CarriesOn(t) # NoTurn
        BY <1>6, <2>4, NoTurnAssumption DEF Locked, Held, Placed, Rooted, RTyped, IsActive
    <3>2. CASE CarriesOn(t) \in stopped
        BY <1>1, <2>4, <3>1, <3>2 DEF Halted, IsStoppingRun
    <3>3. CASE CarriesOn(t) \notin stopped
      <4>1. on[t] \in D
          BY <1>6, <2>4, <3>1, <3>3, CarriesHere
      <4>2. QED
          BY <1>1, <3>1, <4>1 DEF IsStoppingRun
    <3>4. QED
        BY <3>2, <3>3
  <2>5. QED
      BY <2>1, <2>2, <2>3, <2>4 DEF Halted
<1>12. \A t, o \in Turns : Recovers(t, o)' = Recovers(t, o) /\ SendsAgain(t, o)' = SendsAgain(t, o)
    BY DEF Recovers, SendsAgain
<1>13. \A o \in Turns : Recovering(o)' => Recovering(o)
    BY <1>3, <1>4, <1>12, NoTurnAssumption DEF Recovering
<1>14. Once'
  <2>1. \A k, l \in DOMAIN parked' : parked'[k] = parked'[l] => k = l
      BY <1>3 DEF NewRecoveries, Once
  <2>2. \A k \in DOMAIN parked' : parked'[k] # slot'
      BY <1>3, <1>4, NoTurnAssumption DEF NewRecoveries, Once, RTyped
  <2>3. \A t, o \in Turns : Recovers(t, o)' =>
            /\ o # slot' /\ \A k \in DOMAIN parked' : parked'[k] # o
            /\ \A u \in Turns : Recovers(u, o)' => u = t
      BY <1>3, <1>4, <1>12, NoTurnAssumption DEF NewRecoveries, Once
  <2>4. QED
      BY <2>1, <2>2, <2>3 DEF Once
<1>15. Onward' /\ NewRecoveries'
    BY <1>1, <1>2, <1>8, <1>12, <1>13, <1>14, MovesOn
<1>16. QED
    BY <1>7, <1>9, <1>10, <1>11, <1>15

LEMMA StopConversationInv ==
    ASSUME ResumptionInv, NEW c \in Conversations, StopConversation(c) PROVE ResumptionInv'
<1>1. /\ life # "down" /\ paused' = [paused EXCEPT ![c] = "user"]
      /\ UNCHANGED <<owner, queue, allPaused, life, at, on, from, resumes, row, endings, saved, listed,
                     shown, forgotten>>
      /\ StoppingRuns({c}) /\ EndsRecoveries({c}) /\ SyncControl
    BY DEF StopConversation, Presses, Up, Pause
<1>2. /\ paused' \in [Conversations -> Pauses] /\ paused'[c] = "user" /\ allPaused \in BOOLEAN
      /\ \A d \in Conversations : paused[d] # "no" => paused'[d] # "no"
    BY <1>1 DEF ResumptionInv, RTyped, Pauses
<1>3. QED
    BY <1>1, <1>2, StopInv

LEMMA HardStopInv == ASSUME ResumptionInv, HardStop PROVE ResumptionInv'
<1> DEFINE C == {c \in Conversations : IsActive(c) \/ queue[c] # <<>>}
<1>1. /\ life # "down" /\ allPaused' = TRUE
      /\ paused' = [c \in Conversations |-> IF c \in C THEN "user" ELSE paused[c]]
      /\ UNCHANGED <<owner, queue, life, at, on, from, resumes, row, endings, saved, listed,
                     shown, forgotten>>
      /\ StoppingRuns(C) /\ EndsRecoveries(Conversations) /\ SyncControl
    BY DEF HardStop, Presses, Up
<1>2. /\ paused' \in [Conversations -> Pauses]
      /\ \A d \in Conversations : paused[d] # "no" => paused'[d] # "no"
    BY <1>1 DEF ResumptionInv, RTyped, Pauses
<1>3. C \in SUBSET Conversations /\ \A c \in Conversations : IsActive(c) => c \in C
    OBVIOUS
<1> HIDE DEF C
<1>4. QED
    BY <1>1, <1>2, <1>3, StopInv

LEMMA ControlType ==
    ASSUME RTyped
    PROVE  /\ run \in [Conversations -> Runs] /\ queue \in [Conversations -> Seq(Items)]
           /\ \A c \in Conversations : \A i \in DOMAIN queue[c] : queue[c][i] \in Items
BY DEF RTyped, Snapshot, Snapshots

LEMMA SnapshotType ==
    ASSUME run' \in [Conversations -> Runs], queue' \in [Conversations -> Seq(Items)]
    PROVE  Snapshot' \in Snapshots
BY DEF Snapshot, Snapshots

(* "Close" in the panel: the conversation's run is known no more, and its turns
   are among the forgotten ones. *)
LEMMA ForgetInv == ASSUME ResumptionInv, NEW c \in Conversations, Forget(c) PROVE ResumptionInv'
<1> USE DEF ResumptionInv
<1>1. /\ life # "down" /\ ~IsActive(c)
      /\ run' = [run EXCEPT ![c] = NoRun]
      /\ forgotten' = forgotten \cup {t \in Turns : on[t] = c}
      /\ UNCHANGED <<owner, queue, paused, allPaused, life, at, on, from, resumes, overtaken, row,
                     endings, saved, parked, slot, listed, stopped, shown>>
      /\ SyncControl
    BY DEF Forget, Presses, Up, sendVars, resumeVars
<1>2. /\ run' \in [Conversations -> Runs] /\ queue' \in [Conversations -> Seq(Items)]
      /\ run'[c].turn = NoTurn
      /\ \A d \in Conversations : d # c => run'[d] = run[d]
  <2>1. NoRun \in Runs /\ NoRun.turn = NoTurn
      BY DEF NoRun, Runs, ShownStates, RunStates
  <2>2. QED
      BY <1>1, <2>1, ControlType
<1>3. Snapshot' \in Snapshots /\ Stores /\ Grows
    BY <1>1, <1>2, SnapshotType, SyncStores DEF Grows
<1>4. RTyped'
    BY <1>1, <1>3, StoresType DEF RTyped
<1>5. /\ \A t \in Turns : CarriesOn(t)' = CarriesOn(t)
      /\ \A t, o \in Turns : Recovers(t, o)' = Recovers(t, o) /\ SendsAgain(t, o)' = SendsAgain(t, o)
    BY <1>1 DEF CarriesOn, Recovers, SendsAgain
<1>6. Sane(Snapshot)'
    BY <1>1, <1>2 DEF Placed, Sane, Snapshot
<1>7. \A o \in Turns : Mentions(Snapshot, o)' => Mentions(Snapshot, o)
  <2>1. \A d \in Conversations : run[d].turn \in Turns \cup {NoTurn}
      BY ControlType DEF Runs
  <2>2. ASSUME NEW o \in Turns, Mentions(Snapshot, o)' PROVE Mentions(Snapshot, o)
    <3>1. PICK d \in Conversations : \/ run'[d].turn # NoTurn /\ CarriesOn(run[d].turn)' = o
                                     \/ \E i \in DOMAIN queue[d] : resumes[queue[d][i].id] = o
        BY <1>1, <2>2 DEF Mentions, Snapshot
    <3>2. CASE run'[d].turn # NoTurn /\ CarriesOn(run[d].turn)' = o
      <4>1. run'[d] = run[d]
          BY <1>2, <3>2
      <4>2. CarriesOn(run[d].turn)' = CarriesOn(run[d].turn)
          BY <1>1, <4>1 DEF CarriesOn
      <4>3. QED
          BY <3>2, <4>1, <4>2 DEF Mentions, Snapshot
    <3>3. CASE \E i \in DOMAIN queue[d] : resumes[queue[d][i].id] = o
        BY <3>3 DEF Mentions, Snapshot
    <3>4. QED
        BY <3>1, <3>2, <3>3
  <2>3. QED
      BY <2>2
<1>8. Placed'
  <2>1. Rooted'
      BY <1>1 DEF Placed, Rooted
  <2>2. QED
      BY <1>1, <1>3, <1>6, <2>1, PlacedStep
<1>9. \A t \in Turns : at[t] \in Held => on[t] \in Conversations /\ on[t] # c
    BY <1>1, NoTurnAssumption DEF Placed, Rooted, Locked, Held, RTyped, IsActive
<1>10. Locked'
  <2>1. Latest' = Snapshot'
      BY <1>3, StoresType
  <2>2. QED
      BY <1>1, <1>2, <1>9, <2>1 DEF Locked
<1>11. Halted'
  <2>1. \A t \in Turns : at[t] = "owned" => IsStoppingRun(on[t])' = IsStoppingRun(on[t])
      BY <1>1, <1>2, <1>9 DEF Held, IsStoppingRun
  <2>2. QED
      BY <1>1, <1>5, <2>1 DEF Halted
<1>12. \A o \in Turns : at[o] \in Gone /\ Beyond(Snapshot, o) => Beyond(Snapshot, o)'
  <2>1. \A o \in Turns : at[o] \in Gone => on[o] \in Conversations
      BY DEF Placed, Rooted, RTyped, Gone
  <2>2. QED
      BY <1>1, <1>2, <2>1 DEF Beyond, Snapshot
<1>13. ASSUME NEW o \in Turns, Mentions(Snapshot, o)
       PROVE  at[o] \in Gone /\ Beyond(Snapshot, o)
    BY <1>1, <1>13, MentionedBeyond
<1>14. Onward'
  <2>1. Snapshot = Latest
      BY <1>1 DEF Locked
  <2>2. \A o \in Turns : Mentions(Snapshot, o)' => at[o] \in Gone /\ Beyond(Snapshot, o)'
      BY <1>7, <1>12, <1>13
  <2>3. QED
      BY <1>1, <1>3, <1>12, <2>1, <2>2, StoresOnward
<1>15. ASSUME NEW o \in Turns, Recovering(o)' PROVE Fresh(o)'
  <2>1. Fresh(o)
      BY <1>1, <1>5, <1>15 DEF Recovering, NewRecoveries
  <2>2. ~Mentions(Snapshot, o)
      BY <1>1, <2>1, LatestKnown DEF Fresh, Locked
  <2>3. ~Mentions(Snapshot, o)' /\ \A t \in Turns : ~SendsAgain(t, o)'
      BY <1>5, <1>7, <2>1, <2>2 DEF Fresh
  <2>4. QED
      BY <1>1, <1>3, <2>1, <2>3, StoresFresh
<1>16. ASSUME NEW t \in Turns, NEW o \in Turns, SendsAgain(t, o)' PROVE Beyond(Snapshot, o)'
  <2>1. SendsAgain(t, o) /\ from[t] \in Turns /\ resumes[from[t]] = o
      BY <1>5, <1>16 DEF SendsAgain, RTyped
  <2>2. at[o] \in Gone /\ Beyond(Snapshot, o)
      BY <2>1, NoTurnAssumption DEF Placed, Rooted, NewRecoveries
  <2>3. QED
      BY <1>12, <2>2
<1>17. Once'
    BY <1>1, <1>5 DEF Once, NewRecoveries
<1>18. QED
    BY <1>4, <1>8, <1>10, <1>11, <1>14, <1>15, <1>16, <1>17 DEF NewRecoveries

LEMMA EnqueueType ==
    ASSUME RTyped, NEW c \in Conversations, NEW id \in Turns, Enqueue(c, id, "queue")
    PROVE  /\ queue' \in [Conversations -> Seq(Items)]
           /\ \A d \in Conversations : \A i \in DOMAIN queue'[d] :
                  \/ \E j \in DOMAIN queue[d] : queue'[d][i].id = queue[d][j].id
                  \/ d = c /\ queue'[d][i].id = id
<1>1. queue \in [Conversations -> Seq(Items)] /\ queue[c] \in Seq(Items)
    BY ControlType
<1>2. PICK item \in Items : item = [id |-> id, mode |-> "queue"]
    BY DEF Items, Modes
<1>3. /\ queue' \in [Conversations -> Seq(Items)]
      /\ \A d \in Conversations : d # c => queue'[d] = queue[d]
      /\ queue'[c] \in {queue[c], Append(queue[c], item)}
    BY <1>1, <1>2 DEF Enqueue
<1>4. \A i \in DOMAIN Append(queue[c], item) :
          \/ i \in DOMAIN queue[c] /\ Append(queue[c], item)[i] = queue[c][i]
          \/ Append(queue[c], item)[i] = item
    BY <1>1
<1>5. item.id = id
    BY <1>2
<1>6. ASSUME NEW d \in Conversations, NEW i \in DOMAIN queue'[d]
      PROVE  \/ \E j \in DOMAIN queue[d] : queue'[d][i].id = queue[d][j].id
             \/ d = c /\ queue'[d][i].id = id
  <2>1. CASE queue'[d] = queue[d]
      BY <1>6, <2>1
  <2>2. CASE d = c /\ queue'[d] = Append(queue[c], item)
      BY <1>4, <1>5, <1>6, <2>2
  <2>3. QED
      BY <1>3, <2>1, <2>2
<1>7. QED
    BY <1>3, <1>6

LEMMA WithoutType ==
    ASSUME RTyped, NEW c \in Conversations, NEW id, queue' = [queue EXCEPT ![c] = Without(c, id)]
    PROVE  /\ queue' \in [Conversations -> Seq(Items)]
           /\ \A d \in Conversations : \A i \in DOMAIN queue'[d] :
                  \E j \in DOMAIN queue[d] : queue'[d][i].id = queue[d][j].id
<1> DEFINE I == {i \in DOMAIN queue[c] : queue[c][i].id # id}
<1>1. queue \in [Conversations -> Seq(Items)] /\ queue[c] \in Seq(Items)
    BY ControlType
<1>2. I \in SUBSET DOMAIN queue[c] /\ Without(c, id) = Kept(queue[c], I)
    BY DEF Without
<1> HIDE DEF I
<1>3. /\ Without(c, id) \in Seq(Items)
      /\ \A i \in DOMAIN Without(c, id) : \E j \in DOMAIN queue[c] : Without(c, id)[i] = queue[c][j]
    BY <1>1, <1>2, KeptOnes
<1>4. queue'[c] = Without(c, id) /\ \A d \in Conversations : d # c => queue'[d] = queue[d]
    BY <1>1
<1>5. ASSUME NEW d \in Conversations, NEW i \in DOMAIN queue'[d]
      PROVE  \E j \in DOMAIN queue[d] : queue'[d][i].id = queue[d][j].id
    BY <1>3, <1>4, <1>5
<1>6. QED
    BY <1>1, <1>3, <1>5

(* A turn that holds its conversation goes on or leaves it. *)
LEMMA HeldInv ==
    ASSUME ResumptionInv, NEW t \in Turns, at[t] \in Held,
           NEW place \in (Held \ {"owned"}) \cup {"over"},
           at' = [at EXCEPT ![t] = place],
           UNCHANGED <<allPaused, life, on, from, resumes, overtaken, resumeVars, stopped, forgotten>>,
           \/ place # "over" /\ UNCHANGED <<owner, run>>
           \/ place = "over" /\ \E state \in RunStates : FreeRun(on[t], t, state),
           \/ UNCHANGED queue
           \/ from[t] # NoTurn /\ Enqueue(on[t], from[t], "queue"),
           Stores, shown' \subseteq shown,
           row' \in [Turns -> Statuses], endings' \subseteq Turns,
           \A u \in Turns : row'[u] # "none" => u = t \/ row[u] # "none",
           paused' \in [Conversations -> Pauses],
           \A c \in Conversations : paused[c] # "no" => paused'[c] # "no"
    PROVE  ResumptionInv'
<1> USE DEF ResumptionInv, resumeVars
<1>1. /\ on[t] \in Conversations /\ owner[on[t]] = t /\ run[on[t]].turn = t /\ life # "down"
      /\ at[t] \notin Gone \cup {"free", "prep", "queued"}
    BY DEF Placed, Rooted, Locked, Held, Gone, RTyped, OnTheWay
<1>2. \A u \in Turns : u # t => at'[u] = at[u]
    BY DEF RTyped
<1>3. at'[t] = place
    BY DEF RTyped
<1>4. Grows
    BY <1>1, <1>2, <1>3 DEF Grows, Held, Gone
<1>5. /\ run' \in [Conversations -> Runs] /\ owner' \in [Conversations -> Turns \cup {NoTurn}]
      /\ \A c \in Conversations : run'[c].turn = run[c].turn
      /\ \A c \in Conversations : c # on[t] => run'[c] = run[c] /\ owner'[c] = owner[c]
      /\ place = "over" => owner'[on[t]] = NoTurn
      /\ place # "over" => run' = run /\ owner' = owner
  <2>1. run \in [Conversations -> Runs] /\ owner \in [Conversations -> Turns \cup {NoTurn}]
      BY ControlType DEF RTyped
  <2>2. CASE place # "over" /\ UNCHANGED <<owner, run>>
      BY <2>1, <2>2
  <2>3. CASE place = "over" /\ \E state \in RunStates : FreeRun(on[t], t, state)
    <3>1. PICK state \in RunStates : /\ owner' = [owner EXCEPT ![on[t]] = NoTurn]
                                     /\ run' = [run EXCEPT ![on[t]].state = state]
        BY <1>1, <2>3 DEF FreeRun, Accepts
    <3>2. [run[on[t]] EXCEPT !.state = state] \in Runs
        BY <1>1, <2>1 DEF Runs, ShownStates
    <3>3. QED
        BY <1>1, <2>1, <2>3, <3>1, <3>2 DEF Runs
  <2>4. QED
      BY <2>2, <2>3
<1>6. /\ queue' \in [Conversations -> Seq(Items)]
      /\ \A c \in Conversations : \A i \in DOMAIN queue'[c] :
               \/ \E j \in DOMAIN queue[c] : queue'[c][i].id = queue[c][j].id
               \/ c = on[t] /\ queue'[c][i].id = from[t]
  <2>1. queue \in [Conversations -> Seq(Items)]
      BY ControlType
  <2>2. CASE UNCHANGED queue
      BY <2>1, <2>2
  <2>3. CASE from[t] # NoTurn /\ Enqueue(on[t], from[t], "queue")
    <3>1. from[t] \in Turns
        BY <2>3 DEF RTyped
    <3>2. QED
        BY <1>1, <2>3, <3>1, EnqueueType
  <2>4. QED
      BY <2>2, <2>3
<1>7. Snapshot' \in Snapshots
    BY <1>5, <1>6, SnapshotType
<1>8. RTyped'
    BY <1>3, <1>5, <1>7, StoresType DEF RTyped, Places, OnTheWay, Held
<1>9. /\ Sane(Snapshot)'
      /\ \A o \in Turns : Mentions(Snapshot, o)' => Mentions(Snapshot, o)
  <2>1. PICK S \in SUBSET Turns : S = {t}
      OBVIOUS
  <2>2. \A u \in S : at[u] # "free"
      BY <1>1, <2>1
  <2>3. \A c \in Conversations : \A i \in DOMAIN queue'[c] :
            \/ \E j \in DOMAIN queue[c] : queue'[c][i].id = queue[c][j].id
            \/ \E u \in S : c = on[u] /\ queue'[c][i].id \in {u, from[u]}
      BY <1>6, <2>1
  <2>4. /\ Sane(Snapshot)'
        /\ \A o \in Turns : Mentions(Snapshot, o)' =>
               Mentions(Snapshot, o) \/ \E u \in S : CarriesOn(u) = o
      BY <1>4, <1>5, <1>7, <2>2, <2>3, Names
  <2>5. \A o \in Turns : CarriesOn(t) = o => Mentions(Snapshot, o)
      BY <1>1, NoTurnAssumption DEF Mentions, Snapshot
  <2>6. QED
      BY <2>1, <2>4, <2>5
<1>10. Placed'
  <2>1. Rooted'
    <3>1. at'[t] \in Gone \cup Held /\ at'[t] # "free"
        BY <1>3 DEF Gone, Held
    <3>2. QED
        BY <1>1, <1>2, <1>4, <3>1 DEF Placed, Rooted, Grows, RTyped
  <2>2. QED
      BY <1>4, <1>7, <1>9, <2>1, PlacedStep
<1>11. Locked'
  <2>1. Latest' = Snapshot'
      BY <1>7, StoresType
  <2>2. ASSUME NEW u \in Turns, at'[u] \in Held
        PROVE  /\ owner'[on[u]] = u /\ run'[on[u]].turn = u
               /\ run'[on[u]].state \in {"running", "stopping"}
    <3>1. CASE u = t
        BY <1>1, <1>3, <1>5, <2>2, <3>1 DEF Locked, Held
    <3>2. CASE u # t
      <4>1. at[u] \in Held /\ on[u] \in Conversations /\ owner[on[u]] = u
          BY <1>2, <2>2, <3>2 DEF Locked, Held, Placed, Rooted, RTyped
      <4>2. on[u] # on[t]
          BY <1>1, <3>2, <4>1
      <4>3. QED
          BY <1>5, <4>1, <4>2 DEF Locked
    <3>3. QED
        BY <3>1, <3>2
  <2>3. \A c \in Conversations : owner'[c] # NoTurn => at'[owner'[c]] \in Held /\ on[owner'[c]] = c
      BY <1>1, <1>2, <1>3, <1>5 DEF Locked, RTyped
  <2>4. \A u \in Turns : at'[u] = "prep" => at[u] = "prep"
      BY <1>2, <1>3 DEF Held
  <2>5. QED
      BY <1>1, <2>1, <2>2, <2>3, <2>4 DEF Locked
<1>12. Halted'
  <2>1. \A u \in Turns : CarriesOn(u)' = CarriesOn(u)
      BY DEF CarriesOn
  <2>2. \A o \in stopped : at'[o] # "free" /\ (allPaused \/ paused'[on[o]] # "no")
      BY <1>4 DEF Halted, Grows, RTyped, Placed, Rooted
  <2>3. \A u \in Turns : at'[u] = "prep" => at[u] = "prep"
      BY <1>2, <1>3 DEF Held
  <2>4. ASSUME NEW u \in Turns, at'[u] = "owned", CarriesOn(u) \in stopped
        PROVE  IsStoppingRun(on[u])'
    <3>1. u # t /\ at[u] = "owned"
        BY <1>2, <1>3, <2>4
    <3>2. on[u] \in Conversations /\ on[u] # on[t]
        BY <1>1, <3>1 DEF Locked, Held, Placed, Rooted, RTyped
    <3>3. QED
        BY <1>5, <2>4, <3>1, <3>2 DEF Halted, IsStoppingRun
  <2>5. QED
      BY <2>1, <2>2, <2>3, <2>4 DEF Halted
<1>13. Onward' /\ NewRecoveries'
  <2>1. \A u \in Turns : at'[u] = "prep" <=> at[u] = "prep"
      BY <1>1, <1>2, <1>3 DEF Held
  <2>2. \A u, o \in Turns : Recovers(u, o)' = Recovers(u, o) /\ SendsAgain(u, o)' = SendsAgain(u, o)
      BY <2>1 DEF Recovers, SendsAgain
  <2>3. \A o \in Turns : Recovering(o)' = Recovering(o)
      BY <2>2 DEF Recovering
  <2>4. Once'
      BY <2>2 DEF Once, NewRecoveries
  <2>5. QED
      BY <1>1, <1>4, <1>5, <1>7, <1>9, <2>2, <2>3, <2>4, MovesOn
<1>14. QED
    BY <1>8, <1>10, <1>11, <1>12, <1>13

(* A step of a turn for which the app stores nothing. *)
LEMMA HeldStores ==
    ASSUME ResumptionInv, NEW t \in Turns, at[t] \in Held \cup {"prep"},
           UNCHANGED <<run, queue, saved, writes>>
    PROVE  Stores
BY DEF ResumptionInv, Locked, Held, OnTheWay, Stores, Snapshot

LEMMA ClosesOldType ==
    ASSUME RTyped, NEW t \in Turns
    PROVE  endings \cup ClosesOld(t) \subseteq Turns
BY DEF RTyped, ClosesOld

LEMMA DispatchInv == ASSUME ResumptionInv, NEW t \in Turns, Dispatch(t) PROVE ResumptionInv'
<1>1. /\ at[t] \in Held
      /\ UNCHANGED <<owner, run, queue, paused, allPaused, life, on, from, resumes, overtaken, saved,
                     writes, resumeVars, stopped, shown, forgotten>>
    BY DEF Dispatch, Held, controlVars, pastVars
<1>2. PICK place \in {"dying", "sent"} :
          /\ at' = [at EXCEPT ![t] = place]
          /\ \E written \in {row[t], "running"} : row' = [row EXCEPT ![t] = written]
          /\ endings' \in {endings, endings \cup ClosesOld(t)}
    BY DEF Dispatch, Goto
<1>3. /\ row' \in [Turns -> Statuses] /\ endings' \subseteq Turns
      /\ \A u \in Turns : row'[u] # "none" => u = t \/ row[u] # "none"
    BY <1>2, ClosesOldType DEF ResumptionInv, RTyped, Statuses
<1>4. Stores
    BY <1>1, HeldStores
<1>5. place \in (Held \ {"owned"}) \cup {"over"} /\ place # "over"
    BY <1>2 DEF Held
<1>6. paused' \in [Conversations -> Pauses]
    BY <1>1 DEF ResumptionInv, RTyped
<1>7. QED
    BY <1>1, <1>2, <1>3, <1>4, <1>5, <1>6, HeldInv

LEMMA SendFailsInv == ASSUME ResumptionInv, NEW t \in Turns, SendFails(t) PROVE ResumptionInv'
<1>1. /\ at[t] \in Held /\ at' = [at EXCEPT ![t] = "over"]
      /\ \E written \in {row[t], "running"} : row' = [row EXCEPT ![t] = written]
      /\ shown' \subseteq shown /\ FreeRun(on[t], t, "completed")
      /\ paused' = [paused EXCEPT ![on[t]] = "user"]
      /\ UNCHANGED queue \/ (from[t] # NoTurn /\ Enqueue(on[t], from[t], "queue"))
      /\ UNCHANGED <<allPaused, life, on, from, resumes, overtaken, endings, saved, resumeVars, stopped,
                     forgotten>>
      /\ SyncControl
    BY DEF SendFails, Held, Goto, Pause
<1>2. /\ row' \in [Turns -> Statuses] /\ endings' \subseteq Turns
      /\ \A u \in Turns : row'[u] # "none" => u = t \/ row[u] # "none"
    BY <1>1 DEF ResumptionInv, RTyped, Statuses
<1>3. /\ paused' \in [Conversations -> Pauses]
      /\ \A c \in Conversations : paused[c] # "no" => paused'[c] # "no"
    BY <1>1 DEF ResumptionInv, RTyped, Pauses
<1>4. Stores
    BY <1>1, SyncStores
<1>5. "completed" \in RunStates
    BY DEF RunStates
<1>6. QED
    BY <1>1, <1>2, <1>3, <1>4, <1>5, HeldInv

LEMMA EndsInv ==
    ASSUME ResumptionInv, NEW t \in Turns, NEW state \in {"completed", "failed"}, Ends(t, state)
    PROVE  ResumptionInv'
<1>1. /\ at[t] \in Held /\ endings' = endings \cup {t}
      /\ UNCHANGED <<queue, allPaused, life, on, from, resumes, overtaken, row, saved, resumeVars,
                     stopped, shown, forgotten>>
      /\ SyncControl
    BY DEF Ends, Held, pastVars
<1>2. PICK place \in {"finishing", "over"} :
          /\ at' = [at EXCEPT ![t] = place]
          /\ \/ place = "finishing" /\ UNCHANGED <<owner, run, paused>>
             \/ place = "over" /\ FreeRun(on[t], t, state) /\ PauseOnFailure(on[t], t, state)
    BY DEF Ends, Goto
<1>3. row' \in [Turns -> Statuses] /\ endings' \subseteq Turns
    BY <1>1 DEF ResumptionInv, RTyped, Statuses
<1>4. /\ paused' \in [Conversations -> Pauses]
      /\ \A c \in Conversations : paused[c] # "no" => paused'[c] # "no"
    BY <1>2 DEF ResumptionInv, RTyped, Pauses, PauseOnFailure, Pause
<1>5. Stores
    BY <1>1, SyncStores
<1>6. state \in RunStates /\ place \in (Held \ {"owned"}) \cup {"over"}
    BY <1>2 DEF RunStates, Held
<1>7. QED
    BY <1>1, <1>2, <1>3, <1>4, <1>5, <1>6, HeldInv

LEMMA StopsInv == ASSUME ResumptionInv, NEW t \in Turns, Stops(t) PROVE ResumptionInv'
<1>1. /\ at[t] \in Held /\ at' = [at EXCEPT ![t] = "finishing"]
      /\ UNCHANGED <<owner, run, queue, paused, allPaused, life, on, from, resumes, overtaken, row,
                     endings, saved, writes, resumeVars, stopped, shown, forgotten>>
    BY DEF Stops, Held, Goto, controlVars, storeVars, pastVars
<1>2. Stores
    BY <1>1, HeldStores
<1>3. "finishing" \in (Held \ {"owned"}) \cup {"over"}
    BY DEF Held
<1>4. QED
    BY <1>1, <1>2, <1>3, HeldInv DEF ResumptionInv, RTyped

LEMMA FinishStoppedInv ==
    ASSUME ResumptionInv, NEW t \in Turns, FinishStopped(t) PROVE ResumptionInv'
<1>1. /\ at[t] \in Held /\ at' = [at EXCEPT ![t] = "over"]
      /\ row' = [row EXCEPT ![t] = Closing(@)]
      /\ endings' \in {endings, endings \cup ClosesOld(t)}
      /\ FreeRun(on[t], t, "stopped")
      /\ UNCHANGED <<queue, paused, allPaused, life, on, from, resumes, overtaken, saved, resumeVars,
                     stopped, shown, forgotten>>
      /\ SyncControl
    BY DEF FinishStopped, Held, Goto, pastVars
<1>2. /\ row' \in [Turns -> Statuses] /\ endings' \subseteq Turns
      /\ \A u \in Turns : row'[u] # "none" => u = t \/ row[u] # "none"
    BY <1>1, ClosesOldType DEF ResumptionInv, RTyped, Statuses, Closing
<1>3. Stores
    BY <1>1, SyncStores
<1>4. "stopped" \in RunStates
    BY DEF RunStates
<1>5. QED
    BY <1>1, <1>2, <1>3, <1>4, HeldInv DEF ResumptionInv, RTyped

(* A send is prepared no more: it is dropped, reserved, given up or claims. *)
LeavesPrep(t, place) ==
    /\ at[t] = "prep" /\ place \in {"dropped", "queued", "over", "owned"}
    /\ at' = [at EXCEPT ![t] = place] /\ overtaken' = [overtaken EXCEPT ![t] = FALSE]
    /\ UNCHANGED <<allPaused, life, on, from, resumes, row, saved, resumeVars, shown, forgotten>>
    /\ endings' \subseteq Turns
    /\ Stores /\ run' \in [Conversations -> Runs] /\ queue' \in [Conversations -> Seq(Items)]
    /\ owner' \in [Conversations -> Turns \cup {NoTurn}]
    /\ \A c \in Conversations : \A i \in DOMAIN queue'[c] :
           \/ \E j \in DOMAIN queue[c] : queue'[c][i].id = queue[c][j].id
           \/ place = "queued" /\ c = on[t] /\ queue'[c][i].id = t
    /\ place # "owned" => UNCHANGED <<owner, run>>
    /\ place = "owned" => /\ owner[on[t]] = NoTurn /\ owner' = [owner EXCEPT ![on[t]] = t]
                          /\ run' = [run EXCEPT ![on[t]] = [turn |-> t, state |-> "running"]]
    /\ place = "queued" => IsActive(on[t])
    /\ paused' \in [Conversations -> Pauses] /\ stopped' \subseteq stopped
    /\ \A o \in stopped' : allPaused \/ paused'[on[o]] # "no"
    /\ place = "owned" => CarriesOn(t) \notin stopped'

LEMMA PrepInv ==
    ASSUME ResumptionInv, NEW t \in Turns, NEW place, LeavesPrep(t, place)
    PROVE  ResumptionInv'
<1> USE DEF ResumptionInv, resumeVars, LeavesPrep
<1>1. /\ on[t] \in Conversations /\ life # "down"
      /\ \A c \in Conversations : owner[c] # t
  <2>1. at[t] = "prep"
      OBVIOUS
  <2>2. on[t] \in Conversations
    <3>1. Rooted /\ on[t] \in Conversations \cup {NoConv}
        BY DEF Placed, RTyped
    <3>2. QED
        BY <2>1, <3>1 DEF Rooted
  <2>3. life # "down"
    <3>1. life = "down" => at[t] \notin OnTheWay
        BY DEF Locked
    <3>2. QED
        BY <2>1, <3>1 DEF OnTheWay
  <2>4. \A c \in Conversations : owner[c] # t
    <3>1. \A c \in Conversations : owner[c] # NoTurn => at[owner[c]] \in Held
        BY DEF Locked
    <3>2. QED
        BY <2>1, <3>1, NoTurnAssumption DEF Held
  <2>5. QED
      BY <2>2, <2>3, <2>4
<1>2. at'[t] = place /\ \A u \in Turns : u # t => at'[u] = at[u] /\ overtaken'[u] = overtaken[u]
    BY DEF RTyped
<1>3. Grows
    BY <1>2 DEF Grows, Gone
<1>4. Snapshot' \in Snapshots
    BY SnapshotType
<1>5. RTyped'
  <2>1. overtaken' \in [Turns -> BOOLEAN]
      BY DEF RTyped
  <2>2. at' \in [Turns -> Places]
      BY DEF RTyped, Places, OnTheWay
  <2>3. stopped' \subseteq Turns
      BY DEF RTyped
  <2>4. QED
      BY <1>4, <2>1, <2>2, <2>3, StoresType DEF RTyped
<1>6. \A u \in Turns : CarriesOn(u)' = CarriesOn(u)
    BY DEF CarriesOn
<1>7. \A c \in Conversations :
          \/ run'[c].turn = run[c].turn
          \/ place = "owned" /\ c = on[t] /\ run'[c].turn = t
  <2>1. run \in [Conversations -> Runs]
      BY ControlType
  <2>2. CASE place = "owned"
    <3>1. run' = [run EXCEPT ![on[t]] = [turn |-> t, state |-> "running"]]
        BY <2>2
    <3>2. \A c \in Conversations : c # on[t] => run'[c] = run[c]
        BY <2>1, <3>1
    <3>3. run'[on[t]] = [turn |-> t, state |-> "running"]
        BY <1>1, <2>1, <3>1
    <3>4. run'[on[t]].turn = t
        BY <3>3
    <3>5. QED
        BY <2>2, <3>2, <3>4
  <2>3. CASE place # "owned"
      BY <2>3
  <2>4. QED
      BY <2>2, <2>3
<1>8. /\ Sane(Snapshot)'
      /\ \A o \in Turns : Mentions(Snapshot, o)' => Mentions(Snapshot, o) \/ CarriesOn(t) = o
  <2>1. PICK S \in SUBSET Turns : S = {t}
      OBVIOUS
  <2>2. \A u \in S : at[u] # "free"
      BY <2>1
  <2>3. \A c \in Conversations : \A i \in DOMAIN queue'[c] :
            \/ \E j \in DOMAIN queue[c] : queue'[c][i].id = queue[c][j].id
            \/ \E u \in S : c = on[u] /\ queue'[c][i].id \in {u, from[u]}
      BY <2>1
  <2>4. \A c \in Conversations : run'[c].turn = run[c].turn \/
            (run'[c].turn \in S /\ c = on[run'[c].turn] /\ at'[run'[c].turn] \notin {"free", "prep"})
      BY <1>2, <1>7, <2>1
  <2>5. /\ Sane(Snapshot)'
        /\ \A o \in Turns : Mentions(Snapshot, o)' =>
               Mentions(Snapshot, o) \/ \E u \in S : CarriesOn(u) = o
      BY <1>3, <1>4, <2>2, <2>3, <2>4, Names
  <2>6. QED
      BY <2>1, <2>5
<1>9. Placed'
  <2>1. Rooted'
      BY <1>2, <1>3, ConversationsAssumption DEF Placed, Rooted, Grows, Gone, Held, RTyped
  <2>2. QED
      BY <1>3, <1>4, <1>8, <2>1, PlacedStep
<1>10. Locked'
  <2>1. Latest' = Snapshot'
      BY <1>4, StoresType
  <2>2. ASSUME NEW u \in Turns, at'[u] \in Held
        PROVE  /\ owner'[on[u]] = u /\ run'[on[u]].turn = u
               /\ run'[on[u]].state \in {"running", "stopping"}
    <3>1. CASE u = t
      <4>1. place = "owned"
          BY <1>2, <2>2, <3>1 DEF Held
      <4>2. QED
          BY <1>1, <3>1, <4>1, ControlType DEF RTyped
    <3>2. CASE u # t
      <4>1. at[u] \in Held /\ on[u] \in Conversations /\ owner[on[u]] = u
          BY <1>2, <2>2, <3>2 DEF Locked, Held, Placed, Rooted, RTyped
      <4>2. place = "owned" => on[u] # on[t]
          BY <4>1, NoTurnAssumption
      <4>3. owner'[on[u]] = owner[on[u]] /\ run'[on[u]] = run[on[u]]
          BY <4>1, <4>2, ControlType DEF RTyped
      <4>4. QED
          BY <4>1, <4>3 DEF Locked
    <3>3. QED
        BY <3>1, <3>2
  <2>3. ASSUME NEW c \in Conversations, owner'[c] # NoTurn
        PROVE  at'[owner'[c]] \in Held /\ on[owner'[c]] = c
    <3>1. CASE place = "owned" /\ c = on[t]
        BY <1>1, <1>2, <3>1 DEF Held, RTyped
    <3>2. CASE ~(place = "owned" /\ c = on[t])
      <4>1. owner'[c] = owner[c]
          BY <3>2 DEF RTyped
      <4>2. QED
          BY <1>1, <1>2, <2>3, <4>1 DEF Locked, RTyped
    <3>3. QED
        BY <3>1, <3>2
  <2>4. \A u \in Turns : at'[u] = "prep" => at[u] = "prep"
      BY <1>2
  <2>5. QED
      BY <1>1, <2>1, <2>2, <2>3, <2>4 DEF Locked
<1>11. Halted'
  <2>1. \A o \in stopped' : at'[o] # "free" /\ (allPaused \/ paused'[on[o]] # "no")
      BY <1>3 DEF Halted, Grows, RTyped
  <2>2. \A u \in Turns : at'[u] = "prep" => at[u] = "prep" /\ (~overtaken'[u] => ~overtaken[u])
      BY <1>2
  <2>3. \A u \in Turns, o \in stopped' :
            at'[u] = "prep" /\ ~overtaken'[u] /\ CarriesOn(u)' # NoTurn => on[o] # on[u]
      BY <1>6, <2>2 DEF Halted
  <2>4. ASSUME NEW u \in Turns, at'[u] = "owned", CarriesOn(u) \in stopped'
        PROVE  IsStoppingRun(on[u])'
    <3>1. u # t /\ at[u] = "owned"
        BY <1>2, <2>4
    <3>2. on[u] \in Conversations /\ owner[on[u]] = u
        BY <3>1 DEF Locked, Held, Placed, Rooted, RTyped
    <3>3. place = "owned" => on[u] # on[t]
        BY <3>2, NoTurnAssumption
    <3>4. run'[on[u]] = run[on[u]]
        BY <3>2, <3>3, ControlType
    <3>5. QED
        BY <2>4, <3>1, <3>4 DEF Halted, IsStoppingRun
  <2>5. QED
      BY <1>6, <2>1, <2>3, <2>4 DEF Halted
<1>12. \A u, o \in Turns : /\ Recovers(u, o)' <=> Recovers(u, o) /\ u # t
                           /\ SendsAgain(u, o)' => SendsAgain(u, o)
    BY <1>2 DEF Recovers, SendsAgain
<1>13. \A o \in Turns : Recovering(o)' => Recovering(o)
    BY <1>12 DEF Recovering
<1>14. Once'
    BY <1>12 DEF Once, NewRecoveries
<1>15. ASSUME NEW o \in Turns, CarriesOn(t) = o PROVE ~Recovering(o)'
  <2>1. CASE from[t] = NoTurn
    <3>1. Recovers(t, o)
        BY <1>15, <2>1 DEF CarriesOn, Recovers
    <3>2. QED
        BY <1>12, <3>1 DEF NewRecoveries, Once, Recovering
  <2>2. CASE from[t] # NoTurn
    <3>1. SendsAgain(t, o)
        BY <1>15, <2>2 DEF CarriesOn, SendsAgain
    <3>2. QED
        BY <1>13, <3>1 DEF NewRecoveries, Fresh
  <2>3. QED
      BY <2>1, <2>2
<1>16. \A o \in Turns : Mentions(Snapshot, o)' =>
           \/ Mentions(Snapshot, o)
           \/ at[o] \in Gone /\ run'[on[o]].turn \notin {NoTurn, o} /\ ~Recovering(o)'
  <2>1. SUFFICES ASSUME NEW o \in Turns, Mentions(Snapshot, o)', ~Mentions(Snapshot, o)
                 PROVE  at[o] \in Gone /\ run'[on[o]].turn \notin {NoTurn, o} /\ ~Recovering(o)'
      OBVIOUS
  <2>2. CarriesOn(t) = o
      BY <1>8, <2>1
  <2>3. at[o] \in Gone /\ on[o] = on[t]
      BY <2>2, CarriesHere, NoTurnAssumption
  <2>4. CASE place = "owned"
      BY <1>1, <1>15, <2>2, <2>3, <2>4, NoTurnAssumption, ControlType DEF Gone
  <2>5. CASE place = "queued"
    <3>1. owner[on[t]] \in Turns /\ at[owner[on[t]]] \in Held
        BY <1>1, <2>5 DEF IsActive, Locked, RTyped
    <3>2. run[on[t]].turn = owner[on[t]]
        BY <1>1, <2>5, <3>1 DEF Locked, IsActive
    <3>3. QED
        BY <1>15, <2>2, <2>3, <2>5, <3>1, <3>2, NoTurnAssumption DEF Gone, Held
  <2>6. CASE place \in {"dropped", "over"}
    <3>1. PICK S \in SUBSET Turns : S = {}
        OBVIOUS
    <3>2. /\ \A c \in Conversations : run'[c].turn = run[c].turn
          /\ \A c \in Conversations : \A i \in DOMAIN queue'[c] :
                 \E j \in DOMAIN queue[c] : queue'[c][i].id = queue[c][j].id
        BY <2>6
    <3>3. \A u \in S : at[u] # "free"
        BY <3>1
    <3>4. \A c \in Conversations : \A i \in DOMAIN queue'[c] :
              \/ \E j \in DOMAIN queue[c] : queue'[c][i].id = queue[c][j].id
              \/ \E u \in S : c = on[u] /\ queue'[c][i].id \in {u, from[u]}
      <4>1. ASSUME NEW c \in Conversations, NEW i \in DOMAIN queue'[c]
            PROVE  \E j \in DOMAIN queue[c] : queue'[c][i].id = queue[c][j].id
          BY <3>2
      <4>2. QED
          BY SMTT(30), <4>1
    <3>5. \A u \in Turns : Mentions(Snapshot, u)' =>
              Mentions(Snapshot, u) \/ \E v \in S : CarriesOn(v) = u
        BY ZenonT(40), <1>3, <1>4, <3>2, <3>3, <3>4, Names
    <3>6. QED
        BY <2>1, <3>1, <3>5
  <2>7. QED
      BY <2>4, <2>5, <2>6
<1>17. Onward' /\ NewRecoveries'
    BY <1>1, <1>3, <1>4, <1>7, <1>12, <1>13, <1>14, <1>16, MovesOn
<1>18. QED
    BY <1>5, <1>9, <1>10, <1>11, <1>17

LEMMA PrepareFailsInv ==
    ASSUME ResumptionInv, NEW t \in Turns, PrepareFails(t) PROVE ResumptionInv'
<1> USE DEF ResumptionInv
<1>1. /\ at[t] = "prep" /\ at' = [at EXCEPT ![t] = "dropped"]
      /\ overtaken' = [overtaken EXCEPT ![t] = FALSE]
      /\ UNCHANGED <<owner, run, queue, allPaused, life, on, from, resumes, row, endings, saved,
                     resumeVars, stopped, shown, forgotten>>
      /\ paused' \in {paused, [paused EXCEPT ![on[t]] = "user"]}
      /\ SyncControl
    BY DEF PrepareFails, Goto, Pause, pastVars
<1>2. /\ run \in [Conversations -> Runs] /\ queue \in [Conversations -> Seq(Items)]
      /\ owner \in [Conversations -> Turns \cup {NoTurn}] /\ endings \subseteq Turns
    BY ControlType DEF RTyped
<1>3. /\ paused' \in [Conversations -> Pauses]
      /\ \A c \in Conversations : paused[c] # "no" => paused'[c] # "no"
    BY <1>1 DEF RTyped, Pauses
<1>4. \A o \in stopped' : allPaused \/ paused'[on[o]] # "no"
    BY <1>1, <1>3 DEF Halted, Placed, Rooted, RTyped
<1>5. Stores
    BY <1>1, SyncStores
<1>6. LeavesPrep(t, "dropped")
    BY <1>1, <1>2, <1>3, <1>4, <1>5 DEF LeavesPrep
<1>7. QED
    BY <1>6, PrepInv

LEMMA ClaimInv == ASSUME ResumptionInv, NEW t \in Turns, Claim(t) PROVE ResumptionInv'
<1> USE DEF ResumptionInv
<1> DEFINE c == on[t]
<1>1. /\ at[t] = "prep" /\ overtaken' = [overtaken EXCEPT ![t] = FALSE]
      /\ UNCHANGED <<allPaused, life, on, from, resumes, row, saved, resumeVars, shown, forgotten>>
    BY DEF Claim
<1>2. c \in Conversations
    BY <1>1 DEF Placed, Rooted, RTyped
<1>3. /\ run \in [Conversations -> Runs] /\ queue \in [Conversations -> Seq(Items)]
      /\ owner \in [Conversations -> Turns \cup {NoTurn}] /\ paused \in [Conversations -> Pauses]
      /\ endings \subseteq Turns /\ endings \cup ClosesOld(t) \subseteq Turns
      /\ \A o \in stopped : on[o] \in Conversations /\ (allPaused \/ paused[on[o]] # "no")
    BY ControlType, ClosesOldType DEF RTyped, Halted, Placed, Rooted
<1>4. CASE /\ at' = [at EXCEPT ![t] = "dropped"] /\ endings' = endings \cup ClosesOld(t)
           /\ UNCHANGED <<owner, run, queue, paused, writes, stopped>>
  <2>1. Stores
      BY <1>1, <1>4, HeldStores
  <2>2. LeavesPrep(t, "dropped")
      BY <1>1, <1>3, <1>4, <2>1 DEF LeavesPrep
  <2>3. QED
      BY <2>2, PrepInv
<1>5. CASE /\ ~overtaken[t] /\ IsActive(c)
           /\ IF from[t] = NoTurn THEN Goto(t, "queued") /\ Enqueue(c, t, "queue")
                                  ELSE Goto(t, "over") /\ UNCHANGED queue
           /\ endings' = endings \cup ClosesOld(t)
           /\ UNCHANGED <<owner, run, paused, stopped>>
           /\ SyncControl
  <2>1. Stores
      BY <1>1, <1>5, SyncStores
  <2>2. PICK place \in {"queued", "over"} :
            /\ at' = [at EXCEPT ![t] = place]
            /\ \/ place = "queued" /\ Enqueue(c, t, "queue")
               \/ place = "over" /\ UNCHANGED queue
      BY <1>5 DEF Goto
  <2>3. /\ queue' \in [Conversations -> Seq(Items)]
        /\ \A d \in Conversations : \A i \in DOMAIN queue'[d] :
               \/ \E j \in DOMAIN queue[d] : queue'[d][i].id = queue[d][j].id
               \/ place = "queued" /\ d = on[t] /\ queue'[d][i].id = t
      BY <1>2, <1>3, <2>2, EnqueueType
  <2>4. /\ run' \in [Conversations -> Runs] /\ owner' \in [Conversations -> Turns \cup {NoTurn}]
        /\ paused' \in [Conversations -> Pauses] /\ stopped' \subseteq stopped
        /\ endings' \subseteq Turns /\ IsActive(on[t])
        /\ \A o \in stopped' : allPaused \/ paused'[on[o]] # "no"
      BY <1>3, <1>5
  <2>5. place \in {"dropped", "queued", "over", "owned"} /\ place # "owned" /\ UNCHANGED <<owner, run>>
      BY <1>5, <2>2
  <2>6. LeavesPrep(t, place)
      BY <1>1, <2>1, <2>2, <2>3, <2>4, <2>5 DEF LeavesPrep
  <2>7. QED
      BY <2>6, PrepInv
<1>6. CASE /\ ~overtaken[t] /\ ClaimRun(c, t) /\ Goto(t, "owned")
           /\ queue' = [queue EXCEPT ![c] = Without(c, from[t])]
           /\ IF allPaused THEN UNCHANGED <<paused, stopped>>
              ELSE Pause(c, "no") /\ GoesOn(IF CarriesOn(t) = NoTurn THEN {c} ELSE {})
           /\ SyncControl
           /\ UNCHANGED endings
  <2>1. Stores
      BY <1>1, <1>6, SyncStores
  <2>2. /\ at' = [at EXCEPT ![t] = "owned"] /\ owner[c] = NoTurn
        /\ owner' = [owner EXCEPT ![c] = t]
        /\ run' = [run EXCEPT ![c] = [turn |-> t, state |-> "running"]]
      BY <1>6 DEF Goto, ClaimRun, IsActive
  <2>3. /\ owner' \in [Conversations -> Turns \cup {NoTurn}]
        /\ run' \in [Conversations -> Runs]
      BY <1>3, <2>2 DEF Runs, ShownStates, RunStates
  <2>4. /\ queue' \in [Conversations -> Seq(Items)]
        /\ \A d \in Conversations : \A i \in DOMAIN queue'[d] :
               \E j \in DOMAIN queue[d] : queue'[d][i].id = queue[d][j].id
    <3>1. PICK id : id = from[t]
        OBVIOUS
    <3>2. queue' = [queue EXCEPT ![c] = Without(c, id)]
        BY <1>6, <3>1
    <3>3. QED
        BY <1>2, <3>2, WithoutType
  <2>5. CarriesOn(t) # NoTurn => \A o \in stopped : on[o] # c
      BY <1>1, <1>6 DEF Halted
  <2>6. /\ paused' \in [Conversations -> Pauses] /\ stopped' \subseteq stopped
        /\ \A o \in stopped' : allPaused \/ paused'[on[o]] # "no"
    <3>1. CASE allPaused
        BY <1>3, <1>6, <3>1
    <3>2. CASE ~allPaused
      <4>1. paused' = [paused EXCEPT ![c] = "no"] /\ stopped' \subseteq stopped
            /\ (CarriesOn(t) = NoTurn => \A o \in stopped' : on[o] # c)
          BY <1>6, <3>2 DEF Pause, GoesOn
      <4>2. \A o \in stopped' : on[o] # c /\ paused[on[o]] # "no"
          BY <1>3, <2>5, <3>2, <4>1
      <4>3. QED
          BY <1>3, <4>1, <4>2 DEF Pauses
    <3>3. QED
        BY <3>1, <3>2
  <2>7. CarriesOn(t) \notin stopped'
    <3>1. CASE CarriesOn(t) = NoTurn
        BY <2>6, <3>1, NoTurnAssumption DEF RTyped
    <3>2. CASE CarriesOn(t) # NoTurn
        BY <2>5, <2>6, <3>2, CarriesHere
    <3>3. QED
        BY <3>1, <3>2
  <2>8. endings' \subseteq Turns
      BY <1>3, <1>6
  <2>9. LeavesPrep(t, "owned")
      BY <1>1, <2>1, <2>2, <2>3, <2>4, <2>6, <2>7, <2>8 DEF LeavesPrep
  <2>10. QED
      BY <2>9, PrepInv
<1>7. QED
    BY <1>4, <1>5, <1>6 DEF Claim, Goto

(* The oldest snapshot becomes the stored one; it shows what it mentions. *)
LEMMA SnapshotLandsInv == ASSUME ResumptionInv, SnapshotLands PROVE ResumptionInv'
<1> USE DEF ResumptionInv
<1>1. /\ writes # <<>> /\ saved' = Head(writes) /\ writes' = Tail(writes)
      /\ shown' = shown \cup {o \in Turns : \E c \in Conversations :
                      saved'.runs[c].turn # NoTurn /\ CarriesOn(saved'.runs[c].turn) = o}
      /\ UNCHANGED <<owner, run, queue, paused, allPaused, life, sendVars, row, endings, resumeVars,
                     stopped, forgotten>>
    BY DEF SnapshotLands, controlVars
<1>2. /\ writes' \in Seq(Snapshots) /\ saved' \in Snapshots /\ saved' = writes[1]
      /\ 1 \in DOMAIN writes
      /\ \A k \in DOMAIN writes' : k + 1 \in DOMAIN writes /\ writes'[k] = writes[k + 1]
      /\ writes' # <<>> => writes'[Len(writes')] = writes[Len(writes)]
      /\ writes' = <<>> => saved' = writes[Len(writes)]
      /\ DOMAIN writes \subseteq Nat \ {0} /\ DOMAIN writes' \subseteq Nat \ {0}
  <2>1. writes \in Seq(Snapshots)
      BY DEF RTyped
  <2>2. /\ writes' \in Seq(Snapshots) /\ Len(writes) \in Nat \ {0} /\ Len(writes') = Len(writes) - 1
        /\ DOMAIN writes = 1..Len(writes) /\ DOMAIN writes' = 1..Len(writes')
        /\ \A k \in 1..Len(writes') : writes'[k] = writes[k + 1]
      BY <1>1, <2>1
  <2>3. saved' = writes[1] /\ writes[1] \in Snapshots
      BY <1>1, <2>1, <2>2
  <2>4. QED
      BY <2>2, <2>3
<1>3. Snapshot' = Snapshot /\ Latest' = Latest /\ Grows
    BY <1>1, <1>2 DEF Snapshot, Latest, Grows, sendVars
<1>4. \A o \in Turns :
          /\ Mentions(saved, o)' <=> Mentions(writes[1], o)
          /\ Beyond(saved, o)' <=> Beyond(writes[1], o)
          /\ Beyond(Snapshot, o)' <=> Beyond(Snapshot, o)
    BY <1>1, <1>2, <1>3 DEF Mentions, Beyond, CarriesOn, sendVars
<1>5. \A o \in Turns : \A k \in DOMAIN writes' :
          /\ Mentions(writes[k], o)' <=> Mentions(writes[k + 1], o)
          /\ Beyond(writes[k], o)' <=> Beyond(writes[k + 1], o)
    BY <1>1, <1>2 DEF Mentions, Beyond, CarriesOn, sendVars
<1>6. \A o \in Turns : o \in shown' => o \in shown \/ Mentions(writes[1], o)
    BY <1>1, <1>2 DEF Mentions
<1>7. RTyped'
    BY <1>1, <1>2, <1>3 DEF RTyped, sendVars, resumeVars
<1>8. Placed'
  <2>1. \A o \in Turns : Mentions(writes[1], o) => at[o] \in Gone
    <3>1. PICK s \in Snapshots : s = writes[1]
        BY <1>2
    <3>2. QED
        BY <1>2, <1>3, <3>1, MentionsKept DEF Placed
  <2>2. \A o \in shown' \ {NoTurn} : at'[o] \in Gone
      BY <1>1, <1>6, <1>7, <2>1 DEF Placed, sendVars, RTyped
  <2>3. Rooted'
      BY <1>1 DEF Placed, Rooted, sendVars
  <2>4. Sane(Snapshot)'
      BY <1>1, <1>3 DEF Placed, Sane, sendVars
  <2>5. Sane(saved)'
      BY <1>1, <1>2 DEF Placed, Sane, sendVars
  <2>6. \A k \in DOMAIN writes' : Sane(writes[k])'
      BY SMTT(30), <1>1, <1>2 DEF Placed, Sane, sendVars
  <2>7. QED
      BY <1>1, <2>2, <2>3, <2>4, <2>5, <2>6 DEF Placed, sendVars, resumeVars
<1>9. Locked'
    BY <1>1, <1>3 DEF Locked, sendVars, resumeVars
<1>10. Halted'
    BY <1>1 DEF Halted, CarriesOn, IsStoppingRun, sendVars
<1>11. Onward'
  <2>1. ASSUME NEW o \in Turns, o \in shown \/ Mentions(writes[1], o)
        PROVE  \A k \in DOMAIN writes : Beyond(writes[k], o)
      BY <1>2, <2>1 DEF Onward
  <2>2. \A o \in Turns : \A j, k \in DOMAIN writes' :
            j <= k => j + 1 <= k + 1 /\ j + 1 \in DOMAIN writes /\ k + 1 \in DOMAIN writes
      BY <1>2
  <2>3. ASSUME NEW o \in Turns, o \in shown' \/ Mentions(saved, o)'
        PROVE  Beyond(saved, o)' /\ \A k \in DOMAIN writes' : Beyond(writes[k], o)'
      BY <1>2, <1>4, <1>5, <1>6, <2>1, <2>3
  <2>4. ASSUME NEW o \in Turns, NEW j \in DOMAIN writes', NEW k \in DOMAIN writes',
               j <= k, Mentions(writes[j], o)'
        PROVE  Beyond(writes[k], o)'
    <3>1. Mentions(writes[j + 1], o)
        BY <1>5, <2>4
    <3>2. Beyond(writes[k + 1], o)
        BY <2>2, <2>4, <3>1 DEF Onward
    <3>3. QED
        BY <1>5, <3>2
  <2>5. QED
      BY <2>3, <2>4 DEF Onward
<1>12. \A t, o \in Turns : Recovers(t, o)' = Recovers(t, o) /\ SendsAgain(t, o)' = SendsAgain(t, o)
    BY <1>1 DEF Recovers, SendsAgain, sendVars
<1>13. \A o \in Turns : Recovering(o)' => Recovering(o)
    BY <1>1, <1>12 DEF Recovering, resumeVars
<1>14. \A o \in Turns : Fresh(o) => Fresh(o)'
    BY <1>2, <1>4, <1>5, <1>6, <1>12 DEF Fresh
<1>15. Once'
    BY <1>1, <1>12 DEF Once, NewRecoveries, resumeVars
<1>16. NewRecoveries'
    BY <1>4, <1>12, <1>13, <1>14, <1>15 DEF NewRecoveries
<1>17. QED
    BY <1>7, <1>8, <1>9, <1>10, <1>11, <1>16

LEMMA CrashInv == ASSUME ResumptionInv, Crash PROVE ResumptionInv'
<1> USE DEF ResumptionInv
<1>1. /\ life' = "down" /\ writes' = <<>> /\ parked' = <<>> /\ slot' = NoTurn /\ endings' = {}
      /\ listed' = {}
      /\ owner' = [c \in Conversations |-> NoTurn]
      /\ run' = [c \in Conversations |-> NoRun]
      /\ queue' = [c \in Conversations |-> <<>>]
      /\ overtaken' = [t \in Turns |-> FALSE]
      /\ UNCHANGED <<paused, allPaused, on, from, resumes, row, saved, stopped, shown, forgotten>>
    BY DEF Crash, KeptPauses
<1>2. /\ at' \in [Turns -> Places]
      /\ \A t \in Turns : at'[t] = IF at[t] \in OnTheWay THEN "cut" ELSE at[t]
    BY DEF Crash, RTyped, Places, OnTheWay
<1>3. Grows
    BY <1>1, <1>2 DEF Grows, Gone
<1>4. \A t \in Turns : /\ at'[t] \notin OnTheWay
                       /\ at'[t] = "free" <=> at[t] = "free"
                       /\ at[t] \in Gone \cup Held => at'[t] \in Gone
    BY <1>2 DEF OnTheWay, Gone, Held
<1>5. Snapshot' \in Snapshots
  <2>1. NoRun \in Runs /\ <<>> \in Seq(Items)
      BY DEF NoRun, Runs, ShownStates, RunStates
  <2>2. run' \in [Conversations -> Runs] /\ queue' \in [Conversations -> Seq(Items)]
      BY <1>1, <2>1
  <2>3. QED
      BY <2>2 DEF Snapshot, Snapshots
<1>6. RTyped'
    BY <1>1, <1>2, <1>5 DEF RTyped
<1>7. Placed'
  <2>1. Rooted'
    <3>1. \A t \in Turns : /\ from[t] # NoTurn => from[t] \in Turns
                           /\ resumes[t] # NoTurn => resumes[t] \in Turns
        BY DEF RTyped
    <3>2. \A t \in Turns : /\ on'[t] = on[t] /\ from'[t] = from[t] /\ resumes'[t] = resumes[t]
                           /\ row'[t] = row[t]
        BY <1>1
    <3>3. QED
        BY <1>4, <3>1, <3>2 DEF Placed, Rooted
  <2>2. Sane(Snapshot)'
    <3>1. \A c \in Conversations : run'[c].turn = NoTurn /\ queue'[c] = <<>>
        BY <1>1 DEF NoRun
    <3>2. QED
        BY <3>1 DEF Sane, Snapshot
  <2>3. Sane(saved)'
    <3>1. PICK s \in Snapshots : s = saved
        BY DEF RTyped
    <3>2. Sane(s)'
        BY <1>3, <3>1, SaneKept DEF Placed
    <3>3. saved' = s
        BY <1>1, <3>1
    <3>4. QED
        BY <3>2, <3>3 DEF Sane
  <2>4. \A o \in shown' \ {NoTurn} : at'[o] \in Gone
      BY <1>1, <1>4 DEF Placed, RTyped
  <2>5. QED
      BY <1>1, <2>1, <2>2, <2>3, <2>4 DEF Placed
<1>8. Locked'
    BY <1>1, <1>4 DEF Locked, Held, OnTheWay
<1>9. Halted'
  <2>1. \A o \in stopped' : at'[o] # "free" /\ (allPaused' \/ paused'[on'[o]] # "no")
      BY <1>1, <1>4 DEF Halted, RTyped
  <2>2. \A t \in Turns : at'[t] # "prep" /\ at'[t] # "owned"
      BY <1>4 DEF OnTheWay
  <2>3. QED
      BY <2>1, <2>2 DEF Halted
<1>10. Onward'
  <2>1. ASSUME NEW o \in Turns, o \in shown \/ Mentions(saved, o)'
        PROVE  Beyond(saved, o)'
    <3>1. /\ Mentions(saved, o)' <=> Mentions(saved, o)
          /\ Mentions(saved, o) => at[o] \in Gone
          /\ at[o] # "free" /\ Beyond(saved, o) => Beyond(saved, o)'
        BY <1>1, <1>3, StoresKept
    <3>2. o \in shown => at[o] \in Gone
        BY NoTurnAssumption DEF Placed
    <3>3. QED
        BY <2>1, <3>1, <3>2 DEF Onward, Gone
  <2>2. QED
      BY <1>1, <2>1 DEF Onward
<1>11. NewRecoveries'
  <2>1. \A t, o \in Turns : ~Recovers(t, o)' /\ ~SendsAgain(t, o)'
      BY <1>4 DEF Recovers, SendsAgain, OnTheWay
  <2>2. \A o \in Turns : ~Recovering(o)'
      BY <1>1, <2>1, NoTurnAssumption DEF Recovering
  <2>3. QED
      BY <1>1, <2>1, <2>2 DEF NewRecoveries, Once
<1>12. QED
    BY <1>6, <1>7, <1>8, <1>9, <1>10, <1>11

LEMMA RestoreWorkspaceInv == ASSUME ResumptionInv, RestoreWorkspace PROVE ResumptionInv'
<1> USE DEF ResumptionInv
<1>1. /\ life = "down" /\ life' = "restored" /\ queue' = saved.queues /\ saved' = saved
      /\ run' = [c \in Conversations |-> Restored(saved.runs[c])]
      /\ paused' = [c \in Conversations |-> IF PausesOnRestore(saved.runs[c].state)
                                            THEN "user" ELSE paused[c]]
      /\ UNCHANGED <<owner, allPaused, at, on, from, resumes, overtaken, row, endings, parked, slot,
                     listed, stopped, shown, forgotten>>
      /\ SyncControl
    BY DEF RestoreWorkspace, sendVars, resumeVars, pastVars
<1>2. /\ writes = <<>> /\ Latest = saved /\ parked = <<>> /\ slot = NoTurn
      /\ \A t \in Turns : at[t] \notin OnTheWay
      /\ \A t \in Turns : at'[t] = at[t] /\ on'[t] = on[t] /\ from'[t] = from[t]
                          /\ resumes'[t] = resumes[t]
    BY <1>1 DEF Locked, Latest
<1>3. /\ saved.runs \in [Conversations -> Runs] /\ saved.queues \in [Conversations -> Seq(Items)]
      /\ paused \in [Conversations -> Pauses]
    BY DEF RTyped, Snapshots
<1>4. /\ run' \in [Conversations -> Runs]
      /\ \A c \in Conversations : run'[c].turn = saved.runs[c].turn
  <2>1. \A c \in Conversations : Restored(saved.runs[c]) \in Runs
                                 /\ Restored(saved.runs[c]).turn = saved.runs[c].turn
      BY <1>3 DEF Restored, Runs, ShownStates
  <2>2. QED
      BY <1>1, <2>1
<1>5. Stores /\ Grows /\ Snapshot' \in Snapshots
  <2>1. Stores
      BY <1>1, SyncStores
  <2>2. QED
      BY <1>1, <1>2, <1>3, <1>4, <2>1 DEF Grows, Snapshot, Snapshots
<1>6. paused' \in [Conversations -> Pauses]
      /\ \A c \in Conversations : paused[c] # "no" => paused'[c] # "no"
    BY <1>1, <1>3 DEF Pauses
<1>7. RTyped'
    BY <1>1, <1>5, <1>6, StoresType DEF RTyped
<1>8. \A o \in Turns : /\ Mentions(saved, o) => at[o] \in Gone /\ Beyond(saved, o)
                       /\ at[o] \in Gone => (Beyond(Snapshot, o)' <=> Beyond(saved, o))
  <2>1. ASSUME NEW o \in Turns, Mentions(saved, o) PROVE at[o] \in Gone /\ Beyond(saved, o)
    <3>1. at[o] \in Gone
        BY <1>1, <1>5, <2>1, StoresKept
    <3>2. QED
        BY <2>1, <3>1 DEF Onward
  <2>2. ASSUME NEW o \in Turns, at[o] \in Gone
        PROVE  Beyond(Snapshot, o)' <=> Beyond(saved, o)
    <3>1. on'[o] = on[o] /\ on[o] \in Conversations
        BY <1>2, <2>2 DEF Placed, Rooted, RTyped, Gone
    <3>2. run'[on'[o]].turn = saved.runs[on[o]].turn
        BY <1>4, <3>1
    <3>3. QED
        BY <1>1, <3>2 DEF Beyond, Snapshot
  <2>3. QED
      BY <2>1, <2>2
<1>9. Sane(Snapshot)' /\ \A o \in Turns : Mentions(Snapshot, o)' => Mentions(saved, o)
  <2>1. PICK s \in Snapshots : s = saved
      BY DEF RTyped
  <2>2. Sane(s) /\ Sane(s)'
      BY <1>5, <2>1, SaneKept DEF Placed
  <2>3. /\ \A c \in Conversations : run'[c].turn = s.runs[c].turn
        /\ queue' = s.queues
      BY <1>1, <1>4, <2>1
  <2>4. Sane(Snapshot)'
      BY <2>2, <2>3 DEF Sane, Snapshot
  <2>5. ASSUME NEW o \in Turns, Mentions(Snapshot, o)' PROVE Mentions(saved, o)
    <3>1. PICK c \in Conversations : \/ run'[c].turn # NoTurn /\ CarriesOn(run[c].turn)' = o
                                     \/ \E i \in DOMAIN queue'[c] : resumes'[queue'[c][i].id] = o
        BY <2>5 DEF Mentions, Snapshot
    <3>2. CarriesOn(run[c].turn)' = CarriesOn(s.runs[c].turn)
      <4>1. from' = from /\ resumes' = resumes /\ run'[c].turn = s.runs[c].turn
          BY <1>1, <2>3
      <4>2. QED
          BY <4>1 DEF CarriesOn
    <3>3. resumes' = resumes /\ queue'[c] = s.queues[c] /\ run'[c].turn = s.runs[c].turn
        BY <1>1, <2>3
    <3>4. Mentions(s, o)
        BY <3>1, <3>2, <3>3 DEF Mentions
    <3>5. QED
        BY <2>1, <3>4
  <2>6. QED
      BY <2>4, <2>5
<1>10. Placed'
  <2>1. Rooted'
      BY <1>1, <1>2 DEF Placed, Rooted
  <2>2. QED
      BY <1>1, <1>2, <1>5, <1>9, <2>1, NoTurnAssumption, StoresSane DEF Placed
<1>11. Locked'
  <2>1. \A t \in Turns : at'[t] \notin Held /\ at'[t] # "prep"
      BY <1>2 DEF OnTheWay, Held
  <2>2. \A c \in Conversations : owner[c] = NoTurn
      BY <1>2 DEF Locked, RTyped, Held, OnTheWay
  <2>3. Latest' = Snapshot'
      BY <1>5, StoresType
  <2>4. QED
      BY <1>1, <1>2, <2>1, <2>2, <2>3 DEF Locked
<1>12. Halted'
  <2>1. \A o \in stopped : on[o] \in Conversations
      BY DEF Halted, Placed, Rooted, RTyped
  <2>2. \A o \in stopped' : at'[o] # "free" /\ (allPaused' \/ paused'[on'[o]] # "no")
      BY <1>1, <1>6, <2>1 DEF Halted
  <2>3. \A t \in Turns : at'[t] # "prep" /\ at'[t] # "owned"
      BY <1>2 DEF OnTheWay
  <2>4. QED
      BY <2>2, <2>3 DEF Halted
<1>13. Onward'
  <2>1. \A o \in Turns : at[o] \in Gone /\ Beyond(Latest, o) => Beyond(Snapshot, o)'
      BY <1>2, <1>8
  <2>2. \A o \in Turns : Mentions(Snapshot, o)' => at[o] \in Gone /\ Beyond(Snapshot, o)'
      BY <1>8, <1>9
  <2>3. shown' \subseteq shown
      BY <1>1
  <2>4. QED
      BY <1>5, <2>1, <2>2, <2>3, StoresOnward
<1>14. NewRecoveries'
  <2>1. \A t, o \in Turns : ~Recovers(t, o)' /\ ~SendsAgain(t, o)'
      BY <1>2 DEF Recovers, SendsAgain, OnTheWay
  <2>2. \A o \in Turns : ~Recovering(o)'
      BY <1>1, <1>2, <2>1, NoTurnAssumption DEF Recovering
  <2>3. QED
      BY <1>1, <1>2, <2>1, <2>2 DEF NewRecoveries, Once
<1>15. QED
    BY <1>7, <1>10, <1>11, <1>12, <1>13, <1>14
-----------------------------------------------------------------------------
LEMMA InitInv == ResumptionInit => ResumptionInv
<1> SUFFICES ASSUME ResumptionInit PROVE ResumptionInv
    OBVIOUS
<1>1. /\ \A c \in Conversations : run[c].turn = NoTurn /\ queue[c] = <<>> /\ owner[c] = NoTurn
      /\ Snapshot = saved /\ writes = <<>> /\ stopped = {} /\ shown = {}
      /\ parked = <<>> /\ slot = NoTurn /\ life = "up" /\ endings = {} /\ listed = {}
      /\ \A t \in Turns : /\ at[t] = "free" /\ on[t] = NoConv /\ from[t] = NoTurn
                          /\ resumes[t] = NoTurn /\ row[t] = "none"
    BY DEF ResumptionInit, ControlInit, Snapshot
<1>2. Snapshot \in Snapshots
  <2>1. [turn |-> NoTurn, state |-> "none"] \in Runs /\ <<>> \in Seq(Items)
      BY DEF Runs, ShownStates, RunStates
  <2>2. QED
      BY <2>1 DEF ResumptionInit, ControlInit, Snapshot, Snapshots
<1>3. RTyped
  <2>1. /\ at \in [Turns -> Places] /\ on \in [Turns -> Conversations \cup {NoConv}]
        /\ from \in [Turns -> Turns \cup {NoTurn}] /\ resumes \in [Turns -> Turns \cup {NoTurn}]
        /\ overtaken \in [Turns -> BOOLEAN] /\ row \in [Turns -> Statuses]
      BY DEF ResumptionInit, Places, Statuses
  <2>2. /\ owner \in [Conversations -> Turns \cup {NoTurn}]
        /\ paused \in [Conversations -> Pauses] /\ allPaused \in BOOLEAN
      BY DEF ResumptionInit, ControlInit, Pauses
  <2>3. writes \in Seq(Snapshots) /\ parked \in Seq(Turns)
      BY <1>1
  <2>4. QED
      BY <1>1, <1>2, <2>1, <2>2, <2>3 DEF RTyped
<1>4. Sane(Snapshot)
    BY <1>1 DEF Sane, Snapshot
<1>5. Placed
  <2>1. Rooted
      BY <1>1 DEF Rooted
  <2>2. QED
      BY <1>1, <1>4, <2>1 DEF Placed, Sane
<1>6. Locked
    BY <1>1 DEF Locked, Latest, Held
<1>7. Halted
    BY <1>1 DEF Halted
<1>8. \A o \in Turns : ~Mentions(saved, o)
  <2>1. \A c \in Conversations : saved.runs[c].turn = NoTurn /\ saved.queues[c] = <<>>
      BY <1>1 DEF Snapshot
  <2>2. QED
      BY <2>1 DEF Mentions
<1>9. Onward
    <2>1. \A k \in DOMAIN writes : FALSE
        BY <1>1
    <2>2. QED
        BY <1>1, <1>8, <2>1 DEF Onward
<1>10. NewRecoveries
  <2>1. \A t, o \in Turns : ~Recovers(t, o) /\ ~SendsAgain(t, o)
      BY <1>1 DEF Recovers, SendsAgain
  <2>2. \A k \in DOMAIN parked : FALSE
      BY <1>1
  <2>3. \A o \in Turns : ~Recovering(o)
      BY <1>1, <2>1, <2>2, NoTurnAssumption DEF Recovering
  <2>4. QED
      BY <2>1, <2>2, <2>3 DEF NewRecoveries, Once
<1>11. QED
    BY <1>3, <1>5, <1>6, <1>7, <1>9, <1>10 DEF ResumptionInv

LEMMA NextInv ==
    ResumptionInv /\ [ResumptionNext]_resumptionVars => ResumptionInv'
<1> SUFFICES ASSUME ResumptionInv, [ResumptionNext]_resumptionVars PROVE ResumptionInv'
    OBVIOUS
<1>1. CASE UserNext
    BY <1>1, TypesInv, StopConversationInv, ResumeInv, HardStopInv, ResumeAutomationInv, DiscardInv,
       ForgetInv
    DEF UserNext
<1>2. CASE AppNext
  <2>1. CASE \E c \in Conversations : Drain(c)
      BY <2>1, DrainInv
  <2>2. CASE \E t \in Turns : \/ PrepareFails(t) \/ Claim(t) \/ Dispatch(t) \/ SendFails(t)
                              \/ Stops(t) \/ FinishStopped(t)
      BY <2>2, PrepareFailsInv, ClaimInv, DispatchInv, SendFailsInv, StopsInv, FinishStoppedInv
  <2>3. CASE \E t \in Turns : \E state \in {"completed", "failed"} : Ends(t, state)
      BY <2>3, EndsInv
  <2>4. CASE \E t \in Turns : EndingLands(t)
      BY <2>4, EndingLandsInv
  <2>5. CASE SnapshotLands \/ TakeSlot \/ Recover
      BY <2>5, SnapshotLandsInv, TakeSlotInv, RecoverInv
  <2>6. QED
      BY <1>2, <2>1, <2>2, <2>3, <2>4, <2>5 DEF AppNext
<1>3. CASE Crash \/ RestoreWorkspace \/ ReadJournal
    BY <1>3, CrashInv, RestoreWorkspaceInv, ReadJournalInv
<1>4. CASE UNCHANGED resumptionVars
  <2>1. /\ UNCHANGED <<owner, run, queue, life, sendVars, saved, writes, parked, slot, shown, forgotten>>
        /\ UNCHANGED <<row, endings, paused, allPaused, stopped, listed>>
      BY <1>4 DEF resumptionVars, controlVars, storeVars, resumeVars, pastVars
  <2>2. QED
      BY <2>1, SameInv DEF ResumptionInv, RTyped, Halted
<1>5. QED
    BY <1>1, <1>2, <1>3, <1>4 DEF ResumptionNext

LEMMA ResumptionInvariance == ResumptionSpec => []ResumptionInv
BY InitInv, NextInv, PTL DEF ResumptionSpec

LEMMA SendPlaces ==
    ASSUME RTyped, NEW c, NEW item, NEW old, Send(c, item, old), NEW t \in Turns
    PROVE  at'[t] \in {at[t], "prep"}
BY DEF Send, Goto, RTyped

(* Which steps bring a turn to its conversation and to the sidecar. *)
LEMMA Steps ==
    ASSUME ResumptionInv, ResumptionNext, NEW t \in Turns
    PROVE  \/ at'[t] \in {at[t]} \cup (Places \ {"owned", "sent"})
           \/ Claim(t) /\ at[t] = "prep" /\ at'[t] = "owned"
           \/ Dispatch(t) /\ ~IsStoppingRun(on[t]) /\ at'[t] = "sent"
<1> USE DEF Goto
<1>1. at \in [Turns -> Places] /\ "prep" \in Places
    BY DEF ResumptionInv, RTyped, Places, OnTheWay
<1>2. CASE \E c \in Conversations : Types(c) \/ Drain(c)
    BY <1>1, <1>2, SendPlaces DEF Types, Drain, ResumptionInv
<1>3. CASE \E c \in Conversations : Resume(c)
    BY <1>1, <1>3, SendPlaces DEF Resume, sendVars, ResumptionInv
<1>4. CASE Recover
    BY <1>1, <1>4, SendPlaces DEF Recover, ResumptionInv
<1>5. CASE \/ \E c \in Conversations : StopConversation(c) \/ Forget(c)
           \/ HardStop \/ ResumeAutomation \/ Discard
           \/ \E u \in Turns : EndingLands(u)
           \/ SnapshotLands \/ TakeSlot \/ RestoreWorkspace \/ ReadJournal
    BY <1>5 DEF StopConversation, Forget, HardStop, ResumeAutomation, Discard, EndingLands,
                SnapshotLands, TakeSlot, RestoreWorkspace, ReadJournal, sendVars
<1>6. CASE \E u \in Turns : Claim(u)
  <2>1. PICK u \in Turns : Claim(u)
      BY <1>6
  <2>2. PICK place \in {"dropped", "queued", "over", "owned"} :
            at[u] = "prep" /\ at' = [at EXCEPT ![u] = place]
      BY <2>1 DEF Claim
  <2>3. {"dropped", "queued", "over"} \subseteq Places \ {"owned", "sent"}
      BY DEF Places
  <2>4. CASE u = t
      BY <1>1, <2>1, <2>2, <2>3, <2>4
  <2>5. CASE u # t
      BY <1>1, <2>2, <2>5
  <2>6. QED
      BY <2>4, <2>5
<1>7. CASE \E u \in Turns : Dispatch(u)
    BY <1>1, <1>7 DEF Dispatch, Places, OnTheWay
<1>8. CASE \E u \in Turns : \/ PrepareFails(u) \/ SendFails(u) \/ Stops(u) \/ FinishStopped(u)
                            \/ \E state \in {"completed", "failed"} : Ends(u, state)
    BY <1>1, <1>8 DEF PrepareFails, SendFails, Stops, FinishStopped, Ends, Places, OnTheWay
<1>9. CASE Crash
    BY <1>1, <1>9 DEF Crash, Places, OnTheWay
<1>10. QED
    BY <1>2, <1>3, <1>4, <1>5, <1>6, <1>7, <1>8, <1>9 DEF ResumptionNext, UserNext, AppNext

(* The variables keep their types: a restored run is one of those shown. *)
THEOREM ResumptionTypes == ResumptionSpec => []ResumptionTypeOK
<1>1. ResumptionInv => ResumptionTypeOK
    BY DEF ResumptionInv, RTyped, ResumptionTypeOK, Snapshot, Snapshots, Runs
<1>2. QED
    BY <1>1, ResumptionInvariance, PTL

(* A turn the user stopped is not carried on by the app, whatever the crash
   left of the three stores and however often the app is started again: the
   pause of its conversation outlives the stop, and a recovery that is on its
   way when he stops is overtaken or is being stopped. *)
THEOREM StopsOutliveRestarts == ResumptionSpec => StopOutlivesRestart
<1>1. ASSUME ResumptionInv, ResumptionNext, NEW t \in Turns, BecomesSent(t)
      PROVE  CarriesOn(t) \notin stopped
  <2>1. at[t] = "owned" /\ ~IsStoppingRun(on[t])
      BY <1>1, Steps DEF BecomesSent, Places
  <2>2. QED
      BY <1>1, <2>1 DEF ResumptionInv, Halted
<1>2. ASSUME UNCHANGED resumptionVars, NEW t \in Turns PROVE ~BecomesSent(t)
    BY <1>2 DEF resumptionVars, sendVars, BecomesSent
<1>3. ResumptionInv /\ [ResumptionNext]_resumptionVars =>
          [\A t \in Turns : BecomesSent(t) => CarriesOn(t) \notin stopped]_resumptionVars
    BY <1>1, <1>2
<1>4. QED
    BY <1>3, ResumptionInvariance, PTL DEF ResumptionSpec, StopOutlivesRestart

(* The app starts no second recovery of a turn that a stored snapshot has shown
   to be carried on, although the row of the old turn may still be open: the
   conversation has moved on to a later turn in every snapshot since, until the
   user closes it in the panel. *)
THEOREM CarriedOnAtMostOnce == ResumptionSpec => CarriedOnOnce
<1>1. ASSUME ResumptionInv, ResumptionNext, NEW t \in Turns,
             BecomesRecovery(t)
      PROVE  resumes'[t] \notin shown \ forgotten
  <2>1. Claim(t) /\ at[t] = "prep"
      BY <1>1, Steps DEF BecomesRecovery, IsClaimed, Places
  <2>2. from[t] = NoTurn /\ resumes'[t] = resumes[t] /\ resumes[t] \in Turns \cup {NoTurn}
      BY <1>1, <2>1 DEF Claim, BecomesRecovery, ResumptionInv, RTyped
  <2>3. CASE resumes[t] = NoTurn
      BY <1>1, <2>2, <2>3, NoTurnAssumption DEF ResumptionInv, RTyped
  <2>4. CASE resumes[t] \in Turns
      BY <1>1, <2>1, <2>2, <2>4 DEF Recovers, Recovering, Fresh, NewRecoveries, ResumptionInv
  <2>5. QED
      BY <2>2, <2>3, <2>4
<1>2. ASSUME UNCHANGED resumptionVars, NEW t \in Turns PROVE ~BecomesRecovery(t)
    BY <1>2 DEF resumptionVars, sendVars, BecomesRecovery, IsClaimed
<1>3. ResumptionInv /\ [ResumptionNext]_resumptionVars =>
          [\A t \in Turns : BecomesRecovery(t) => resumes'[t] \notin shown \ forgotten]_resumptionVars
    BY <1>1, <1>2
<1>4. QED
    BY <1>3, ResumptionInvariance, PTL DEF ResumptionSpec, CarriedOnOnce
===============================================================================
