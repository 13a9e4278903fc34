----------------------------- MODULE Supervisor -----------------------------
(***************************************************************************)
(* Who starts and stops the sidecar process (src-tauri/src/lib.rs).  Three *)
(* callers spawn it: the start of the app, the supervisor (on a request of *)
(* a reader that met the end of a sidecar's output, after a delay) and a   *)
(* reload.  A watchdog kills a silent one.  They share statics, each read  *)
(* or written alone: a flag for an intended shutdown, a recovery guard, a  *)
(* generation, a count of attempts and the handles of child and channel.   *)
(***************************************************************************)
EXTENDS Integers, Sequences, FiniteSets

CONSTANTS MaxAttempts,  \* MAX_RESTART_ATTEMPTS
          MaxSpawns,    \* bound: sidecar processes
          MaxReloads,   \* bound: reloads
          MaxDeaths,    \* bound: sidecars that die, hang or lose their output
          MaxFaults     \* bound: spawns and kills that fail

ASSUME SpawnsAssumption == MaxSpawns \in Nat \ {0}
ASSUME AttemptsAssumption == MaxAttempts \in Nat

VARIABLES process,     \* process[s]: the sidecar s
          reader,      \* reader[s]: the task that reads its output
          born,        \* sidecars 1..born were started
          child,       \* SIDECAR_CHILD: the handle kept, 0 is none
          channel,     \* SIDECAR_TX: the channel to its stdin
          caller,      \* caller[c]: how far its call of spawn_sidecar is
          starting,    \* starting[c]: the process it has started
          intentional, \* INTENTIONAL_SHUTDOWN
          recovery,    \* EXECUTION_RECOVERY, and who holds it
          generation,  \* SIDECAR_GENERATION
          attempts,    \* RESTART_ATTEMPTS
          requests,    \* RESPAWN_TX: the generations of the requests in it
          task,        \* the supervisor task and the generation it works for
          reload,      \* where reload_sidecar is, or how the last call of it ended
          watchdog,    \* where the watchdog is
          stale,       \* the time of the last event lies beyond the threshold
          lost,        \* what the app was told of the latest loss of a sidecar
          budget       \* reloads, deaths and faults left

supervisorVars == <<process, reader, born, child, channel, caller, starting, intentional,
                    recovery, generation, attempts, requests, task, reload, watchdog,
                    stale, lost, budget>>

Sidecars == 1..MaxSpawns
Callers == {"app", "supervisor", "reload"}
Living == {"starting", "healthy", "hung"}
Alive(s) == s \in Sidecars /\ process[s] \in Living

(* No reload is under way; the last one may have returned an error. *)
AtRest == {"idle", "failed"}

processes == <<process, reader, born>>
handles == <<child, channel>>
calls == <<caller, starting>>
flags == <<intentional, generation, attempts>>

(* The supervisor task waits for a request. *)
Receiving == [st |-> "receiving", gen |-> 0]

SupervisorInit ==
    /\ process = [s \in Sidecars |-> "unborn"]
    /\ reader = [s \in Sidecars |-> "none"]
    /\ born = 0 /\ child = 0 /\ channel = 0
    /\ caller = [c \in Callers |-> IF c = "app" THEN "begun" ELSE "out"]
    /\ starting = [c \in Callers |-> 0]
    /\ intentional = FALSE /\ recovery = "free"
    /\ generation = 0 /\ attempts = 0
    /\ requests = <<>>
    /\ task = Receiving
    /\ reload = "idle" /\ watchdog = "watching"
    /\ stale = FALSE /\ lost = "no"
    /\ budget = [reloads |-> MaxReloads, deaths |-> MaxDeaths, faults |-> MaxFaults]

Spend(kind) == budget[kind] > 0 /\ budget' = [budget EXCEPT ![kind] = @ - 1]

(* Attempts beyond the maximum are alike. *)
OneMore(n) == IF n > MaxAttempts THEN n ELSE n + 1

(* kill_on_drop: replacing the handle of a child kills its process. *)
Killed(s) == IF Alive(s) THEN [process EXCEPT ![s] = "dead"] ELSE process

(* A sidecar whose output is still read is lost: of this, nothing was told yet. *)
Told(s) == IF Alive(s) /\ reader[s] = "reading" THEN "no" ELSE lost
-----------------------------------------------------------------------------
(* Deliberately wrong: the intended shutdown is never declared over. *)
BeginsSpawnQuietly(c) ==
    /\ caller' = [caller EXCEPT ![c] = "begun"]
    /\ stale' = FALSE
    /\ UNCHANGED <<starting, born, intentional>>

(* spawn_sidecar.  It declares the intended shutdown over before it starts the
   process; the handles are stored one after the other. *)
BeginsSpawn(c) ==
    /\ caller' = [caller EXCEPT ![c] = "begun"]
    /\ intentional' = FALSE
    /\ stale' = FALSE
    /\ UNCHANGED <<starting, born>>

(* The guard of a recovery ends with its caller, however the call returns. *)
Returns(c) ==
    /\ caller' = [caller EXCEPT ![c] = "out"]
    /\ starting' = [starting EXCEPT ![c] = 0]
    /\ task' = IF c = "supervisor" THEN Receiving ELSE task
    /\ reload' = IF c = "reload" THEN "idle" ELSE reload
    /\ recovery' = IF c = "app" THEN recovery ELSE "free"

SpawnStarts(c) ==
    /\ caller[c] = "begun" /\ born < MaxSpawns
    /\ born' = born + 1
    /\ process' = [process EXCEPT ![born + 1] = "starting"]
    /\ reader' = [reader EXCEPT ![born + 1] = "reading"]
    /\ caller' = [caller EXCEPT ![c] = "started"]
    /\ starting' = [starting EXCEPT ![c] = born + 1]
    /\ lost' = "no"
    /\ UNCHANGED <<handles, flags, recovery, requests, task, reload, watchdog, stale, budget>>

SpawnFails(c) ==
    /\ caller[c] = "begun"
    /\ IF born = MaxSpawns THEN UNCHANGED budget ELSE Spend("faults")
    /\ lost' = "spawn_failed"
    /\ Returns(c)
    /\ UNCHANGED <<processes, handles, flags, requests, watchdog, stale>>

(* Deliberately wrong: the old child goes on without a handle. *)
KeepsOldChild(c) ==
    /\ caller[c] = "started"
    /\ child' = starting[c]
    /\ caller' = [caller EXCEPT ![c] = "kept"]
    /\ UNCHANGED <<processes, channel, starting, flags, recovery, requests, task, reload,
                   watchdog, stale, lost, budget>>

SpawnKeepsChild(c) ==
    /\ caller[c] = "started"
    /\ child' = starting[c]
    /\ process' = Killed(child)
    /\ caller' = [caller EXCEPT ![c] = "kept"]
    /\ UNCHANGED <<reader, born, channel, starting, flags, recovery, requests, task, reload,
                   watchdog, stale, lost, budget>>

SpawnKeepsChannel(c) ==
    /\ caller[c] = "kept"
    /\ channel' = starting[c]
    /\ Returns(c)
    /\ UNCHANGED <<processes, child, flags, requests, watchdog, stale, lost, budget>>
-----------------------------------------------------------------------------
(* A sidecar and the reader of its output. *)
FirstLine(s) ==
    /\ process[s] = "starting" /\ reader[s] = "reading"
    /\ process' = [process EXCEPT ![s] = "healthy"]
    /\ attempts' = 0
    /\ stale' = FALSE
    /\ UNCHANGED <<reader, born, handles, calls, intentional, generation, recovery, requests,
                   task, reload, watchdog, lost, budget>>

(* A death comes alone, or as a hang, or the output breaks (a line that is not
   UTF-8) while the sidecar lives. *)
Dies(s) ==
    /\ Alive(s) /\ Spend("deaths")
    /\ process' = [process EXCEPT ![s] = "dead"]
    /\ lost' = Told(s)
    /\ UNCHANGED <<reader, born, handles, calls, flags, recovery, requests, task, reload,
                   watchdog, stale>>

Hangs(s) ==
    /\ process[s] \in {"starting", "healthy"} /\ Spend("deaths")
    /\ process' = [process EXCEPT ![s] = "hung"]
    /\ lost' = Told(s)
    /\ UNCHANGED <<reader, born, handles, calls, flags, recovery, requests, task, reload,
                   watchdog, stale>>

OutputEnds(s) ==
    /\ reader[s] = "reading"
    /\ IF Alive(s) THEN Spend("deaths") ELSE UNCHANGED budget
    /\ reader' = [reader EXCEPT ![s] = "closing"]
    /\ lost' = Told(s)
    /\ UNCHANGED <<process, born, handles, calls, flags, recovery, requests, task, reload,
                   watchdog, stale>>

(* Its browser windows are closed; only then is the flag looked at. *)
ReaderLooks(s) ==
    /\ reader[s] = "closing"
    /\ reader' = [reader EXCEPT ![s] = IF intentional THEN "over" ELSE "reporting"]
    /\ UNCHANGED <<process, born, handles, calls, flags, recovery, requests, task, reload,
                   watchdog, stale, lost, budget>>

ReaderReports(s) ==
    /\ reader[s] = "reporting"
    /\ reader' = [reader EXCEPT ![s] = "over"]
    /\ attempts' = OneMore(attempts)
    /\ IF attempts + 1 > MaxAttempts
       THEN lost' = "permanently" /\ UNCHANGED requests
       ELSE requests' = Append(requests, generation) /\ UNCHANGED lost
    /\ UNCHANGED <<process, born, handles, calls, intentional, generation, recovery, task,
                   reload, watchdog, stale, budget>>
-----------------------------------------------------------------------------
(* The supervisor task. *)
TaskReceives ==
    /\ task.st = "receiving" /\ requests # <<>>
    /\ requests' = Tail(requests)
    /\ task' = IF intentional THEN task ELSE [st |-> "sleeping", gen |-> Head(requests)]
    /\ UNCHANGED <<processes, handles, calls, flags, recovery, reload, watchdog, stale, lost,
                   budget>>

(* The delay, at least a second, outlasts the stores of the two handles; and the
   window opens after the start of the app has called. *)
HandlesAreKept == \A c \in Callers : caller[c] \notin {"started", "kept"}
AppHasStarted == caller["app"] = "out"

(* Deliberately wrong: the guard is not looked at. *)
TaskIgnoresGuard ==
    /\ task.st = "sleeping" /\ HandlesAreKept
    /\ IF intentional
       THEN /\ task' = Receiving
            /\ UNCHANGED <<calls, intentional, recovery, stale, born>>
       ELSE /\ recovery' = "supervisor"
            /\ task' = [st |-> "spawning", gen |-> task.gen]
            /\ BeginsSpawn("supervisor")
    /\ UNCHANGED <<process, reader, handles, generation, attempts, requests, reload, watchdog,
                   lost, budget>>

TaskWakes ==
    /\ task.st = "sleeping" /\ HandlesAreKept
    /\ IF recovery # "free" \/ intentional \/ task.gen # generation
       THEN /\ task' = Receiving
            /\ UNCHANGED <<calls, intentional, recovery, stale, born>>
       ELSE /\ recovery' = "supervisor"
            /\ task' = [st |-> "spawning", gen |-> task.gen]
            /\ BeginsSpawn("supervisor")
    /\ UNCHANGED <<process, reader, handles, generation, attempts, requests, reload, watchdog,
                   lost, budget>>
-----------------------------------------------------------------------------
(* reload_sidecar, also as recover_execution. *)
ReloadBegins ==
    /\ reload \in AtRest /\ AppHasStarted
    /\ recovery = "free" /\ Spend("reloads")
    /\ recovery' = "reload" /\ reload' = "killing"
    /\ generation' = generation + 1
    /\ intentional' = TRUE
    /\ attempts' = 0
    /\ UNCHANGED <<processes, handles, calls, requests, task, watchdog, stale, lost>>

(* stop_process_tree succeeds only if taskkill found the process. *)
ReloadKills ==
    /\ reload = "killing"
    /\ child = 0 \/ Alive(child)
    /\ process' = Killed(child)
    /\ child' = 0
    /\ lost' = Told(child)
    /\ reload' = "clearing"
    /\ UNCHANGED <<reader, born, channel, calls, flags, recovery, requests, task, watchdog,
                   stale, budget>>

(* The command returns an error, which the app shows.  The guard of the recovery
   is free again; the flag of an intended shutdown stays set. *)
ReloadGivesUp ==
    /\ reload' = "failed" /\ recovery' = "free"
    /\ lost' = "reload_failed"

(* taskkill fails on a process that is gone, and may fail, or its process may end
   unconfirmed; or the lock of the handle does not come within three seconds. *)
ReloadFails ==
    /\ reload = "killing"
    /\ \/ child # 0 /\ ~Alive(child) /\ UNCHANGED <<process, budget>>
       \/ Spend("faults") /\ process' \in {process, Killed(child)}
    /\ ReloadGivesUp
    /\ UNCHANGED <<reader, born, handles, calls, flags, requests, task, watchdog, stale>>

(* The lock of the channel does not come: the child is gone, its channel is kept. *)
ReloadClearFails ==
    /\ reload = "clearing" /\ Spend("faults")
    /\ ReloadGivesUp
    /\ UNCHANGED <<processes, handles, calls, flags, requests, task, watchdog, stale>>

(* Deliberately wrong: the channel of the old sidecar stays. *)
ReloadKeepsChannel ==
    /\ reload = "clearing"
    /\ reload' = "spawning"
    /\ BeginsSpawn("reload")
    /\ UNCHANGED <<process, reader, handles, generation, attempts, recovery, requests, task,
                   watchdog, lost, budget>>

ReloadClears ==
    /\ reload = "clearing"
    /\ channel' = 0
    /\ reload' = "spawning"
    /\ BeginsSpawn("reload")
    /\ UNCHANGED <<process, reader, child, generation, attempts, recovery, requests, task,
                   watchdog, lost, budget>>
-----------------------------------------------------------------------------
(* The watchdog.  A healthy sidecar sends heartbeats; a minute of silence outlasts
   the delays of the requests. *)
SilenceLasts ==
    /\ ~stale /\ AppHasStarted /\ requests = <<>>
    /\ ~\E s \in Sidecars : process[s] = "healthy" /\ reader[s] = "reading"
    /\ stale' = TRUE
    /\ UNCHANGED <<processes, handles, calls, flags, recovery, requests, task, reload,
                   watchdog, lost, budget>>

WatchdogLooks ==
    /\ watchdog = "watching" /\ stale /\ ~intentional
    /\ watchdog' = "killing"
    /\ stale' = FALSE
    /\ UNCHANGED <<processes, handles, calls, flags, recovery, requests, task, reload, lost,
                   budget>>

(* It waits for the handle, and kills the child that is there by then. *)
WatchdogKills ==
    /\ watchdog = "killing"
    /\ watchdog' = "watching"
    /\ IF child # 0
       THEN process' = Killed(child) /\ lost' = Told(child) /\ UNCHANGED <<attempts, requests>>
       ELSE /\ attempts' = OneMore(attempts)
            /\ requests' = Append(requests, generation)
            /\ UNCHANGED <<process, lost>>
    /\ UNCHANGED <<reader, born, handles, calls, intentional, generation, recovery, task,
                   reload, stale, budget>>
-----------------------------------------------------------------------------
Spawns(c) ==
    SpawnStarts(c) \/ SpawnFails(c) \/ SpawnKeepsChild(c) \/ SpawnKeepsChannel(c)
Reads(s) == FirstLine(s) \/ OutputEnds(s) \/ ReaderLooks(s) \/ ReaderReports(s)
ReloadWorks == ReloadKills \/ ReloadFails \/ ReloadClears \/ ReloadClearFails

SupervisorNext ==
    \/ \E c \in Callers : Spawns(c)
    \/ \E s \in Sidecars : Reads(s) \/ Dies(s) \/ Hangs(s)
    \/ TaskReceives \/ TaskWakes
    \/ ReloadBegins \/ ReloadWorks
    \/ SilenceLasts \/ WatchdogLooks \/ WatchdogKills

SupervisorSpec == SupervisorInit /\ [][SupervisorNext]_supervisorVars

(* Calls go on, output is read to its end, time passes; the user owes nothing. *)
SupervisorFairness ==
    /\ \A c \in Callers : WF_supervisorVars(Spawns(c))
    /\ \A s \in Sidecars : WF_supervisorVars(Reads(s) /\ (Alive(s) => process[s] = "starting"))
    /\ WF_supervisorVars(TaskReceives) /\ WF_supervisorVars(TaskWakes)
    /\ WF_supervisorVars(ReloadWorks)
    /\ WF_supervisorVars(SilenceLasts)
    /\ WF_supervisorVars(WatchdogLooks) /\ WF_supervisorVars(WatchdogKills)

SupervisorFairSpec == SupervisorSpec /\ SupervisorFairness
-----------------------------------------------------------------------------
Spawning(c) == caller[c] # "out"

SupervisorTypeOK ==
    /\ process \in [Sidecars -> Living \cup {"unborn", "dead"}]
    /\ reader \in [Sidecars -> {"none", "reading", "closing", "reporting", "over"}]
    /\ born \in 0..MaxSpawns
    /\ child \in 0..MaxSpawns /\ channel \in 0..MaxSpawns
    /\ caller \in [Callers -> {"out", "begun", "started", "kept"}]
    /\ starting \in [Callers -> 0..MaxSpawns]
    /\ intentional \in BOOLEAN
    /\ recovery \in {"free", "supervisor", "reload"}
    /\ generation \in Nat /\ attempts \in Nat
    /\ requests \in Seq(Nat)
    /\ task \in [st : {"receiving", "sleeping", "spawning"}, gen : Nat]
    /\ reload \in {"idle", "failed", "killing", "clearing", "spawning"}
    /\ watchdog \in {"watching", "killing"}
    /\ stale \in BOOLEAN
    /\ lost \in {"no", "permanently", "spawn_failed", "reload_failed"}

(* No two calls of spawn_sidecar are under way, although three tasks make them
   (the recovery guard of lib.rs:5418 and 631). *)
SpawnsExclude == \A c, d \in Callers : Spawning(c) /\ Spawning(d) => c = d

(* Every sidecar process that lives is the one whose handle is kept, or is just
   being handed over: none runs on without anybody who could stop it. *)
NoOrphanSidecar ==
    \A s \in Sidecars : Alive(s) =>
        s = child \/ \E c \in Callers : caller[c] = "started" /\ starting[c] = s

(* While nobody spawns or reloads, what the app writes goes to the sidecar whose
   handle is kept, not into the channel of an earlier one.  Only a reload that
   failed between the two handles (lib.rs:656) parts them: no child is kept then,
   and the channel leads to a process that is gone, never to a living one. *)
ChannelNamesChild ==
    (\A c \in Callers : ~Spawning(c)) /\ reload \in AtRest
        => \/ channel = child
           \/ reload = "failed" /\ child = 0 /\ ~Alive(channel)

(* The supervisor starts a sidecar only in place of one that is gone ("the end
   of the output of an intended stop must not restart", lib.rs:637). *)
NoRespawnOverLive ==
    [][\A s \in Sidecars : SpawnStarts("supervisor") => ~Alive(s)]_supervisorVars

Serving == \E s \in Sidecars : process[s] = "healthy" /\ reader[s] = "reading"

(* Without a healthy sidecar one comes, or the app is told that none will; and an
   earlier message, about an earlier loss, does not count.  Not promised after a
   reload that failed, until the next one: it leaves the flag of an intended
   shutdown set (lib.rs:638), so that neither the reader (4970), nor the
   supervisor, nor the watchdog (5454) acts on a sidecar that dies or hangs. *)
ServiceReturns == ~Serving ~> (lost # "no" \/ Serving \/ reload = "failed")

(* The same after a reload that failed.  The code breaks it, although the watchdog
   is to have a hang recovered through the path of a death while the app still
   expects the sidecar to be alive (lib.rs:5446). *)
ServiceAlwaysReturns == ~Serving ~> (lost # "no" \/ Serving)
=============================================================================
