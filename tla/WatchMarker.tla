----------------------------- MODULE WatchMarker -----------------------------
(***************************************************************************)
(* The durable marker of a watched task (src-tauri/src/task_watch_recovery *)
(* .rs): a JSON file whose _delivery block says what became of the turn    *)
(* that reports the task.  A turn of a marker is the number of its claim.  *)
(* Every operation rewrites the file by an atomic rename, under one lock.  *)
(***************************************************************************)
EXTENDS Naturals

CONSTANT MaxAttempts    \* claims of one marker (5)

ASSUME MaxAttemptsAssumption == MaxAttempts \in Nat \ {0}

MarkerStates == {"ready", "claimed", "retry_wait", "blocked", "exhausted", "result_ready", "gone"}
(* attempts is also the turn that claimed it last; mine: by this process. *)
Markers == [state : MarkerStates, attempts : 0..MaxAttempts, mine : BOOLEAN]
Fresh == [state |-> "ready", attempts |-> 0, mine |-> FALSE]
(* A marker of an earlier session that is only shown to the user. *)
Shown == [Fresh EXCEPT !.state = "blocked"]

(* Deliberately wrong: what another process claimed is ready again. *)
ViewReclaiming(m) == IF m.state = "claimed" /\ ~m.mine THEN "ready" ELSE m.state

(* What the marker is now: a claim of a process that is gone is ambiguous. The
   wait of retry_wait may be over at any time. *)
View(m) == IF m.state = "claimed" /\ ~m.mine THEN "blocked" ELSE m.state

MayClaim(m) == View(m) \in {"ready", "retry_wait"} /\ m.attempts < MaxAttempts

ClaimedMarker(m) == [state |-> "claimed", attempts |-> m.attempts + 1, mine |-> TRUE]

AfterFailure(m, kind) ==
    IF kind # "transient" THEN "blocked"
    ELSE IF m.attempts >= MaxAttempts THEN "exhausted"
    ELSE "retry_wait"

(* Turn n failed with an error of that kind. Only a claim is decided: a result
   stays, and a second failure changes nothing. *)
Released(m, n, kind) ==
    IF m.attempts = n /\ m.state = "claimed" THEN [m EXCEPT !.state = AfterFailure(m, kind)] ELSE m

MayRecord(m, n) == m.attempts = n /\ m.state \in {"claimed", "result_ready"}
WithResult(m) == [m EXCEPT !.state = "result_ready"]

MayAck(m, n) == m.state = "gone" \/ (m.attempts = n /\ m.state = "result_ready")
Acked(m) == [m EXCEPT !.state = "gone"]
==============================================================================
