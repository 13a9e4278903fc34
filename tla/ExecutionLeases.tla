--------------------------- MODULE ExecutionLeases ---------------------------
(***************************************************************************)
(* The lease table of the sidecar (sidecar/src/executionLeases.ts): a turn *)
(* acquires its keys before its handler runs and releases them after the   *)
(* handler and every process it started have ended.                        *)
(*                                                                         *)
(* The array `waiting` is kept as the set of its requests together with,   *)
(* for each request, the set of requests that were queued before it: the   *)
(* array only grows at its end and is only filtered, so that is its order. *)
(* One pass of pump tests a request against the keys of the holders, of    *)
(* the requests the pass has just granted and of the ones it has just      *)
(* passed over: together, the holders and everything queued earlier.       *)
(***************************************************************************)
EXTENDS LeaseKeys, TurnIds

VARIABLES active,     \* holders (the keys of the map `active`)
          waiting,    \* requests in the array `waiting`
          ahead,      \* ahead[r]: requests queued before r when r arrived
          keys,       \* keys[r]: the keys r asked for
          promise     \* promise[r]: the promise acquire returned, to its end

leaseVars == <<active, waiting, ahead, keys, promise>>

PromiseStates == {"none", "pending", "resolved", "rejected", "released"}

(* The types, and the table agreeing with what the callers await: the holders
   are exactly the requests whose promise resolved and was not released, the
   array holds exactly the pending ones. *)
LeaseTypeOK ==
    /\ ahead \in [Turns -> SUBSET Turns]
    /\ keys \in [Turns -> KeySets]
    /\ promise \in [Turns -> PromiseStates]
    /\ active = {r \in Turns : promise[r] = "resolved"}
    /\ waiting = {r \in Turns : promise[r] = "pending"}

LeaseInit ==
    /\ active = {}
    /\ waiting = {}
    /\ ahead = [r \in Turns |-> {}]
    /\ keys = [r \in Turns |-> {}]
    /\ promise = [r \in Turns |-> "none"]

(* Some key of r conflicts with some key of s. *)
Clash(ks, r, s) == \E k \in ks[r], l \in ks[s] : Conflicts(k, l)

(* The requests of `wait` that one pass over the array finds free. *)
Grantable(act, wait, ah, ks) ==
    {r \in wait : \A s \in act \cup (ah[r] \cap wait) : ~Clash(ks, r, s)}

Pump(act, wait, ah, ks, pr) ==
    LET granted == Grantable(act, wait, ah, ks)
    IN  /\ active' = act \cup granted
        /\ waiting' = wait \ granted
        /\ promise' = [r \in Turns |-> IF r \in granted THEN "resolved" ELSE pr[r]]

Acquire(r, ks) ==
    /\ promise[r] = "none"
    /\ keys' = [keys EXCEPT ![r] = ks]
    /\ ahead' = [ahead EXCEPT ![r] = waiting]
    /\ Pump(active, waiting \cup {r}, ahead', keys', [promise EXCEPT ![r] = "pending"])

(* cancel(id): only a request that still waits is rejected; a holder is not
   affected. The array is pumped in both cases. *)
Cancel(r) ==
    /\ UNCHANGED <<keys, ahead>>
    /\ Pump(active, waiting \ {r}, ahead, keys,
            IF r \in waiting THEN [promise EXCEPT ![r] = "rejected"] ELSE promise)

(* release(id), called once the promise of r has been settled and the turn,
   if it ran at all, has ended. *)
Release(r) ==
    /\ promise[r] \in {"resolved", "rejected"}
    /\ UNCHANGED <<keys, ahead>>
    /\ Pump(active \ {r}, waiting, ahead, keys, [promise EXCEPT ![r] = "released"])

LeaseNext ==
    \E r \in Turns :
        \/ \E ks \in KeySets : Acquire(r, ks)
        \/ promise[r] # "none" /\ Cancel(r)
        \/ Release(r)

LeaseSpec == LeaseInit /\ [][LeaseNext]_leaseVars

(* The turn that holds a lease ends some day, and its finally block then
   releases the lease; the same block runs when the promise was rejected. *)
LeaseFairness == \A r \in Turns : WF_leaseVars(Release(r))

LeaseFairSpec == LeaseSpec /\ LeaseFairness
-----------------------------------------------------------------------------
Ahead(r) == ahead[r] \cap waiting

(* Two turns that hold leases at the same time share no engine session and
   work in folders none of which contains the other. This is what lets
   conversations run in parallel without corrupting a project folder. *)
LeaseExclusion ==
    \A r, s \in active : r # s => ~Clash(keys, r, s)

(* The same without the key comparison of the code: two turns that hold leases
   have no engine session in common, and no folder lies inside the project
   folders of both, however their paths are spelled. *)
Inside(path, key) == IsWorkspace(key) /\ IsPrefix(key.of, WorkspaceLeaseKey(path).of)

NothingShared ==
    \A r, s \in active : r # s =>
        /\ keys[r] \cap keys[s] = {}
        /\ ~\E f \in Folders, k \in keys[r], l \in keys[s] : Inside(f, k) /\ Inside(f, l)

(* Nobody waits for nothing: every waiting request is blocked by a holder or
   by a request queued before it. A release or a cancel that forgot to pump
   would leave a turn waiting for a lease that is free. *)
NoLostWakeup ==
    \A r \in waiting : \E s \in active \cup Ahead(r) : Clash(keys, r, s)

(* Among the requests that clash the order of arrival is kept: a request is
   never granted while one it clashes with, queued before it, still waits. *)
NoOvertaking ==
    [][\A r \in active' \ active, s \in waiting' :
          s \in ahead'[r] => ~Clash(keys', r, s)]_leaseVars

(* A turn that waits for its leases gets them or is cancelled, if every turn
   that holds leases ends: parallel conversations cannot starve it. *)
EveryWaiterSettles ==
    \A r \in Turns : promise[r] = "pending" ~> promise[r] # "pending"
==============================================================================
