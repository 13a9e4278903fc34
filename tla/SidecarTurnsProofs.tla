-------------------------- MODULE SidecarTurnsProofs --------------------------
(***************************************************************************)
(* Proofs about the lease table and about root turns in the sidecar, for   *)
(* every set of turns, conversations, sessions and folders, and any number *)
(* of stops and retries.                                                   *)
(*                                                                         *)
(* The lease table: LeaseExclusion is not inductive alone: a request that  *)
(* a pass of pump grants must not clash with another one granted by the    *)
(* same pass, which holds because one of the two was queued before the     *)
(* other (ArrivalOrder), and no request is holder and waiter at once,      *)
(* which the agreement of the table with the promises gives (LeaseTypeOK). *)
(*                                                                         *)
(* The turns: two processes never clash because of what guards them:       *)
(* the lease table is exclusive (LeaseInv), a turn holds its lease and     *)
(* owns its conversation from the grant to the cleanup (Guarded, Owned),   *)
(* and a process lives only in between.  The last part shows that the      *)
(* sidecar implements the contract of turns: with the mapping of           *)
(* SidecarTurns every step is a step of TurnContract or leaves it alone,   *)
(* which needs that nothing was told about the end of a turn before its    *)
(* cleanup (Untold); the same fact, with where the kills of a turn may be  *)
(* (Settled), makes its terminal line the last of it (TerminalMeansOver).   *)
(***************************************************************************)
EXTENDS SidecarTurns, FiniteSetTheorems, TLAPS

(* Of two waiting requests, one was queued before the other. *)
ArrivalOrder ==
    \A r, s \in waiting : r # s => r \in ahead[s] \/ s \in ahead[r]

LeaseInv ==
    /\ LeaseTypeOK
    /\ ArrivalOrder
    /\ LeaseExclusion
    /\ NoLostWakeup
-----------------------------------------------------------------------------
(* Conflicts, and with it Clash, does not depend on the order of its two
   arguments: the code tests both prefix directions. *)
LEMMA ClashSymmetric ==
    ASSUME NEW ks, NEW r, NEW s
    PROVE  Clash(ks, r, s) <=> Clash(ks, s, r)
BY DEF Clash, Conflicts

(* What one pass of pump grants clashes neither with the holders nor with
   itself, when the waiting requests are ordered. *)
LEMMA GrantedExclusive ==
    ASSUME NEW act, NEW wait, NEW ah, NEW ks,
           \A r, s \in act : r # s => ~Clash(ks, r, s),
           \A r, s \in wait : r # s => r \in ah[s] \/ s \in ah[r]
    PROVE  \A r, s \in act \cup Grantable(act, wait, ah, ks) :
               r # s => ~Clash(ks, r, s)
<1> DEFINE G == Grantable(act, wait, ah, ks)
<1> SUFFICES ASSUME NEW r \in act \cup G, NEW s \in act \cup G, r # s
             PROVE  ~Clash(ks, r, s)
    OBVIOUS
<1>1. CASE r \in act /\ s \in act
    BY <1>1
<1>2. CASE r \in G /\ s \in act
    BY <1>2 DEF Grantable
<1>3. CASE r \in act /\ s \in G
    BY <1>3, ClashSymmetric DEF Grantable
<1>4. CASE r \in G /\ s \in G
    <2>1. r \in wait /\ s \in wait
        BY <1>4 DEF Grantable
    <2>2. CASE s \in ah[r]
        BY <1>4, <2>1, <2>2 DEF Grantable
    <2>3. CASE r \in ah[s]
        BY <1>4, <2>1, <2>3, ClashSymmetric DEF Grantable
    <2>4. QED
        BY <2>1, <2>2, <2>3
<1>5. QED
    BY <1>1, <1>2, <1>3, <1>4

(* What one pass of pump passes over is blocked by a holder, old or new, or
   by an earlier request that was passed over too. *)
LEMMA PassedOverBlocked ==
    ASSUME NEW act, NEW wait, NEW ah, NEW ks,
           NEW r \in wait \ Grantable(act, wait, ah, ks)
    PROVE  LET G == Grantable(act, wait, ah, ks)
           IN  \E s \in (act \cup G) \cup (ah[r] \cap (wait \ G)) : Clash(ks, r, s)
BY DEF Grantable
-----------------------------------------------------------------------------
LEMMA InitEstablishes == LeaseInit => LeaseInv
<1> SUFFICES ASSUME LeaseInit PROVE LeaseInv
    OBVIOUS
<1>1. {} \in KeySets
    <2>1. KeySet({}, {}) = {}
        BY DEF KeySet
    <2>2. {} \in AtMostOne(Sessions) /\ {} \in AtMostOne(Folders)
        BY DEF AtMostOne
    <2>3. QED
        BY <2>1, <2>2 DEF KeySets
<1>2. LeaseTypeOK
    BY <1>1 DEF LeaseInit, LeaseTypeOK, PromiseStates
<1>3. QED
    BY <1>2 DEF LeaseInit, LeaseInv, ArrivalOrder, LeaseExclusion, NoLostWakeup

(* What the three operations establish before they pump: holders that do not
   clash, waiting requests in an order, promises that tell the two apart. *)
PumpReady(act, wait, ah, ks, pr) ==
    /\ ah \in [Turns -> SUBSET Turns]
    /\ ks \in [Turns -> KeySets]
    /\ pr \in [Turns -> PromiseStates]
    /\ \A r, s \in act : r # s => ~Clash(ks, r, s)
    /\ \A r, s \in wait : r # s => r \in ah[s] \/ s \in ah[r]
    /\ act = {r \in Turns : pr[r] = "resolved"}
    /\ wait = {r \in Turns : pr[r] = "pending"}

(* A pass of pump over such a table establishes the invariant. *)
LEMMA PumpPreserves ==
    ASSUME NEW act, NEW wait, NEW ah, NEW ks, NEW pr,
           PumpReady(act, wait, ah, ks, pr),
           Pump(act, wait, ah, ks, pr), ahead' = ah, keys' = ks
    PROVE  LeaseInv'
<1> USE DEF PumpReady
<1> DEFINE G == Grantable(act, wait, ah, ks)
<1>1. /\ active' = act \cup G
      /\ waiting' = wait \ G
      /\ promise' = [r \in Turns |-> IF r \in G THEN "resolved" ELSE pr[r]]
    BY DEF Pump
<1>2. G \subseteq wait
    BY DEF Grantable
<1>3. LeaseTypeOK'
    BY <1>1, <1>2 DEF LeaseTypeOK, PromiseStates
<1>5. ArrivalOrder'
    BY <1>1 DEF ArrivalOrder
<1>6. LeaseExclusion'
    <2>1. \A r, s \in act \cup G : r # s => ~Clash(ks, r, s)
        BY GrantedExclusive
    <2>2. QED
        BY <1>1, <2>1 DEF LeaseExclusion, Clash
<1>7. NoLostWakeup'
    <2> SUFFICES ASSUME NEW r \in wait \ G
                 PROVE  \E s \in active' \cup (ah[r] \cap waiting') : Clash(ks, r, s)
        BY <1>1 DEF NoLostWakeup, Ahead, Clash
    <2>1. \E s \in (act \cup G) \cup (ah[r] \cap (wait \ G)) : Clash(ks, r, s)
        BY ONLY r \in wait \ G, PassedOverBlocked
    <2>2. QED
        BY <1>1, <2>1
<1>8. QED
    BY <1>3, <1>5, <1>6, <1>7 DEF LeaseInv

LEMMA NextPreserves == LeaseInv /\ [LeaseNext]_leaseVars => LeaseInv'
<1> SUFFICES ASSUME LeaseInv, [LeaseNext]_leaseVars PROVE LeaseInv'
    OBVIOUS
<1>0. LeaseTypeOK /\ ArrivalOrder /\ LeaseExclusion /\ NoLostWakeup
    BY DEF LeaseInv
<1> USE DEF LeaseTypeOK
<1>1. ASSUME NEW r \in Turns, NEW ks \in KeySets, Acquire(r, ks)
      PROVE  LeaseInv'
    <2> DEFINE kr == [keys EXCEPT ![r] = ks]
               ar == [ahead EXCEPT ![r] = waiting]
               pr == [promise EXCEPT ![r] = "pending"]
    <2>1. keys' = kr /\ ahead' = ar /\ Pump(active, waiting \cup {r}, ar, kr, pr)
        BY <1>1 DEF Acquire, Pump
    <2>2. r \notin active /\ r \notin waiting
        BY <1>0, <1>1 DEF Acquire
    <2>3. \A q, s \in active : q # s => ~Clash(kr, q, s)
        BY <1>0, <2>2 DEF LeaseExclusion, Clash
    <2>4. \A q, s \in waiting \cup {r} : q # s => q \in ar[s] \/ s \in ar[q]
        BY <1>0, <2>2 DEF ArrivalOrder
    <2>5. /\ pr \in [Turns -> PromiseStates]
          /\ active = {q \in Turns : pr[q] = "resolved"}
          /\ waiting \cup {r} = {q \in Turns : pr[q] = "pending"}
        BY <1>0, <2>2 DEF PromiseStates
    <2>6. PumpReady(active, waiting \cup {r}, ar, kr, pr)
        BY <1>0, <2>3, <2>4, <2>5 DEF PumpReady
    <2> HIDE DEF kr, ar, pr
    <2>7. QED
        BY ONLY <2>1, <2>6, PumpPreserves
<1>2. ASSUME NEW r \in Turns, promise[r] # "none", Cancel(r)
      PROVE  LeaseInv'
    <2> DEFINE pr == IF r \in waiting THEN [promise EXCEPT ![r] = "rejected"] ELSE promise
    <2>1. keys' = keys /\ ahead' = ahead /\ Pump(active, waiting \ {r}, ahead, keys, pr)
        BY <1>2 DEF Cancel
    <2>2. /\ pr \in [Turns -> PromiseStates]
          /\ active = {q \in Turns : pr[q] = "resolved"}
          /\ waiting \ {r} = {q \in Turns : pr[q] = "pending"}
        BY <1>0 DEF PromiseStates
    <2>3. PumpReady(active, waiting \ {r}, ahead, keys, pr)
        BY <1>0, <2>2 DEF PumpReady, ArrivalOrder, LeaseExclusion
    <2> HIDE DEF pr
    <2>4. QED
        BY ONLY <2>1, <2>3, PumpPreserves
<1>3. ASSUME NEW r \in Turns, Release(r)
      PROVE  LeaseInv'
    <2> DEFINE pr == [promise EXCEPT ![r] = "released"]
    <2>1. keys' = keys /\ ahead' = ahead /\ Pump(active \ {r}, waiting, ahead, keys, pr)
        BY <1>3 DEF Release
    <2>3. /\ pr \in [Turns -> PromiseStates]
          /\ active \ {r} = {q \in Turns : pr[q] = "resolved"}
          /\ waiting = {q \in Turns : pr[q] = "pending"}
        BY <1>0, <1>3 DEF PromiseStates, Release
    <2>4. PumpReady(active \ {r}, waiting, ahead, keys, pr)
        BY <1>0, <2>3 DEF PumpReady, ArrivalOrder, LeaseExclusion
    <2> HIDE DEF pr
    <2>5. QED
        BY ONLY <2>1, <2>4, PumpPreserves
<1>4. CASE UNCHANGED leaseVars
    BY <1>4 DEF LeaseInv, LeaseTypeOK, leaseVars, ArrivalOrder, LeaseExclusion, NoLostWakeup,
                Ahead, Clash
<1>5. QED
    BY <1>1, <1>2, <1>3, <1>4 DEF LeaseNext

(* The invariant holds in every reachable state of the lease table. *)
THEOREM LeaseInvariance == LeaseSpec => []LeaseInv
<1>1. LeaseInit => LeaseInv
    BY InitEstablishes
<1>2. LeaseInv /\ [LeaseNext]_leaseVars => LeaseInv'
    BY NextPreserves
<1>3. QED
    BY <1>1, <1>2, PTL DEF LeaseSpec

(* Every variable of the lease table stays in its type, whatever the sets of
   requests, sessions and folders are. *)
THEOREM LeaseTypeCorrect == LeaseSpec => []LeaseTypeOK
BY LeaseInvariance, PTL DEF LeaseInv

(* Two turns never hold clashing leases at the same time: no two processes
   share an engine session or a project folder. *)
THEOREM LeasesAreExclusive == LeaseSpec => []LeaseExclusion
BY LeaseInvariance, PTL DEF LeaseInv

(* A key of a turn is a session, or the spelled path of one of the folders. *)
LEMMA KeyShapes ==
    ASSUME NEW ks \in KeySets, NEW k \in ks, IsWorkspace(k)
    PROVE  \E f \in Folders : k = WorkspaceLeaseKey(f)
<1>1. PICK ss \in AtMostOne(Sessions), fs \in AtMostOne(Folders) : ks = KeySet(ss, fs)
    BY DEF KeySets
<1>2. fs \subseteq Folders
    BY DEF AtMostOne
<1>3. k \notin {SessionKey(s) : s \in ss}
    BY DEF IsWorkspace, SessionKey
<1>4. QED
    BY <1>1, <1>2, <1>3 DEF KeySet

LEMMA SpelledIsSequence ==
    ASSUME NEW f \in Folders
    PROVE  WorkspaceLeaseKey(f).of \in Seq({Lower[n] : n \in DOMAIN Lower})
BY FoldersAssumption DEF WorkspaceLeaseKey

(* Of two prefixes of one path the shorter is a prefix of the longer. *)
LEMMA PrefixesCompare ==
    ASSUME NEW S, NEW a \in Seq(S), NEW b \in Seq(S), NEW p \in Seq(S),
           IsPrefix(a, p), IsPrefix(b, p), Len(a) <= Len(b)
    PROVE  IsPrefix(a, b)
<1>1. \A i \in 1..Len(a) : a[i] = p[i]
    BY DEF IsPrefix
<1>2. \A i \in 1..Len(b) : b[i] = p[i]
    BY DEF IsPrefix
<1>3. \A i \in 1..Len(a) : a[i] = b[i]
    BY <1>1, <1>2
<1>4. SubSeq(a, 1, Len(a)) = SubSeq(b, 1, Len(a))
    BY <1>3
<1>5. QED
    BY <1>4 DEF IsPrefix

(* Two turns that hold leases share no engine session, and no folder inside
   both their projects: the comparison of the keys catches every overlap. *)
THEOREM LeasesShareNothing == LeaseSpec => []NothingShared
<1>1. LeaseTypeOK /\ LeaseExclusion => NothingShared
    <2> SUFFICES ASSUME LeaseTypeOK, LeaseExclusion, NEW r \in active, NEW s \in active, r # s
                 PROVE  /\ keys[r] \cap keys[s] = {}
                        /\ ~\E f \in Folders, k \in keys[r], l \in keys[s] :
                                Inside(f, k) /\ Inside(f, l)
        BY DEF NothingShared
    <2>1. \A k \in keys[r], l \in keys[s] : ~Conflicts(k, l)
        BY DEF LeaseExclusion, Clash
    <2>2. keys[r] \in KeySets /\ keys[s] \in KeySets
        BY DEF LeaseTypeOK
    <2>3. ASSUME NEW f \in Folders, NEW k \in keys[r], NEW l \in keys[s],
                 Inside(f, k), Inside(f, l)
          PROVE  FALSE
        <3>1. PICK g \in Folders : k = WorkspaceLeaseKey(g)
            BY <2>2, <2>3, KeyShapes DEF Inside
        <3>2. PICK h \in Folders : l = WorkspaceLeaseKey(h)
            BY <2>2, <2>3, KeyShapes DEF Inside
        <3> DEFINE S == {Lower[n] : n \in DOMAIN Lower}
        <3>3. k.of \in Seq(S) /\ l.of \in Seq(S) /\ WorkspaceLeaseKey(f).of \in Seq(S)
            BY <3>1, <3>2, SpelledIsSequence
        <3>4. IsPrefix(k.of, WorkspaceLeaseKey(f).of) /\ IsPrefix(l.of, WorkspaceLeaseKey(f).of)
            BY <2>3 DEF Inside
        <3> HIDE DEF S
        <3>5. IsPrefix(k.of, l.of) \/ IsPrefix(l.of, k.of)
            <4>1. Len(k.of) \in Nat /\ Len(l.of) \in Nat
                BY <3>3
            <4>2. CASE Len(k.of) <= Len(l.of)
                BY <3>3, <3>4, <4>2, PrefixesCompare
            <4>3. CASE Len(l.of) <= Len(k.of)
                BY <3>3, <3>4, <4>3, PrefixesCompare
            <4>4. QED
                BY <4>1, <4>2, <4>3
        <3>6. k.of = l.of => k = l
            BY <3>1, <3>2 DEF WorkspaceLeaseKey
        <3>7. Conflicts(k, l)
            BY <2>3, <3>5, <3>6 DEF Conflicts, IsStrictPrefix, Inside
        <3>8. QED
            BY <2>1, <3>7
    <2>4. keys[r] \cap keys[s] = {}
        BY <2>1 DEF Conflicts
    <2>5. QED
        BY <2>3, <2>4
<1>2. QED
    BY <1>1, LeaseInvariance, PTL DEF LeaseInv

(* A waiting turn is always blocked by somebody: pump never forgets one. *)
THEOREM WaitersAreBlocked == LeaseSpec => []NoLostWakeup
BY LeaseInvariance, PTL DEF LeaseInv
-----------------------------------------------------------------------------
(* A pass of pump never grants a request past one queued before it that it
   clashes with and that stays in the array. *)
LEMMA PumpKeepsOrder ==
    ASSUME NEW act, NEW wait, NEW ah, NEW ks, act \subseteq active,
           NEW r \in (act \cup Grantable(act, wait, ah, ks)) \ active,
           NEW s \in wait \ Grantable(act, wait, ah, ks), s \in ah[r]
    PROVE  ~Clash(ks, r, s)
BY DEF Grantable

(* Turns that clash are served in the order they arrived in. *)
THEOREM ArrivalOrderKept == LeaseSpec => NoOvertaking
<1> DEFINE Kept == \A r \in active' \ active, s \in waiting' :
                      s \in ahead'[r] => ~Clash(keys', r, s)
<1>1. LeaseNext => Kept
    <2> SUFFICES ASSUME LeaseNext, NEW r \in active' \ active, NEW s \in waiting',
                        s \in ahead'[r]
                 PROVE  ~Clash(keys', r, s)
        OBVIOUS
    <2> USE PumpKeepsOrder DEF Pump
    <2>1. CASE \E q \in Turns, ks \in KeySets : Acquire(q, ks)
        BY <2>1 DEF Acquire
    <2>2. CASE \E q \in Turns : Cancel(q)
        BY <2>2 DEF Cancel
    <2>3. CASE \E q \in Turns : Release(q)
        BY <2>3 DEF Release
    <2>4. QED
        BY <2>1, <2>2, <2>3 DEF LeaseNext
<1>2. [LeaseNext]_leaseVars => [Kept]_leaseVars
    BY <1>1
<1>3. QED
    BY <1>2, PTL DEF LeaseSpec, NoOvertaking
-----------------------------------------------------------------------------
Places == {"idle", "refused", "leasing", "handling", "running", "cleanup", "ended"}

(* The types of what the proofs read. *)
Typed ==
    /\ pc \in [Turns -> Places]
    /\ entry \in [Turns -> {"none", "live", "finished"}]
    /\ convOf \in [Turns -> Conversations \cup {NoConv}]
    /\ stopping \in [Turns -> BOOLEAN]
    /\ proc \in [Turns -> {"none", "alive", "exited"}]
    /\ owners \in [Conversations -> Turns \cup {NoTurn}]

(* Where a turn is, what its entry says and what became of its lease. *)
Placed(t) ==
    /\ entry[t] = "none" <=> pc[t] \in {"idle", "refused"}
    /\ entry[t] = "live" <=> pc[t] \in {"leasing", "handling", "running", "cleanup"}
    /\ promise[t] = "none" <=> pc[t] \in {"idle", "refused"}

(* A turn in its handler holds its lease; a process has a handler. *)
Guarded(t) ==
    /\ pc[t] \in {"handling", "running"} => promise[t] = "resolved"
    /\ proc[t] = "alive" => pc[t] = "running"

Owned(t) ==
    entry[t] = "live" => convOf[t] \in Conversations /\ owners[convOf[t]] = t

(* A stop concerns a turn that was accepted and has left the queue. *)
Unqueued(t) ==
    stopping[t] => entry[t] # "none" /\ promise[t] # "pending"

Consistent == \A t \in Turns : Placed(t) /\ Guarded(t) /\ Owned(t) /\ Unqueued(t)

SidecarInv == LeaseInv /\ Typed /\ Consistent
-----------------------------------------------------------------------------
(* Every step of the sidecar is a step of the lease table or leaves it alone:
   acquire is called once per turn, cancel only for a turn that called it. *)
LEMMA StepOfLeases ==
    ASSUME SidecarInv, SidecarNext
    PROVE  [LeaseNext]_leaseVars
<1>1. PICK t \in Turns : Stdin(t) \/ TurnStep(t)
    BY DEF SidecarNext
<1>2. CASE \E c \in Conversations, ks \in KeySets : Dispatch(t, c, ks)
    BY <1>2 DEF Dispatch, LeaseNext
<1>3. CASE StopTurn(t)
    BY <1>3 DEF StopTurn, MarkStopping, Live, LeaseNext, SidecarInv, Consistent, Placed
<1>4. CASE Cleanup(t)
    BY <1>4 DEF Cleanup, LeaseNext
<1>5. CASE (\E c \in Conversations : Refuse(t, c)) \/ RejectStop(t)
    BY <1>5 DEF Refuse, RejectStop
<1>6. CASE TurnStep(t) /\ ~Cleanup(t)
    BY <1>6 DEF TurnStep, Resume, Spawn, SpawnFails, EmitOutput, EmitTerminal, ProcessExits,
                HandlerRetries, HandlerReturns, KillReturns, KillFails
<1>7. QED
    BY <1>1, <1>2, <1>3, <1>4, <1>5, <1>6 DEF Stdin

(* What a pass of pump does to a promise: it grants what is pending. *)
LEMMA PumpGrants ==
    ASSUME NEW act, NEW wait, NEW ah, NEW ks, NEW pr,
           wait = {r \in Turns : pr[r] = "pending"},
           Pump(act, wait, ah, ks, pr)
    PROVE  \A u \in Turns : promise'[u] = pr[u] \/ (pr[u] = "pending" /\ promise'[u] = "resolved")
BY DEF Pump, Grantable

LEMMA AcquireEffect ==
    ASSUME LeaseTypeOK, NEW t \in Turns, NEW ks, Acquire(t, ks)
    PROVE  /\ promise[t] = "none" /\ promise'[t] \in {"pending", "resolved"}
           /\ \A u \in Turns \ {t} : \/ promise'[u] = promise[u]
                                     \/ promise[u] = "pending" /\ promise'[u] = "resolved"
<1> DEFINE pr == [promise EXCEPT ![t] = "pending"]
<1>1. waiting \cup {t} = {r \in Turns : pr[r] = "pending"}
    BY DEF LeaseTypeOK, Acquire
<1>2. Pump(active, waiting \cup {t}, ahead', keys', pr)
    BY DEF Acquire
<1> HIDE DEF pr
<1>3. \A u \in Turns : promise'[u] = pr[u] \/ (pr[u] = "pending" /\ promise'[u] = "resolved")
    BY ONLY <1>1, <1>2, PumpGrants
<1>4. QED
    BY <1>3 DEF LeaseTypeOK, Acquire, pr

(* Cancelling takes a turn out of the queue and touches no lease. *)
LEMMA CancelEffect ==
    ASSUME LeaseTypeOK, NEW t \in Turns, Cancel(t)
    PROVE  /\ promise'[t] # "pending" /\ (promise[t] = "none" <=> promise'[t] = "none")
           /\ promise[t] = "resolved" => promise'[t] = "resolved"
           /\ \A u \in Turns \ {t} : \/ promise'[u] = promise[u]
                                     \/ promise[u] = "pending" /\ promise'[u] = "resolved"
<1> DEFINE pr == IF t \in waiting THEN [promise EXCEPT ![t] = "rejected"] ELSE promise
<1>1. waiting \ {t} = {r \in Turns : pr[r] = "pending"}
    BY DEF LeaseTypeOK
<1>2. Pump(active, waiting \ {t}, ahead, keys, pr)
    BY DEF Cancel
<1> HIDE DEF pr
<1>3. \A u \in Turns : promise'[u] = pr[u] \/ (pr[u] = "pending" /\ promise'[u] = "resolved")
    BY ONLY <1>1, <1>2, PumpGrants
<1>4. QED
    BY <1>3 DEF LeaseTypeOK, pr

LEMMA ReleaseEffect ==
    ASSUME LeaseTypeOK, NEW t \in Turns, Release(t)
    PROVE  /\ promise'[t] = "released"
           /\ \A u \in Turns \ {t} : \/ promise'[u] = promise[u]
                                     \/ promise[u] = "pending" /\ promise'[u] = "resolved"
<1> DEFINE pr == [promise EXCEPT ![t] = "released"]
<1>1. waiting = {r \in Turns : pr[r] = "pending"}
    BY DEF LeaseTypeOK, Release
<1>2. Pump(active \ {t}, waiting, ahead, keys, pr)
    BY DEF Release
<1> HIDE DEF pr
<1>3. \A u \in Turns : promise'[u] = pr[u] \/ (pr[u] = "pending" /\ promise'[u] = "resolved")
    BY ONLY <1>1, <1>2, PumpGrants
<1>4. QED
    BY <1>3 DEF LeaseTypeOK, pr
-----------------------------------------------------------------------------
LEMMA SidecarInitEstablishes == SidecarInit => SidecarInv
<1> SUFFICES ASSUME SidecarInit PROVE SidecarInv
    OBVIOUS
<1>1. LeaseInv
    BY InitEstablishes DEF SidecarInit
<1>2. Typed
    BY DEF SidecarInit, LifecycleInit, Typed, Places
<1>3. Consistent
    BY DEF SidecarInit, LifecycleInit, LeaseInit, Consistent, Placed, Guarded, Owned, Unqueued
<1>4. QED
    BY <1>1, <1>2, <1>3 DEF SidecarInv

(* A message that claims its conversation and asks for its leases. *)
LEMMA DispatchPreserves ==
    ASSUME SidecarInv, NEW t \in Turns, NEW c \in Conversations, NEW ks \in KeySets,
           Dispatch(t, c, ks)
    PROVE  Typed' /\ Consistent'
<1> USE DEF SidecarInv
<1>1. /\ pc[t] = "idle" /\ pc' = [pc EXCEPT ![t] = "leasing"]
      /\ entry[t] = "none" /\ entry' = [entry EXCEPT ![t] = "live"]
      /\ owners[c] = NoTurn /\ owners' = [owners EXCEPT ![c] = t]
      /\ convOf' = [convOf EXCEPT ![t] = c]
      /\ stopping' = stopping /\ proc' = proc
    BY DEF Dispatch, Claim, CanClaim, Goto
<1>2. /\ promise[t] = "none" /\ promise'[t] \in {"pending", "resolved"}
      /\ \A u \in Turns \ {t} : \/ promise'[u] = promise[u]
                                \/ promise[u] = "pending" /\ promise'[u] = "resolved"
    BY AcquireEffect DEF Dispatch, LeaseInv
<1>3. Typed'
    BY <1>1 DEF Typed, Places
<1>4. ASSUME NEW u \in Turns PROVE (Placed(u) /\ Guarded(u) /\ Unqueued(u))'
    BY <1>1, <1>2, <1>4 DEF Typed, Consistent, Placed, Guarded, Unqueued
<1>5. ASSUME NEW u \in Turns PROVE Owned(u)'
    BY <1>1, <1>5, NoTurnAssumption DEF Typed, Consistent, Owned
<1>6. QED
    BY <1>3, <1>4, <1>5 DEF Consistent

LEMMA StopPreserves ==
    ASSUME SidecarInv, NEW t \in Turns, StopTurn(t)
    PROVE  Typed' /\ Consistent'
<1> USE DEF SidecarInv
<1>1. /\ entry[t] = "live" /\ stopping' = [stopping EXCEPT ![t] = TRUE]
      /\ UNCHANGED <<pc, entry, owners, convOf, proc>>
    BY DEF StopTurn, MarkStopping, Live
<1>2. /\ promise'[t] # "pending" /\ (promise[t] = "none" <=> promise'[t] = "none")
      /\ promise[t] = "resolved" => promise'[t] = "resolved"
      /\ \A u \in Turns \ {t} : \/ promise'[u] = promise[u]
                                \/ promise[u] = "pending" /\ promise'[u] = "resolved"
    BY CancelEffect DEF StopTurn, LeaseInv
<1>3. Typed'
    BY <1>1 DEF Typed
<1>4. ASSUME NEW u \in Turns PROVE (Placed(u) /\ Guarded(u) /\ Owned(u) /\ Unqueued(u))'
    BY <1>1, <1>2, <1>4 DEF Typed, Consistent, Placed, Guarded, Owned, Unqueued
<1>5. QED
    BY <1>3, <1>4 DEF Consistent

(* The cleanup ends only the turn it is about: another turn that is live owns
   another conversation. *)
LEMMA CleanupPreserves ==
    ASSUME SidecarInv, NEW t \in Turns, Cleanup(t)
    PROVE  Typed' /\ Consistent'
<1> USE DEF SidecarInv
<1>1. /\ pc[t] = "cleanup" /\ pc' = [pc EXCEPT ![t] = "ended"]
      /\ entry' = [entry EXCEPT ![t] = "finished"]
      /\ owners' = [c \in Conversations |-> IF c = convOf[t] /\ owners[c] = t
                                            THEN NoTurn ELSE owners[c]]
      /\ UNCHANGED <<convOf, stopping, proc>>
    BY DEF Cleanup, Finish, Goto
<1>2. /\ promise'[t] = "released"
      /\ \A u \in Turns \ {t} : \/ promise'[u] = promise[u]
                                \/ promise[u] = "pending" /\ promise'[u] = "resolved"
    BY ReleaseEffect DEF Cleanup, LeaseInv
<1>3. Typed'
    BY <1>1 DEF Typed, Places
<1>4. ASSUME NEW u \in Turns PROVE (Placed(u) /\ Guarded(u) /\ Unqueued(u))'
    BY <1>1, <1>2, <1>4 DEF Typed, Consistent, Placed, Guarded, Unqueued
<1>5. ASSUME NEW u \in Turns PROVE Owned(u)'
    BY <1>1, <1>5 DEF Typed, Consistent, Owned
<1>6. QED
    BY <1>3, <1>4, <1>5 DEF Consistent

(* The other steps of a turn leave leases, owners and stops alone. *)
LEMMA HandlerPreserves ==
    ASSUME SidecarInv, NEW t \in Turns, TurnStep(t), ~Cleanup(t)
    PROVE  Typed' /\ Consistent'
<1> USE DEF SidecarInv
<1> DEFINE Quiet == UNCHANGED <<promise, entry, convOf, stopping, owners>>
<1>1. CASE Resume(t)
    <2>1. /\ Quiet /\ proc' = proc /\ pc[t] = "leasing"
          /\ \/ pc' = [pc EXCEPT ![t] = "handling"] /\ promise[t] = "resolved"
             \/ pc' = [pc EXCEPT ![t] = "cleanup"]
        BY <1>1 DEF Resume, RecordTerminal, Goto, leaseVars, lifecycleVars
    <2>2. QED
        BY <2>1 DEF Typed, Places, Consistent, Placed, Guarded, Owned, Unqueued
<1>2. CASE Spawn(t)
    <2>1. /\ Quiet /\ pc[t] = "handling" /\ pc' = [pc EXCEPT ![t] = "running"]
          /\ proc' = [proc EXCEPT ![t] = "alive"]
        BY <1>2 DEF Spawn, Goto, leaseVars, lifecycleVars
    <2>2. QED
        BY <2>1 DEF Typed, Places, Consistent, Placed, Guarded, Owned, Unqueued
<1>3. CASE SpawnFails(t) \/ HandlerReturns(t)
    <2>1. /\ Quiet /\ proc' = proc /\ pc[t] \in {"handling", "running"}
          /\ pc[t] = "running" => proc[t] = "exited"
          /\ pc' = [pc EXCEPT ![t] = "cleanup"]
        BY <1>3 DEF SpawnFails, HandlerReturns, RecordTerminal, Goto, leaseVars
    <2>2. QED
        BY <2>1 DEF Typed, Places, Consistent, Placed, Guarded, Owned, Unqueued
<1>4. CASE HandlerRetries(t)
    <2>1. /\ Quiet /\ pc[t] = "running" /\ pc' = [pc EXCEPT ![t] = "handling"]
          /\ proc' = [proc EXCEPT ![t] = "none"]
        BY <1>4 DEF HandlerRetries, Goto, leaseVars, lifecycleVars
    <2>2. QED
        BY <2>1 DEF Typed, Places, Consistent, Placed, Guarded, Owned, Unqueued
<1>5. CASE ProcessExits(t)
    <2>1. Quiet /\ pc' = pc /\ proc' = [proc EXCEPT ![t] = "exited"]
        BY <1>5 DEF ProcessExits, leaseVars, lifecycleVars
    <2>2. QED
        BY <2>1 DEF Typed, Consistent, Placed, Guarded, Owned, Unqueued
<1>6. CASE \/ EmitOutput(t) \/ KillReturns(t) \/ KillFails(t)
           \/ \E type \in {"done", "error"} : EmitTerminal(t, type)
    <2>1. Quiet /\ pc' = pc /\ proc' = proc
        BY <1>6 DEF EmitOutput, KillReturns, KillFails, EmitTerminal, RecordTerminal,
                    leaseVars, lifecycleVars, turnVars
    <2>2. QED
        BY <2>1 DEF Typed, Consistent, Placed, Guarded, Owned, Unqueued
<1>7. QED
    BY <1>1, <1>2, <1>3, <1>4, <1>5, <1>6 DEF TurnStep

LEMMA SidecarNextPreserves == SidecarInv /\ [SidecarNext]_sidecarVars => SidecarInv'
<1> SUFFICES ASSUME SidecarInv, [SidecarNext]_sidecarVars PROVE SidecarInv'
    OBVIOUS
<1>1. CASE SidecarNext
    <2>1. LeaseInv'
        BY <1>1, StepOfLeases, NextPreserves DEF SidecarInv
    <2>2. PICK t \in Turns : Stdin(t) \/ TurnStep(t)
        BY <1>1 DEF SidecarNext
    <2>3. CASE \E c \in Conversations, ks \in KeySets : Dispatch(t, c, ks)
        BY <2>1, <2>3, DispatchPreserves DEF SidecarInv
    <2>4. CASE StopTurn(t)
        BY <2>1, <2>4, StopPreserves DEF SidecarInv
    <2>5. CASE \E c \in Conversations : Refuse(t, c)
        <3>1. /\ pc[t] = "idle" /\ pc' = [pc EXCEPT ![t] = "refused"]
              /\ UNCHANGED <<promise, entry, convOf, stopping, owners, proc>>
            BY <2>5 DEF Refuse, Goto, leaseVars, lifecycleVars
        <3>2. Typed' /\ Consistent'
            BY <3>1 DEF SidecarInv, Typed, Places, Consistent, Placed, Guarded, Owned, Unqueued
        <3>3. QED
            BY <2>1, <3>2 DEF SidecarInv
    <2>6. CASE RejectStop(t)
        <3>1. UNCHANGED <<promise, entry, convOf, stopping, owners, pc, proc>>
            BY <2>6 DEF RejectStop, leaseVars, lifecycleVars
        <3>2. Typed' /\ Consistent'
            BY <3>1 DEF SidecarInv, Typed, Consistent, Placed, Guarded, Owned, Unqueued
        <3>3. QED
            BY <2>1, <3>2 DEF SidecarInv
    <2>7. CASE Cleanup(t)
        BY <2>1, <2>7, CleanupPreserves DEF SidecarInv
    <2>8. CASE TurnStep(t) /\ ~Cleanup(t)
        BY <2>1, <2>8, HandlerPreserves DEF SidecarInv
    <2>9. QED
        BY <2>2, <2>3, <2>4, <2>5, <2>6, <2>7, <2>8 DEF Stdin
<1>2. CASE UNCHANGED sidecarVars
    <2>1. LeaseInv'
        BY <1>2, NextPreserves DEF sidecarVars, SidecarInv
    <2>2. UNCHANGED <<promise, entry, convOf, stopping, owners, pc, proc>>
        BY <1>2 DEF sidecarVars, leaseVars, lifecycleVars, turnVars
    <2>3. Typed' /\ Consistent'
        BY <2>2 DEF SidecarInv, Typed, Consistent, Placed, Guarded, Owned, Unqueued
    <2>4. QED
        BY <2>1, <2>3 DEF SidecarInv
<1>3. QED
    BY <1>1, <1>2

(* The invariant holds in every reachable state of the sidecar. *)
THEOREM SidecarInvariance == SidecarSpec => []SidecarInv
<1>1. QED
    BY SidecarInitEstablishes, SidecarNextPreserves, PTL DEF SidecarSpec

(* The rest of the state: records, kills, retries and lines. *)
Recorded ==
    /\ terminal \in [Turns -> {"none", "done", "error"}]
    /\ killing \subseteq Turns
    /\ retried \in [Turns -> SUBSET RetryReasons]
    /\ stops \in 0..MaxStops
    /\ written \in [Turns -> Seq(LineTypes)]

(* A conversation is owned only for as long as the entry of its turn lives. *)
Claimed ==
    \A c \in Conversations : owners[c] # NoTurn =>
        owners[c] \in Turns /\ Live(owners[c]) /\ convOf[owners[c]] = c

LEMMA WriteTyped ==
    ASSUME Recorded, NEW t \in Turns, NEW line \in LineTypes, Write(t, line)
    PROVE  written' \in [Turns -> Seq(LineTypes)]
<1>1. Append(written[t], line) \in Seq(LineTypes)
    BY DEF Recorded
<1>2. QED
    BY <1>1 DEF Write, Recorded

LEMMA RecordsAreKept == SidecarInv /\ Recorded /\ [SidecarNext]_sidecarVars => Recorded'
<1> SUFFICES ASSUME SidecarInv, Recorded, [SidecarNext]_sidecarVars PROVE Recorded'
    OBVIOUS
<1>1. CASE UNCHANGED sidecarVars
    BY <1>1 DEF sidecarVars, lifecycleVars, turnVars, Recorded
<1>2. CASE SidecarNext
  <2>1. PICK t \in Turns : Stdin(t) \/ TurnStep(t)
      BY <1>2 DEF SidecarNext
  <2>2. terminal' \in [Turns -> {"none", "done", "error"}]
    <3>1. \/ terminal' = terminal
          \/ \E type \in {"done", "error"} : RecordTerminal(t, type)
        BY <2>1 DEF Stdin, Refuse, Dispatch, Claim, RejectStop, StopTurn, MarkStopping, TurnStep,
                    Resume, Spawn, SpawnFails, EmitOutput, EmitTerminal, ProcessExits,
                    HandlerRetries, HandlerReturns, Cleanup, Finish, KillReturns, KillFails,
                    lifecycleVars
    <3>2. QED
        BY <3>1 DEF RecordTerminal, Recorded
  <2>3. killing' \subseteq Turns
      BY <2>1 DEF Recorded, Stdin, Refuse, Dispatch, RejectStop, StopTurn, TurnStep, Resume, Spawn,
                  SpawnFails, EmitOutput, EmitTerminal, ProcessExits, HandlerRetries,
                  HandlerReturns, Cleanup, KillReturns, KillFails, turnVars
  <2>4. retried' \in [Turns -> SUBSET RetryReasons]
    <3>1. \/ retried' = retried
          \/ \E reason \in RetryReasons : retried' = [retried EXCEPT ![t] = @ \cup {reason}]
        BY <2>1 DEF Stdin, Refuse, Dispatch, RejectStop, StopTurn, TurnStep, Resume, Spawn,
                    SpawnFails, EmitOutput, EmitTerminal, ProcessExits, HandlerRetries,
                    HandlerReturns, Cleanup, KillReturns, KillFails, turnVars
    <3>2. QED
        BY <3>1 DEF Recorded
  <2>5. stops' \in 0..MaxStops
    <3>1. stops' = stops \/ (stops < MaxStops /\ stops' = stops + 1)
        BY <2>1 DEF Stdin, Refuse, Dispatch, RejectStop, StopTurn, TurnStep, Resume, Spawn,
                    SpawnFails, EmitOutput, EmitTerminal, ProcessExits, HandlerRetries,
                    HandlerReturns, Cleanup, KillReturns, KillFails, turnVars
    <3>2. QED
        BY <3>1, StopsAssumption DEF Recorded
  <2>6. written' \in [Turns -> Seq(LineTypes)]
    <3>1. \/ written' = written
          \/ \E line \in LineTypes : Write(t, line)
          \/ \E lines \in {<<"turn_started", "turn_waiting">>, <<"turn_started">>} :
                 written' = [written EXCEPT ![t] = @ \o lines]
      <4>1. CASE Stdin(t)
          BY <4>1 DEF Stdin, Refuse, Dispatch, RejectStop, StopTurn, LineTypes, Terminals
      <4>2. CASE Cleanup(t)
          BY <4>2 DEF Cleanup, Outcome, LineTypes, Terminals
      <4>3. CASE TurnStep(t) /\ ~Cleanup(t)
          BY <4>3 DEF TurnStep, Resume, Spawn, SpawnFails, EmitOutput, EmitTerminal, ProcessExits,
                      HandlerRetries, HandlerReturns, KillReturns, KillFails, LineTypes, turnVars
      <4>4. QED
          BY <2>1, <4>1, <4>2, <4>3
    <3>2. CASE \E lines \in {<<"turn_started", "turn_waiting">>, <<"turn_started">>} :
                   written' = [written EXCEPT ![t] = @ \o lines]
      <4>1. /\ "turn_started" \in LineTypes /\ "turn_waiting" \in LineTypes
            /\ written[t] \in Seq(LineTypes)
          BY DEF LineTypes, Recorded
      <4>2. /\ written[t] \o <<"turn_started", "turn_waiting">> \in Seq(LineTypes)
            /\ written[t] \o <<"turn_started">> \in Seq(LineTypes)
          BY <4>1
      <4>3. QED
          BY <3>2, <4>2 DEF Recorded
    <3>3. QED
        BY <3>1, <3>2, WriteTyped DEF Recorded
  <2>7. QED
      BY <2>2, <2>3, <2>4, <2>5, <2>6 DEF Recorded
<1>3. QED
    BY <1>1, <1>2

LEMMA ClaimsAreKept == SidecarInv /\ Claimed /\ [SidecarNext]_sidecarVars => Claimed'
<1> SUFFICES ASSUME SidecarInv, Claimed, [SidecarNext]_sidecarVars PROVE Claimed'
    OBVIOUS
<1> USE DEF Claimed, Live
<1>1. CASE UNCHANGED <<owners, entry, convOf>>
    BY <1>1
<1>2. ASSUME NEW t \in Turns, NEW c \in Conversations, Claim(t, c) PROVE Claimed'
    BY <1>2 DEF Claim, CanClaim, SidecarInv, Typed
<1>3. ASSUME NEW t \in Turns, Finish(t) PROVE Claimed'
    BY <1>3 DEF Finish, SidecarInv, Typed
<1>4. CASE SidecarNext
  <2>1. PICK t \in Turns : Stdin(t) \/ TurnStep(t)
      BY <1>4 DEF SidecarNext
  <2>2. \/ UNCHANGED <<owners, entry, convOf>>
        \/ (\E c \in Conversations : Claim(t, c)) \/ Finish(t)
      BY <2>1 DEF Stdin, Refuse, Dispatch, RejectStop, StopTurn, MarkStopping, TurnStep, Resume,
                  Spawn, SpawnFails, EmitOutput, EmitTerminal, RecordTerminal, ProcessExits,
                  HandlerRetries, HandlerReturns, Cleanup, KillReturns, KillFails, lifecycleVars
  <2>3. QED
      BY <1>1, <1>2, <1>3, <2>2
<1>5. QED
    BY <1>1, <1>4 DEF sidecarVars, lifecycleVars

(* Whatever is dispatched, refused, stopped and retried, the parts of the
   sidecar agree: an entry lives exactly while its handler is under way, and a
   conversation is owned by the one turn whose live entry names it. *)
THEOREM SidecarTypes == SidecarSpec => []SidecarTypeOK
<1>1. SidecarInit => Recorded /\ Claimed
    BY StopsAssumption DEF SidecarInit, LifecycleInit, Recorded, Claimed
<1>2. SidecarInv /\ Recorded /\ Claimed => SidecarTypeOK
  <2> SUFFICES ASSUME SidecarInv, Recorded, Claimed PROVE SidecarTypeOK
      OBVIOUS
  <2>1. ASSUME NEW c \in Conversations
        PROVE  owners[c] = IF \E t \in Turns : Live(t) /\ convOf[t] = c
                           THEN CHOOSE t \in Turns : Live(t) /\ convOf[t] = c
                           ELSE NoTurn
    <3>1. \A t \in Turns : Live(t) /\ convOf[t] = c <=> owners[c] = t
        BY NoTurnAssumption DEF SidecarInv, Consistent, Owned, Claimed, Live
    <3>2. owners[c] \in Turns \cup {NoTurn}
        BY DEF SidecarInv, Typed
    <3>3. QED
        BY <3>1, <3>2
  <2>2. \A t \in Turns : /\ Live(t) <=> pc[t] \in {"leasing", "handling", "running", "cleanup"}
                         /\ proc[t] = "alive" => pc[t] = "running"
      BY DEF SidecarInv, Consistent, Placed, Guarded, Live
  <2>3. QED
      BY <2>1, <2>2 DEF SidecarTypeOK, SidecarInv, LeaseInv, Typed, Places, Recorded
<1>3. QED
    BY <1>1, <1>2, RecordsAreKept, ClaimsAreKept, SidecarInvariance, PTL DEF SidecarSpec

(* A running process is covered: its turn owns the conversation and holds its
   leases, until the process has closed. *)
THEOREM ExecutionCovered == SidecarSpec => []ExecutionIsCovered
<1>1. SidecarInv => ExecutionIsCovered
    <2> SUFFICES ASSUME SidecarInv, NEW t \in Executing
                 PROVE  Live(t) /\ owners[convOf[t]] = t /\ t \in active
        BY DEF ExecutionIsCovered
    <2>1. pc[t] = "running" /\ entry[t] = "live" /\ promise[t] = "resolved"
        BY DEF Executing, SidecarInv, Consistent, Placed, Guarded
    <2>2. t \in active
        BY <2>1 DEF Executing, SidecarInv, LeaseInv, LeaseTypeOK
    <2>3. QED
        BY <2>1, <2>2 DEF Executing, SidecarInv, Consistent, Owned, Live
<1>2. QED
    BY <1>1, SidecarInvariance, PTL

(* Two processes that run at the same time belong to different conversations
   and share neither an engine session nor a project folder. *)
THEOREM ExecutionsAreExclusive == SidecarSpec => []ExecutionExclusive
<1>1. SidecarInv => ExecutionExclusive
    <2> SUFFICES ASSUME SidecarInv, NEW t \in Executing, NEW u \in Executing, t # u
                 PROVE  convOf[t] # convOf[u] /\ ~Clash(keys, t, u)
        BY DEF ExecutionExclusive
    <2>1. \A r \in Executing : entry[r] = "live" /\ promise[r] = "resolved"
        BY DEF Executing, SidecarInv, Consistent, Placed, Guarded
    <2>2. owners[convOf[t]] = t /\ owners[convOf[u]] = u
        BY <2>1 DEF Executing, SidecarInv, Consistent, Owned
    <2>3. t \in active /\ u \in active
        BY <2>1 DEF Executing, SidecarInv, LeaseInv, LeaseTypeOK
    <2>4. QED
        BY <2>2, <2>3 DEF SidecarInv, LeaseInv, LeaseExclusion
<1>2. QED
    BY <1>1, SidecarInvariance, PTL

(* A turn that was stopped does not wait for anybody's lease any more. *)
THEOREM StoppedTurnsLeaveTheQueue == SidecarSpec => []StoppedNeverWaits
<1>1. SidecarInv => StoppedNeverWaits
    BY DEF SidecarInv, Consistent, Unqueued, LeaseInv, LeaseTypeOK, StoppedNeverWaits, IsStopping
<1>2. QED
    BY <1>1, SidecarInvariance, PTL

(* No process is started for a turn that a stop has reached, whether it waited
   for its lease, prepared its prompt or was about to be retried. *)
THEOREM NothingSpawnsAfterStop == SidecarSpec => NoSpawnAfterStop
<1> DEFINE Sober == \A t \in Turns : stopping[t] => (proc'[t] = "alive" => proc[t] = "alive")
<1>1. SidecarInv /\ SidecarNext => Sober
    <2> SUFFICES ASSUME SidecarInv, SidecarNext, NEW u \in Turns, stopping[u], proc'[u] = "alive"
                 PROVE  proc[u] = "alive"
        OBVIOUS
    <2>1. PICK t \in Turns : Stdin(t) \/ TurnStep(t)
        BY DEF SidecarNext
    <2>2. CASE Spawn(t)
        BY <2>2 DEF Spawn, IsStopping, Live, SidecarInv, Typed, Consistent, Placed
    <2>3. CASE ProcessExits(t) \/ HandlerRetries(t)
        BY <2>3 DEF ProcessExits, HandlerRetries, SidecarInv, Typed
    <2>4. CASE Stdin(t)
        BY <2>4 DEF Stdin, Refuse, Dispatch, RejectStop, StopTurn
    <2>5. CASE TurnStep(t) /\ ~Spawn(t) /\ ~ProcessExits(t) /\ ~HandlerRetries(t)
        BY <2>5 DEF TurnStep, Resume, SpawnFails, EmitOutput, EmitTerminal, HandlerReturns,
                    Cleanup, KillReturns, KillFails, turnVars
    <2>6. QED
        BY <2>1, <2>2, <2>3, <2>4, <2>5
<1>2. SidecarInv /\ [SidecarNext]_sidecarVars => [Sober]_sidecarVars
    BY <1>1
<1>3. QED
    BY <1>2, SidecarInvariance, PTL DEF SidecarSpec, NoSpawnAfterStop
-----------------------------------------------------------------------------
(* The contract of turns. *)
Untold ==
    /\ written \in [Turns -> Seq(LineTypes)]
    /\ \A t \in Turns : pc[t] \notin {"refused", "ended"} =>
                           \A i \in DOMAIN written[t] : written[t][i] \notin Terminals

(* A line more: what it adds to the lines written about a turn. *)
LEMMA AppendAdds ==
    ASSUME NEW s \in Seq(LineTypes), NEW line \in LineTypes
    PROVE  /\ Append(s, line) \in Seq(LineTypes)
           /\ Range(Append(s, line)) = Range(s) \cup {line}
<1>1. /\ Append(s, line) \in Seq(LineTypes)
      /\ DOMAIN Append(s, line) = DOMAIN s \cup {Len(s) + 1}
      /\ \A i \in DOMAIN s : Append(s, line)[i] = s[i]
      /\ Append(s, line)[Len(s) + 1] = line
    OBVIOUS
<1>2. QED
    BY <1>1 DEF Range

LEMMA UntoldInit == SidecarInit => Untold
BY DEF SidecarInit, Untold

LEMMA UntoldNext == SidecarInv /\ Untold /\ [SidecarNext]_sidecarVars => Untold'
<1> SUFFICES ASSUME SidecarInv, Untold, [SidecarNext]_sidecarVars PROVE Untold'
    OBVIOUS
<1> USE DEF Untold
<1>0. pc \in [Turns -> Places]
    BY DEF SidecarInv, Typed
<1>1. CASE UNCHANGED sidecarVars
    BY <1>1 DEF sidecarVars, turnVars
<1>2. CASE SidecarNext
    <2>1. PICK t \in Turns : Stdin(t) \/ TurnStep(t)
        BY <1>2 DEF SidecarNext
    <2>2. ASSUME NEW line \in LineTypes, written' = [written EXCEPT ![t] = Append(@, line)],
                 \/ pc' = pc /\ line \notin Terminals
                 \/ \E p \in {"refused", "ended"} : pc' = [pc EXCEPT ![t] = p]
          PROVE  Untold'
        <3>1. /\ written[t] \in Seq(LineTypes)
              /\ Append(written[t], line) \in Seq(LineTypes)
              /\ DOMAIN Append(written[t], line) = DOMAIN written[t] \cup {Len(written[t]) + 1}
              /\ \A i \in DOMAIN written[t] : Append(written[t], line)[i] = written[t][i]
              /\ Append(written[t], line)[Len(written[t]) + 1] = line
            OBVIOUS
        <3>2. written' \in [Turns -> Seq(LineTypes)]
            BY <2>2, <3>1
        <3>3. ASSUME NEW u \in Turns, pc'[u] \notin {"refused", "ended"},
                     NEW i \in DOMAIN written'[u]
              PROVE  written'[u][i] \notin Terminals
            <4>1. pc[u] \notin {"refused", "ended"}
                BY <1>0, <2>2, <3>3
            <4>2. CASE u = t
                BY <1>0, <2>2, <3>1, <3>3, <4>1, <4>2
            <4>3. CASE u # t
                BY <2>2, <3>3, <4>1, <4>3
            <4>4. QED
                BY <4>2, <4>3
        <3>4. QED
            BY <3>2, <3>3
    <2>3. CASE \E c \in Conversations : Refuse(t, c)
        BY <2>2, <2>3 DEF Refuse, Goto, Write, LineTypes, Terminals
    <2>4. CASE \E c \in Conversations, ks \in KeySets : Dispatch(t, c, ks)
        <3>1. PICK lines \in {<<"turn_started", "turn_waiting">>, <<"turn_started">>} :
                 written' = [written EXCEPT ![t] = @ \o lines]
            BY <2>4 DEF Dispatch
        <3>2. pc[t] = "idle" /\ pc' = [pc EXCEPT ![t] = "leasing"]
            BY <2>4 DEF Dispatch, Goto
        <3>3. /\ lines \in Seq(LineTypes)
              /\ \A i \in DOMAIN lines : lines[i] \notin Terminals
            <4>1. "turn_started" \in LineTypes \ Terminals /\ "turn_waiting" \in LineTypes \ Terminals
                BY DEF LineTypes, Terminals
            <4>2. CASE lines = <<"turn_started">>
                BY <4>1, <4>2
            <4>3. CASE lines = <<"turn_started", "turn_waiting">>
                BY <4>1, <4>3
            <4>4. QED
                BY <4>2, <4>3
        <3>4. /\ written[t] \in Seq(LineTypes)
              /\ written[t] \o lines \in Seq(LineTypes)
              /\ \A i \in DOMAIN (written[t] \o lines) :
                    \/ i \in DOMAIN written[t] /\ (written[t] \o lines)[i] = written[t][i]
                    \/ i - Len(written[t]) \in DOMAIN lines
                       /\ (written[t] \o lines)[i] = lines[i - Len(written[t])]
            BY <3>3
        <3>5. written' \in [Turns -> Seq(LineTypes)]
            BY <3>1, <3>4
        <3>6. ASSUME NEW u \in Turns, pc'[u] \notin {"refused", "ended"},
                     NEW i \in DOMAIN written'[u]
              PROVE  written'[u][i] \notin Terminals
            <4>1. CASE u = t
                BY <3>1, <3>2, <3>3, <3>4, <3>6, <4>1
            <4>2. CASE u # t
                BY <1>0, <3>1, <3>2, <3>6, <4>2
            <4>3. QED
                BY <4>1, <4>2
        <3>7. QED
            BY <3>5, <3>6
    <2>5. CASE RejectStop(t) \/ StopTurn(t) \/ EmitOutput(t) \/ KillFails(t)
        BY <2>2, <2>5 DEF RejectStop, StopTurn, EmitOutput, KillFails, Write, LineTypes, Terminals
    <2>6. CASE Cleanup(t)
        BY <2>2, <2>6 DEF Cleanup, Goto, Write, LineTypes, Terminals, Outcome
    <2>7. CASE \/ Resume(t) \/ Spawn(t) \/ SpawnFails(t) \/ HandlerRetries(t) \/ HandlerReturns(t)
               \/ ProcessExits(t) \/ KillReturns(t)
               \/ \E type \in {"done", "error"} : EmitTerminal(t, type)
        <3>1. written' = written
            BY <2>7 DEF Resume, Spawn, SpawnFails, HandlerRetries, HandlerReturns, ProcessExits,
                        KillReturns, EmitTerminal, turnVars
        <3>2. \A u \in Turns : pc'[u] \notin {"refused", "ended"} => pc[u] \notin {"refused", "ended"}
            BY <1>0, <2>7 DEF Resume, Spawn, SpawnFails, HandlerRetries, HandlerReturns,
                              ProcessExits, KillReturns, EmitTerminal, Goto, turnVars
        <3>3. QED
            BY <3>1, <3>2
    <2>8. QED
        BY <2>1, <2>3, <2>4, <2>5, <2>6, <2>7 DEF Stdin, TurnStep
<1>3. QED
    BY <1>1, <1>2

LEMMA UntoldInvariance == SidecarSpec => [](SidecarInv /\ Untold)
BY SidecarInitEstablishes, SidecarNextPreserves, UntoldInit, UntoldNext, PTL DEF SidecarSpec
-----------------------------------------------------------------------------
(* The initial states of the sidecar are initial states of the contract. *)
LEMMA InitMaps == SidecarInit => Contract!ContractInit
BY DEF SidecarInit, LeaseInit, LifecycleInit, Contract!ContractInit, Phase

(* A step after which every turn has the phase it had. *)
LEMMA QuietMaps ==
    ASSUME \A u \in Turns : Phase(u)' = Phase(u), UNCHANGED <<convOf, keys, stopping>>
    PROVE  UNCHANGED Contract!contractVars
BY DEF Contract!contractVars

(* A step that changes the phase of one turn. *)
LEMMA PhaseMaps ==
    ASSUME NEW t \in Turns, NEW p, Phase(t)' = p,
           \A u \in Turns \ {t} : Phase(u)' = Phase(u)
    PROVE  Contract!Becomes(t, p)
BY DEF Contract!Becomes

ContractStep == [Contract!ContractNext]_(Contract!contractVars)

(* A turn whose place, process and lines stay keeps its phase. *)
LEMMA SamePhase ==
    ASSUME NEW u \in Turns, pc'[u] = pc[u], proc'[u] = proc[u], written'[u] = written[u]
    PROVE  Phase(u)' = Phase(u)
BY DEF Phase, Told

LEMMA ToldRange ==
    ASSUME NEW lines PROVE Told(lines) \in {"completed", "failed", "stopped"}
BY DEF Told

(* Outside of the handler a phase is the place of its turn. *)
LEMMA PhaseOfPlace ==
    ASSUME NEW u \in Turns
    PROVE  /\ pc[u] = "idle" => Phase(u) = "new"
           /\ pc[u] = "refused" => Phase(u) = "refused"
           /\ pc[u] = "ended" => Phase(u) \in {"completed", "failed", "stopped"}
           /\ pc[u] \notin {"idle", "refused", "ended"} =>
                 Phase(u) = IF proc[u] = "alive" THEN "executing" ELSE "accepted"
BY ToldRange DEF Phase

(* A message whose conversation is free is accepted. *)
LEMMA DispatchMaps ==
    ASSUME SidecarInv, Untold, NEW t \in Turns, NEW c \in Conversations, NEW ks \in KeySets,
           Dispatch(t, c, ks)
    PROVE  ContractStep
<1> USE DEF SidecarInv
<1>1. /\ pc[t] = "idle" /\ pc' = [pc EXCEPT ![t] = "leasing"]
      /\ owners[c] = NoTurn
      /\ convOf' = [convOf EXCEPT ![t] = c]
      /\ keys' = [keys EXCEPT ![t] = ks]
      /\ stopping' = stopping /\ proc' = proc
      /\ \A u \in Turns \ {t} : written'[u] = written[u]
    BY DEF Dispatch, Claim, CanClaim, Goto, Acquire, Pump, Untold
<1>2. Phase(t) = "new" /\ Phase(t)' = "accepted"
    BY <1>1 DEF Phase, Typed, Consistent, Guarded
<1>3. \A u \in Turns \ {t} : Phase(u)' = Phase(u)
    BY <1>1, SamePhase DEF Typed
<1>4. \A u \in Turns : Phase(u) \in {"accepted", "executing"} => convOf[u] # c
    <2> SUFFICES ASSUME NEW u \in Turns, Phase(u) \in {"accepted", "executing"}
                 PROVE  convOf[u] # c
        OBVIOUS
    <2>1. pc[u] \notin {"idle", "refused", "ended"}
        BY PhaseOfPlace
    <2>2. entry[u] = "live"
        BY <2>1 DEF Typed, Places, Consistent, Placed
    <2>3. QED
        BY <1>1, <2>2, NoTurnAssumption DEF Consistent, Owned
<1>5. Contract!Becomes(t, "accepted")
    BY <1>2, <1>3, PhaseMaps
<1>6. Contract!AcceptTurn(t, c, ks)
    BY <1>1, <1>2, <1>4, <1>5 DEF Contract!AcceptTurn, Contract!UnderWay
<1>7. QED
    BY <1>6 DEF ContractStep, Contract!ContractNext

(* A message that is not dispatched is refused. *)
LEMMA RefuseMaps ==
    ASSUME SidecarInv, Untold, NEW t \in Turns, NEW c \in Conversations, Refuse(t, c)
    PROVE  ContractStep
<1>1. /\ pc[t] = "idle" /\ pc'[t] = "refused"
      /\ \A u \in Turns \ {t} : pc'[u] = pc[u] /\ written'[u] = written[u] /\ proc'[u] = proc[u]
      /\ UNCHANGED <<convOf, keys, stopping>>
    BY DEF Refuse, Goto, Write, leaseVars, lifecycleVars, SidecarInv, Typed, Untold
<1>2. Phase(t) = "new" /\ Phase(t)' = "refused"
    BY <1>1 DEF Phase
<1>3. \A u \in Turns \ {t} : Phase(u)' = Phase(u)
    BY <1>1, SamePhase
<1>4. Contract!Becomes(t, "refused")
    BY <1>2, <1>3, PhaseMaps
<1>5. Contract!RefuseTurn(t)
    BY <1>1, <1>2, <1>4 DEF Contract!RefuseTurn
<1>6. QED
    BY <1>5 DEF ContractStep, Contract!ContractNext

(* A stop of a live turn is what the contract calls asking. *)
LEMMA StopMaps ==
    ASSUME SidecarInv, Untold, NEW t \in Turns, StopTurn(t)
    PROVE  ContractStep
<1> USE DEF SidecarInv
<1>1. /\ entry[t] = "live" /\ stopping' = [stopping EXCEPT ![t] = TRUE]
      /\ UNCHANGED <<pc, proc, convOf, keys>>
      /\ \A u \in Turns \ {t} : written'[u] = written[u]
    BY DEF StopTurn, MarkStopping, Live, Cancel, Write, Untold
<1>2. pc[t] \notin {"idle", "refused", "ended"}
    BY <1>1 DEF Consistent, Placed
<1>3. Phase(t) \in {"accepted", "executing"} /\ Phase(t)' = Phase(t)
    BY <1>1, <1>2 DEF Phase
<1>4. \A u \in Turns : Phase(u)' = Phase(u)
    BY <1>1, <1>3, SamePhase
<1>5. Contract!AskStop(t)
    BY <1>1, <1>3, <1>4 DEF Contract!AskStop, Contract!UnderWay
<1>6. QED
    BY <1>5 DEF ContractStep, Contract!ContractNext

(* A stop of a turn that is not live adds a line and changes no phase. *)
LEMMA RejectMaps ==
    ASSUME SidecarInv, Untold, NEW t \in Turns, RejectStop(t)
    PROVE  ContractStep
<1>1. /\ UNCHANGED <<pc, proc, convOf, keys, stopping>>
      /\ written' = [written EXCEPT ![t] = Append(@, "interrupt_rejected")]
    BY DEF RejectStop, Write, leaseVars, lifecycleVars
<1>2. /\ written[t] \in Seq(LineTypes) /\ written'[t] = Append(written[t], "interrupt_rejected")
      /\ \A u \in Turns \ {t} : written'[u] = written[u]
    BY <1>1 DEF Untold
<1>3. Range(written'[t]) = Range(written[t]) \cup {"interrupt_rejected"}
    BY <1>2, AppendAdds DEF LineTypes
<1>4. Told(written'[t]) = Told(written[t])
    BY <1>3 DEF Told
<1>5. Phase(t)' = Phase(t)
    BY <1>1, <1>4 DEF Phase
<1>6. \A u \in Turns : Phase(u)' = Phase(u)
    BY <1>1, <1>2, <1>5, SamePhase
<1>7. QED
    BY <1>1, <1>6, QuietMaps DEF ContractStep

(* The handler may spawn: what the turn needs is in use by nobody else. *)
LEMMA SpawnMaps ==
    ASSUME SidecarInv, Untold, NEW t \in Turns, Spawn(t)
    PROVE  ContractStep
<1> USE DEF SidecarInv
<1>1. /\ pc[t] = "handling" /\ pc' = [pc EXCEPT ![t] = "running"]
      /\ proc' = [proc EXCEPT ![t] = "alive"]
      /\ UNCHANGED <<convOf, keys, stopping, written>>
      /\ ~IsStopping(t)
    BY DEF Spawn, Goto, leaseVars, lifecycleVars
<1>2. entry[t] = "live" /\ promise[t] = "resolved" /\ proc[t] # "alive"
    BY <1>1 DEF Consistent, Placed, Guarded
<1>3. stopping[t] = FALSE
    BY <1>1, <1>2 DEF IsStopping, Live, Typed
<1>4. Phase(t) = "accepted" /\ Phase(t)' = "executing"
    BY <1>1, <1>2 DEF Phase, Typed
<1>5. \A u \in Turns \ {t} : Phase(u)' = Phase(u)
    BY <1>1, SamePhase DEF Typed
<1>6. ASSUME NEW u \in Turns, Phase(u) = "executing"
      PROVE  KeySetsCompatible(keys[t], keys[u])
    <2>1. u # t
        BY <1>4, <1>6
    <2>2. pc[u] = "running" /\ promise[u] = "resolved"
        BY <1>6, PhaseOfPlace DEF Consistent, Guarded
    <2>3. ~Clash(keys, t, u)
        BY <1>2, <2>1, <2>2 DEF LeaseInv, LeaseTypeOK, LeaseExclusion
    <2>4. QED
        BY <2>3 DEF Clash, KeySetsCompatible
<1>7. Contract!Becomes(t, "executing")
    BY <1>4, <1>5, PhaseMaps
<1>8. Contract!Execute(t)
    BY <1>1, <1>3, <1>4, <1>6, <1>7 DEF Contract!Execute
<1>9. QED
    BY <1>8 DEF ContractStep, Contract!ContractNext

LEMMA ExitMaps ==
    ASSUME SidecarInv, Untold, NEW t \in Turns, ProcessExits(t)
    PROVE  ContractStep
<1>1. /\ proc[t] = "alive" /\ proc' = [proc EXCEPT ![t] = "exited"]
      /\ UNCHANGED <<pc, convOf, keys, stopping, written>>
    BY DEF ProcessExits, leaseVars, lifecycleVars
<1>2. pc[t] = "running"
    BY <1>1 DEF SidecarInv, Consistent, Guarded
<1>3. Phase(t) = "executing" /\ Phase(t)' = "accepted"
    BY <1>1, <1>2 DEF Phase, SidecarInv, Typed
<1>4. \A u \in Turns \ {t} : Phase(u)' = Phase(u)
    BY <1>1, SamePhase DEF SidecarInv, Typed
<1>5. Contract!Becomes(t, "accepted")
    BY <1>3, <1>4, PhaseMaps
<1>6. Contract!Cease(t)
    BY <1>1, <1>3, <1>5 DEF Contract!Cease
<1>7. QED
    BY <1>6 DEF ContractStep, Contract!ContractNext

(* The one terminal line says stopped exactly of a turn that was asked. *)
LEMMA CleanupMaps ==
    ASSUME SidecarInv, Untold, NEW t \in Turns, Cleanup(t)
    PROVE  ContractStep
<1> USE DEF SidecarInv
<1>1. /\ pc[t] = "cleanup" /\ pc' = [pc EXCEPT ![t] = "ended"]
      /\ written' = [written EXCEPT ![t] = Append(@, Outcome(t))]
      /\ UNCHANGED <<proc, convOf, keys, stopping>>
    BY DEF Cleanup, Finish, Release, Goto, Write
<1>2. /\ written[t] \in Seq(LineTypes) /\ written'[t] = Append(written[t], Outcome(t))
      /\ \A u \in Turns \ {t} : written'[u] = written[u]
    BY <1>1 DEF Untold
<1>3. Outcome(t) \in LineTypes /\ Outcome(t) \in Terminals
    BY DEF Outcome, LineTypes, Terminals
<1>4. Range(written'[t]) = Range(written[t]) \cup {Outcome(t)}
    BY <1>2, <1>3, AppendAdds
<1>5. Range(written[t]) \cap Terminals = {}
    BY <1>1 DEF Untold, Range
<1>6. Outcome(t) = "turn_stopped" <=> stopping[t]
    BY DEF Outcome
<1>7. Told(written'[t]) = "stopped" <=> stopping[t]
    BY <1>4, <1>5, <1>6 DEF Told, Terminals
<1>8. Phase(t) = "accepted" /\ Phase(t)' = Told(written'[t])
    BY <1>1 DEF Phase, Typed, Consistent, Guarded
<1>9. \A u \in Turns \ {t} : Phase(u)' = Phase(u)
    BY <1>1, <1>2, SamePhase DEF Typed
<1>10. Contract!Becomes(t, Told(written'[t]))
    BY <1>8, <1>9, PhaseMaps
<1>11. Contract!Report(t)
    BY <1>1, <1>7, <1>8, <1>10, ToldRange DEF Contract!Report, Contract!Reported
<1>12. QED
    BY <1>11 DEF ContractStep, Contract!ContractNext

(* The remaining steps of a turn are not seen by the contract. *)
LEMMA QuietSteps ==
    ASSUME SidecarInv, Untold, NEW t \in Turns,
           \/ Resume(t) \/ SpawnFails(t) \/ HandlerRetries(t) \/ HandlerReturns(t)
           \/ EmitOutput(t) \/ KillReturns(t) \/ KillFails(t)
           \/ \E type \in {"done", "error"} : EmitTerminal(t, type)
    PROVE  ContractStep
<1> USE DEF SidecarInv
<1>1. UNCHANGED <<convOf, keys, stopping>>
    BY DEF Resume, SpawnFails, HandlerRetries, HandlerReturns, EmitOutput, KillReturns, KillFails,
           EmitTerminal, RecordTerminal, leaseVars, lifecycleVars
<1>2. \A u \in Turns \ {t} : pc'[u] = pc[u] /\ proc'[u] = proc[u] /\ written'[u] = written[u]
    BY DEF Resume, SpawnFails, HandlerRetries, HandlerReturns, EmitOutput, KillReturns, KillFails,
           EmitTerminal, Goto, Write, turnVars, Typed, Untold
<1>3. /\ {pc[t], pc'[t]} \cap {"idle", "refused", "ended"} = {}
      /\ proc'[t] = "alive" <=> proc[t] = "alive"
    BY DEF Resume, SpawnFails, HandlerRetries, HandlerReturns, EmitOutput, KillReturns, KillFails,
           EmitTerminal, Goto, turnVars, Typed, Consistent, Guarded
<1>4. Phase(t)' = Phase(t)
    BY <1>3 DEF Phase
<1>5. \A u \in Turns : Phase(u)' = Phase(u)
    BY <1>2, <1>4, SamePhase
<1>6. QED
    BY <1>1, <1>5, QuietMaps DEF ContractStep

(* Every step of the sidecar is one the contract allows, or none. *)
LEMMA StepMaps ==
    ASSUME SidecarInv, Untold, [SidecarNext]_sidecarVars PROVE ContractStep
<1>1. CASE UNCHANGED sidecarVars
    <2>1. UNCHANGED <<pc, proc, written, convOf, keys, stopping>>
        BY <1>1 DEF sidecarVars, leaseVars, lifecycleVars, turnVars
    <2>2. \A u \in Turns : Phase(u)' = Phase(u)
        BY <2>1, SamePhase
    <2>3. QED
        BY <2>1, <2>2, QuietMaps DEF ContractStep
<1>2. CASE SidecarNext
    <2>1. PICK t \in Turns : Stdin(t) \/ TurnStep(t)
        BY <1>2 DEF SidecarNext
    <2>2. CASE Stdin(t)
        BY <2>2, DispatchMaps, RefuseMaps, StopMaps, RejectMaps DEF Stdin
    <2>3. CASE TurnStep(t)
        BY <2>3, SpawnMaps, ExitMaps, CleanupMaps, QuietSteps DEF TurnStep
    <2>4. QED
        BY <2>1, <2>2, <2>3
<1>3. QED
    BY <1>1, <1>2

(* For any number of turns, stops and retries, the sidecar does what the
   contract of turns allows and nothing else. *)
THEOREM SidecarKeepsContract == SidecarSpec => ImplementsContract
<1>1. SidecarInv /\ Untold /\ [SidecarNext]_sidecarVars =>
          [Contract!ContractNext]_(Contract!contractVars)
    BY StepMaps DEF ContractStep
<1>2. QED
    BY <1>1, InitMaps, UntoldInvariance, PTL
       DEF SidecarSpec, ImplementsContract, Contract!ContractSpec
-----------------------------------------------------------------------------
AfterStop == {"turn_stopping", "interrupt_warning", "turn_stopped", "interrupt_rejected"}

(* The announcement of a stop is written for a turn that is marked. *)
Announced ==
    \A t \in Turns : \A i \in DOMAIN written[t] :
        written[t][i] = "turn_stopping" => stopping[t]

Quiet == SilentAfterStop /\ Announced

(* A line for a marked turn is one of those that may follow. *)
LEMMA LinePreserves ==
    ASSUME Untold, Quiet, NEW t \in Turns, NEW line \in LineTypes,
           written' = [written EXCEPT ![t] = Append(@, line)],
           stopping[t] => line \in AfterStop, line = "turn_stopping" => stopping'[t],
           \A u \in Turns : stopping[u] => stopping'[u]
    PROVE  Quiet'
<1> USE DEF Untold, Quiet
<1>1. /\ DOMAIN Append(written[t], line) = DOMAIN written[t] \cup {Len(written[t]) + 1}
      /\ DOMAIN written[t] = 1..Len(written[t]) /\ Len(written[t]) \in Nat
      /\ \A i \in DOMAIN written[t] : Append(written[t], line)[i] = written[t][i]
      /\ Append(written[t], line)[Len(written[t]) + 1] = line
    <2>1. written[t] \in Seq(LineTypes)
        OBVIOUS
    <2>2. QED
        BY <2>1
<1>2. /\ written'[t] = Append(written[t], line)
      /\ \A u \in Turns \ {t} : written'[u] = written[u]
    OBVIOUS
<1>3. Announced'
    BY <1>1, <1>2 DEF Announced
<1>4. ASSUME NEW u \in Turns, NEW i \in DOMAIN written'[u], NEW j \in DOMAIN written'[u],
             i < j, written'[u][i] = "turn_stopping"
      PROVE  written'[u][j] \in AfterStop
    <2>1. CASE u # t
        BY <1>2, <1>4, <2>1 DEF SilentAfterStop, AfterStop
    <2>2. CASE u = t
        <3>1. i \in DOMAIN written[t] /\ written[t][i] = "turn_stopping"
            BY <1>1, <1>2, <1>4, <2>2
        <3>2. stopping[t]
            BY <3>1 DEF Announced
        <3>3. CASE j = Len(written[t]) + 1
            BY <1>1, <1>2, <2>2, <3>2, <3>3
        <3>4. CASE j \in DOMAIN written[t]
            BY <1>1, <1>2, <1>4, <2>2, <3>1, <3>4 DEF SilentAfterStop, AfterStop
        <3>5. QED
            BY <1>1, <1>2, <2>2, <3>3, <3>4
    <2>3. QED
        BY <2>1, <2>2
<1>5. QED
    BY <1>3, <1>4 DEF SilentAfterStop, AfterStop

LEMMA QuietNext == SidecarInv /\ Untold /\ Quiet /\ [SidecarNext]_sidecarVars => Quiet'
<1> SUFFICES ASSUME SidecarInv, Untold, Quiet, [SidecarNext]_sidecarVars PROVE Quiet'
    OBVIOUS
<1>1. CASE UNCHANGED <<written, stopping>>
    BY <1>1 DEF Quiet, SilentAfterStop, Announced
<1>2. CASE UNCHANGED sidecarVars
    BY <1>1, <1>2 DEF sidecarVars, lifecycleVars, turnVars
<1>3. CASE SidecarNext
    <2>1. PICK t \in Turns : Stdin(t) \/ TurnStep(t)
        BY <1>3 DEF SidecarNext
    <2>2. CASE \E c \in Conversations : Refuse(t, c)
        <3>1. ~stopping[t] /\ stopping' = stopping
            BY <2>2 DEF Refuse, lifecycleVars, SidecarInv, Consistent, Placed, Unqueued
        <3>2. written' = [written EXCEPT ![t] = Append(@, "error")] /\ "error" \in LineTypes
            BY <2>2 DEF Refuse, Write, LineTypes, Terminals
        <3>3. "error" # "turn_stopping"
            OBVIOUS
        <3>4. QED
            BY <3>1, <3>2, <3>3, LinePreserves DEF AfterStop
    <2>3. CASE \E c \in Conversations, ks \in KeySets : Dispatch(t, c, ks)
        <3>1. ~stopping[t] /\ stopping' = stopping
            BY <2>3 DEF Dispatch, Claim, SidecarInv, Consistent, Placed, Unqueued
        <3>2. PICK lines \in {<<"turn_started", "turn_waiting">>, <<"turn_started">>} :
                 written' = [written EXCEPT ![t] = @ \o lines]
            BY <2>3 DEF Dispatch
        <3>3. \A i \in DOMAIN lines : lines[i] # "turn_stopping"
            <4>1. CASE lines = <<"turn_started">>
                BY <4>1
            <4>2. CASE lines = <<"turn_started", "turn_waiting">>
                BY <4>2
            <4>3. QED
                BY <4>1, <4>2
        <3>4. /\ written[t] \in Seq(LineTypes) /\ lines \in Seq(LineTypes)
              /\ \A i \in DOMAIN (written[t] \o lines) :
                    \/ i \in DOMAIN written[t] /\ (written[t] \o lines)[i] = written[t][i]
                    \/ i - Len(written[t]) \in DOMAIN lines
                       /\ (written[t] \o lines)[i] = lines[i - Len(written[t])]
            <4>1. "turn_started" \in LineTypes /\ "turn_waiting" \in LineTypes
                BY DEF LineTypes
            <4>2. lines \in Seq(LineTypes)
                <5>1. CASE lines = <<"turn_started">>
                    BY <4>1, <5>1
                <5>2. CASE lines = <<"turn_started", "turn_waiting">>
                    BY <4>1, <5>2
                <5>3. QED
                    BY <5>1, <5>2
            <4>3. QED
                BY <4>2 DEF Untold
        <3>5. /\ \A i \in DOMAIN written'[t] : written'[t][i] # "turn_stopping"
              /\ \A u \in Turns \ {t} : written'[u] = written[u]
            BY <3>1, <3>2, <3>3, <3>4 DEF Quiet, Announced, Untold
        <3>6. QED
            BY <3>1, <3>5 DEF Quiet, Announced, SilentAfterStop
    <2>4. CASE RejectStop(t)
        <3>1. stopping' = stopping
            BY <2>4 DEF RejectStop, lifecycleVars
        <3>2. written' = [written EXCEPT ![t] = Append(@, "interrupt_rejected")] /\ "interrupt_rejected" \in LineTypes
            BY <2>4 DEF RejectStop, Write, LineTypes, Terminals
        <3>3. "interrupt_rejected" # "turn_stopping"
            OBVIOUS
        <3>4. QED
            BY <3>1, <3>2, <3>3, LinePreserves DEF AfterStop
    <2>5. CASE StopTurn(t)
        <3>1. stopping'[t] /\ \A u \in Turns : stopping[u] => stopping'[u]
            BY <2>5 DEF StopTurn, MarkStopping, SidecarInv, Typed
        <3>2. QED
            BY <2>5, <3>1, LinePreserves DEF StopTurn, Write, LineTypes, AfterStop
    <2>6. CASE EmitOutput(t)
        <3>1. ~stopping[t] /\ stopping' = stopping
            BY <2>6 DEF EmitOutput, lifecycleVars, IsStopping, Live, SidecarInv, Consistent, Placed
        <3>2. written' = [written EXCEPT ![t] = Append(@, "output")] /\ "output" \in LineTypes
            BY <2>6 DEF EmitOutput, Write, LineTypes, Terminals
        <3>3. "output" # "turn_stopping"
            OBVIOUS
        <3>4. QED
            BY <3>1, <3>2, <3>3, LinePreserves DEF AfterStop
    <2>7. CASE KillFails(t)
        <3>1. stopping' = stopping
            BY <2>7 DEF KillFails, lifecycleVars
        <3>2. written' = [written EXCEPT ![t] = Append(@, "interrupt_warning")] /\ "interrupt_warning" \in LineTypes
            BY <2>7 DEF KillFails, Write, LineTypes, Terminals
        <3>3. "interrupt_warning" # "turn_stopping"
            OBVIOUS
        <3>4. QED
            BY <3>1, <3>2, <3>3, LinePreserves DEF AfterStop
    <2>8. CASE Cleanup(t)
        <3>1. /\ stopping' = stopping /\ written' = [written EXCEPT ![t] = Append(@, Outcome(t))]
              /\ Outcome(t) \in LineTypes /\ Outcome(t) # "turn_stopping"
              /\ stopping[t] => Outcome(t) \in AfterStop
            BY <2>8 DEF Cleanup, Finish, Write, Outcome, LineTypes, Terminals, AfterStop
        <3>2. QED
            BY <3>1, LinePreserves
    <2>9. CASE \/ Resume(t) \/ Spawn(t) \/ SpawnFails(t) \/ HandlerRetries(t) \/ HandlerReturns(t)
               \/ ProcessExits(t) \/ KillReturns(t)
               \/ \E type \in {"done", "error"} : EmitTerminal(t, type)
        BY <1>1, <2>9 DEF Resume, Spawn, SpawnFails, HandlerRetries, HandlerReturns, ProcessExits,
                          KillReturns, EmitTerminal, RecordTerminal, lifecycleVars, turnVars
    <2>10. QED
        BY <2>1, <2>2, <2>3, <2>4, <2>5, <2>6, <2>7, <2>8, <2>9 DEF Stdin, TurnStep
<1>4. QED
    BY <1>2, <1>3

(* Once a stop is announced the app reads nothing of the turn but warnings,
   refusals of further stops and its end as a stopped turn. *)
THEOREM StoppedTurnsAreSilent == SidecarSpec => []SilentAfterStop
<1>1. SidecarInit => Quiet
    BY DEF SidecarInit, Quiet, SilentAfterStop, Announced
<1>2. SidecarSpec => []Quiet
    BY <1>1, QuietNext, UntoldInvariance, PTL DEF SidecarSpec
<1>3. Quiet => SilentAfterStop
    BY DEF Quiet
<1>4. QED
    BY <1>2, <1>3, PTL
-----------------------------------------------------------------------------
(* What became of a turn that ended: its leases are back, and a kill that is
   under way concerns a turn that is still being handled. *)
Settled ==
    \A t \in Turns :
        /\ pc[t] = "ended" => promise[t] = "released"
        /\ t \in killing => pc[t] \in {"handling", "running", "cleanup"}

ToldOnce ==
    \A t \in Turns : \A i, j \in TerminalLines(t) : i = j

LEMMA SettledNext == SidecarInv /\ Settled /\ [SidecarNext]_sidecarVars => Settled'
<1> SUFFICES ASSUME SidecarInv, Settled, [SidecarNext]_sidecarVars PROVE Settled'
    OBVIOUS
<1>0. /\ LeaseTypeOK /\ pc \in [Turns -> Places]
      /\ \A u \in Turns : Placed(u) /\ Guarded(u)
    BY DEF SidecarInv, LeaseInv, Typed, Consistent
<1>1. CASE UNCHANGED sidecarVars
    BY <1>1 DEF sidecarVars, leaseVars, turnVars, Settled
<1>2. CASE SidecarNext
    <2>1. PICK t \in Turns : Stdin(t) \/ TurnStep(t)
        BY <1>2 DEF SidecarNext
    <2>2. CASE \E c \in Conversations : Refuse(t, c)
        BY <1>0, <2>2 DEF Refuse, Goto, leaseVars, Settled
    <2>3. CASE \E c \in Conversations, ks \in KeySets : Dispatch(t, c, ks)
        <3>1. /\ pc[t] = "idle" /\ pc' = [pc EXCEPT ![t] = "leasing"] /\ killing' = killing
              /\ \E ks \in KeySets : Acquire(t, ks)
            BY <2>3 DEF Dispatch, Goto
        <3>2. \A u \in Turns \ {t} : promise[u] = "released" => promise'[u] = "released"
            BY <1>0, <3>1, AcquireEffect
        <3>3. QED
            BY <1>0, <3>1, <3>2 DEF Settled
    <2>4. CASE StopTurn(t)
        <3>1. /\ Live(t) /\ Cancel(t) /\ pc' = pc
              /\ killing' = IF proc[t] = "alive" THEN killing \cup {t} ELSE killing
            BY <2>4 DEF StopTurn, MarkStopping
        <3>2. pc[t] \in {"leasing", "handling", "running", "cleanup"}
            BY <1>0, <3>1 DEF Live, Placed
        <3>3. \A u \in Turns \ {t} : promise[u] = "released" => promise'[u] = "released"
            BY <1>0, <3>1, CancelEffect
        <3>4. proc[t] = "alive" => pc[t] = "running"
            BY <1>0 DEF Guarded
        <3>5. QED
            BY <3>1, <3>2, <3>3, <3>4 DEF Settled
    <2>5. CASE Cleanup(t)
        <3>1. /\ t \notin killing /\ killing' = killing /\ Release(t)
              /\ pc' = [pc EXCEPT ![t] = "ended"]
            BY <2>5 DEF Cleanup, Goto
        <3>2. /\ promise'[t] = "released"
              /\ \A u \in Turns \ {t} : promise[u] = "released" => promise'[u] = "released"
            BY <1>0, <3>1, ReleaseEffect
        <3>3. QED
            BY <1>0, <3>1, <3>2 DEF Settled
    <2>6. CASE RejectStop(t) \/ EmitOutput(t) \/ ProcessExits(t) \/ KillReturns(t) \/ KillFails(t)
               \/ \E type \in {"done", "error"} : EmitTerminal(t, type)
        BY <2>6 DEF RejectStop, EmitOutput, ProcessExits, KillReturns, KillFails, EmitTerminal,
                    leaseVars, turnVars, Settled
    <2>7. CASE Resume(t) \/ Spawn(t) \/ SpawnFails(t) \/ HandlerRetries(t) \/ HandlerReturns(t)
        <3>1. /\ promise' = promise /\ killing' = killing
              /\ \/ pc[t] = "leasing" /\ \E p \in {"handling", "cleanup"} : pc' = [pc EXCEPT ![t] = p]
                 \/ \E p \in {"handling", "running", "cleanup"} : pc' = [pc EXCEPT ![t] = p]
            BY <2>7 DEF Resume, Spawn, SpawnFails, HandlerRetries, HandlerReturns, Goto, leaseVars
        <3>2. QED
            BY <1>0, <3>1 DEF Settled
    <2>8. QED
        BY <2>1, <2>2, <2>3, <2>4, <2>5, <2>6, <2>7 DEF Stdin, TurnStep
<1>3. QED
    BY <1>1, <1>2

(* A line more keeps the end of a turn told once, unless it tells it again. *)
LEMMA LineToldOnce ==
    ASSUME Untold, ToldOnce, NEW t \in Turns, NEW line \in LineTypes,
           written' = [written EXCEPT ![t] = Append(@, line)],
           line \in Terminals => pc[t] \notin {"refused", "ended"}
    PROVE  ToldOnce'
<1>1. /\ written[t] \in Seq(LineTypes)
      /\ written'[t] = Append(written[t], line)
      /\ \A u \in Turns \ {t} : written'[u] = written[u]
    BY DEF Untold
<1>2. /\ DOMAIN Append(written[t], line) = DOMAIN written[t] \cup {Len(written[t]) + 1}
      /\ \A i \in DOMAIN written[t] : Append(written[t], line)[i] = written[t][i]
      /\ Append(written[t], line)[Len(written[t]) + 1] = line
    BY <1>1
<1>3. ASSUME NEW u \in Turns, u # t, NEW i \in TerminalLines(u)', NEW j \in TerminalLines(u)'
      PROVE  i = j
    BY <1>1, <1>3 DEF ToldOnce, TerminalLines
<1>4. ASSUME NEW i \in TerminalLines(t)', NEW j \in TerminalLines(t)'
      PROVE  i = j
    <2>1. CASE line \in Terminals
        <3>1. \A k \in DOMAIN written[t] : written[t][k] \notin Terminals
            BY <2>1 DEF Untold
        <3>2. TerminalLines(t)' \subseteq {Len(written[t]) + 1}
            BY <1>1, <1>2, <3>1 DEF TerminalLines
        <3>3. QED
            BY <1>4, <3>2
    <2>2. CASE line \notin Terminals
        <3>1. TerminalLines(t)' \subseteq TerminalLines(t)
            BY <1>1, <1>2, <2>2 DEF TerminalLines
        <3>2. QED
            BY <1>4, <3>1 DEF ToldOnce
    <2>3. QED
        BY <2>1, <2>2
<1>5. QED
    BY <1>3, <1>4 DEF ToldOnce

LEMMA ToldOnceNext ==
    SidecarInv /\ Untold /\ ToldOnce /\ [SidecarNext]_sidecarVars => ToldOnce'
<1> SUFFICES ASSUME SidecarInv, Untold, ToldOnce, [SidecarNext]_sidecarVars PROVE ToldOnce'
    OBVIOUS
<1>0. Untold' /\ pc \in [Turns -> Places] /\ \A u \in Turns : Placed(u) /\ Guarded(u)
    BY UntoldNext DEF SidecarInv, Typed, Consistent
<1>1. CASE written' = written
    BY <1>1 DEF ToldOnce, TerminalLines
<1>2. CASE UNCHANGED sidecarVars
    BY <1>1, <1>2 DEF sidecarVars, turnVars
<1>3. CASE SidecarNext
    <2>1. PICK t \in Turns : Stdin(t) \/ TurnStep(t)
        BY <1>3 DEF SidecarNext
    <2>2. CASE (\E c \in Conversations : Refuse(t, c)) \/ Cleanup(t)
        <3>1. PICK line \in Terminals : written' = [written EXCEPT ![t] = Append(@, line)]
            BY <2>2 DEF Refuse, Cleanup, Write, Outcome, Terminals
        <3>2. pc[t] \notin {"refused", "ended"}
            BY <2>2 DEF Refuse, Cleanup
        <3>3. QED
            BY <3>1, <3>2, LineToldOnce DEF LineTypes
    <2>3. CASE \E c \in Conversations, ks \in KeySets : Dispatch(t, c, ks)
        <3>1. /\ pc'[t] = "leasing"
              /\ \A u \in Turns \ {t} : written'[u] = written[u]
            BY <1>0, <2>3 DEF Dispatch, Goto, Untold
        <3>2. \A i \in DOMAIN written'[t] : written'[t][i] \notin Terminals
            BY <1>0, <3>1 DEF Untold
        <3>3. QED
            BY <3>1, <3>2 DEF ToldOnce, TerminalLines
    <2>4. CASE RejectStop(t) \/ StopTurn(t) \/ EmitOutput(t) \/ KillFails(t)
        <3>1. PICK line \in LineTypes \ Terminals : written' = [written EXCEPT ![t] = Append(@, line)]
            BY <2>4 DEF RejectStop, StopTurn, EmitOutput, KillFails, Write, LineTypes, Terminals
        <3>2. QED
            BY <3>1, LineToldOnce
    <2>5. CASE \/ Resume(t) \/ Spawn(t) \/ SpawnFails(t) \/ HandlerRetries(t) \/ HandlerReturns(t)
               \/ ProcessExits(t) \/ KillReturns(t)
               \/ \E type \in {"done", "error"} : EmitTerminal(t, type)
        BY <1>1, <2>5 DEF Resume, Spawn, SpawnFails, HandlerRetries, HandlerReturns, ProcessExits,
                          KillReturns, EmitTerminal, turnVars
    <2>6. QED
        BY <2>1, <2>2, <2>3, <2>4, <2>5 DEF Stdin, TurnStep
<1>4. QED
    BY <1>2, <1>3

(* The app unlocks a conversation on the terminal line of its turn: that line
   is written once, and by then the turn has no process, no kill under way, no
   lease and no entry. *)
THEOREM EndsAreToldOnce == SidecarSpec => []TerminalMeansOver
<1>1. SidecarInit => Settled /\ ToldOnce
    BY DEF SidecarInit, Settled, ToldOnce, TerminalLines
<1>2. SidecarSpec => [](SidecarInv /\ Untold /\ Settled /\ ToldOnce)
    BY <1>1, SettledNext, ToldOnceNext, UntoldInvariance, PTL DEF SidecarSpec
<1>3. SidecarInv /\ Untold /\ Settled /\ ToldOnce => TerminalMeansOver
    <2> SUFFICES ASSUME SidecarInv, Untold, Settled, ToldOnce PROVE TerminalMeansOver
        OBVIOUS
    <2>1. ASSUME NEW t \in Turns, NEW i \in TerminalLines(t)
          PROVE  /\ Cardinality(TerminalLines(t)) = 1
                 /\ ~Live(t) /\ proc[t] # "alive" /\ t \notin killing
                 /\ t \notin active /\ t \notin waiting
        <3>1. TerminalLines(t) = {i}
            BY <2>1 DEF ToldOnce
        <3>2. Cardinality({i}) = 1
            BY FS_Singleton
        <3>3. pc[t] \in {"refused", "ended"}
            BY <2>1 DEF TerminalLines, Untold
        <3>4. ~Live(t) /\ proc[t] # "alive" /\ t \notin killing
            BY <3>3 DEF SidecarInv, Consistent, Placed, Guarded, Settled, Live
        <3>5. promise[t] \in {"none", "released"}
            BY <3>3 DEF SidecarInv, Consistent, Placed, Settled
        <3>6. t \notin active /\ t \notin waiting
            BY <3>5 DEF SidecarInv, LeaseInv, LeaseTypeOK
        <3>7. QED
            BY <3>1, <3>2, <3>4, <3>6
    <2>2. QED
        BY <2>1 DEF TerminalMeansOver
<1>4. QED
    BY <1>2, <1>3, PTL
==============================================================================
