---------------------------- MODULE TurnContract ----------------------------
(***************************************************************************)
(* What the sidecar promises about root turns, without queues, leases,     *)
(* flags or kills: a conversation has at most one turn under way; two      *)
(* turns that need the same folder or session never execute together; a    *)
(* turn that was asked to stop does not start executing again and is       *)
(* reported as stopped; a turn is reported once, after its last execution. *)
(***************************************************************************)
EXTENDS ConversationIds

CONSTANTS Needs,             \* what a turn may ask for
          Compatible(_, _)   \* needs that may be in use at the same time

VARIABLES phase, conv, needs, asked

contractVars == <<phase, conv, needs, asked>>

UnderWay == {"accepted", "executing"}
Reported == {"completed", "failed", "stopped"}

ContractInit ==
    /\ phase = [t \in Turns |-> "new"]
    /\ conv = [t \in Turns |-> NoConv]
    /\ needs = [t \in Turns |-> {}]
    /\ asked = [t \in Turns |-> FALSE]

Becomes(t, p) == phase' = [phase EXCEPT ![t] = p]

AcceptTurn(t, c, n) ==
    /\ phase[t] = "new"
    /\ \A u \in Turns : phase[u] \in UnderWay => conv[u] # c
    /\ Becomes(t, "accepted")
    /\ conv' = [conv EXCEPT ![t] = c]
    /\ needs' = [needs EXCEPT ![t] = n]
    /\ UNCHANGED asked

RefuseTurn(t) ==
    /\ phase[t] = "new"
    /\ Becomes(t, "refused")
    /\ UNCHANGED <<conv, needs, asked>>

AskStop(t) ==
    /\ phase[t] \in UnderWay
    /\ asked' = [asked EXCEPT ![t] = TRUE]
    /\ UNCHANGED <<phase, conv, needs>>

Execute(t) ==
    /\ phase[t] = "accepted" /\ ~asked[t]
    /\ \A u \in Turns : phase[u] = "executing" => Compatible(needs[t], needs[u])
    /\ Becomes(t, "executing")
    /\ UNCHANGED <<conv, needs, asked>>

Cease(t) ==
    /\ phase[t] = "executing"
    /\ Becomes(t, "accepted")
    /\ UNCHANGED <<conv, needs, asked>>

Report(t) ==
    /\ phase[t] = "accepted"
    /\ \E p \in Reported : (p = "stopped" <=> asked[t]) /\ Becomes(t, p)
    /\ UNCHANGED <<conv, needs, asked>>

ContractNext ==
    \E t \in Turns :
        \/ \E c \in Conversations, n \in Needs : AcceptTurn(t, c, n)
        \/ RefuseTurn(t) \/ AskStop(t) \/ Execute(t) \/ Cease(t) \/ Report(t)

ContractSpec == ContractInit /\ [][ContractNext]_contractVars
=============================================================================
