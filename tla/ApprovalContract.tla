-------------------------- MODULE ApprovalContract --------------------------
(***************************************************************************)
(* What the answer to an approval request of an engine means, whoever      *)
(* gives it: it is given once, an acceptance only on somebody's consent to *)
(* this very request and only before its deadline.  One kind of acceptance *)
(* needs nobody: a request to confirm a read is granted if the call of the *)
(* tool that makes it already said so (docs/essential-approvals.md).       *)
(***************************************************************************)
CONSTANTS Requests,
          Repeated   \* requests that repeat what their own call confirmed

VARIABLES verdict,  \* verdict[r]: unasked, open, accepted, declined or void
          consent,  \* requests somebody consented to
          late      \* requests whose deadline has passed

contractVars == <<verdict, consent, late>>

ContractInit ==
    /\ verdict = [r \in Requests |-> "unasked"]
    /\ consent = {} /\ late = {}

Ask(r) ==
    /\ verdict[r] = "unasked"
    /\ verdict' = [verdict EXCEPT ![r] = "open"]
    /\ UNCHANGED <<consent, late>>

Consent(r) ==
    /\ verdict[r] # "unasked"
    /\ consent' = consent \cup {r}
    /\ UNCHANGED <<verdict, late>>

Expire(r) ==
    /\ verdict[r] # "unasked"
    /\ late' = late \cup {r}
    /\ UNCHANGED <<verdict, consent>>

Accept(r) ==
    /\ verdict[r] = "open" /\ r \in consent /\ r \notin late
    /\ verdict' = [verdict EXCEPT ![r] = "accepted"]
    /\ UNCHANGED <<consent, late>>

(* Nobody is asked, so nobody consents. *)
AcceptRepeated(r) ==
    /\ verdict[r] = "unasked" /\ r \in Repeated
    /\ verdict' = [verdict EXCEPT ![r] = "accepted"]
    /\ UNCHANGED <<consent, late>>

(* Several at once when their turn ends; void if nobody is left to be told. *)
Close ==
    \E R \in SUBSET Requests, v \in {"declined", "void"} :
        /\ \A r \in R : verdict[r] \in {"unasked", "open"}
        /\ verdict' = [r \in Requests |-> IF r \in R THEN v ELSE verdict[r]]
        /\ UNCHANGED <<consent, late>>

ContractNext ==
    \/ \E r \in Requests : Ask(r) \/ Consent(r) \/ Expire(r) \/ Accept(r) \/ AcceptRepeated(r)
    \/ Close

ContractSpec == ContractInit /\ [][ContractNext]_contractVars
=============================================================================
