---------------------------- MODULE UpdateLedger ----------------------------
(***************************************************************************)
(* The ledger of Telegram updates (src/telegramUpdateLedger.ts): a map in  *)
(* insertion order from update ids to what is known of them.  Here it is a *)
(* sequence of rows, so that the ledger in memory and the one in storage   *)
(* are values of the same kind.  Chat, text and time are left out.         *)
(***************************************************************************)
EXTENDS Filters

CONSTANT MaxRecords    \* rows it keeps (256)

ASSUME MaxRecordsAssumption == MaxRecords \in Nat \ {0}

RowStates == {"processing", "completed", "uncertain"}
Rows(Ids) == [id : Ids, state : RowStates, told : BOOLEAN]
Row(u, state) == [id |-> u, state |-> state, told |-> FALSE]

Has(ledger, u) == \E i \in DOMAIN ledger : ledger[i].id = u

StateOf(ledger, u) ==
    IF Has(ledger, u) THEN ledger[CHOOSE i \in DOMAIN ledger : ledger[i].id = u].state
                      ELSE "none"

(* The oldest completed rows go, as many as are above the limit. *)
Trim(ledger, active, limit) ==
    LET done == {i \in DOMAIN ledger : ledger[i].state = "completed" /\ ledger[i].id \notin active}
        old == {i \in done : Cardinality({j \in done : j < i}) + limit < Len(ledger)}
    IN Kept(ledger, DOMAIN ledger \ old)

Marked(ledger, u, state) ==
    [i \in DOMAIN ledger |-> IF ledger[i].id = u THEN Row(u, state) ELSE ledger[i]]

MadeRoom(ledger, active) == Trim(ledger, active, MaxRecords - 1)
Full(ledger, active) == Len(MadeRoom(ledger, active)) >= MaxRecords

Claimed(ledger, active, u) == Append(MadeRoom(ledger, active), Row(u, "processing"))

Cancelled(ledger, u) == Kept(ledger, {i \in DOMAIN ledger : ledger[i].id # u})

Completed(ledger, active, u) ==
    Trim(Marked(ledger, u, "completed"), active \ {u}, MaxRecords)

MadeUncertain(ledger, u) == Marked(ledger, u, "uncertain")

NeedsNotice(ledger, u) ==
    \E i \in DOMAIN ledger :
        ledger[i].id = u /\ ledger[i].state = "uncertain" /\ ~ledger[i].told

NoticeSent(ledger, u) ==
    [i \in DOMAIN ledger |->
        IF ledger[i].id = u /\ ledger[i].state = "uncertain"
        THEN [ledger[i] EXCEPT !.told = TRUE] ELSE ledger[i]]

(* Deliberately wrong: an update that was being processed is processed again. *)
RestoredFresh(stored) == Kept(stored, {i \in DOMAIN stored : stored[i].state # "processing"})

(* Read from storage by a new instance of the app: what was being processed
   may or may not have been executed. *)
Restored(stored) ==
    Trim([i \in DOMAIN stored |-> IF stored[i].state = "processing"
                                  THEN Row(stored[i].id, "uncertain") ELSE stored[i]],
         {}, MaxRecords)
=============================================================================
