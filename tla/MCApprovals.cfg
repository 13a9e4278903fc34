SPECIFICATION ApprovalFairSpec
CONSTANTS
    r1 = r1
    r2 = r2
    t1 = t1
    k1 = k1
    k2 = k2
    Requests <- R2
    Turns = {t1}
    TurnOf <- TOne
    Elicitations = {r1}
    Calls = {k1, k2}
    Rereads = {r1}
    CallOf <- COne
    Confirmed = {k1}
    Essential = {t1}
    Bound = {r1, r2}
    Plain = {r1, r2}
    MaxPending = 1
    MaxIncidents = 1
INVARIANTS
    OneHand
PROPERTIES
    AnswersKeepContract
    StopEndsConsent
    EveryRequestSettles
CHECK_DEADLOCK FALSE
