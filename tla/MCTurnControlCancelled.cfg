SPECIFICATION TurnControlSpec
CONSTANTS
    t1 = t1
    t2 = t2
    t3 = t3
    t4 = t4
    c1 = c1
    NoTurn = NoTurn
    NoConv = NoConv
    MaxStops = 0
    MaxFlushes = 0
    MaxRecoveries = 0
    MaxPresses = 3
    Faults = {}
    Turns <- ThreeTurns
    Typed <- ThreeTurns
    Conversations <- MCConversations
    Needs <- MCNeeds
    Compatible <- MCCompatible
SYMMETRY Symmetry
PROPERTIES
    CancelledIsNotSent
CHECK_DEADLOCK FALSE
