SPECIFICATION TurnControlFairSpec
CONSTANTS
    t1 = t1
    t2 = t2
    t3 = t3
    t4 = t4
    c1 = c1
    NoTurn = NoTurn
    NoConv = NoConv
    MaxStops = 0
    MaxFlushes = 1
    MaxRecoveries = 1
    MaxPresses = 1
    Faults = {}
    Turns <- ThreeTurns
    Typed <- TwoTurns
    Conversations <- MCConversations
    Needs <- MCNeeds
    Compatible <- MCCompatible
PROPERTIES
    LockIsReleased
    SteeringSettles
CHECK_DEADLOCK FALSE
