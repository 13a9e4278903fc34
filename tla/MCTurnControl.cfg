SPECIFICATION TurnControlSpec
CONSTANTS
    t1 = t1
    t2 = t2
    t3 = t3
    t4 = t4
    c1 = c1
    NoTurn = NoTurn
    NoConv = NoConv
    MaxStops = 1
    MaxFlushes = 0
    MaxRecoveries = 1
    MaxPresses = 2
    Faults = {"prepare", "invoke", "persist", "crash"}
    Turns <- ThreeTurns
    Typed <- TwoTurns
    Conversations <- MCConversations
    Needs <- MCNeeds
    Compatible <- MCCompatible
SYMMETRY Symmetry
INVARIANTS
    LockCoversExecution
    ExecutionIsJournalled
    NothingLost
PROPERTIES
    StopWins
    SteeringWaits
CHECK_DEADLOCK FALSE
