SPECIFICATION SidecarFairSpec
CONSTANTS
    t1 = t1
    t2 = t2
    c1 = c1
    c2 = c2
    proj = proj
    sub = sub
    NoTurn = NoTurn
    NoConv = NoConv
    RetryReasons = {"stream"}
    MaxStops = 1
    Turns <- MCTurns
    Conversations <- MCConversations
    Sessions <- MCSessions
    Folders <- MCFolders
    Lower <- MCLower
INVARIANTS
    ExecutionIsCovered
    SilentAfterStop
    NothingShared
PROPERTIES
    ImplementsContract
    EveryTurnEnds
CHECK_DEADLOCK FALSE
