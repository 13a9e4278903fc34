SPECIFICATION LeaseFairSpec
CONSTANTS
    r1 = r1
    r2 = r2
    r3 = r3
    s1 = s1
    proj = proj
    Proj = Proj
    sub = sub
    Turns <- MCTurns
    Sessions <- MCSessions
    Folders <- MCFolders
    Lower <- MCLower
INVARIANTS
    NothingShared
PROPERTIES
    NoOvertaking
    EveryWaiterSettles
CHECK_DEADLOCK FALSE
