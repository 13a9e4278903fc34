SPECIFICATION ResumptionFairSpec
CONSTANTS
    Turns = {t1, t2, t3}
    NoTurn = NoTurn
    Conversations = {c1}
    NoConv = NoConv
    MaxCrashes = 2
    MaxPresses = 1
    MaxTyped = 2
    JournalLimit = 2
PROPERTIES StopOutlivesRestart CarriedOnOnce InterruptedIsTakenUp
CHECK_DEADLOCK FALSE
