SPECIFICATION PollingFairSpec
CONSTANTS
    l1 = l1
    l2 = l2
    Loops <- MCLoops
    MaxRecords = 3
    LastUpdate = 5
    Foreign = {2}
    Batch = 2
    MaxCrashes = 1
    MaxChanges = 1
    MaxFaults = 2
INVARIANTS
    AtMostOnce
    NothingSkipped
PROPERTIES
    EveryUpdateSettles
CHECK_DEADLOCK FALSE
