SPECIFICATION SupervisorFairSpec
CONSTANTS
    MaxAttempts = 1
    MaxSpawns = 3
    MaxReloads = 1
    MaxDeaths = 2
    MaxFaults = 1
INVARIANTS
    SpawnsExclude
    NoOrphanSidecar
    ChannelNamesChild
PROPERTIES
    ServiceReturns
CHECK_DEADLOCK FALSE
