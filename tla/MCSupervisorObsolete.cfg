SPECIFICATION SupervisorSpec
CONSTANTS
    MaxAttempts = 1
    MaxSpawns = 3
    MaxReloads = 1
    MaxDeaths = 0
    MaxFaults = 0
PROPERTIES
    NoRespawnOverLive
CHECK_DEADLOCK FALSE
