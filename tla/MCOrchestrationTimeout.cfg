SPECIFICATION OrchestrationFairSpec
CONSTANTS
    Engines = {claude, codex}
    MaxStops = 0
    RetryReasons = {stream}
PROPERTIES
    TimedOutStaysDown
CHECK_DEADLOCK FALSE
