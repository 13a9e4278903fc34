SPECIFICATION OrchestrationFairSpec
CONSTANTS
    Engines = {claude, codex}
    MaxStops = 2
    RetryReasons = {stream}
INVARIANTS
    OutcomeIsItsOwn
PROPERTIES
    FanOutKeepsContract
    OrchestrationEnds
CHECK_DEADLOCK FALSE
