SPECIFICATION HubFairSpec
CONSTANTS
    ordinary = ordinary
    second = second
    urgent = urgent
    k1 = k1
    k2 = k2
    Results = {ordinary, urgent}
    Urgent = {urgent}
    Ticks = {k1, k2}
    MaxCrashes = 1
    MaxRefusals = 1
    MaxLosses = 1
    MaxToggles = 1
PROPERTIES
    StoreKeepsUnsent
    OutboxArrives
    DigestArrives
CHECK_DEADLOCK FALSE
