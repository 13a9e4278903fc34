SPECIFICATION HubSpec
CONSTANTS
    ordinary = ordinary
    second = second
    urgent = urgent
    k1 = k1
    k2 = k2
    Results = {ordinary, urgent}
    Urgent = {urgent}
    Ticks = {k1}
    MaxCrashes = 0
    MaxRefusals = 1
    MaxLosses = 0
    MaxToggles = 0
INVARIANTS
    DeliveredOnce
CHECK_DEADLOCK FALSE
