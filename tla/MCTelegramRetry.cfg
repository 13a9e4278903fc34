SPECIFICATION TelegramFairSpec
CONSTANTS
    m1 = m1
    m2 = m2
    m3 = m3
    home = home
    work = work
    Unrouted = Unrouted
    Desk = Desk
    NoOne = NoOne
    Messages <- MCMessages
    Conversations <- MCConversations
    Home = home
    To <- MCTo
    QueueMax = 1
    MaxTries = 2
    MaxDrains = 2
    Budgets <- MCMissing
INVARIANTS
    RetryMayRun
CHECK_DEADLOCK FALSE
