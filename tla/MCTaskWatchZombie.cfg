SPECIFICATION TaskWatchFairSpec
CONSTANTS
    w1 = w1
    w2 = w2
    c1 = c1
    NoOne = NoOne
    Composer = Composer
    Watches <- MCWatches
    Conversations <- OneConversation
    ConvOf <- Shared
    Slots = 2
    MaxAttempts = 2
    Trials <- OneDeath
PROPERTIES
    ZombieIsReleased
CHECK_DEADLOCK FALSE
