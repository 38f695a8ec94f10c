SPECIFICATION ShutdownSpec
CHECK_DEADLOCK FALSE
CONSTANTS
    c1 = c1
    c2 = c2
    v1 = v1
    v2 = v2
    Connections <- TwoSockets
    Conversations <- TwoConversations
    ConvOf <- OneEach
    MayStall <- OnlyFirst
    MaxPublish = 1
    MaxOutages = 1
INVARIANTS
    DrainKeepsServing
    DrainLeavesOnlyLate
PROPERTIES
    JoinsAndLeavesEnd
    OwedIsSent
    SubscriptionIsRestored
    ShutdownEnds
