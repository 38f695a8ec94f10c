SPECIFICATION ShutdownSpec
CHECK_DEADLOCK FALSE
CONSTANTS
    c1 = c1
    c2 = c2
    v1 = v1
    v2 = v2
    Connections <- TwoSockets
    Conversations <- OneConversation
    ConvOf <- AllInOne
    MayStall = {}
    MaxPublish = 0
    MaxOutages = 1
INVARIANT
    ShutdownIsComplete
