SPECIFICATION Spec
CONSTANTS
    c1 = c1
    c2 = c2
    c3 = c3
    v1 = v1
    v2 = v2
    Connections <- ThreeSockets
    Conversations <- TwoConversations
    ConvOf <- OneApart
    MaxPublish = 2
    MaxOutages = 2
SYMMETRY Symmetry
INVARIANTS
    TypeOK
    LiveSocketIsSubscribed
    HealthyHearsEveryChannel
    OwedIsOnItsWay
PROPERTY
    ImplementsFeed
