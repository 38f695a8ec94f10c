SPECIFICATION SessionSpec
CONSTANTS
    s1 = s1
    s2 = s2
    Sockets <- TwoSockets
    Served <- OneSocket
    Limit = 1
    Window = 3
    MaxDelay = 1
    MaxTime = 5
    MaxFrames = 1
    AuthTimeout = 1
    TokenLife = 2
INVARIANTS
    SessionTypeOK
    QuotaHolds
    NoEarlyRefusal
    OneAnswerPerFrame
PROPERTY
    GoneIsLeft
