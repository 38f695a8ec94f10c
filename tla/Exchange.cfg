SPECIFICATION FairSpec
CONSTANTS
    h1 = h1
    h2 = h2
    u1 = u1
    Nobody = Nobody
    NoKey = NoKey
    Handlers <- TwoHandlers
    Users <- OneUser
    UserOf <- SameUser
    Keys = {k1}
    MaxSeq = 3
INVARIANTS
    TypeOK
    MessagesAreUnique
    FeedIsCommitted
    AnswerFollowsQuestion
    AckIsDurable
    BarredSendStopsAtCheck
PROPERTIES
    ImplementsLog
    SendEnds
