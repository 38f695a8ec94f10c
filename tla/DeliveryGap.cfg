SPECIFICATION HistorySpec
CONSTANTS
    r1 = r1
    u1 = u1
    Nobody = Nobody
    NoKey = NoKey
    NoCursor = NoCursor
    Users <- OneUser
    Keys <- NoKeys
    Readers <- OneReader
    MaxSeq = 3
    PageSize = 2
    Limit = 2
INVARIANT
    NothingIsMissed
