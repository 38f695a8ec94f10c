SPECIFICATION AccountsSpec
CONSTANTS
    q1 = q1
    q2 = q2
    t1 = t1
    t2 = t2
    t3 = t3
    p1 = p1
    p2 = p2
    lower = lower
    upper = upper
    other = other
    wrong = wrong
    w1 = w1
    w2 = w2
    NoToken = NoToken
    Malformed = Malformed
    Requests <- TwoRequests
    Tokens <- ThreeTokens
    SignUps <- TwoSignUps
    Passwords <- TwoPasswords
    Spellings <- FourSpellings
    EmailOf <- SpelledTwice
    TTL = 2
    MaxTime = 4
SYMMETRY Symmetry
INVARIANTS
    CreatedOwnsItsEmail
    SpentTokenIsRefused
    SuccessorReplacesParent
