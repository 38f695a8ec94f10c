SPECIFICATION Spec
CONSTANTS
    q1 = q1
    q2 = q2
    owner = owner
    guest = guest
    t1 = t1
    t2 = t2
    Requests <- TwoRequests
    Users <- TwoUsers
    Owner = owner
    Titles <- TwoTitles
    MaxTime = 5
SYMMETRY Symmetry
INVARIANTS
    TypeOK
    OwnerIsParticipant
    DeletionIsLastChange
    ConflictNeedsOverlap
PROPERTY
    LostUpdateNeedsOverlap
