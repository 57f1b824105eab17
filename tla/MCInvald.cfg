CONSTANTS
    b1 = b1
    b2 = b2
    t1 = t1
    t2 = t2
    n1 = n1
    Backends = {b1, b2}
    Tags = {t1, t2}
    TagSets = {{}, {t1, t2}}
    NullTag = NullTag
    Nobody = Nobody
    Nodes = {n1}
    MAX_PENDING_INVALIDATIONS = 3
    MaxXStamp = 4
    MaxInbox = 1
SPECIFICATION FairSpec
INVARIANTS
    TypeOK
    NoticesWhole
    NoticesInOrder
    NoGaps
    NoLostWakeup
PROPERTY
    ChangesDelivered
CHECK_DEADLOCK FALSE
