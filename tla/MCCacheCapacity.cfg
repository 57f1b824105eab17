CONSTANTS
    a = a
    b = b
    k = k
    k2 = k2
    PIN_INF = 9
    Keys = {k, k2}
    Values = {a, b}
    MaxBytes = 9
    KeyBytes = 1
    ElemBytes = 1
    DataBytes <- MCDataBytes
    UselessBound = 0
    INVAL_BUFFER_TIME = 1
    TagsOf <- MCTagsOf
    Notices <- MCNoticesOneTable
    Memcached = TRUE
    MaxPin = 2
    MaxClock = 0
SPECIFICATION FairSpec
INVARIANTS
    TypeOK
    EntriesCorrect
    IndexExact
    AccountingExact
    WithinMaxBytes
PROPERTY
    ChangesReachEntries
CHECK_DEADLOCK FALSE
