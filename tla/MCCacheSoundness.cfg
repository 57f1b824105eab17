CONSTANTS
    a = a
    b = b
    k = k
    k2 = k2
    PIN_INF = 9
    Keys = {k}
    Values = {a, b}
    MaxBytes = 100
    KeyBytes = 1
    ElemBytes = 1
    DataBytes <- MCDataBytes
    UselessBound = 0
    INVAL_BUFFER_TIME = 1
    TagsOf <- MCTagsOf
    Notices <- MCNotices
    Memcached = FALSE
    MaxPin = 3
    MaxClock = 1
SPECIFICATION Spec
VIEW WithoutLRU
INVARIANTS
    EntriesCorrect
    RepliesTruthful
CHECK_DEADLOCK FALSE
