CONSTANTS
    a = a
    b = b
    k = k
    k2 = k2
    PIN_INF = 9
    Keys = {k}
    Values = {b}
    MaxBytes = 7
    KeyBytes = 1
    ElemBytes = 1
    DataBytes <- MCDataBytes
    UselessBound = 0
    INVAL_BUFFER_TIME = 1
    TagsOf <- MCTagsOf
    Notices <- MCNoticesLate
    Memcached = FALSE
    MaxPin = 4
    MaxClock = 1
SPECIFICATION Spec
INVARIANTS
    LatePutsCaught
PROPERTIES
    ExpiryRemembered
CHECK_DEADLOCK FALSE
