SPECIFICATION FairSpec
CONSTANTS
    h1 = h1
    h2 = h2
    NoPin = NoPin
    Hosts = {h1, h2}
    MAX_PINS = 3
    maxStaleness = 1
    Freshness = {1, 2}
    BusyDB = TRUE
    Flushes = FALSE
    MaxPin = 3
    MaxTime = 4
INVARIANT NothingLeaks
PROPERTIES KeepsLease QueuedUnpinsHappen
CHECK_DEADLOCK FALSE
