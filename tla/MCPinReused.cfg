SPECIFICATION Spec
CONSTANTS
    h1 = h1
    h2 = h2
    NoPin = NoPin
    Hosts = {h1, h2}
    MAX_PINS = 3
    maxStaleness = 1
    Freshness = {1, 2}
    BusyDB = FALSE
    Flushes = FALSE
    MaxPin = 3
    MaxTime = 5
SYMMETRY Connections
VIEW LiveTable
INVARIANTS ReferencedPinsKept
CHECK_DEADLOCK FALSE
