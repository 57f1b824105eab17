CONSTANTS
    c = c
    d = d
    Columns = {c, d}
    Vals = {1, 2}
    NoIndex = NoIndex
    NoResult = NoResult
    Schemas <- MCSchemas
SPECIFICATION Spec
INVARIANT CurrentUnlessUntold
CHECK_DEADLOCK FALSE
