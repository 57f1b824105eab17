CONSTANTS
    c = c
    d = d
    Columns = {c, d}
    Vals = {1, 2}
    NoIndex = NoIndex
    NoResult = NoResult
    Schemas <- MCOneIndex
SPECIFICATION Spec
INVARIANT CurrentUnlessInvalidated
CHECK_DEADLOCK FALSE
