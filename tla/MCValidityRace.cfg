CONSTANTS
    XStampInfinity = 9
    MaxXid = 2
    MaxTuples = 2
SPECIFICATION Spec
INVARIANT
    ValidityTrueToItsEnd
