CONSTANTS
    x = x
    a = a
    b = b
    t = t
    Items = {x}
    Values = {a, b}
    Tags = {t}
    PIN_INF = 7
    MaxPin = 4
    MaxDepth = 2
    Modes = {"normal", "bypass"}
    TagsOf <- MCTagsOf
SPECIFICATION Spec
SYMMETRY Symmetry
VIEW View
INVARIANTS
    TypeOK
    
    StarMeansNothingRead
    
    
    PinsKept
    ChoiceInSet
 
CHECK_DEADLOCK FALSE
