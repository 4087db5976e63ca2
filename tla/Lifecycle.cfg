CONSTANTS
    c1 = c1
    Client = {c1}
    MaxMessages = 1
SPECIFICATION LiveSpec
INVARIANTS
    MainEndsLast
PROPERTIES
    
    EveryThreadEnds
CHECK_DEADLOCK FALSE
