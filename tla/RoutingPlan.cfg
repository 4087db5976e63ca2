CONSTANTS
    Conveyors = {1, 2, 3, 4}
    Configured = {{1, 2, 3, 4}, {1, 2, 3}, {2, 3}}
    Layouts <- AllLayouts
SPECIFICATION LiveSpec
INVARIANTS
    TypeOK
    ReturnsRoute
    GivesUpOnlyWhenUnreachable
    ReturnsShortest
    ThrowsOnlyAtUnknown
PROPERTY SearchEnds
CHECK_DEADLOCK FALSE
