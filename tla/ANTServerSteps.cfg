CONSTANTS
    ConveyorId <- MCConveyorId
    BoxAt <- MCBoxAt
    PlainId = {"ROUTING_PLAN"}
    Counts = {0}
    TIMESTAMP_MOD = 256
    MaxSubmits = 2
    MaxUplink = 1
    MaxArrivals = 1
    MaxBusy = 1
    ShortTrips = FALSE
SPECIFICATION LiveSpec
CONSTRAINT
    NotEarly
INVARIANTS
    NoEarlierFault
PROPERTIES
    ImplementsHandlers
    EveryCommandExecuted
CHECK_DEADLOCK FALSE
