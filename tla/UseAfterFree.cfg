CONSTANTS
    ConveyorId <- MCConveyorId
    BoxAt <- MCBoxAt
    PlainId = {"ROUTING_PLAN"}
    Counts = {0}
    TIMESTAMP_MOD = 256
    MaxSubmits = 2
    MaxUplink = 1
    MaxArrivals = 0
    MaxBusy = 0
    ShortTrips = TRUE
SPECIFICATION Spec
INVARIANTS
    NoFault
CHECK_DEADLOCK FALSE
