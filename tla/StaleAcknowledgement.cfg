CONSTANTS
    ConveyorId <- MCConveyorId
    BoxAt <- MCBoxAt
    PlainId = {"ROUTING_PLAN"}
    Counts = {0}
    TIMESTAMP_MOD = 256
    MaxSubmits = 3
    MaxUplink = 1
    MaxArrivals = 0
    MaxBusy = 0
    ShortTrips = TRUE
SPECIFICATION Spec
PROPERTIES
    ReleasedWasReceived
CHECK_DEADLOCK FALSE
