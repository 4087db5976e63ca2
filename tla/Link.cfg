CONSTANTS
    ConveyorId <- MCConveyorId
    BoxAt <- MCBoxAt
    PlainId = {"ROUTING_PLAN"}
    Counts = {0}
    TIMESTAMP_MOD = 256
    MaxSubmits = 3
    MaxUplink = 1
    MaxArrivals = 1
    MaxBusy = 1
SPECIFICATION LiveSpec
INVARIANTS
    TypeOK
    OneExchange
    RetransmissionArmed
PROPERTIES
    RepeatsShareTimestamp
    ReleasedWasReceived
    ClearAnswersItsBox
    ImplementsStopAndWait
    EveryCommandExecuted
CHECK_DEADLOCK FALSE
