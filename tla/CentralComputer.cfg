CONSTANTS
    r1 = r1
    r2 = r2
    b1 = b1
    none = none
    NoBoxId = none
    PackageId = {r1, r2}
    BoxId = {b1}
    DESTINATION_BOX_SIZE = 1
    ConveyorId <- MCConveyorId
    KeyRank <- MCKeyRank
    BoxLocations = {2, 4}
    Configurations <- MCConfigurations
    ColourOf <- RedAndNone
    ClientReusesIds = TRUE
    Requests <- MCRequests
    MaxRequests = 4
SPECIFICATION CentralLiveSpec
INVARIANTS
    AnswersInOrder
    PlantWithinCapacity
    DrainedPlantMatchesBooks
PROPERTIES
    PackageFindsBox
    EveryRequestAnswered
    PromisedPackageEnters
CHECK_DEADLOCK FALSE
