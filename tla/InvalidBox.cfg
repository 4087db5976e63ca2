CONSTANTS
    r1 = r1
    r2 = r2
    g1 = g1
    b1 = b1
    b2 = b2
    none = none
    NoBoxId = none
    PackageId = {r1, r2, g1}
    BoxId = {b1, b2}
    DESTINATION_BOX_SIZE = 1
    ConveyorId <- MCConveyorId
    KeyRank <- MCKeyRank
    BoxLocations = {1}
    Configurations <- JustPair
    ColourOf <- TwoRedOneGreen
    ClientReusesIds = FALSE
SPECIFICATION Spec
PROPERTY
    ClearTouchesOnlyItsBox
