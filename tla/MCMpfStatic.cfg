SPECIFICATION StaticSpec
CONSTANTS
    Nodes <- MCNodes
    MaxAddress = 5
    AngleScale = 4
    Layouts <- MCLayouts
    Errors <- NoError
    Range2 <- MCRange2
    InitialTtl = 5
    MaxPackets = 1
    MaxTableEvents = 0
INVARIANT
    BestWithinTolerance
PROPERTIES
    FirstPacketArrives
CHECK_DEADLOCK FALSE
