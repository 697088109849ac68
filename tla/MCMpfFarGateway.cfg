SPECIFICATION Spec
CONSTANTS
    Nodes <- MCNodes
    MaxAddress = 3
    AngleScale = 4
    Layouts <- MCLayouts
    Errors <- NoError
    Range2 <- MCRange2
    InitialTtl = 4
    MaxPackets = 1
    MaxTableEvents = 3
INVARIANT
    GatewayIsNeighbour
CHECK_DEADLOCK FALSE
