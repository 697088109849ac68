SPECIFICATION Spec
CONSTANTS
    Nodes <- MCNodes
    Ifaces <- Ends
    Owner <- EndOwner
    Hears <- EndHears
    Placed <- MCNodes
    Originators <- MCNodes
    Pause = 1
    ZoneRadiusMid = 2
    ZoneRadiusHigh = 3
    Lifetime = 8
    MinDelay = 1
    MaxDelay = 2
    Delays = {1, 2}
    Lossy = FALSE
    MaxMessages = 1
    MaxTime = 8
INVARIANTS
    HellosCover
    UpdatesCover
CHECK_DEADLOCK FALSE
