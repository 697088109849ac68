SPECIFICATION Spec
CONSTANTS
    Nodes <- MCNodes
    Ifaces <- Radios
    Owner <- RadioOwner
    Hears <- RadioHears
    Placed <- MCNodes
    Originators <- MCNodes
    Pause = 1
    ZoneRadiusMid = 2
    ZoneRadiusHigh = 2
    Lifetime = 4
    MinDelay = 1
    MaxDelay = 1
    Delays = {1}
    Lossy = FALSE
    MaxMessages = 1
    MaxTime = 4
INVARIANT
    HellosCoverZone
CHECK_DEADLOCK FALSE
