SPECIFICATION Spec
CONSTANTS
    Nodes <- MCNodes
    Ifaces <- Ends
    Owner <- EndOwner
    Hears <- EndHears
    Placed <- AllButTheSecond
    Originators <- TheFirst
    Pause = 3
    ZoneRadiusMid = 1
    ZoneRadiusHigh = 2
    Lifetime = 3
    MinDelay = 1
    MaxDelay = 2
    Delays = {1, 2}
    Lossy = TRUE
    MaxMessages = 2
    MaxTime = 6
INVARIANTS
    TypeOK
    OncePerNode
    HopCountSound
    FloodDies
PROPERTY
    OrderKeptBetweenFloods
CHECK_DEADLOCK FALSE
