SPECIFICATION RefreshSpec
CONSTANTS
    peer = peer
    Peers <- MCPeers
    Delays = {0, 1}
    Lifetimes = {2, 7}
    GlobalUpdateInterval = 2
    MaintenanceInterval = 3
    PreExpiryAdvance = 6
    MinRequestHold = 1
    MaxRequestHold = 5
    MaxTime = 12
    MaxAttempts = 1
    MaxRestarts = 1
INVARIANTS
    RefreshTypeOK
    OneInFlight
PROPERTY
    LossTolerance
CHECK_DEADLOCK FALSE
