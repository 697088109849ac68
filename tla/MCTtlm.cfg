SPECIFICATION Spec
CONSTANTS
    peer1 = peer1
    peer2 = peer2
    Peers <- MCPeers
    Lifetimes = {1, 4}
    GlobalUpdateInterval = 1
    MaintenanceInterval = 2
    PreExpiryAdvance = 2
    MinRequestHold = 3
    MaxRequestHold = 4
    MaxTime = 5
    MaxAttempts = 1
    MaxRestarts = 1
INVARIANTS
    TypeOK
    StaleBound
    OneRequestPerPass
PROPERTIES
    RefreshedBeforePurge
    RequestSpacing
SYMMETRY PeerSymmetry
CHECK_DEADLOCK FALSE
