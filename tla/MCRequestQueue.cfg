SPECIFICATION Spec
CONSTANTS
    Uids <- MCUids
    Dsts <- MCDsts
    MaxLens = {1, 2}
    Timeouts = {0, 1}
    MaxTime = 2
    MaxAccepted = 3
INVARIANTS
    TypeOK
    OneFate
    InOrder
    NeverHandedLate
PROPERTIES
    OldestMakesRoom
CHECK_DEADLOCK FALSE
