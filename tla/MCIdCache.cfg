SPECIFICATION Spec
CONSTANTS
    hello1 = hello1
    hello2 = hello2
    Key <- MCKey
    Lifetimes = {0, 1, 3}
    MaxTime = 7
INVARIANTS
    TypeOK
PROPERTIES
    NoEarlyReaccept
    ImplementsDupFilter
