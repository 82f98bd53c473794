SPECIFICATION FairSpec
CONSTANTS
    c1 = c1
    c2 = c2
    b1 = b1
    b2 = b2
    none = none
    None = none
    Callers = {c1, c2}
    Brokers = {b1, b2}
    Throwing = {b2}
    Ports = {1, 2}
    NamedPort = 1
    NoPort = 0
    MaxCalls = 2
    MaxCreated = 2
INVARIANT CallInv
PROPERTY CallsReturn
CHECK_DEADLOCK FALSE
