SPECIFICATION Spec
CONSTANTS
    c1 = c1
    c2 = c2
    s1 = s1
    s2 = s2
    Clients = {c1, c2}
    Servers = {s1, s2}
    Types = {"get"}
    Stoppable = {s1}
    MaxRequests = 2
    MaxDepth = 2
    HWM = 1
INVARIANTS TypeOK Correlated AtMostOnce NoUnrequestedReply
PROPERTY ImplementsContract
SYMMETRY Symmetry
