SPECIFICATION FairSpec
CONSTANTS
    c1 = c1
    c2 = c2
    s1 = s1
    s2 = s2
    Clients = {c1}
    Servers = {s1, s2}
    Types = {"get"}
    Stoppable = {}
    MaxRequests = 3
    MaxDepth = 2
    HWM = 1
PROPERTY EveryRequestAnswered
