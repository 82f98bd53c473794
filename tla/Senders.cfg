SPECIFICATION FairSpec
CONSTANTS
    p1 = p1
    s1 = s1
    m1 = m1
    m2 = m2
    c1 = c1
    c2 = c2
    none = none
    None = none
    Hostname = "here"
    UserName = "user"
    AppName = "app"
    Env <- SomeEnv
    Publishers = {p1}
    Servers = {s1}
    Monitors = {m1, m2}
    Peers = {c1, c2}
    Arguments <- SomeArguments
    Ports = {7, 8}
    MaxCreated = 4
    MaxConnects = 2
INVARIANTS  EveryConnectionNotified AnnouncedReachable
PROPERTIES WaitsOnlyForMonitors EventuallyNotified
CHECK_DEADLOCK FALSE
