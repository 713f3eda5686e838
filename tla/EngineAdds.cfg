SPECIFICATION Spec
CONSTANTS
    h1 = h1
    h2 = h2
    h3 = h3
    Hosts = {h1, h2}
    Ports = {1, 2}
    Base <- FirstPort
    Added <- OtherPorts
    TracksPorts = FALSE
    MayBlock = TRUE
    NSockets = 1
    MaxFds = 2
    TimeoutOf <- OneTimeout
    WatchTimeout = 0
    EnsureN = 1
    MaxEvents = 1
    SyncErrors = TRUE
    DirtyMayEnd = FALSE
    MaxAge = 1
    MaxBudget = 2
    UsesReconnect = FALSE
    NoTarget = NoTarget
    NoSM = NoSM
    NoHost = NoHost
    Garbage = Garbage
SYMMETRY Symmetry
INVARIANT Conservation
INVARIANT Accounting
PROPERTY ScanImplemented
