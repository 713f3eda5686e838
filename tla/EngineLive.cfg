SPECIFICATION FairSpec
CONSTANTS
    h1 = h1
    h2 = h2
    h3 = h3
    Hosts = {h1, h2}
    Ports = {1}
    Base <- AllTargets
    Added <- NoTargets
    TracksPorts = FALSE
    MayBlock = TRUE
    NSockets = 2
    MaxFds = 2
    TimeoutOf <- OneTimeout
    WatchTimeout = 0
    EnsureN = 0
    MaxEvents = 2
    SyncErrors = TRUE
    DirtyMayEnd = FALSE
    MaxAge = 1
    MaxBudget = 2
    UsesReconnect = TRUE
    NoTarget = NoTarget
    NoSM = NoSM
    NoHost = NoHost
    Garbage = Garbage
PROPERTY Termination
