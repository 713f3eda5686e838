SPECIFICATION Spec
CONSTANTS
    h1 = h1
    h2 = h2
    h3 = h3
    Hosts = {h1, h2, h3}
    Ports = {1}
    Base <- AllTargets
    Added <- NoTargets
    TracksPorts = FALSE
    MayBlock = FALSE
    NSockets = 2
    MaxFds = 2
    TimeoutOf <- OneTimeout
    WatchTimeout = 0
    EnsureN = 0
    MaxEvents = 2
    SyncErrors = FALSE
    DirtyMayEnd = FALSE
    MaxAge = 1
    MaxBudget = 2
    UsesReconnect = FALSE
    NoTarget = NoTarget
    NoSM = NoSM
    NoHost = NoHost
    Garbage = Garbage
SYMMETRY Symmetry
INVARIANT AllReportedAtEnd
