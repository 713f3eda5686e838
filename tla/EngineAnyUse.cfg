SPECIFICATION Spec
CONSTANTS
    h1 = h1
    h2 = h2
    h3 = h3
    Hosts = {h1, h2, h3}
    Ports = {1}
    Base <- AllTargets
    Added <- NoTargets
    TracksPorts = TRUE
    MayBlock = FALSE
    NSockets = 3
    MaxFds = 2
    TimeoutOf <- OneTimeout
    WatchTimeout = 0
    EnsureN = 0
    MaxEvents = 2
    SyncErrors = TRUE
    DirtyMayEnd = TRUE
    MaxAge = 1
    MaxBudget = 3
    UsesReconnect = TRUE
    NoTarget = NoTarget
    NoSM = NoSM
    NoHost = NoHost
    Garbage = Garbage
SYMMETRY Symmetry
INVARIANT SlotsBacked
INVARIANT LookupsFound
