SPECIFICATION Spec
CONSTANTS
    h1 = h1
    h2 = h2
    h3 = h3
    Hosts = {h1, h2}
    Ports = {1, 2}
    Base <- AllTargets
    Added <- NoTargets
    TracksPorts = TRUE
    MayBlock = FALSE
    NSockets = 2
    MaxFds = 3
    TimeoutOf <- LongTimeout
    WatchTimeout = 1
    EnsureN = 0
    MaxEvents = 2
    SyncErrors = FALSE
    DirtyMayEnd = FALSE
    MaxAge = 2
    MaxBudget = 2
    UsesReconnect = FALSE
    NoTarget = NoTarget
    NoSM = NoSM
    NoHost = NoHost
    Garbage = Garbage
SYMMETRY Symmetry
INVARIANT TypeOK
INVARIANT MapsAgree
INVARIANT Accounting
INVARIANT Conservation
INVARIANT NeverAborted
INVARIANT StepsDoneSound
INVARIANT HostsReleased
PROPERTY ScanImplemented
