SPECIFICATION Spec
CONSTANTS
    h1 = h1
    h2 = h2
    All <- AllTargets
    TracksPorts = TRUE
    Cap = 2
    MaxStarts = 4
    NoHost = NoHost
    NoFile = NoFile
    Truncated = Truncated
SYMMETRY Symmetry
INVARIANT TypeOK
INVARIANT FlagsSound
INVARIANT DoneHostsRest
INVARIANT OnlyFirstHostCut
INVARIANT LossesWereInFlight
