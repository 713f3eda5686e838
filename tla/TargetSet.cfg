SPECIFICATION FairSpec
CONSTANTS
    MaxTarget = 4
    Repeatable = TRUE
INVARIANT TypeOK
INVARIANT IteratorValid
INVARIANT SteadyReturned
PROPERTY RoundRobin
