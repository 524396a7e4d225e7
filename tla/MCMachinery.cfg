SPECIFICATION MachinerySpec
CONSTANTS
    CacheSize = 4
    Key = {k1, k2, k3, k4, k5, k6}
    NoKey = NoKey
    Shot = {1, 2, 3}
    Delays = {1, 2, 3}
    MaxTyped = 3
INVARIANTS
    TypeOK
    LinksInverse
    HashTellsContent
PROPERTIES
    ImplementsLru
    OthersNeverLost
    EverythingEnds
    EveryOneshotRuns
CHECK_DEADLOCK FALSE
