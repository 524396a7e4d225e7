SPECIFICATION Spec
CONSTANTS
    ChunkSize = 16
    Dims <- MCDims
    Rects <- MCRects
    Data = {plain, open}
    Probes <- MCProbes
    CacheSize = 2
    Garbage <- MCGarbage
    Wreckage <- MCWreckage
    MaxLands = 3
    MaxCrashes = 0
INVARIANTS
    TypeOK
    HeldPointerAlive
    LandsDisjoint
    LookupRight
PROPERTIES
    HandlersEnd
    ImplementsMap
