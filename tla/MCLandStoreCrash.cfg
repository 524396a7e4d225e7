SPECIFICATION Spec
CONSTANTS
    ChunkSize = 2
    Dims <- MCDims
    Rects <- MCTinyRects
    Data = {plain}
    Probes <- MCTinyProbes
    CacheSize = 1
    Garbage <- MCGarbage
    Wreckage <- MCWreckage
    MaxLands = 5
    MaxCrashes = 1
INVARIANTS
    CacheCoherent
    RefcountExact
    ListsFit
    NoIdentifierAhead
PROPERTIES
    LandsStayPut
