SPECIFICATION Spec
CONSTANTS
    ChunkSize = 16
    Dims <- MCDims
    Player = {ann, bob}
    Operators = {bob}
    Points <- MCPoints
    Origin <- MCOrigin
    Perms <- MCPerms
    IntHalf = 64
    InitMoney = 9
    BuyPrice = 2
    SellPrice = 2
    MaxSide = 4
    MaxArea = 9
    MaxPrice = 16
    Buyers = {ann}
    MaxLands = 2
    MaxOwners = 2
    MaxCrashes = 1
INVARIANTS
    TypeOK
    NoFreeGround
    NoDebt
PROPERTIES
    FirstOwnerDecides
    KeepsToTheMap
